---------------------------- MODULE AuditChannel ----------------------------
(***************************************************************************)
(* What the way of an audit event promises from end to end, without rows,  *)
(* batches, messages or offsets: an event that was emitted is delivered to *)
(* the ledger at most once, at its end, and sooner or later it is          *)
(* delivered or refused.  AuditPipeline implements it.                     *)
(***************************************************************************)
EXTENDS Naturals, Sequences, Functions

CONSTANT Events

VARIABLES
    emitted,        \* the events of committed business transactions
    ledger,         \* the events delivered, oldest first
    refused         \* the events whose handling returned an error

channelVars == <<emitted, ledger, refused>>

Init ==
    /\ emitted = {}
    /\ ledger = << >>
    /\ refused = {}

Emit(e) ==
    /\ emitted' = emitted \union {e}
    /\ UNCHANGED <<ledger, refused>>

Deliver(e) ==
    /\ e \in emitted \ Range(ledger)
    /\ ledger' = Append(ledger, e)

\* An event may be refused and delivered, in either order or at once.
Refuse(e) ==
    /\ e \in emitted
    /\ refused' = refused \union {e}

Handle(e) ==
    /\ \/ Deliver(e) /\ (Refuse(e) \/ UNCHANGED refused)
       \/ Refuse(e) /\ UNCHANGED ledger
    /\ UNCHANGED emitted

Next == \E e \in Events : Emit(e) \/ Handle(e)

Settled(e) == e \in refused \union Range(ledger)

SafetySpec == Init /\ [][Next]_channelVars

\* No event waits for ever.
Spec ==
    /\ SafetySpec
    /\ \A e \in Events : WF_channelVars(~Settled(e) /\ Handle(e))

=============================================================================
