-------------------------- MODULE AppendOnlyLedger --------------------------
(***************************************************************************)
(* What the audit chain promises its callers, without locks, transactions  *)
(* or row ids: a log of events that only ever grows at its end, holds each *)
(* event at most once, and holds every event whose append was acknowledged *)
(* to the caller.  AuditChain implements it.                               *)
(***************************************************************************)
EXTENDS Naturals, Sequences, Functions

CONSTANT Events     \* the events that may be appended, by entry_uuid

VARIABLES
    ledger,         \* the log, oldest event first
    acked           \* the events some caller was told are in the log

ledgerVars == <<ledger, acked>>

Init ==
    /\ ledger = << >>
    /\ acked = {}

\* An event not yet in the log goes to its end; the caller may never learn.
Extend(e) ==
    /\ e \notin Range(ledger)
    /\ ledger' = Append(ledger, e)

\* The caller hears of an event only once it is in the log.
Acknowledge(e) ==
    /\ e \in Range(ledger')
    /\ acked' = acked \union {e}

Next ==
    \E e \in Events :
        \/ Extend(e) /\ Acknowledge(e)
        \/ Extend(e) /\ UNCHANGED acked
        \/ UNCHANGED ledger /\ Acknowledge(e)

Spec == Init /\ [][Next]_ledgerVars

=============================================================================
