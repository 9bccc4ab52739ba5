--------------------------- MODULE AuditPipeline ----------------------------
(***************************************************************************)
(* The way of an audit event from a business transaction to the chain:     *)
(* audit.Emit writes an outbox row in the caller's transaction, the        *)
(* workers of the service's replicas publish unsent rows to Kafka and mark *)
(* them sent (pkg/platform/audit/audit.go), the consumer of services/audit *)
(* fetches, appends and commits offsets (internal/consumer/consumer.go).   *)
(*                                                                         *)
(* AppendEntry is one atomic step on the ledger: AuditChain refines it.    *)
(* Kafka keeps what it acknowledged, in the order of each partition.       *)
(***************************************************************************)
EXTENDS Naturals, Sequences, SequencesExt, IdOrder

CONSTANTS
    Workers,        \* one outbox worker per replica, on the same table
    Partitions,
    PartitionOf,    \* the hash balancer: the partition of each event's key
    Poison,         \* events Postgres refuses (a correlation id that is no UUID)
    None,           \* no message
    BatchLimit,     \* rows per drain (100 in drainOnce)
    MaxFaults       \* bound on failed calls and restarts

Events == DOMAIN PartitionOf

ASSUME PartitionAssumption == PartitionOf \in [Events -> Partitions]
ASSUME PoisonAssumption == Poison \subseteq Events
ASSUME NoneAssumption == None \notin [partition : Partitions, offset : Nat]
ASSUME BoundsAssumption == BatchLimit \in Nat \ {0} /\ MaxFaults \in Nat

VARIABLES
    outbox,         \* the committed rows of audit_outbox, by id
    wpc,            \* wpc[w]: the call drainOnce makes next
    batch,          \* batch[w]: ids of the rows drainOnce selected
    log,            \* log[p]: the messages of partition p; offsets start at 1
    committed,      \* committed[p]: the group's committed offset
    position,       \* position[p]: the offset FetchMessage returned last
    cpc,            \* what the consumer does next
    msg,            \* the message in hand: partition and offset
    ledger,         \* the chain, by entry_uuid
    failed,         \* events whose handling returned an error (history)
    faults

workerVars == <<wpc, batch>>
consumerVars == <<committed, position, cpc, msg, ledger, failed>>
vars == <<outbox, workerVars, log, consumerVars, faults>>

-----------------------------------------------------------------------------
Published == UNION {ToSet(log[p]) : p \in Partitions}
Emitted == {outbox[i].event_id : i \in DOMAIN outbox}
Unsent == {i \in DOMAIN outbox : ~outbox[i].sent}

Init ==
    /\ outbox = << >>
    /\ wpc = [w \in Workers |-> "select"]
    /\ batch = [w \in Workers |-> {}]
    /\ log = [p \in Partitions |-> << >>]
    /\ committed = [p \in Partitions |-> 0]
    /\ position = [p \in Partitions |-> 0]
    /\ cpc = "fetch"
    /\ msg = None
    /\ ledger = << >>
    /\ failed = {}
    /\ faults = 0

Fault ==
    /\ faults < MaxFaults
    /\ faults' = faults + 1

\* A business transaction that emitted e commits.  One that rolls back leaves
\* no row, and Emit draws a fresh UUID at every call.
Emit(e) ==
    /\ e \notin Emitted
    /\ outbox' = Append(outbox, [event_id |-> e, sent |-> FALSE])
    /\ UNCHANGED <<workerVars, log, consumerVars, faults>>

-----------------------------------------------------------------------------
(* The worker: drainOnce.                                                  *)

EndDrain(w) ==
    /\ wpc' = [wpc EXCEPT ![w] = "select"]
    /\ batch' = [batch EXCEPT ![w] = {}]

\* SELECT the unsent rows with the smallest ids; nothing locks them.
SelectUnsent(w) ==
    /\ wpc[w] = "select"
    /\ Unsent # {}
    /\ wpc' = [wpc EXCEPT ![w] = "write"]
    /\ batch' = [batch EXCEPT ![w] = ToSet(FirstOf(Ascending(Unsent), BatchLimit))]
    /\ UNCHANGED <<outbox, log, consumerVars, faults>>

\* Kafka appends the events of some rows, in id order, to their partitions.
Messages(ids, p) ==
    LET rows == Ascending({i \in ids : PartitionOf[outbox[i].event_id] = p})
    IN  [n \in DOMAIN rows |-> outbox[rows[n]].event_id]

Publish(ids) == log' = [p \in Partitions |-> log[p] \o Messages(ids, p)]

WriteMessages(w) ==
    /\ wpc[w] = "write"
    /\ Publish(batch[w])
    /\ wpc' = [wpc EXCEPT ![w] = "mark"]
    /\ UNCHANGED <<outbox, batch, consumerVars, faults>>

\* The write fails, is given up, or the process dies in it: any part of the
\* batch may be in Kafka (a retry inside the Kafka client is a failed drain and
\* another one).  The drain is over, or goes on as if all were well.
WriteFails_GoOn(w) ==
    /\ wpc[w] = "write"
    /\ Fault
    /\ \E ok \in SUBSET batch[w] : Publish(ok)
    /\ wpc' = [wpc EXCEPT ![w] = "mark"]
    /\ UNCHANGED <<outbox, batch, consumerVars>>

WriteFails(w) ==
    /\ wpc[w] = "write"
    /\ Fault
    /\ \E ok \in SUBSET batch[w] : Publish(ok)
    /\ EndDrain(w)
    /\ UNCHANGED <<outbox, consumerVars>>

\* UPDATE ... SET sent_at = NOW() for the ids of the batch.
MarkSent(w) ==
    /\ wpc[w] = "mark"
    /\ outbox' = [i \in DOMAIN outbox |->
                     [outbox[i] EXCEPT !.sent = @ \/ i \in batch[w]]]
    /\ EndDrain(w)
    /\ UNCHANGED <<log, consumerVars, faults>>

\* The update fails, or the process dies before it.
MarkFails(w) ==
    /\ wpc[w] = "mark"
    /\ Fault
    /\ EndDrain(w)
    /\ UNCHANGED <<outbox, log, consumerVars>>

Drain(w) == SelectUnsent(w) \/ WriteMessages(w) \/ MarkSent(w)

-----------------------------------------------------------------------------
(* The consumer: Run.                                                      *)

Event == log[msg.partition][msg.offset]

\* FetchMessage: the next message of some partition of this session, whether or
\* not the one before it was committed; and ReadMessage, which also commits it.
FetchMessage_AutoCommit(p) ==
    /\ cpc = "fetch"
    /\ position[p] < Len(log[p])
    /\ position' = [position EXCEPT ![p] = @ + 1]
    /\ committed' = [committed EXCEPT ![p] = position[p] + 1]
    /\ msg' = [partition |-> p, offset |-> position[p] + 1]
    /\ cpc' = "handle"
    /\ UNCHANGED <<outbox, workerVars, log, ledger, failed, faults>>

FetchMessage(p) ==
    /\ cpc = "fetch"
    /\ position[p] < Len(log[p])
    /\ position' = [position EXCEPT ![p] = @ + 1]
    /\ msg' = [partition |-> p, offset |-> position[p] + 1]
    /\ cpc' = "handle"
    /\ UNCHANGED <<outbox, workerVars, log, committed, ledger, failed, faults>>

\* AppendEntry: appends, or finds the event; and without the lookup.
AppendEntry_Blind(e) == ledger' = Append(ledger, e)

AppendEntry(e) ==
    ledger' = IF e \in ToSet(ledger) THEN ledger ELSE Append(ledger, e)

Handle ==
    /\ cpc = "handle"
    /\ Event \notin Poison
    /\ AppendEntry(Event)
    /\ cpc' = "commit"
    /\ UNCHANGED <<outbox, workerVars, log, committed, position, msg, failed,
                   faults>>

\* handle returns an error: the message is not committed and the loop goes on
\* with the next FetchMessage.
Skip ==
    /\ cpc = "handle"
    /\ cpc' = "fetch"
    /\ msg' = None
    /\ failed' = failed \union {Event}
    /\ UNCHANGED <<outbox, workerVars, log, committed, position>>

HandlePoison ==
    /\ Skip
    /\ Event \in Poison
    /\ UNCHANGED <<ledger, faults>>

\* A transient error; AppendEntry may have committed all the same.
HandleFails ==
    /\ Skip
    /\ Event \notin Poison
    /\ Fault
    /\ AppendEntry(Event) \/ UNCHANGED ledger

\* CommitMessages commits the offset of the message, and with it all below; and
\* the offset after it.
CommitMessages_Next ==
    /\ cpc = "commit"
    /\ committed' = [committed EXCEPT ![msg.partition] = msg.offset + 1]
    /\ cpc' = "fetch"
    /\ msg' = None
    /\ UNCHANGED <<outbox, workerVars, log, position, ledger, failed, faults>>

CommitMessages ==
    /\ cpc = "commit"
    /\ committed' = [committed EXCEPT ![msg.partition] = msg.offset]
    /\ cpc' = "fetch"
    /\ msg' = None
    /\ UNCHANGED <<outbox, workerVars, log, position, ledger, failed, faults>>

\* The commit fails: it is logged, and the loop goes on.
CommitFails ==
    /\ cpc = "commit"
    /\ Fault
    /\ cpc' = "fetch"
    /\ msg' = None
    /\ UNCHANGED <<outbox, workerVars, log, committed, position, ledger, failed>>

\* The process restarts, or the group rebalances: a new session reads on from
\* the committed offsets; and from the positions of the old one.
Restart_KeepPosition ==
    /\ Fault
    /\ cpc' = "fetch"
    /\ msg' = None
    /\ UNCHANGED <<outbox, workerVars, log, committed, position, ledger, failed>>

Restart ==
    /\ Fault
    /\ position' = committed
    /\ cpc' = "fetch"
    /\ msg' = None
    /\ UNCHANGED <<outbox, workerVars, log, committed, ledger, failed>>

Consume ==
    \/ \E p \in Partitions : FetchMessage(p)
    \/ Handle
    \/ HandlePoison
    \/ CommitMessages

Next ==
    \/ \E e \in Events : Emit(e)
    \/ \E w \in Workers : Drain(w) \/ WriteFails(w) \/ MarkFails(w)
    \/ Consume
    \/ HandleFails \/ CommitFails \/ Restart

\* Worker and consumer loops run for ever, and kafka-go serves every partition.
Fairness ==
    /\ \A w \in Workers : WF_vars(Drain(w))
    /\ WF_vars(Consume)
    /\ \A p \in Partitions : SF_vars(FetchMessage(p))

Spec == Init /\ [][Next]_vars /\ Fairness

-----------------------------------------------------------------------------
(* Properties.                                                             *)

\* The type invariant; offsets never overtake the session or the log.
TypeOK ==
    /\ outbox \in Seq([event_id : Events, sent : BOOLEAN])
    /\ wpc \in [Workers -> {"select", "write", "mark"}]
    /\ batch \in [Workers -> SUBSET DOMAIN outbox]
    /\ log \in [Partitions -> Seq(Events)]
    /\ cpc \in {"fetch", "handle", "commit"}
    /\ (msg = None) <=> (cpc = "fetch")
    /\ DOMAIN committed = Partitions /\ DOMAIN position = Partitions
    /\ \A p \in Partitions :
           /\ committed[p] \in 0 .. position[p]
           /\ position[p] \in 0 .. Len(log[p])
    /\ ledger \in Seq(Events)
    /\ failed \subseteq Published
    /\ faults \in 0 .. MaxFaults

\* A row is marked sent only when its event is in Kafka, whichever part of which
\* replica's batch was written: no outbox row is forgotten unpublished.
SentIsPublished ==
    \A i \in DOMAIN outbox : outbox[i].sent => outbox[i].event_id \in Published

\* However often an event is published and redelivered, whatever fails and restarts,
\* the pipeline is a channel: the ledger holds an event once, in a place it keeps,
\* and only if its business transaction committed, and every emitted event reaches
\* the ledger unless its handling returned an error.
Channel == INSTANCE AuditChannel WITH emitted <- Emitted, refused <- failed

RefinesChannel == Channel!Spec

\* Crashes, restarts, duplicates and lost commits lose nothing by themselves: an
\* offset is committed past an event that is not in the ledger only if handling
\* that event returned an error.
LostOnlyByError ==
    \A p \in Partitions : \A o \in 1 .. committed[p] :
        log[p][o] \in ToSet(ledger) \union failed

\* "The message is NOT committed - Kafka redelivers on next poll" (consumer.go): a
\* message whose handling failed is not behind the committed offset.
FailedIsNotCommitted ==
    \A p \in Partitions : \A o \in 1 .. committed[p] :
        log[p][o] \in ToSet(ledger)

=============================================================================
