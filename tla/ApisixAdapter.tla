--------------------------- MODULE ApisixAdapter ----------------------------
(***************************************************************************)
(* POST /ingest of services/apisix-adapter (ingestHandler): a batch of the *)
(* gateway's access log is staged in audit_outbox entry by entry, each in  *)
(* a transaction of its own.  APISIX's http-logger, which is external,     *)
(* sends a batch until it is answered 202 or its retries are used up.      *)
(*                                                                         *)
(* The pipeline and the chain identify an event by its UUID alone          *)
(* (AuditPipeline, LedgerOnceFromOutbox), so a row of the outbox with a    *)
(* new UUID is an entry of the chain.                                      *)
(***************************************************************************)
EXTENDS Naturals, Sequences, SequencesExt

CONSTANTS
    Requests,       \* requests the gateway served
    Noise,          \* those shouldSkip filters out
    MaxRetryCount,  \* http-logger's max_retry_count (3 in apisix.yaml)
    MaxFaults       \* bound on failed transactions, timeouts and restarts

VARIABLES
    flushed,        \* requests http-logger has put into a batch
    batch,          \* the batch it is sending, or << >>
    retries,        \* how often it was sent again
    next,           \* the entry the handler is at; 0 when no handler runs
    outbox,         \* the committed rows of audit_outbox
    faults

handlerVars == <<batch, retries, next>>
vars == <<flushed, handlerVars, outbox, faults>>

-----------------------------------------------------------------------------
Init ==
    /\ flushed = {}
    /\ batch = << >>
    /\ retries = 0
    /\ next = 0
    /\ outbox = << >>
    /\ faults = 0

Fault ==
    /\ faults < MaxFaults
    /\ faults' = faults + 1

\* http-logger takes the buffered entries as its next batch.
Flush(entries) ==
    /\ batch = << >>
    /\ entries # {}
    /\ entries \intersect flushed = {}
    /\ batch' = SetToSeq(entries)
    /\ flushed' = flushed \union entries
    /\ UNCHANGED <<retries, next, outbox, faults>>

\* The batch is sent, for the first time or again: always whole.
Post ==
    /\ batch # << >>
    /\ next = 0
    /\ next' = 1
    /\ UNCHANGED <<flushed, batch, retries, outbox, faults>>

\* The handler is at an entry, which is noise or not.
AtEntry(noise) ==
    /\ next \in DOMAIN batch
    /\ (batch[next] \in Noise) = noise

\* emit commits: Emit gave the row a fresh UUID.
Stage == outbox' = Append(outbox, [event_id |-> Len(outbox) + 1,
                                   entry |-> batch[next]])

Skip ==
    /\ AtEntry(TRUE)
    /\ next' = next + 1
    /\ UNCHANGED <<flushed, batch, retries, outbox, faults>>

Emit ==
    /\ AtEntry(FALSE)
    /\ Stage
    /\ next' = next + 1
    /\ UNCHANGED <<flushed, batch, retries, faults>>

\* http-logger got no 202: the batch waits to be sent again, or is dropped.
NotAccepted ==
    /\ next' = 0
    /\ IF retries < MaxRetryCount
       THEN retries' = retries + 1 /\ UNCHANGED batch
       ELSE retries' = 0 /\ batch' = << >>
    /\ UNCHANGED flushed

\* emit fails, perhaps after its commit took effect: 500 for the whole batch.
EmitFails ==
    /\ AtEntry(FALSE)
    /\ Fault
    /\ Stage \/ UNCHANGED outbox
    /\ NotAccepted

\* The answer is late, or the adapter restarts: the handler's context is done.
GivenUp ==
    /\ next # 0
    /\ Fault
    /\ NotAccepted
    /\ UNCHANGED outbox

\* Every entry was staged or skipped: 202.
Accept ==
    /\ next = Len(batch) + 1
    /\ next' = 0
    /\ batch' = << >>
    /\ retries' = 0
    /\ UNCHANGED <<flushed, outbox, faults>>

Next ==
    \/ \E entries \in SUBSET Requests : Flush(entries)
    \/ Post
    \/ Skip \/ Emit \/ EmitFails
    \/ GivenUp \/ Accept

Spec == Init /\ [][Next]_vars

-----------------------------------------------------------------------------
(* Properties.                                                             *)

\* "The consumer dedupes by event UUID so re-sending already-emitted events is
\* harmless" (server.go): the rows that a request left in the outbox carry one
\* UUID, so that the chain takes it once.
ResendIsHarmless ==
    \A i, j \in DOMAIN outbox :
        outbox[i].entry = outbox[j].entry =>
            outbox[i].event_id = outbox[j].event_id

=============================================================================
