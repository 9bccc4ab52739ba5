----------------------------- MODULE AuditChain -----------------------------
(***************************************************************************)
(* The hash chain of services/audit: concurrent calls of Store.AppendEntry *)
(* (services/audit/internal/store/store.go), one per appender, against one *)
(* Postgres database.  Each SQL statement of the transaction is one step,  *)
(* so that the calls interleave as READ COMMITTED lets them.               *)
(*                                                                         *)
(* SHA-256 is taken to be collision-free: a digest is identified with the  *)
(* sequence of events it commits to, oldest first, and Compute appends to  *)
(* it.  The fields of a row other than its ids and hashes are abstracted;  *)
(* the one difference between events that matters is whether the envelope  *)
(* carries a time (see UniqueEntry).                                       *)
(***************************************************************************)
EXTENDS Naturals, Sequences, Functions

CONSTANTS
    Appenders,      \* callers of AppendEntry: one consumer loop per replica
    Events,         \* events, by entry_uuid
    Untimed,        \* the events whose envelope carries no time
    None,           \* no event, no lock holder
    MaxFaults       \* bound on failed statements, crashes and lost replies

ASSUME UntimedAssumption == Untimed \subseteq Events
ASSUME NoneAssumption == None \notin Events \union Appenders
ASSUME MaxFaultsAssumption == MaxFaults \in Nat

VARIABLES
    entries,        \* the committed rows of audit_entries, in commit order
    seq,            \* the last value drawn from audit_entries_entry_id_seq
    lock,           \* the holder of the chain's advisory lock
    pc,             \* pc[a]: the statement AppendEntry executed last
    ev,             \* ev[a]: the event appender a is appending
    prev,           \* prev[a]: the local variable prev
    newId,          \* newId[a]: the entry_id of a's uncommitted row
    acked,          \* events for which some call returned without an error
    faults          \* faults so far, at most MaxFaults

txVars == <<pc, ev, prev, newId>>
vars == <<entries, seq, lock, pc, ev, prev, newId, acked, faults>>

-----------------------------------------------------------------------------
(* Digests and rows.                                                       *)

Digest == Seq(Events)
GenesisHash == << >>
Compute(e, previous) == Append(previous, e)

EntryId == Nat \ {0}    \* BIGSERIAL starts at 1
Row == [entry_id : EntryId, entry_uuid : Events,
        previous_hash : Digest, entry_hash : Digest]

Rows == Range(entries)
Uuids == {r.entry_uuid : r \in Rows}

\* The hash of the row with the largest id of a set of rows:
\* SELECT entry_hash ... ORDER BY entry_id DESC LIMIT 1, GenesisHash if none.
LastHash(S) ==
    IF S = {} THEN GenesisHash
    ELSE (CHOOSE r \in S : \A s \in S : s.entry_id <= r.entry_id).entry_hash

\* UNIQUE (entry_uuid, occurred_at): an event that carries its time cannot be
\* inserted twice; one that does not gets a fresh occurred_at at each attempt,
\* which the constraint cannot tell from another event.
UniqueEntry(e) == e \in Untimed \/ e \notin Uuids

CurrVal == seq
NextVal == seq + 1

-----------------------------------------------------------------------------
Init ==
    /\ entries = << >>
    /\ seq = 0
    /\ lock = None
    /\ pc = [a \in Appenders |-> "idle"]
    /\ ev = [a \in Appenders |-> None]
    /\ prev = [a \in Appenders |-> GenesisHash]
    /\ newId = [a \in Appenders |-> 0]
    /\ acked = {}
    /\ faults = 0

\* AppendEntry returns: its transaction is over, its lock is released.
Return(a) ==
    /\ pc' = [pc EXCEPT ![a] = "idle"]
    /\ ev' = [ev EXCEPT ![a] = None]
    /\ prev' = [prev EXCEPT ![a] = GenesisHash]
    /\ newId' = [newId EXCEPT ![a] = 0]

Unlock(a) == lock' = IF lock = a THEN None ELSE lock

Goto(a, from, to) ==
    /\ pc[a] = from
    /\ pc' = [pc EXCEPT ![a] = to]

\* A consumer hands event e to AppendEntry, which begins a transaction.  Kafka
\* delivers at least once, so e may be in the chain, or in flight, already.
BeginTx(a, e) ==
    /\ Goto(a, "idle", "begun")
    /\ ev' = [ev EXCEPT ![a] = e]
    /\ UNCHANGED <<entries, seq, lock, prev, newId, acked, faults>>

\* pg_advisory_xact_lock(chainAppendLockID), and without the lock.
AcquireLock_NoWait(a) ==
    /\ Goto(a, "begun", "locked")
    /\ lock' = a
    /\ UNCHANGED <<entries, seq, ev, prev, newId, acked, faults>>

AcquireLock(a) ==
    /\ lock = None
    /\ Goto(a, "begun", "locked")
    /\ lock' = a
    /\ UNCHANGED <<entries, seq, ev, prev, newId, acked, faults>>

\* The dedupe lookup finds the event: commit, return (true, nil).
DedupeHit_KeepLock(a) ==
    /\ pc[a] = "locked"
    /\ ev[a] \in Uuids
    /\ Return(a)
    /\ acked' = acked \union {ev[a]}
    /\ UNCHANGED <<entries, seq, lock, faults>>

DedupeHit(a) ==
    /\ pc[a] = "locked"
    /\ ev[a] \in Uuids
    /\ Return(a)
    /\ Unlock(a)
    /\ acked' = acked \union {ev[a]}
    /\ UNCHANGED <<entries, seq, faults>>

\* The dedupe lookup finds nothing, and without the lookup.
DedupeMiss_Skip(a) ==
    /\ Goto(a, "locked", "fresh")
    /\ UNCHANGED <<entries, seq, lock, ev, prev, newId, acked, faults>>

DedupeMiss(a) ==
    /\ ev[a] \notin Uuids
    /\ Goto(a, "locked", "fresh")
    /\ UNCHANGED <<entries, seq, lock, ev, prev, newId, acked, faults>>

\* Read the hash of the latest committed row.
ReadPrev(a) ==
    /\ Goto(a, "fresh", "chained")
    /\ prev' = [prev EXCEPT ![a] = LastHash(Rows)]
    /\ UNCHANGED <<entries, seq, lock, ev, newId, acked, faults>>

\* INSERT draws an id that no rollback gives back.  A violated constraint is
\* one of the statement errors of Fail.
Insert(a) ==
    /\ Goto(a, "chained", "inserted")
    /\ UniqueEntry(ev[a])
    /\ seq' = NextVal
    /\ newId' = [newId EXCEPT ![a] = NextVal]
    /\ UNCHANGED <<entries, lock, ev, prev, acked, faults>>

NewRow(a) ==
    [entry_id |-> newId[a], entry_uuid |-> ev[a],
     previous_hash |-> prev[a], entry_hash |-> Compute(ev[a], prev[a])]

\* The server commits: the row becomes visible and the lock is released.
CommitRow(a) ==
    /\ pc[a] = "inserted"
    /\ entries' = Append(entries, NewRow(a))
    /\ Return(a)
    /\ Unlock(a)
    /\ UNCHANGED seq

Commit(a) ==
    /\ CommitRow(a)
    /\ acked' = acked \union {ev[a]}
    /\ UNCHANGED faults

\* The server commits but its reply is lost (or the process dies before it
\* reads it): the caller sees an error for a row that is in the chain.
CommitReplyLost(a) ==
    /\ faults < MaxFaults
    /\ CommitRow(a)
    /\ faults' = faults + 1
    /\ UNCHANGED acked

\* A statement fails, the commit is refused or the process dies: the deferred
\* Rollback, or the server, ends the transaction.  The drawn id is lost.
Fail(a) ==
    /\ faults < MaxFaults
    /\ pc[a] # "idle"
    /\ Return(a)
    /\ Unlock(a)
    /\ faults' = faults + 1
    /\ UNCHANGED <<entries, seq, acked>>

Step(a) ==
    DedupeHit(a) \/ DedupeMiss(a) \/ ReadPrev(a) \/ Insert(a) \/ Commit(a)

Next ==
    \E a \in Appenders :
        \/ \E e \in Events : BeginTx(a, e)
        \/ AcquireLock(a)
        \/ Step(a)
        \/ CommitReplyLost(a)
        \/ Fail(a)

\* The database answers every statement it received, and so the transaction that
\* holds the lock goes on.  Nothing obliges a consumer to call, a waiter to be
\* served before the others, or a fault to happen.
Fairness == WF_vars(\E a \in Appenders : Step(a))

Spec == Init /\ [][Next]_vars

-----------------------------------------------------------------------------
(* Properties.                                                             *)

Statements == {"idle", "begun", "locked", "fresh", "chained", "inserted"}

\* The type invariant of AppendEntry's locals and of the database; ids start at 1.
TypeOK ==
    /\ entries \in Seq(Row)
    /\ seq \in Nat
    /\ lock \in Appenders \union {None}
    /\ pc \in [Appenders -> Statements]
    /\ ev \in [Appenders -> Events \union {None}]
    /\ prev \in [Appenders -> Digest]
    /\ newId \in [Appenders -> Nat]
    /\ acked \in SUBSET Events
    /\ faults \in 0 .. MaxFaults

\* What VerifyRange walks, in id order: every row's previous_hash is the hash of
\* the row with the next smaller id (the genesis hash for the first), and its
\* entry_hash recomputes, whatever ids rolled-back appends have burnt.
ChainLinked ==
    \A r \in Rows :
        /\ r.previous_hash = LastHash({s \in Rows : s.entry_id < r.entry_id})
        /\ r.entry_hash = Compute(r.entry_uuid, r.previous_hash)

\* A row that becomes visible has the largest id of the table: rows are
\* committed in id order.  The anchor job (a range once anchored never gains a
\* row) and the cursors of GET /entries (a page once read never gains a row)
\* depend on it; a sequence alone does not give it.
CommitInIdOrder ==
    [][\A r \in Range(entries') \ Rows : \A s \in Rows :
            s.entry_id < r.entry_id]_vars

\* AppendEntry implements the append-only ledger: each event at most once, only
\* at the end, and in the ledger by the time a call returns without an error.
Ledger == INSTANCE AppendOnlyLedger WITH
    ledger <- [i \in DOMAIN entries |-> entries[i].entry_uuid]

RefinesLedger == Ledger!Spec

\* Every chain writer waits on one advisory lock: whichever path AppendEntry
\* takes, whoever holds it lets go of it.
LockReleased == lock # None ~> lock = None

=============================================================================
