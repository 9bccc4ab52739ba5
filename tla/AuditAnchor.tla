---------------------------- MODULE AuditAnchor -----------------------------
(***************************************************************************)
(* The Merkle-anchor jobs of services/audit (internal/anchor/anchor.go)    *)
(* and the proofs GET /anchors/{id}/proof builds from their anchors,       *)
(* beside the appends of AuditChain.  Every replica of the service runs a  *)
(* job (main.go) on the same table, and nothing keeps their ticks apart.   *)
(* A tick reads the chain in three queries and inserts one row; appends    *)
(* commit, and other jobs insert, between any two of them.                 *)
(*                                                                         *)
(* A Merkle root is identified with the leaves it commits to (AuditMerkle  *)
(* shows that it does for the distinct hashes of a chain).                 *)
(***************************************************************************)
EXTENDS AuditReads

CONSTANTS
    Jobs,               \* the anchor jobs, one per replica
    MinNewEntries       \* ids a tick waits for; New makes it at least 1

ASSUME MinNewEntriesAssumption == MinNewEntries \in Nat \ {0}

VARIABLES
    anchors,        \* the rows of audit_anchors, in anchor_id order
    job,            \* job[j]: the query tickOnce makes next, and its locals
    raced           \* history: two ticks have overlapped (see JobRange)

anchorVars == <<anchors, job, raced>>
allVars == <<vars, anchorVars>>

-----------------------------------------------------------------------------
EntryIds == {r.entry_id : r \in Rows}

MaxEntryID_Seq == seq
MaxEntryID ==
    IF Rows = {} THEN 0
    ELSE CHOOSE n \in EntryIds : \A m \in EntryIds : m <= n

EntryHashRange(f, t) ==
    LET rows == Between(f, t)
    IN  [i \in DOMAIN rows |-> rows[i].entry_hash]

\* The rank of an id among the rows of a range.
EntryIDPosition(f, id) == Len(Between(f, id - 1))

\* computeRange's from, after the latest anchor.
NextFrom_Overlap == IF anchors = << >> THEN 1 ELSE Last(anchors).range_to_id
NextFrom == IF anchors = << >> THEN 1 ELSE Last(anchors).range_to_id + 1

\* Between two ticks: the next one starts from scratch.
Waiting == [pc |-> "max", maxId |-> 0, from |-> 0, to |-> 0, leaves |-> << >>]

AnchorInit ==
    /\ Init
    /\ anchors = << >>
    /\ job = [j \in Jobs |-> Waiting]
    /\ raced = FALSE

At(j, query) == job[j].pc = query

\* MaxEntryID.  An empty chain gives the empty range 1 .. 0: no new entries.
JobMaxId(j) ==
    /\ At(j, "max")
    /\ MaxEntryID > 0
    /\ job' = [job EXCEPT ![j].pc = "range", ![j].maxId = MaxEntryID]
    /\ UNCHANGED <<vars, anchors, raced>>

\* The tick goes on with the range from NextFrom to the largest id it saw.  The
\* range may be another job's too, if that job has read the latest anchor and
\* has not inserted its own yet.
TakeRange(j) ==
    /\ job' = [job EXCEPT ![j].pc = "leaves",
                          ![j].from = NextFrom, ![j].to = job[j].maxId]
    /\ raced' = (raced \/ \E k \in Jobs \ {j} : job[k].pc \in {"leaves", "insert"})

EndTick(j) == job' = [job EXCEPT ![j] = Waiting]

\* LatestAnchor gives the range; with too few new ids the tick is over.
JobRange_StrictlyMore(j) ==
    /\ At(j, "range")
    /\ IF NextFrom <= job[j].maxId /\ job[j].maxId - NextFrom >= MinNewEntries
       THEN TakeRange(j)
       ELSE EndTick(j) /\ UNCHANGED raced
    /\ UNCHANGED <<vars, anchors>>

\* And without a look at what is there to anchor.
JobRange_Always(j) ==
    /\ At(j, "range")
    /\ TakeRange(j)
    /\ UNCHANGED <<vars, anchors>>

JobRange(j) ==
    /\ At(j, "range")
    /\ IF NextFrom <= job[j].maxId /\ job[j].maxId - NextFrom + 1 >= MinNewEntries
       THEN TakeRange(j)
       ELSE EndTick(j) /\ UNCHANGED raced
    /\ UNCHANGED <<vars, anchors>>

\* EntryHashRange and the root; ComputeMerkleRoot refuses an empty range.
JobLeaves(j) ==
    /\ At(j, "leaves")
    /\ LET leaves == EntryHashRange(job[j].from, job[j].to)
       IN  IF leaves # << >>
           THEN job' = [job EXCEPT ![j].pc = "insert", ![j].leaves = leaves]
           ELSE EndTick(j)
    /\ UNCHANGED <<vars, anchors, raced>>

\* InsertAnchor: no constraint looks at the ranges that are there.  The reply may
\* be lost: the tick ends all the same.
JobInsert(j) ==
    /\ At(j, "insert")
    /\ anchors' = Append(anchors, [range_from_id |-> job[j].from,
                                   range_to_id |-> job[j].to,
                                   merkle_root |-> job[j].leaves])
    /\ EndTick(j)
    /\ UNCHANGED <<vars, raced>>

\* A query of the tick fails, or the process restarts.
JobFail(j) ==
    /\ faults < MaxFaults
    /\ ~At(j, "max")
    /\ faults' = faults + 1
    /\ EndTick(j)
    /\ UNCHANGED <<entries, seq, lock, txVars, acked, anchors, raced>>

Job(j) == JobMaxId(j) \/ JobRange(j) \/ JobLeaves(j) \/ JobInsert(j)

AnchorNext ==
    \/ Next /\ UNCHANGED anchorVars
    \/ \E j \in Jobs : Job(j) \/ JobFail(j)

\* The tickers fire every AUDIT_ANCHOR_INTERVAL and the database answers.
AnchorFairness == Fairness /\ \A j \in Jobs : WF_allVars(Job(j))

AnchorSpec == AnchorInit /\ [][AnchorNext]_allVars /\ AnchorFairness

\* anchorProofHandler for an id of the anchor's range: the leaf it returns, and
\* the leaves its inclusion proof is built from.
InclusionProof(a, id) ==
    LET current == EntryHashRange(a.range_from_id, a.range_to_id)
        pos == EntryIDPosition(a.range_from_id, id)
    IN  [leaf_hash |-> IF pos < Len(current) THEN current[pos + 1]
                       ELSE "leaf index out of range",
         tree |-> current]

-----------------------------------------------------------------------------
(* Properties.                                                             *)

\* The type invariant of the chain and of the jobs: a range being anchored is
\* never empty, even between the queries of two ticks.
AnchorTypeOK ==
    /\ TypeOK
    /\ anchors \in Seq([range_from_id : EntryId, range_to_id : EntryId,
                         merkle_root : Seq(Digest)])
    /\ \A j \in Jobs :
           /\ job[j].pc \in {"max", "range", "leaves", "insert"}
           /\ job[j].pc \in {"leaves", "insert"} =>
                1 <= job[j].from /\ job[j].from <= job[j].to
           /\ job[j].to \in {0, job[j].maxId}
           /\ (job[j].leaves = << >>) <=> (job[j].pc # "insert")
    /\ raced \in BOOLEAN

\* The last id of the k-th range of a log; nothing is anchored before the first.
RangeEnd(log, k) == IF k = 0 THEN 0 ELSE log[k].range_to_id

\* Whatever failed, and whichever jobs raced, the anchored ids have no gap: every
\* range starts at 1 or right behind an earlier one.  And they tile the ids, so
\* that none lies in two ranges, as long as no two ticks overlapped.
AnchorsTile ==
    \A i \in DOMAIN anchors :
        LET before == anchors[i].range_from_id - 1
        IN  /\ before < anchors[i].range_to_id
            /\ \E k \in 0 .. i - 1 : before = RangeEnd(anchors, k)
            /\ ~raced => before = RangeEnd(anchors, i - 1)

\* Every inclusion proof for a row in an anchored range verifies against the
\* published root, whenever it is asked for: the leaves read back are those the
\* root was computed over, and the position found for the row is its leaf's.  A
\* row committed late with a small id would break every proof of its range.
ProofsVerify ==
    \A i \in DOMAIN anchors :
        LET a == anchors[i]
        IN  \A r \in Range(Between(a.range_from_id, a.range_to_id)) :
                InclusionProof(a, r.entry_id)
                    = [leaf_hash |-> r.entry_hash, tree |-> a.merkle_root]

\* anchorProofHandler "lets an external party confirm the entry was in the chain"
\* (server.go): it answers with a proof only for an id some row has.
ProofsOnlyOfRows ==
    \A i \in DOMAIN anchors :
        LET a == anchors[i]
        IN  \A id \in a.range_from_id .. a.range_to_id :
                InclusionProof(a, id).leaf_hash \in Digest => id \in EntryIds

\* Every row that is committed is anchored eventually, by whichever job.
EveryRowAnchored ==
    \A n \in 1 .. Cardinality(Events) + MaxFaults :
        n \in EntryIds ~> \E a \in Range(anchors) :
            a.range_from_id <= n /\ n <= a.range_to_id

=============================================================================
