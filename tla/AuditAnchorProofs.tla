------------------------- MODULE AuditAnchorProofs --------------------------
(***************************************************************************)
(* Theorems about the chain of AuditChain, the reads of AuditReads and the *)
(* anchor jobs of AuditAnchor, for any number of appenders, events, jobs   *)
(* and faults: the type invariants, the linkage of the chain, the order of *)
(* commits, that the chain implements the append-only ledger, what verify, *)
(* export and list see of it, that the anchored ranges have no gap and     *)
(* that every inclusion proof fits its published root.                     *)
(***************************************************************************)
EXTENDS AuditAnchor, AuditMerkle, AuditListTheorems

-----------------------------------------------------------------------------
(* The chain: the inductive invariant.                                     *)

Holding == {"locked", "fresh", "chained", "inserted"}

\* The advisory lock is held exactly by the transactions past its statement.
LockHeld == \A a \in Appenders : pc[a] \in Holding <=> lock = a

\* A transaction past the dedupe lookup appends an event not in the chain.
FreshEvent ==
    \A a \in Appenders : pc[a] \in {"fresh", "chained", "inserted"} =>
        /\ ev[a] \in Events
        /\ \A i \in DOMAIN entries : entries[i].entry_uuid # ev[a]

\* A call in progress has an event.
BusyHasEvent == \A a \in Appenders : pc[a] # "idle" => ev[a] \in Events

\* The hash of the last committed row.
TipHash ==
    IF entries = << >> THEN GenesisHash ELSE entries[Len(entries)].entry_hash

\* The hash a transaction read is still the tip when it commits.
PrevIsTip ==
    \A a \in Appenders : pc[a] \in {"chained", "inserted"} => prev[a] = TipHash

\* Ids ascend along the chain and stay below the sequence; the id of an
\* uncommitted row is above every committed one.
IdsAscend ==
    /\ \A i \in DOMAIN entries : entries[i].entry_id <= seq
    /\ \A i, j \in DOMAIN entries : i < j => entries[i].entry_id < entries[j].entry_id
    /\ \A a \in Appenders : pc[a] = "inserted" =>
        /\ newId[a] \in EntryId
        /\ newId[a] <= seq
        /\ \A i \in DOMAIN entries : entries[i].entry_id < newId[a]

\* Each row is linked to the row committed just before it.
LinkedInCommitOrder ==
    \A i \in DOMAIN entries :
        /\ entries[i].previous_hash =
             IF i = 1 THEN GenesisHash ELSE entries[i - 1].entry_hash
        /\ entries[i].entry_hash =
             Compute(entries[i].entry_uuid, entries[i].previous_hash)

\* An event whose append was acknowledged is in the chain.
AckedInChain ==
    \A e \in acked : \E i \in DOMAIN entries : entries[i].entry_uuid = e

IInv ==
    /\ TypeOK
    /\ LockHeld
    /\ FreshEvent
    /\ BusyHasEvent
    /\ PrevIsTip
    /\ IdsAscend
    /\ LinkedInCommitOrder
    /\ AckedInChain

-----------------------------------------------------------------------------
(* Operators and steps.                                                    *)

\* What appending a row does to the committed rows: the old ones stay where
\* they are and the new one is last.
LEMMA AppendRow ==
    ASSUME NEW S, NEW s \in Seq(S), NEW r \in S
    PROVE  /\ Append(s, r) \in Seq(S)
           /\ Len(Append(s, r)) = Len(s) + 1
           /\ DOMAIN Append(s, r) = DOMAIN s \union {Len(s) + 1}
           /\ DOMAIN s = 1 .. Len(s)
           /\ Len(s) \in Nat
           /\ \A i \in DOMAIN s : Append(s, r)[i] = s[i]
           /\ Append(s, r)[Len(s) + 1] = r
           /\ Append(s, r) # << >>
  BY AppendProperties, LenProperties

\* The rows of a sequence are its elements.
LEMMA RowsOfEntries ==
    /\ \A r : r \in Rows <=> \E i \in DOMAIN entries : r = entries[i]
    /\ \A e : e \in Uuids <=> \E i \in DOMAIN entries : e = entries[i].entry_uuid
  BY DEF Rows, Uuids, Range

\* The fields of the committed rows.
LEMMA RowFields ==
    ASSUME entries \in Seq(Row), NEW i \in DOMAIN entries
    PROVE  /\ entries[i] \in Row
           /\ entries[i].entry_id \in Nat /\ entries[i].entry_id > 0
           /\ entries[i].entry_uuid \in Events
           /\ entries[i].previous_hash \in Digest
           /\ entries[i].entry_hash \in Digest
<1>1. entries[i] \in Row
  BY ElementOfSeq, LenProperties
<1> QED
  BY <1>1 DEF Row, EntryId

\* The tip of the chain is a digest.
LEMMA TipIsDigest == entries \in Seq(Row) => TipHash \in Digest
<1> SUFFICES ASSUME entries \in Seq(Row) PROVE TipHash \in Digest
  OBVIOUS
<1>1. CASE entries = << >>
  BY <1>1 DEF TipHash, Digest, GenesisHash
<1>2. CASE entries # << >>
  <2>1. Len(entries) \in DOMAIN entries
    BY <1>2, LenProperties, EmptySeq
  <2> QED
    BY <1>2, <2>1, RowFields DEF TipHash
<1> QED
  BY <1>1, <1>2

\* The row a transaction commits is well typed.
LEMMA NewRowType ==
    ASSUME IInv, NEW a \in Appenders, pc[a] = "inserted"
    PROVE  NewRow(a) \in Row
  BY DEF IInv, TypeOK, BusyHasEvent, IdsAscend, NewRow, Row, Compute, Digest

\* While ids ascend along the chain, the row with the largest id is the last
\* committed one, so the query of ReadPrev finds the tip.
LEMMA LastHashIsTip ==
    ASSUME entries \in Seq(Row),
           \A i, j \in DOMAIN entries :
               i < j => entries[i].entry_id < entries[j].entry_id
    PROVE  LastHash(Rows) = TipHash
<1> DEFINE n == Len(entries)
<1>1. n \in Nat /\ DOMAIN entries = 1 .. n
  BY LenProperties
<1>2. CASE entries = << >>
  BY <1>2, RowsOfEntries DEF LastHash, TipHash
<1>3. CASE entries # << >>
  <2>1. n \in DOMAIN entries
    BY <1>1, <1>3, EmptySeq
  <2>2. \A i \in DOMAIN entries : entries[i] \in Row /\ entries[i].entry_id \in Nat
    BY RowFields
  <2>3. \A i \in DOMAIN entries : entries[i].entry_id <= entries[n].entry_id
    BY <1>1, <2>1, <2>2
  <2>4. entries[n] \in Rows /\ \A s \in Rows : s.entry_id <= entries[n].entry_id
    BY <2>1, <2>3, RowsOfEntries
  <2>5. ASSUME NEW r \in Rows, \A s \in Rows : s.entry_id <= r.entry_id
        PROVE  r = entries[n]
    <3>1. PICK i \in DOMAIN entries : r = entries[i]
      BY RowsOfEntries
    <3>2. entries[n].entry_id <= entries[i].entry_id
      BY <2>4, <2>5, <3>1
    <3>3. ~ (i < n)
      BY <2>1, <2>2, <3>2
    <3> QED
      BY <1>1, <3>1, <3>3
  <2>6. (CHOOSE r \in Rows : \A s \in Rows : s.entry_id <= r.entry_id) = entries[n]
    BY <2>4, <2>5
  <2> QED
    BY <1>3, <2>4, <2>6 DEF LastHash, TipHash
<1> QED
  BY <1>2, <1>3

-----------------------------------------------------------------------------
(* The invariant is inductive.                                             *)

LEMMA InitIInv == Init => IInv
<1> SUFFICES ASSUME Init PROVE IInv
  OBVIOUS
<1>1. entries = << >> /\ DOMAIN entries = {}
  BY DEF Init
<1>2. TypeOK
  BY <1>1, MaxFaultsAssumption DEF Init, TypeOK, Statements, Digest, GenesisHash
<1>3. LockHeld
  BY NoneAssumption DEF Init, LockHeld, Holding
<1>4. FreshEvent /\ BusyHasEvent /\ PrevIsTip
  BY DEF Init, FreshEvent, BusyHasEvent, PrevIsTip
<1>5. IdsAscend /\ LinkedInCommitOrder /\ AckedInChain
  BY <1>1 DEF Init, IdsAscend, LinkedInCommitOrder, AckedInChain
<1> QED
  BY <1>2, <1>3, <1>4, <1>5 DEF IInv

\* The steps that leave the rows and the acknowledgements alone.
LEMMA ReadingStep ==
    ASSUME IInv, NEW a \in Appenders,
           \/ \E e \in Events : BeginTx(a, e)
           \/ AcquireLock(a)
           \/ DedupeMiss(a)
           \/ ReadPrev(a)
           \/ Insert(a)
           \/ Fail(a)
    PROVE  IInv'
<1> USE DEF Goto, Return, Unlock
<1>1. entries' = entries /\ acked' = acked
  BY DEF BeginTx, AcquireLock, DedupeMiss, ReadPrev, Insert, Fail
<1>2. LinkedInCommitOrder' /\ AckedInChain' /\ TipHash' = TipHash
  BY <1>1 DEF IInv, LinkedInCommitOrder, AckedInChain, TipHash, Compute
<1>3. TypeOK
  BY DEF IInv
<1>4. CASE \E e \in Events : BeginTx(a, e)
  <2> PICK e \in Events : BeginTx(a, e)
    BY <1>4
  <2>1. TypeOK'
    BY <1>3 DEF BeginTx, TypeOK, Statements
  <2>2. LockHeld' /\ FreshEvent' /\ BusyHasEvent' /\ PrevIsTip' /\ IdsAscend'
    BY <1>2, <1>3 DEF IInv, TypeOK, BeginTx, LockHeld, Holding, FreshEvent,
                      BusyHasEvent, PrevIsTip, IdsAscend
  <2> QED
    BY <1>2, <2>1, <2>2 DEF IInv
<1>5. CASE AcquireLock(a)
  <2>1. TypeOK'
    BY <1>3, <1>5 DEF AcquireLock, TypeOK, Statements
  <2>2. LockHeld'
    BY <1>3, <1>5, NoneAssumption DEF IInv, TypeOK, AcquireLock, LockHeld, Holding
  <2>3. FreshEvent' /\ BusyHasEvent' /\ PrevIsTip' /\ IdsAscend'
    BY <1>2, <1>3, <1>5 DEF IInv, TypeOK, AcquireLock, FreshEvent, BusyHasEvent,
                            PrevIsTip, IdsAscend
  <2> QED
    BY <1>2, <2>1, <2>2, <2>3 DEF IInv
<1>6. CASE DedupeMiss(a)
  <2>1. TypeOK'
    BY <1>3, <1>6 DEF DedupeMiss, TypeOK, Statements
  <2>2. FreshEvent'
    BY <1>3, <1>6, RowsOfEntries
       DEF IInv, TypeOK, DedupeMiss, FreshEvent, BusyHasEvent
  <2>3. LockHeld' /\ BusyHasEvent' /\ PrevIsTip' /\ IdsAscend'
    BY <1>2, <1>3, <1>6 DEF IInv, TypeOK, DedupeMiss, LockHeld, Holding,
                            BusyHasEvent, PrevIsTip, IdsAscend
  <2> QED
    BY <1>2, <2>1, <2>2, <2>3 DEF IInv
<1>7. CASE ReadPrev(a)
  <2>1. LastHash(Rows) = TipHash
    BY LastHashIsTip DEF IInv, TypeOK, IdsAscend
  <2>2. TipHash \in Digest
    BY <1>3, TipIsDigest DEF TypeOK
  <2>3. TypeOK'
    BY <1>3, <1>7, <2>1, <2>2 DEF ReadPrev, TypeOK, Statements
  <2>4. PrevIsTip'
    BY <1>2, <1>3, <1>7, <2>1 DEF IInv, TypeOK, ReadPrev, PrevIsTip
  <2>5. LockHeld' /\ FreshEvent' /\ BusyHasEvent' /\ IdsAscend'
    BY <1>3, <1>7 DEF IInv, TypeOK, ReadPrev, LockHeld, Holding, FreshEvent,
                      BusyHasEvent, IdsAscend
  <2> QED
    BY <1>2, <2>3, <2>4, <2>5 DEF IInv
<1>8. CASE Insert(a)
  <2>1. TypeOK'
    BY <1>3, <1>8 DEF Insert, TypeOK, Statements, NextVal
  <2>2. \A i \in DOMAIN entries : entries[i].entry_id \in Nat
    BY <1>3, RowFields DEF TypeOK
  <2>3. \A b \in Appenders \ {a} : pc[b] # "inserted"
    BY <1>8, <1>3 DEF IInv, TypeOK, LockHeld, Holding, Insert
  <2>4. IdsAscend'
    BY <1>3, <1>8, <2>2, <2>3
       DEF IInv, TypeOK, Insert, IdsAscend, NextVal, EntryId
  <2>5. LockHeld' /\ FreshEvent' /\ BusyHasEvent' /\ PrevIsTip'
    BY <1>2, <1>3, <1>8 DEF IInv, TypeOK, Insert, LockHeld, Holding, FreshEvent,
                            BusyHasEvent, PrevIsTip
  <2> QED
    BY <1>2, <2>1, <2>4, <2>5 DEF IInv
<1>9. CASE Fail(a)
  <2>1. TypeOK'
    BY <1>3, <1>9, MaxFaultsAssumption, EmptySeq
       DEF Fail, TypeOK, Statements, Digest, GenesisHash
  <2>2. LockHeld'
    BY <1>3, <1>9, NoneAssumption DEF IInv, TypeOK, Fail, LockHeld, Holding
  <2>3. FreshEvent' /\ BusyHasEvent' /\ PrevIsTip' /\ IdsAscend'
    BY <1>2, <1>3, <1>9 DEF IInv, TypeOK, Fail, FreshEvent, BusyHasEvent,
                            PrevIsTip, IdsAscend
  <2> QED
    BY <1>2, <2>1, <2>2, <2>3 DEF IInv
<1> QED
  BY <1>4, <1>5, <1>6, <1>7, <1>8, <1>9

\* The two steps that acknowledge or commit: a duplicate is acknowledged, and a
\* new row is linked behind the tip.
LEMMA DedupeHitStep ==
    ASSUME IInv, NEW a \in Appenders, DedupeHit(a)
    PROVE  IInv'
<1> USE DEF DedupeHit, Return, Unlock
<1>1. TypeOK /\ TypeOK'
  BY DEF IInv, BusyHasEvent, TypeOK, Statements, Digest, GenesisHash
<1>2. LockHeld'
  BY <1>1, NoneAssumption DEF IInv, TypeOK, LockHeld, Holding
<1>3. FreshEvent' /\ BusyHasEvent' /\ IdsAscend'
  BY <1>1 DEF IInv, TypeOK, FreshEvent, BusyHasEvent, IdsAscend
<1>4. PrevIsTip' /\ LinkedInCommitOrder'
  BY <1>1 DEF IInv, TypeOK, PrevIsTip, TipHash, LinkedInCommitOrder, Compute
<1>5. AckedInChain'
  BY RowsOfEntries DEF IInv, AckedInChain
<1> QED
  BY <1>1, <1>2, <1>3, <1>4, <1>5 DEF IInv

LEMMA CommitStep ==
    ASSUME IInv, NEW a \in Appenders, Commit(a) \/ CommitReplyLost(a)
    PROVE  IInv'
<1> DEFINE n == Len(entries)
<1> USE DEF Return, Unlock, CommitRow
<1>1. /\ CommitRow(a)
      /\ acked' \subseteq acked \union {ev[a]}
      /\ faults' \in 0 .. MaxFaults
  BY MaxFaultsAssumption DEF Commit, CommitReplyLost, IInv, TypeOK
<1>2. TypeOK /\ entries \in Seq(Row) /\ NewRow(a) \in Row
  BY <1>1, NewRowType DEF IInv, TypeOK
<1>3. /\ entries' \in Seq(Row)
      /\ DOMAIN entries' = DOMAIN entries \union {n + 1}
      /\ DOMAIN entries = 1 .. n
      /\ n \in Nat
      /\ \A i \in DOMAIN entries : entries'[i] = entries[i]
      /\ entries'[n + 1] = NewRow(a)
      /\ Len(entries') = n + 1
      /\ entries' # << >>
  BY <1>1, <1>2, AppendRow
<1>4. /\ NewRow(a).entry_id = newId[a]
      /\ NewRow(a).entry_uuid = ev[a]
      /\ NewRow(a).previous_hash = prev[a]
      /\ NewRow(a).entry_hash = Compute(ev[a], prev[a])
  BY DEF NewRow
<1>5. pc[a] = "inserted" /\ ev[a] \in Events /\ prev[a] = TipHash
  BY <1>1 DEF IInv, BusyHasEvent, PrevIsTip
<1>6. \A b \in Appenders \ {a} : pc[b] \notin Holding /\ pc'[b] = pc[b]
  BY <1>1, <1>2, <1>5 DEF IInv, TypeOK, LockHeld, Holding
<1>7. pc'[a] = "idle" /\ pc' \in [Appenders -> Statements]
  BY <1>1, <1>2 DEF TypeOK, Statements
<1>8. TypeOK'
  BY <1>1, <1>2, <1>3, <1>5, <1>7 DEF TypeOK, Digest, GenesisHash
<1>9. LockHeld'
  BY <1>1, <1>2, <1>5, <1>6, <1>7, NoneAssumption DEF IInv, TypeOK, LockHeld, Holding
<1>10. FreshEvent' /\ PrevIsTip'
  BY <1>6, <1>7 DEF FreshEvent, PrevIsTip, Holding
<1>11. BusyHasEvent'
  BY <1>1, <1>2, <1>6, <1>7 DEF IInv, TypeOK, BusyHasEvent
<1>12. IdsAscend'
  <2>1. \A i \in DOMAIN entries : entries[i].entry_id \in Nat
    BY <1>2, RowFields
  <2>2. newId[a] \in Nat /\ newId[a] <= seq /\ seq' = seq /\ seq \in Nat
    BY <1>1, <1>2, <1>5 DEF IInv, IdsAscend, EntryId, TypeOK
  <2>3. \A i \in DOMAIN entries :
          entries[i].entry_id < newId[a] /\ entries[i].entry_id <= seq
    BY <1>5 DEF IInv, IdsAscend
  <2>4. \A i \in DOMAIN entries' : entries'[i].entry_id <= seq'
    BY <1>3, <1>4, <2>2, <2>3
  <2>5. \A i, j \in DOMAIN entries' : i < j => entries'[i].entry_id < entries'[j].entry_id
    <3> SUFFICES ASSUME NEW i \in DOMAIN entries', NEW j \in DOMAIN entries', i < j
                 PROVE  entries'[i].entry_id < entries'[j].entry_id
      OBVIOUS
    <3>1. CASE j = n + 1
      BY <1>3, <1>4, <2>3, <3>1
    <3>2. CASE j # n + 1
      BY <1>3, <3>2 DEF IInv, IdsAscend
    <3> QED
      BY <3>1, <3>2
  <2> QED
    BY <1>6, <1>7, <2>4, <2>5 DEF IdsAscend, Holding
<1>13. LinkedInCommitOrder'
  <2> SUFFICES ASSUME NEW i \in DOMAIN entries'
               PROVE  /\ entries'[i].previous_hash =
                           IF i = 1 THEN GenesisHash ELSE entries'[i - 1].entry_hash
                      /\ entries'[i].entry_hash =
                           Append(entries'[i].previous_hash, entries'[i].entry_uuid)
    BY DEF LinkedInCommitOrder, Compute
  <2>1. CASE i \in DOMAIN entries
    <3>1. i # 1 => i - 1 \in DOMAIN entries
      BY <1>3, <2>1
    <3> QED
      BY <1>3, <2>1, <3>1 DEF IInv, LinkedInCommitOrder, Compute
  <2>2. CASE i = n + 1
    <3>1. entries = << >> <=> n = 0
      BY <1>2, EmptySeq
    <3>2. entries'[i].previous_hash = TipHash
      BY <1>3, <1>4, <1>5, <2>2
    <3>3. TipHash = IF i = 1 THEN GenesisHash ELSE entries'[i - 1].entry_hash
      <4>1. CASE n = 0
        BY <2>2, <3>1, <4>1 DEF TipHash
      <4>2. CASE n # 0
        <5>1. n \in DOMAIN entries /\ i - 1 = n /\ i # 1
          BY <1>3, <2>2, <4>2
        <5>2. TipHash = entries[n].entry_hash
          BY <3>1, <4>2 DEF TipHash
        <5> QED
          BY <1>3, <5>1, <5>2
      <4> QED
        BY <4>1, <4>2
    <3> QED
      BY <1>3, <1>4, <2>2, <3>2, <3>3 DEF Compute
  <2> QED
    BY <1>3, <2>1, <2>2
<1>14. AckedInChain'
  <2> SUFFICES ASSUME NEW e \in acked'
               PROVE  \E i \in DOMAIN entries' : entries'[i].entry_uuid = e
    BY DEF AckedInChain
  <2>1. CASE e \in acked
    BY <1>3, <2>1 DEF IInv, AckedInChain
  <2>2. CASE e = ev[a]
    BY <1>3, <1>4, <2>2
  <2> QED
    BY <1>1, <2>1, <2>2
<1> QED
  BY <1>8, <1>9, <1>10, <1>11, <1>12, <1>13, <1>14 DEF IInv

THEOREM IInvInductive == IInv /\ [Next]_vars => IInv'
<1> SUFFICES ASSUME IInv, [Next]_vars PROVE IInv'
  OBVIOUS
<1>1. CASE UNCHANGED vars
  BY <1>1 DEF vars, IInv, TypeOK, LockHeld, Holding, FreshEvent, BusyHasEvent,
              PrevIsTip, TipHash, IdsAscend, LinkedInCommitOrder, AckedInChain, Compute
<1>2. ASSUME NEW a \in Appenders,
             \/ \E e \in Events : BeginTx(a, e)
             \/ AcquireLock(a)
             \/ Step(a)
             \/ CommitReplyLost(a)
             \/ Fail(a)
      PROVE  IInv'
  BY <1>2, ReadingStep, DedupeHitStep, CommitStep DEF Step
<1> QED
  BY <1>1, <1>2 DEF Next

\* IInv holds in every reachable state.
THEOREM Invariance == Spec => []IInv
  BY InitIInv, IInvInductive, PTL DEF Spec

\* The locals and tables of AppendEntry stay well typed.
THEOREM TypeCorrect == Spec => []TypeOK
<1>1. IInv => TypeOK
  BY DEF IInv
<1> QED
  BY <1>1, Invariance, PTL

-----------------------------------------------------------------------------
(* The chain, read in id order, is linked.                                 *)

\* The rows below the i-th one in id order are the i - 1 rows committed before
\* it, so the largest of them is the row committed just before it.
LEMMA LastHashBelow ==
    ASSUME entries \in Seq(Row), NEW i \in DOMAIN entries,
           \A j, k \in DOMAIN entries :
               j < k => entries[j].entry_id < entries[k].entry_id
    PROVE  LastHash({s \in Rows : s.entry_id < entries[i].entry_id}) =
             IF i = 1 THEN GenesisHash ELSE entries[i - 1].entry_hash
<1> DEFINE below == {s \in Rows : s.entry_id < entries[i].entry_id}
<1>1. DOMAIN entries = 1 .. Len(entries) /\ Len(entries) \in Nat
  BY LenProperties
<1>2. \A j \in DOMAIN entries : entries[j].entry_id \in Nat
  BY RowFields
<1>3. \A j \in DOMAIN entries : entries[j].entry_id < entries[i].entry_id <=> j < i
  BY <1>1, <1>2
<1>4. \A s : s \in below <=> \E j \in DOMAIN entries : s = entries[j] /\ j < i
  BY <1>3, RowsOfEntries
<1>5. CASE i = 1
  <2>1. below = {}
    BY <1>1, <1>4, <1>5
  <2> QED
    BY <1>5, <2>1 DEF LastHash
<1>6. CASE i # 1
  <2>1. i - 1 \in DOMAIN entries /\ i - 1 < i
    BY <1>1, <1>6
  <2>2. entries[i - 1] \in below
    BY <1>4, <2>1
  <2>3. \A s \in below : s.entry_id <= entries[i - 1].entry_id
    <3> SUFFICES ASSUME NEW j \in DOMAIN entries, j < i
                 PROVE  entries[j].entry_id <= entries[i - 1].entry_id
      BY <1>4
    <3>1. j = i - 1 \/ j < i - 1
      BY <1>1
    <3> QED
      BY <1>2, <2>1, <3>1
  <2>4. ASSUME NEW r \in below, \A s \in below : s.entry_id <= r.entry_id
        PROVE  r = entries[i - 1]
    <3>1. PICK j \in DOMAIN entries : r = entries[j] /\ j < i
      BY <1>4
    <3>2. ~ (entries[j].entry_id < entries[i - 1].entry_id)
      BY <1>2, <2>1, <2>2, <2>4, <3>1
    <3>3. ~ (j < i - 1)
      BY <2>1, <3>2
    <3> QED
      BY <1>1, <3>1, <3>3
  <2>5. (CHOOSE r \in below : \A s \in below : s.entry_id <= r.entry_id) = entries[i - 1]
    BY <2>2, <2>3, <2>4
  <2>6. below # {}
    BY <2>2
  <2> HIDE DEF below
  <2>7. LastHash(below) = entries[i - 1].entry_hash
    BY <2>5, <2>6 DEF LastHash
  <2> QED
    BY <1>6, <2>7 DEF below
<1> QED
  BY <1>5, <1>6

\* The chain is linked whenever the invariant holds.
LEMMA InvLinks == IInv => ChainLinked
<1> SUFFICES ASSUME IInv, NEW r \in Rows
             PROVE  /\ r.previous_hash = LastHash({s \in Rows : s.entry_id < r.entry_id})
                    /\ r.entry_hash = Compute(r.entry_uuid, r.previous_hash)
  BY DEF ChainLinked
<1>1. PICK i \in DOMAIN entries : r = entries[i]
  BY RowsOfEntries
<1>2. LastHash({s \in Rows : s.entry_id < entries[i].entry_id}) =
        IF i = 1 THEN GenesisHash ELSE entries[i - 1].entry_hash
  BY LastHashBelow DEF IInv, TypeOK, IdsAscend
<1> QED
  BY <1>1, <1>2 DEF IInv, LinkedInCommitOrder

\* VerifyRange's walk over the whole chain, in id order, finds every link intact
\* in every reachable state, for any number of appenders and faults.
THEOREM ChainIsLinked == Spec => []ChainLinked
BY InvLinks, Invariance, PTL

-----------------------------------------------------------------------------
(* Rows become visible in id order, at the end of the chain.               *)

\* A step leaves the rows alone or appends one whose id and event are new.
LEMMA RowsGrow ==
    ASSUME IInv, [Next]_vars
    PROVE  \/ entries' = entries
           \/ \E a \in Appenders :
                /\ CommitRow(a)
                /\ pc[a] = "inserted"
                /\ entries' = Append(entries, NewRow(a))
                /\ acked' \in {acked, acked \union {ev[a]}}
<1>1. CASE UNCHANGED vars
  BY <1>1 DEF vars
<1>2. ASSUME NEW a \in Appenders,
             \/ \E e \in Events : BeginTx(a, e)
             \/ AcquireLock(a)
             \/ Step(a)
             \/ CommitReplyLost(a)
             \/ Fail(a)
      PROVE  \/ entries' = entries
             \/ /\ CommitRow(a)
                /\ pc[a] = "inserted"
                /\ entries' = Append(entries, NewRow(a))
                /\ acked' \in {acked, acked \union {ev[a]}}
  BY <1>2 DEF BeginTx, AcquireLock, Step, DedupeHit, DedupeMiss, ReadPrev, Insert,
              Commit, CommitReplyLost, CommitRow, Fail
<1> QED
  BY <1>1, <1>2 DEF Next

\* A new row has a larger id than the rows there are.
LEMMA NewRowIsLast ==
    ASSUME IInv, [Next]_vars, NEW r \in Range(entries') \ Rows, NEW s \in Rows
    PROVE  s.entry_id < r.entry_id
<1>1. PICK a \in Appenders : pc[a] = "inserted" /\ entries' = Append(entries, NewRow(a))
  BY RowsGrow DEF Rows
<1>2. NewRow(a) \in Row /\ entries \in Seq(Row)
  BY <1>1, NewRowType DEF IInv, TypeOK
<1>3. r = NewRow(a)
  BY <1>1, <1>2, AppendRow, RowsOfEntries DEF Range
<1>4. r.entry_id = newId[a]
  BY <1>3 DEF NewRow
<1>5. PICK i \in DOMAIN entries : s = entries[i]
  BY RowsOfEntries
<1> QED
  BY <1>1, <1>4, <1>5 DEF IInv, IdsAscend

\* No row ever becomes visible below one that already is.
THEOREM CommitsInIdOrder == Spec => CommitInIdOrder
<1>1. IInv /\ [Next]_vars =>
        [\A r \in Range(entries') \ Rows : \A s \in Rows : s.entry_id < r.entry_id]_vars
  BY NewRowIsLast
<1> QED
  BY <1>1, Invariance, PTL DEF Spec, CommitInIdOrder

-----------------------------------------------------------------------------
(* AppendEntry implements the append-only ledger.                          *)

\* The ledger the chain stands for.
Uuid(s) == [i \in DOMAIN s |-> s[i].entry_uuid]

LEMMA LedgerOfAppend ==
    ASSUME NEW s \in Seq(Row), NEW r \in Row
    PROVE  Uuid(Append(s, r)) = Append(Uuid(s), r.entry_uuid)
<1> DEFINE n == Len(s)
<1>1. /\ DOMAIN s = 1 .. n
      /\ n \in Nat
      /\ DOMAIN Append(s, r) = 1 .. (n + 1)
      /\ \A i \in 1 .. n : Append(s, r)[i] = s[i]
      /\ Append(s, r)[n + 1] = r
  <2>1. DOMAIN Append(s, r) = DOMAIN s \union {n + 1} /\ DOMAIN s = 1 .. n /\ n \in Nat
    BY AppendRow
  <2>2. DOMAIN Append(s, r) = 1 .. (n + 1)
    BY <2>1
  <2> QED
    BY <2>1, <2>2, AppendRow
<1>2. \A i \in DOMAIN s : s[i].entry_uuid \in Events
  <2>1. \A i \in DOMAIN s : s[i] \in Row
    BY <1>1, ElementOfSeq
  <2> QED
    BY <2>1 DEF Row
<1>3. Uuid(s) \in Seq(Events) /\ Len(Uuid(s)) = n
  <2>1. Uuid(s) \in [1 .. n -> Events]
    BY <1>1, <1>2 DEF Uuid
  <2> QED
    BY <1>1, <2>1, IsASeq, LenProperties
<1>4. r.entry_uuid \in Events
  BY DEF Row
<1>5. /\ DOMAIN Append(Uuid(s), r.entry_uuid) = 1 .. (n + 1)
      /\ \A i \in 1 .. n : Append(Uuid(s), r.entry_uuid)[i] = Uuid(s)[i]
      /\ Append(Uuid(s), r.entry_uuid)[n + 1] = r.entry_uuid
      /\ Append(Uuid(s), r.entry_uuid) \in Seq(Events)
      /\ Len(Append(Uuid(s), r.entry_uuid)) = n + 1
  BY <1>1, <1>3, <1>4, AppendProperties, LenProperties
<1>6. /\ Uuid(Append(s, r)) \in Seq(Events)
      /\ Len(Uuid(Append(s, r))) = n + 1
  <2>1. Uuid(Append(s, r)) \in [1 .. (n + 1) -> Events]
    BY <1>1, <1>2, <1>4 DEF Uuid
  <2> QED
    BY <1>1, <2>1, IsASeq, LenProperties
<1>7. \A i \in 1 .. (n + 1) : Uuid(Append(s, r))[i] = Append(Uuid(s), r.entry_uuid)[i]
  BY <1>1, <1>5 DEF Uuid
<1> QED
  BY <1>5, <1>6, <1>7, SeqEqual

\* Every behaviour of concurrent AppendEntry calls, with faults anywhere, is a
\* behaviour of the ledger: events enter once, at the end, and are acknowledged
\* only when they are in.
THEOREM ChainRefinesLedger == Spec => RefinesLedger
<1>1. Init => Ledger!Init
  BY DEF Init, Ledger!Init
<1>2. IInv /\ [Next]_vars => [Ledger!Next]_(Ledger!ledgerVars)
  <2> SUFFICES ASSUME IInv, [Next]_vars
               PROVE  [Ledger!Next]_(Ledger!ledgerVars)
    OBVIOUS
  <2>1. ASSUME entries' = entries, acked' = acked
        PROVE  UNCHANGED Ledger!ledgerVars
    BY <2>1 DEF Ledger!ledgerVars
  <2>2. ASSUME NEW a \in Appenders, DedupeHit(a)
        PROVE  Ledger!Next
    <3>1. PICK e \in Events : e = ev[a]
      BY <2>2 DEF IInv, BusyHasEvent, DedupeHit
    <3>2. entries' = entries /\ acked' = acked \union {e}
      BY <2>2, <3>1 DEF DedupeHit
    <3>3. \E i \in DOMAIN entries' : entries'[i].entry_uuid = e
      BY <2>2, <3>1, <3>2, RowsOfEntries DEF DedupeHit
    <3>4. Ledger!Acknowledge(e)
      BY <3>2, <3>3 DEF Ledger!Acknowledge, Ledger!Range
    <3> QED
      BY <3>2, <3>4 DEF Ledger!Next
  <2>3. ASSUME NEW a \in Appenders, pc[a] = "inserted",
               entries' = Append(entries, NewRow(a)),
               acked' \in {acked, acked \union {ev[a]}}
        PROVE  Ledger!Next
    <3>1. PICK e \in Events : e = ev[a]
      BY <2>3 DEF IInv, BusyHasEvent
    <3>2. NewRow(a) \in Row /\ NewRow(a).entry_uuid = e
      BY <2>3, <3>1, NewRowType DEF NewRow
    <3>3. Uuid(entries') = Append(Uuid(entries), e)
      BY <2>3, <3>2, LedgerOfAppend DEF IInv, TypeOK
    <3>4. \A i \in DOMAIN entries : entries[i].entry_uuid # e
      BY <2>3, <3>1 DEF IInv, FreshEvent
    <3>5. Ledger!Extend(e)
      BY <3>3, <3>4 DEF Ledger!Extend, Ledger!Range, Uuid
    <3>6. CASE acked' = acked
      BY <3>5, <3>6 DEF Ledger!Next
    <3>7. CASE acked' = acked \union {e}
      <4>1. /\ Len(entries) + 1 \in DOMAIN entries'
            /\ entries'[Len(entries) + 1].entry_uuid = e
        BY <2>3, <3>2, AppendRow DEF IInv, TypeOK
      <4>2. Ledger!Acknowledge(e)
        BY <3>7, <4>1 DEF Ledger!Acknowledge, Ledger!Range
      <4> QED
        BY <3>5, <4>2 DEF Ledger!Next
    <3> QED
      BY <2>3, <3>1, <3>6, <3>7
  <2>4. \/ entries' = entries /\ acked' = acked
        \/ \E a \in Appenders : DedupeHit(a)
        \/ \E a \in Appenders :
             /\ pc[a] = "inserted"
             /\ entries' = Append(entries, NewRow(a))
             /\ acked' \in {acked, acked \union {ev[a]}}
    BY DEF Next, vars, Step, BeginTx, AcquireLock, DedupeMiss, ReadPrev, Insert,
           Commit, CommitReplyLost, CommitRow, Fail
  <2> QED
    BY <2>1, <2>2, <2>3, <2>4
<1> QED
  BY <1>1, <1>2, Invariance, PTL DEF Spec, RefinesLedger, Ledger!Spec

-----------------------------------------------------------------------------
(* What the reads see: the rows of a query, in id order.                   *)

IdsOf(S) == {r.entry_id : r \in S}

\* The rows of a table whose primary key is the id.
Keyed(S) ==
    /\ S \subseteq Row
    /\ IsFiniteSet(IdsOf(S))
    /\ \A r, s \in S : r.entry_id = s.entry_id => r = s

LEMMA KeyedSubset ==
    ASSUME NEW S, Keyed(S), NEW T \in SUBSET S
    PROVE  Keyed(T)
<1>1. IdsOf(T) \in SUBSET IdsOf(S)
  BY DEF IdsOf
<1>. QED  BY <1>1, FS_Subset DEF Keyed

\* The committed rows: no two have one id, for ids ascend along the chain.
LEMMA RowsAreKeyed ==
    ASSUME IInv
    PROVE  Keyed(Rows)
<1>1. entries \in Seq(Row) /\ seq \in Nat
  BY DEF IInv, TypeOK
<1>2. \A i \in DOMAIN entries : entries[i] \in Row /\ entries[i].entry_id \in Nat
  BY <1>1, RowFields
<1>3. Rows \subseteq Row
  BY <1>2, RowsOfEntries
<1>4. IdsOf(Rows) \in SUBSET Nat /\ \A n \in IdsOf(Rows) : n <= seq
  BY <1>2, RowsOfEntries DEF IdsOf, IInv, IdsAscend
<1>5. IsFiniteSet(IdsOf(Rows))
  BY <1>1, <1>4, FS_BoundedSetOfNaturals
<1>6. ASSUME NEW i \in DOMAIN entries, NEW j \in DOMAIN entries,
             entries[i].entry_id = entries[j].entry_id
      PROVE  i = j
  <2>1. ~(i < j) /\ ~(j < i)
    BY <1>2, <1>6 DEF IInv, IdsAscend
  <2>2. i \in Nat /\ j \in Nat
    BY <1>1, LenProperties
  <2>. QED  BY <2>1, <2>2
<1>. QED  BY <1>3, <1>5, <1>6, RowsOfEntries DEF Keyed

\* ORDER BY entry_id returns every row of a query once, in ascending order.
LEMMA ByIdSorts ==
    ASSUME NEW S, Keyed(S)
    PROVE  /\ ById(S) \in Seq(S)
           /\ Len(ById(S)) = Cardinality(IdsOf(S))
           /\ Len(ById(S)) \in Nat
           /\ DOMAIN ById(S) = 1 .. Len(ById(S))
           /\ \A i \in 1 .. Len(ById(S)) :
                  /\ ById(S)[i] \in S
                  /\ ById(S)[i].entry_id \in Nat
                  /\ ById(S)[i].entry_id = Ascending(IdsOf(S))[i]
           /\ \A i, j \in 1 .. Len(ById(S)) :
                  i < j => ById(S)[i].entry_id < ById(S)[j].entry_id
           /\ \A r \in S : /\ Rank(IdsOf(S), r.entry_id) \in 1 .. Len(ById(S))
                           /\ ById(S)[Rank(IdsOf(S), r.entry_id)] = r
<1>. DEFINE ids == IdsOf(S)
            n == Cardinality(ids)
<1>1. ids \in SUBSET Nat /\ IsFiniteSet(ids) /\ \A r \in S : r.entry_id \in ids
  BY DEF Keyed, IdsOf, Row, EntryId
<1>2. /\ n \in Nat
      /\ Ascending(ids) \in [1 .. n -> ids]
      /\ \A m \in ids : Rank(ids, m) \in 1 .. n /\ Ascending(ids)[Rank(ids, m)] = m
      /\ \A i, j \in 1 .. n : i < j => Ascending(ids)[i] < Ascending(ids)[j]
  BY <1>1, AscendingSorts
<1>. HIDE DEF ids
<1>3. ById(S) = [i \in 1 .. n |-> CHOOSE r \in S : r.entry_id = Ascending(ids)[i]]
  BY <1>2 DEF ById, ids, IdsOf
<1>. HIDE DEF n
<1>4. ASSUME NEW i \in 1 .. n
      PROVE  ById(S)[i] \in S /\ ById(S)[i].entry_id = Ascending(ids)[i]
  <2>1. Ascending(ids)[i] \in ids
    BY <1>2
  <2>2. \E r \in S : r.entry_id = Ascending(ids)[i]
    BY <2>1 DEF ids, IdsOf
  <2>. QED  BY <1>3, <2>2
<1>5. ById(S) \in [1 .. n -> S]
  BY <1>3, <1>4
<1>6. ById(S) \in Seq(S) /\ Len(ById(S)) = n /\ DOMAIN ById(S) = 1 .. n
  BY <1>2, <1>5, LenProperties, SeqDef
<1>7. ASSUME NEW r \in S
      PROVE  /\ Rank(ids, r.entry_id) \in 1 .. n
             /\ ById(S)[Rank(ids, r.entry_id)] = r
  <2>. DEFINE k == Rank(ids, r.entry_id)
  <2>1. k \in 1 .. n /\ Ascending(ids)[k] = r.entry_id
    BY <1>1, <1>2
  <2>2. ById(S)[k] \in S /\ ById(S)[k].entry_id = r.entry_id
    BY <1>4, <2>1
  <2>. QED  BY <2>1, <2>2 DEF Keyed
<1>8. \A i \in 1 .. n : ById(S)[i].entry_id \in Nat
  BY <1>1, <1>4
<1>9. \A i, j \in 1 .. n : i < j => ById(S)[i].entry_id < ById(S)[j].entry_id
  BY <1>2, <1>4
<1>10. n \in Nat
  BY <1>2
<1>. HIDE DEF n
<1>. QED  BY <1>4, <1>6, <1>7, <1>8, <1>9, <1>10 DEF ids, n

\* A row is in the result of a query exactly if it is one of its rows, and no row
\* of the query lies between two neighbours of the result.
LEMMA ByIdRows ==
    ASSUME NEW S, Keyed(S)
    PROVE  /\ Range(ById(S)) = S
           /\ ById(S) = << >> <=> S = {}
           /\ S = {} <=> Len(ById(S)) = 0
           /\ \A r \in S : \E i \in 1 .. Len(ById(S)) : r = ById(S)[i]
           /\ \A i \in 1 .. Len(ById(S)), r \in S :
                  /\ r.entry_id < ById(S)[i].entry_id =>
                       /\ i # 1
                       /\ r.entry_id <= ById(S)[i - 1].entry_id
                  /\ ById(S)[i].entry_id < r.entry_id =>
                       /\ i # Len(ById(S))
                       /\ ById(S)[i + 1].entry_id <= r.entry_id
<1>. DEFINE rows == ById(S)
            n == Len(rows)
<1>1. /\ rows \in Seq(S) /\ n \in Nat /\ DOMAIN rows = 1 .. n
      /\ \A i \in 1 .. n : rows[i] \in S /\ rows[i].entry_id \in Nat
      /\ \A i, j \in 1 .. n : i < j => rows[i].entry_id < rows[j].entry_id
  BY ByIdSorts
<1>2. \A r \in S : \E i \in 1 .. n : r = rows[i]
  BY ByIdSorts
<1>. HIDE DEF rows
<1>3. Range(rows) = S
  BY <1>1, <1>2 DEF Range
<1>4. (rows = << >> <=> n = 0) /\ (S = {} <=> n = 0)
  BY <1>1, <1>2, EmptySeq
<1>5. ASSUME NEW i \in 1 .. n, NEW r \in S
      PROVE  /\ r.entry_id < rows[i].entry_id =>
                  i # 1 /\ r.entry_id <= rows[i - 1].entry_id
             /\ rows[i].entry_id < r.entry_id =>
                  i # n /\ rows[i + 1].entry_id <= r.entry_id
  <2>1. PICK k \in 1 .. n : r = rows[k]
    BY <1>2
  <2>2. k \in Nat /\ i \in Nat /\ rows[k].entry_id \in Nat /\ rows[i].entry_id \in Nat
    BY <1>1
  <2>5. n \in Nat /\ i <= n /\ k <= n
    BY <1>1
  <2>3. ASSUME rows[k].entry_id < rows[i].entry_id
        PROVE  i # 1 /\ rows[k].entry_id <= rows[i - 1].entry_id
    <3>1. k < i
      <4>1. ~(i < k) /\ i # k
        BY <1>1, <2>2, <2>3
      <4>. QED  BY <2>2, <4>1
    <3>2. i - 1 \in 1 .. n /\ (k = i - 1 \/ k < i - 1) /\ rows[i - 1].entry_id \in Nat
      BY <1>1, <2>2, <3>1
    <3>. QED  BY <1>1, <2>2, <3>1, <3>2
  <2>4. ASSUME rows[i].entry_id < rows[k].entry_id
        PROVE  i # n /\ rows[i + 1].entry_id <= rows[k].entry_id
    <3>1. i < k
      <4>1. ~(k < i) /\ i # k
        BY <1>1, <2>2, <2>4
      <4>. QED  BY <2>2, <4>1
    <3>2. i # n /\ i + 1 \in 1 .. n /\ (k = i + 1 \/ i + 1 < k)
      BY <2>2, <2>5, <3>1
    <3>3. rows[i + 1].entry_id \in Nat
      BY <1>1, <3>2
    <3>4. rows[i + 1].entry_id <= rows[k].entry_id
      <4>. DEFINE j == i + 1
      <4>1. j \in 1 .. n /\ (k = j \/ j < k) /\ rows[j].entry_id \in Nat
        BY <3>2, <3>3
      <4>. HIDE DEF j
      <4>2. rows[j].entry_id <= rows[k].entry_id
        BY <1>1, <2>2, <4>1
      <4>. QED  BY <4>2 DEF j
    <3>. QED  BY <3>2, <3>4
  <2>. QED  BY <2>1, <2>3, <2>4
<1>. QED  BY <1>2, <1>3, <1>4, <1>5 DEF rows

\* The hash of the row with the largest id of a set.
LEMMA LastHashOf ==
    ASSUME NEW S, Keyed(S), NEW r \in S, \A s \in S : s.entry_id <= r.entry_id
    PROVE  LastHash(S) = r.entry_hash
<1>1. \A s \in S : s.entry_id \in Nat
  BY DEF Keyed, Row, EntryId
<1>2. ASSUME NEW t \in S, \A s \in S : s.entry_id <= t.entry_id
      PROVE  t = r
  <2>1. t.entry_id = r.entry_id
    BY <1>1, <1>2
  <2>. QED  BY <2>1 DEF Keyed
<1>3. (CHOOSE t \in S : \A s \in S : s.entry_id <= t.entry_id) = r
  BY <1>2
<1>. QED  BY <1>3 DEF LastHash

\* The rows of an id range, oldest first: the first one is linked to the rows
\* before the range, and every other one to its predecessor, whatever ids in
\* between no row has.
LEMMA BetweenLinks ==
    ASSUME IInv, NEW f \in Nat, NEW t \in Nat
    PROVE  /\ Between(f, t) \in Seq(Rows)
           /\ DOMAIN Between(f, t) = 1 .. Len(Between(f, t))
           /\ Len(Between(f, t)) \in Nat
           /\ Between(f, t) = << >> <=> Len(Between(f, t)) = 0
           /\ \A i \in 1 .. Len(Between(f, t)) :
                /\ Between(f, t)[i] \in Rows
                /\ f <= Between(f, t)[i].entry_id
                /\ Between(f, t)[i].entry_id <= t
                /\ Between(f, t)[i].previous_hash =
                     IF i = 1 THEN LastHash({s \in Rows : s.entry_id < f})
                     ELSE Between(f, t)[i - 1].entry_hash
                /\ Between(f, t)[i].entry_hash =
                     Compute(Between(f, t)[i].entry_uuid, Between(f, t)[i].previous_hash)
<1>. DEFINE S == {r \in Rows : f <= r.entry_id /\ r.entry_id <= t}
            rows == Between(f, t)
<1>1. Keyed(Rows) /\ Keyed(S) /\ S \subseteq Rows
  BY RowsAreKeyed, KeyedSubset
<1>2. rows = ById(S)
  BY DEF Between
<1>. HIDE DEF S, rows
<1>3. /\ rows \in Seq(S) /\ Len(rows) \in Nat /\ DOMAIN rows = 1 .. Len(rows)
      /\ \A i \in 1 .. Len(rows) : rows[i] \in S /\ rows[i].entry_id \in Nat
      /\ \A i, j \in 1 .. Len(rows) : i < j => rows[i].entry_id < rows[j].entry_id
      /\ rows = << >> <=> Len(rows) = 0
  BY <1>1, <1>2, ByIdSorts, ByIdRows
<1>4. rows \in Seq(Rows)
  BY <1>1, <1>3, SeqMonotonic
<1>5. ChainLinked
  BY InvLinks
<1>6. \A r \in Rows : r.entry_id \in Nat
  BY <1>1 DEF Keyed, Row, EntryId
<1>7. ASSUME NEW i \in 1 .. Len(rows)
      PROVE  LastHash({s \in Rows : s.entry_id < rows[i].entry_id}) =
                IF i = 1 THEN LastHash({s \in Rows : s.entry_id < f})
                ELSE rows[i - 1].entry_hash
  <2>. DEFINE below == {s \in Rows : s.entry_id < rows[i].entry_id}
  <2>1. rows[i] \in Rows /\ f <= rows[i].entry_id /\ rows[i].entry_id <= t
        /\ rows[i].entry_id \in Nat
    BY <1>3 DEF S
  <2>2. \A s \in below : s.entry_id \in Nat /\ (f <= s.entry_id => s \in S)
    BY <1>6, <2>1 DEF S
  <2>3. CASE i = 1
    <3>1. \A s \in below : ~(f <= s.entry_id)
      BY <1>1, <1>2, <2>2, <2>3, ByIdRows
    <3>2. below = {s \in Rows : s.entry_id < f}
      BY <1>6, <2>1, <2>2, <3>1
    <3>. QED  BY <2>3, <3>2
  <2>4. CASE i # 1
    <3>1. i - 1 \in 1 .. Len(rows) /\ i - 1 < i
      BY <1>3, <2>4
    <3>2. rows[i - 1] \in below /\ rows[i - 1] \in S /\ rows[i - 1].entry_id \in Nat
      BY <1>1, <1>3, <3>1
    <3>3. \A s \in below : s.entry_id <= rows[i - 1].entry_id
      <4>. SUFFICES ASSUME NEW s \in below
                    PROVE  s.entry_id <= rows[i - 1].entry_id
        OBVIOUS
      <4>1. CASE f <= s.entry_id
        BY <1>1, <1>2, <2>2, <4>1, ByIdRows
      <4>2. CASE ~(f <= s.entry_id)
        BY <2>2, <3>2, <4>2 DEF S
      <4>. QED  BY <4>1, <4>2
    <3>4. Keyed(below)
      BY <1>1, KeyedSubset
    <3>. HIDE DEF below
    <3>5. LastHash(below) = rows[i - 1].entry_hash
      BY <3>2, <3>3, <3>4, LastHashOf
    <3>. QED  BY <2>4, <3>5 DEF below
  <2>. QED  BY <2>3, <2>4
<1>8. ASSUME NEW i \in 1 .. Len(rows)
      PROVE  /\ rows[i] \in Rows /\ f <= rows[i].entry_id /\ rows[i].entry_id <= t
             /\ rows[i].previous_hash =
                  IF i = 1 THEN LastHash({s \in Rows : s.entry_id < f})
                  ELSE rows[i - 1].entry_hash
             /\ rows[i].entry_hash = Compute(rows[i].entry_uuid, rows[i].previous_hash)
  <2>1. rows[i] \in Rows /\ f <= rows[i].entry_id /\ rows[i].entry_id <= t
    BY <1>3 DEF S
  <2>2. /\ rows[i].previous_hash = LastHash({s \in Rows : s.entry_id < rows[i].entry_id})
        /\ rows[i].entry_hash = Compute(rows[i].entry_uuid, rows[i].previous_hash)
    BY <1>5, <2>1 DEF ChainLinked
  <2>. QED  BY <1>7, <2>1, <2>2
<1>. QED  BY <1>3, <1>4, <1>8 DEF rows

\* A walk from the hash of the rows before a range blames no row but one whose time
\* lost digits when it was stored.
LEMMA WalkBlames ==
    ASSUME IInv, NEW f \in Nat, NEW t \in Nat, NEW expected,
           Between(f, t) = << >> \/ expected = LastHash({s \in Rows : s.entry_id < f})
    PROVE  Walk(Between(f, t), expected) \in {"intact"} \union Altered
<1>. DEFINE rows == Between(f, t)
<1>1. /\ DOMAIN rows = 1 .. Len(rows) /\ Len(rows) \in Nat
      /\ rows = << >> <=> Len(rows) = 0
      /\ \A i \in 1 .. Len(rows) :
           /\ rows[i].previous_hash =
                IF i = 1 THEN LastHash({s \in Rows : s.entry_id < f})
                ELSE rows[i - 1].entry_hash
           /\ rows[i].entry_hash = Compute(rows[i].entry_uuid, rows[i].previous_hash)
  BY BetweenLinks, ZenonT(60)
<1>. DEFINE broken == {i \in DOMAIN rows :
                         \/ rows[i].previous_hash #
                              IF i = 1 THEN expected ELSE rows[i - 1].entry_hash
                         \/ ~Recomputes(rows[i])}
<1>2. Walk(rows, expected) =
        IF broken = {} THEN "intact"
        ELSE rows[CHOOSE i \in broken : \A j \in broken : i <= j].entry_uuid
  BY DEF Walk
<1>. HIDE DEF rows
<1>3. \A i \in broken : rows[i].entry_uuid \in Altered
  BY <1>1 DEF Recomputes, rows
<1>4. broken \in SUBSET Nat /\ IsFiniteSet(broken)
  <2>1. broken \in SUBSET (1 .. Len(rows)) /\ IsFiniteSet(1 .. Len(rows))
    BY <1>1, FS_Interval
  <2>. QED  BY <1>1, <2>1, FS_Subset
<1>. HIDE DEF broken
<1>5. CASE broken = {}
  BY <1>2, <1>5 DEF rows
<1>6. CASE broken # {}
  <2>1. (CHOOSE i \in broken : \A j \in broken : i <= j) \in broken
    BY <1>4, <1>6, LeastId
  <2>. QED  BY <1>2, <1>3, <1>6, <2>1 DEF rows
<1>. QED  BY <1>5, <1>6

\* Nothing is below the first id.
LEMMA NoneBelowFirst ==
    ASSUME IInv
    PROVE  LastHash({s \in Rows : s.entry_id < 1}) = GenesisHash
<1>1. \A s \in Rows : s.entry_id \in Nat /\ ~(s.entry_id < 1)
  BY RowsAreKeyed DEF Keyed, Row, EntryId
<1>2. {s \in Rows : s.entry_id < 1} = {}
  BY <1>1
<1>. QED  BY <1>2 DEF LastHash

LEMMA InvVerifies == IInv => VerifyBlamesOnlyAltered
<1>. SUFFICES ASSUME IInv, NEW from \in 0 .. seq + 1, NEW to \in 0 .. seq + 1
              PROVE  Verify(from, to)
                       \in {"intact", "anchor lookup failed"} \union Altered
  BY DEF VerifyBlamesOnlyAltered
<1>. DEFINE first == IF from <= 0 THEN 1 ELSE from
            last == IF to = 0 THEN seq ELSE to
            before == {r \in Rows : r.entry_id = first - 1}
<1>1. first \in Nat \ {0} /\ last \in Nat
  BY DEF IInv, TypeOK
<1>. HIDE DEF first, last
<1>2. Verify(from, to) = IF first = 1 THEN Walk(Between(first, last), GenesisHash)
                         ELSE IF before = {} THEN "anchor lookup failed"
                         ELSE Walk(Between(first, last), LastHash(before))
  BY DEF Verify, VerifyRange, first, last
<1>3. CASE first = 1
  <2>1. Walk(Between(first, last), GenesisHash) \in {"intact"} \union Altered
    BY <1>1, <1>3, NoneBelowFirst, WalkBlames
  <2>. QED  BY <1>2, <1>3, <2>1
<1>4. CASE first # 1 /\ before # {}
  <2>1. PICK r \in before : TRUE
    BY <1>4
  <2>2. Keyed(Rows) /\ Keyed(before) /\ Keyed({s \in Rows : s.entry_id < first})
    BY RowsAreKeyed, KeyedSubset
  <2>3. \A s \in Rows : s.entry_id \in Nat
    BY <2>2 DEF Keyed, Row, EntryId
  <2>4. r \in Rows /\ r.entry_id = first - 1
    BY <2>1
  <2>5. r \in {s \in Rows : s.entry_id < first}
        /\ \A s \in {s \in Rows : s.entry_id < first} : s.entry_id <= r.entry_id
    BY <1>1, <2>3, <2>4
  <2>6. LastHash({s \in Rows : s.entry_id < first}) = r.entry_hash
    BY <2>2, <2>5, LastHashOf
  <2>7. \A s \in before : s.entry_id <= r.entry_id
    BY <1>1, <2>4
  <2>. HIDE DEF before
  <2>8. LastHash(before) = r.entry_hash
    BY <2>1, <2>2, <2>7, LastHashOf
  <2>9. Walk(Between(first, last), LastHash(before)) \in {"intact"} \union Altered
    BY <1>1, <2>6, <2>8, WalkBlames
  <2>. QED  BY <1>2, <1>4, <2>9
<1>. QED  BY <1>2, <1>3, <1>4

\* What List returns: rows of the query, and all of them up to the last one it
\* returns.
LEMMA ListIsPrefix ==
    ASSUME IInv, NEW after \in Nat, NEW filter
    PROVE  LET S == {r \in Rows : r.entry_id > after /\ r.entry_uuid \in filter}
               page == List(after, PageLimit, filter)
           IN  /\ page \in Seq(Rows)
               /\ Len(page) = IF Len(ById(S)) < PageLimit THEN Len(ById(S)) ELSE PageLimit
               /\ Len(page) \in Nat
               /\ DOMAIN page = 1 .. Len(page)
               /\ \A i \in 1 .. Len(page) :
                      i \in 1 .. Len(ById(S)) /\ page[i] = ById(S)[i]
<1>. DEFINE S == {r \in Rows : r.entry_id > after /\ r.entry_uuid \in filter}
            page == List(after, PageLimit, filter)
<1>1. Keyed(S) /\ PageLimit \in Nat /\ S \in SUBSET Rows
  BY RowsAreKeyed, KeyedSubset, PageLimitAssumption
<1>2. page = FirstOf(ById(S), PageLimit)
  BY DEF List
<1>. HIDE DEF S, page
<1>3. ById(S) \in Seq(S) /\ Len(ById(S)) \in Nat
  BY <1>1, ByIdSorts
<1>4. /\ page \in Seq(S)
      /\ Len(page) = IF Len(ById(S)) < PageLimit THEN Len(ById(S)) ELSE PageLimit
      /\ \A i \in 1 .. Len(page) : i \in 1 .. Len(ById(S)) /\ page[i] = ById(S)[i]
  BY <1>1, <1>2, <1>3, FirstRows
<1>5. page \in Seq(Rows) /\ DOMAIN page = 1 .. Len(page)
  BY <1>1, <1>4, SeqMonotonic, LenProperties
<1>. QED  BY <1>1, <1>3, <1>4, <1>5 DEF S, page

\* The rows of a bundle are a range of ids, which ends where the page or the
\* request does.
LEMMA TrimmedIsRange ==
    ASSUME IInv, NEW from \in Nat \ {0}, NEW to \in Nat
    PROVE  \E hi \in Nat : Trimmed(from, to) = Between(from, hi)
<1>. DEFINE S == {r \in Rows : r.entry_id > from - 1 /\ r.entry_uuid \in Events}
            page == List(from - 1, PageLimit, Events)
            T == {r \in Range(page) : r.entry_id <= to}
<1>1. Keyed(Rows) /\ Keyed(S)
  BY RowsAreKeyed, KeyedSubset
<1>2. \A r \in Rows : r.entry_id \in Nat /\ r.entry_uuid \in Events
  BY <1>1 DEF Keyed, Row, EntryId
<1>3. \A r : r \in S <=> r \in Rows /\ from <= r.entry_id
  BY <1>2
<1>4. /\ Len(page) = IF Len(ById(S)) < PageLimit THEN Len(ById(S)) ELSE PageLimit
      /\ DOMAIN page = 1 .. Len(page)
      /\ \A i \in 1 .. Len(page) : i \in 1 .. Len(ById(S)) /\ page[i] = ById(S)[i]
  BY ListIsPrefix
<1>5. Trimmed(from, to) = ById(T)
  BY DEF Trimmed
<1>. HIDE DEF S, page
<1>6. /\ Len(ById(S)) \in Nat
      /\ \A i \in 1 .. Len(ById(S)) : ById(S)[i] \in S /\ ById(S)[i].entry_id \in Nat
      /\ \A i, j \in 1 .. Len(ById(S)) :
             i < j => ById(S)[i].entry_id < ById(S)[j].entry_id
      /\ \A r \in S : \E i \in 1 .. Len(ById(S)) : r = ById(S)[i]
  BY <1>1, ByIdSorts, ByIdRows
<1>7. \A r : r \in Range(page) <=> \E i \in 1 .. Len(page) : r = ById(S)[i]
  BY <1>4 DEF Range
<1>8. CASE Len(ById(S)) < PageLimit
  <2>1. Len(page) = Len(ById(S))
    BY <1>4, <1>8
  <2>2. \A r : r \in Range(page) <=> r \in S
    BY <1>6, <1>7, <2>1
  <2>3. Range(page) = S
    BY <2>2
  <2>4. T = {r \in Rows : from <= r.entry_id /\ r.entry_id <= to}
    BY <1>3, <2>3
  <2>. QED  BY <1>5, <2>4 DEF Between
<1>9. CASE ~(Len(ById(S)) < PageLimit)
  <2>. DEFINE last == ById(S)[PageLimit].entry_id
              hi == IF to <= last THEN to ELSE last
  <2>1. PageLimit \in 1 .. Len(ById(S)) /\ Len(page) = PageLimit
    BY <1>4, <1>6, <1>9, PageLimitAssumption
  <2>2. last \in Nat /\ hi \in Nat
    BY <1>6, <2>1
  <2>3. ASSUME NEW i \in 1 .. Len(ById(S))
        PROVE  i <= PageLimit <=> ById(S)[i].entry_id <= last
    <3>1. PageLimit \in Nat /\ i \in Nat /\ ById(S)[i].entry_id \in Nat
      BY <1>6, PageLimitAssumption
    <3>2. CASE i = PageLimit
      BY <3>1, <3>2
    <3>3. CASE i < PageLimit
      BY <1>6, <2>1, <2>2, <3>1, <3>3
    <3>4. CASE PageLimit < i
      BY <1>6, <2>1, <2>2, <3>1, <3>4
    <3>. QED  BY <3>1, <3>2, <3>3, <3>4
  <2>. HIDE DEF last
  <2>4. \A r : r \in Range(page) <=> r \in S /\ r.entry_id <= last
    <3>1. ASSUME NEW i \in 1 .. Len(page)
          PROVE  ById(S)[i] \in S /\ ById(S)[i].entry_id <= last
      <4>1. i \in 1 .. Len(ById(S)) /\ i <= PageLimit
        BY <1>4, <2>1, PageLimitAssumption
      <4>. QED  BY <1>6, <2>3, <4>1
    <3>2. ASSUME NEW i \in 1 .. Len(ById(S)), ById(S)[i].entry_id <= last
          PROVE  i \in 1 .. Len(page)
      BY <2>1, <2>3, <3>2, PageLimitAssumption
    <3>. QED  BY <1>6, <1>7, <3>1, <3>2
  <2>5. \A r \in S : r.entry_id \in Nat
    BY <1>2, <1>3
  <2>6. \A r \in S : (r.entry_id <= last /\ r.entry_id <= to) <=> r.entry_id <= hi
    BY <2>2, <2>5
  <2>. HIDE DEF hi
  <2>7. T = {r \in Rows : from <= r.entry_id /\ r.entry_id <= hi}
    BY <1>3, <2>4, <2>6
  <2>. QED  BY <1>5, <2>2, <2>7 DEF Between
<1>. QED  BY <1>8, <1>9

\* What a bundle holds: a range of rows behind the hash of the rows before it.
LEMMA BundleOfRange ==
    ASSUME IInv, NEW from \in Nat \ {0}, NEW to \in Nat
    PROVE  \E hi \in Nat :
             /\ Bundle(from, to).entries = Between(from, hi)
             /\ \/ Between(from, hi) = << >>
                \/ Bundle(from, to).anchor.anchor_entry_hash
                     = LastHash({s \in Rows : s.entry_id < from})
<1>1. PICK hi \in Nat : Trimmed(from, to) = Between(from, hi)
  BY TrimmedIsRange
<1>. DEFINE rows == Between(from, hi)
<1>2. /\ Bundle(from, to).entries = rows
      /\ Bundle(from, to).anchor = BundleAnchor(from, rows)
  BY <1>1 DEF Bundle
<1>3. CASE rows = << >>
  BY <1>2, <1>3
<1>4. CASE rows # << >> /\ from > 1
  <2>1. 1 \in 1 .. Len(rows)
    BY <1>4, BetweenLinks
  <2>2. rows[1].previous_hash = LastHash({s \in Rows : s.entry_id < from})
    BY <2>1, BetweenLinks
  <2>3. BundleAnchor(from, rows).anchor_entry_hash = rows[1].previous_hash
    BY <1>4 DEF BundleAnchor
  <2>. QED  BY <1>2, <2>2, <2>3
<1>5. CASE ~(from > 1)
  <2>1. from = 1
    BY <1>5
  <2>2. BundleAnchor(from, rows).anchor_entry_hash = GenesisHash
    BY <1>5 DEF BundleAnchor
  <2>. QED  BY <1>2, <2>1, <2>2, NoneBelowFirst
<1>. QED  BY <1>3, <1>4, <1>5

LEMMA InvBundles == IInv => BundlesChain
<1>. SUFFICES ASSUME IInv, NEW from \in Ids, NEW to \in Ids
              PROVE  LET b == Bundle(from, to)
                         after == Bundle(Last(b.entries).entry_id + 1, seq + 1)
                     IN  /\ VerifyBundleChain(b) \in {"intact"} \union Altered
                         /\ b.entries # << >> /\ after.entries # << >> =>
                              after.anchor.anchor_entry_hash = Last(b.entries).entry_hash
  BY DEF BundlesChain
<1>1. from \in Nat \ {0} /\ to \in Nat /\ seq + 1 \in Nat
  BY DEF Ids, IInv, TypeOK
<1>. DEFINE b == Bundle(from, to)
            rows == b.entries
            last == Last(rows)
            after == Bundle(last.entry_id + 1, seq + 1)
<1>2. PICK hi \in Nat :
        /\ rows = Between(from, hi)
        /\ \/ rows = << >>
           \/ b.anchor.anchor_entry_hash = LastHash({s \in Rows : s.entry_id < from})
  BY <1>1, BundleOfRange
<1>. HIDE DEF b
<1>3. VerifyBundleChain(b) \in {"intact"} \union Altered
  BY <1>1, <1>2, WalkBlames DEF VerifyBundleChain
<1>4. ASSUME rows # << >>, after.entries # << >>
      PROVE  after.anchor.anchor_entry_hash = last.entry_hash
  <2>. DEFINE below == {s \in Rows : s.entry_id < last.entry_id + 1}
  <2>1. Keyed(Rows) /\ Keyed(below)
    BY RowsAreKeyed, KeyedSubset
  <2>2. \A s \in Rows : s.entry_id \in Nat
    BY <2>1 DEF Keyed, Row, EntryId
  <2>3. Len(rows) \in 1 .. Len(rows)
    BY <1>1, <1>2, <1>4, BetweenLinks
  <2>4. last \in Rows /\ last.entry_id \in Nat
    <3>1. rows[Len(rows)] \in Rows
      BY <1>1, <1>2, <2>3, BetweenLinks
    <3>. QED  BY <2>2, <3>1 DEF Last
  <2>. HIDE DEF last
  <2>5. last \in below /\ \A s \in below : s.entry_id <= last.entry_id
    BY <2>2, <2>4
  <2>. HIDE DEF below
  <2>6. LastHash(below) = last.entry_hash
    BY <2>1, <2>5, LastHashOf
  <2>7. last.entry_id + 1 \in Nat \ {0}
    BY <2>4
  <2>8. after.anchor.anchor_entry_hash = LastHash(below)
    BY <1>1, <1>4, <2>7, BundleOfRange DEF below
  <2>. QED  BY <2>6, <2>8
<1>. QED  BY <1>3, <1>4 DEF b

\* Rows that are added behind all others of a query leave its result a prefix.
LEMMA ByIdGrows ==
    ASSUME NEW S, NEW T, S \subseteq T, Keyed(T),
           \A t \in T \ S, s \in S : s.entry_id < t.entry_id
    PROVE  /\ Len(ById(S)) <= Len(ById(T))
           /\ \A i \in 1 .. Len(ById(S)) : ById(T)[i] = ById(S)[i]
<1>1. Keyed(S)
  BY KeyedSubset
<1>2. /\ IdsOf(S) \in SUBSET Nat /\ IdsOf(T) \in SUBSET Nat
      /\ IsFiniteSet(IdsOf(T)) /\ IdsOf(S) \subseteq IdsOf(T)
  BY <1>1 DEF Keyed, IdsOf, Row, EntryId
<1>3. \A m \in IdsOf(T) \ IdsOf(S), n \in IdsOf(S) : n < m
  BY DEF IdsOf
<1>4. /\ Cardinality(IdsOf(S)) <= Cardinality(IdsOf(T))
      /\ \A i \in 1 .. Cardinality(IdsOf(S)) :
             Ascending(IdsOf(T))[i] = Ascending(IdsOf(S))[i]
  BY <1>2, <1>3, AscendingGrows
<1>5. /\ Len(ById(S)) = Cardinality(IdsOf(S)) /\ Len(ById(S)) \in Nat
      /\ Len(ById(T)) = Cardinality(IdsOf(T)) /\ Len(ById(T)) \in Nat
  BY <1>1, ByIdSorts
<1>6. ASSUME NEW i \in 1 .. Len(ById(S))
      PROVE  ById(T)[i] = ById(S)[i]
  <2>1. i \in 1 .. Len(ById(T))
    BY <1>4, <1>5
  <2>2. ById(S)[i] \in T /\ ById(T)[i] \in T
    BY <1>1, <2>1, ByIdSorts
  <2>3. ById(S)[i].entry_id = ById(T)[i].entry_id
    BY <1>1, <1>4, <1>5, <2>1, ByIdSorts
  <2>. QED  BY <2>2, <2>3 DEF Keyed
<1>. QED  BY <1>4, <1>5, <1>6

-----------------------------------------------------------------------------
(* The anchor jobs: the inductive invariant.                               *)

Anchor(S) == [range_from_id : Nat, range_to_id : Nat, merkle_root : S]
Tick(S) == [pc : {"max", "range", "leaves", "insert"},
            maxId : Nat, from : Nat, to : Nat, leaves : S]

\* Rows of anchors and locals of ticks are numbers beside leaves of some kind.
TypedBy(S) == anchors \in Seq(Anchor(S)) /\ job \in [Jobs -> Tick(S)]
JobsTyped == \E S : TypedBy(S)

\* Job j has its range and has not inserted it.
Ranged(j) == job[j].pc \in {"leaves", "insert"}

\* A range a tick has taken starts behind an anchor; behind the last one as long as
\* ticks do not overlap.
RangesFollow ==
    /\ \A j \in Jobs : Ranged(j) =>
        /\ job[j].from - 1 < job[j].to
        /\ \E k \in 0 .. Len(anchors) : job[j].from - 1 = RangeEnd(anchors, k)
        /\ ~raced => job[j].from - 1 = RangeEnd(anchors, Len(anchors))
    /\ ~raced => \A j, k \in Jobs : Ranged(j) /\ Ranged(k) => j = k

\* No range, anchored or taken, goes past the committed rows.
WithinChain ==
    /\ \A i \in DOMAIN anchors : anchors[i].range_to_id \in EntryIds
    /\ \A j \in Jobs : job[j].pc # "max" => job[j].maxId \in EntryIds
    /\ \A j \in Jobs : Ranged(j) => job[j].to = job[j].maxId

JInv ==
    /\ IInv
    /\ JobsTyped
    /\ raced \in BOOLEAN
    /\ AnchorsTile
    /\ RangesFollow
    /\ WithinChain

-----------------------------------------------------------------------------
(* Operators.                                                              *)

\* The largest id is the id of the last row: rows are committed in id order.
LEMMA MaxIsLast ==
    ASSUME IInv, Rows # {}
    PROVE  MaxEntryID \in EntryIds /\ MaxEntryID \in Nat \ {0}
<1>1. entries \in Seq(Row) /\ entries # << >>
  BY RowsOfEntries DEF IInv, TypeOK
<1>2. Len(entries) \in DOMAIN entries /\ DOMAIN entries = 1 .. Len(entries)
  BY <1>1, LenProperties, EmptySeq
<1>. DEFINE last == entries[Len(entries)].entry_id
<1>3. last \in EntryIds /\ last \in Nat
  BY <1>1, <1>2, RowsOfEntries, RowFields DEF EntryIds
<1>4. \A m \in EntryIds : m <= last
  <2>. TAKE m \in EntryIds
  <2>1. PICK i \in DOMAIN entries : m = entries[i].entry_id
    BY RowsOfEntries DEF EntryIds
  <2>2. m \in Nat
    BY <1>1, <2>1, RowFields
  <2>3. CASE i = Len(entries)
    BY <2>1, <2>2, <2>3, <1>3
  <2>4. CASE i # Len(entries)
    <3>1. i < Len(entries)
      BY <1>2, <2>4, <1>1, LenProperties
    <3>. QED  BY <1>2, <1>3, <2>1, <2>2, <3>1 DEF IInv, IdsAscend
  <2>. QED  BY <2>3, <2>4
<1>5. MaxEntryID \in EntryIds
  BY <1>3, <1>4 DEF MaxEntryID
<1>6. \A n \in EntryIds : n \in Nat \ {0}
  BY <1>1, RowsOfEntries, RowFields DEF EntryIds
<1>. QED  BY <1>5, <1>6

\* What one more anchor does to those there are.
LEMMA AppendAnchor ==
    ASSUME NEW S, anchors \in Seq(Anchor(S)), NEW a \in Anchor(S),
           anchors' = Append(anchors, a)
    PROVE  /\ anchors' \in Seq(Anchor(S))
           /\ Len(anchors) \in Nat
           /\ DOMAIN anchors = 1 .. Len(anchors)
           /\ Len(anchors') = Len(anchors) + 1
           /\ DOMAIN anchors' = 1 .. Len(anchors) + 1
           /\ \A i \in 1 .. Len(anchors) : anchors'[i] = anchors[i]
           /\ anchors'[Len(anchors) + 1] = a
           /\ RangeEnd(anchors', Len(anchors) + 1) = a.range_to_id
           /\ \A k \in 0 .. Len(anchors) : RangeEnd(anchors', k) = RangeEnd(anchors, k)
<1>1. /\ anchors' \in Seq(Anchor(S))
      /\ Len(anchors) \in Nat
      /\ DOMAIN anchors = 1 .. Len(anchors)
      /\ Len(anchors') = Len(anchors) + 1
      /\ DOMAIN anchors' = 1 .. Len(anchors) + 1
      /\ \A i \in 1 .. Len(anchors) : anchors'[i] = anchors[i]
      /\ anchors'[Len(anchors) + 1] = a
  BY AppendProperties, LenProperties
<1>. QED  BY <1>1 DEF RangeEnd

\* Leaves of a kind are leaves of any kind that includes it.
LEMMA Widen ==
    ASSUME NEW S, NEW T, S \subseteq T, TypedBy(S)
    PROVE  TypedBy(T)
<1>1. Anchor(S) \subseteq Anchor(T)
  BY DEF Anchor
<1>3. anchors \in Seq(Anchor(T))
  BY <1>1, SeqMonotonic DEF TypedBy
<1>2. job \in [Jobs -> Tick(T)]
  BY DEF TypedBy, Tick
<1>. QED  BY <1>2, <1>3 DEF TypedBy

-----------------------------------------------------------------------------
(* Steps.                                                                  *)

\* The chain's invariant does not depend on how many faults the jobs had.
LEMMA ChainKeeps == IInv /\ [AnchorNext]_allVars => IInv'
<1>. SUFFICES ASSUME IInv, [AnchorNext]_allVars
              PROVE  IInv'
  OBVIOUS
<1>1. CASE [Next]_vars
  BY <1>1, IInvInductive
<1>2. CASE UNCHANGED vars
  BY <1>2, IInvInductive
<1>3. ASSUME NEW j \in Jobs, JobFail(j)
      PROVE  IInv'
  <2>1. UNCHANGED <<entries, seq, lock, pc, ev, prev, newId, acked>>
    BY <1>3 DEF JobFail, txVars
  <2>2. faults' \in 0 .. MaxFaults
    BY <1>3, MaxFaultsAssumption DEF JobFail, IInv, TypeOK
  <2>. QED
    BY <2>1, <2>2
       DEF IInv, TypeOK, LockHeld, FreshEvent, BusyHasEvent, PrevIsTip, TipHash,
           IdsAscend, LinkedInCommitOrder, AckedInChain
<1>. QED
  BY <1>1, <1>2, <1>3
     DEF AnchorNext, allVars, Job, JobMaxId, JobRange, JobLeaves, JobInsert

\* A step keeps every row, and the rows it adds have larger ids.
LEMMA RowsOnlyGrow ==
    ASSUME IInv, [AnchorNext]_allVars
    PROVE  /\ Rows \subseteq Rows'
           /\ \A r \in Rows' \ Rows, s \in Rows : s.entry_id < r.entry_id
<1>1. CASE entries' = entries
  BY <1>1 DEF Rows
<1>2. CASE entries' # entries
  <2>1. [Next]_vars
    BY <1>2 DEF AnchorNext, allVars, vars, Job, JobMaxId, JobRange, JobLeaves,
                JobInsert, JobFail
  <2>2. \A r \in Rows' \ Rows, s \in Rows : s.entry_id < r.entry_id
    BY <2>1, NewRowIsLast DEF Rows
  <2>3. PICK a \in Appenders : pc[a] = "inserted" /\ entries' = Append(entries, NewRow(a))
    BY <1>2, <2>1, RowsGrow
  <2>4. NewRow(a) \in Row /\ entries \in Seq(Row)
    BY <2>3, NewRowType DEF IInv, TypeOK
  <2>5. /\ DOMAIN entries \subseteq DOMAIN entries'
        /\ \A i \in DOMAIN entries : entries'[i] = entries[i]
    BY <2>3, <2>4, AppendRow
  <2>. QED  BY <2>2, <2>5 DEF Rows, Range
<1>. QED  BY <1>1, <1>2

\* No id disappears.
LEMMA RowsKept ==
    ASSUME IInv, [AnchorNext]_allVars
    PROVE  EntryIds \subseteq EntryIds'
BY RowsOnlyGrow DEF EntryIds

\* A page read again after a step is the same page, or a longer one.
LEMMA PagesGrow ==
    ASSUME IInv, [AnchorNext]_allVars, NEW after \in Nat, NEW filter
    PROVE  IsPrefix(List(after, PageLimit, filter), List(after, PageLimit, filter)')
<1>. DEFINE S == {r \in Rows : r.entry_id > after /\ r.entry_uuid \in filter}
            T == {r \in Rows' : r.entry_id > after /\ r.entry_uuid \in filter}
            old == List(after, PageLimit, filter)
            new == List(after, PageLimit, filter)'
<1>1. IInv' /\ Keyed(Rows')
  <2>1. IInv'
    BY ChainKeeps
  <2>2. (IInv => Keyed(Rows))'
    BY RowsAreKeyed, PTL
  <2>. QED  BY <2>1, <2>2
<1>2. Keyed(Rows) /\ Keyed(S) /\ Keyed(T)
  BY <1>1, RowsAreKeyed, KeyedSubset
<1>3. S \subseteq T /\ \A t \in T \ S, s \in S : s.entry_id < t.entry_id
  BY RowsOnlyGrow
<1>4. old = FirstOf(ById(S), PageLimit) /\ new = FirstOf(ById(T), PageLimit)
  BY DEF List, ById, FirstOf, Ascending, Rank
<1>5. /\ Len(ById(S)) <= Len(ById(T))
      /\ \A i \in 1 .. Len(ById(S)) : ById(T)[i] = ById(S)[i]
  BY <1>2, <1>3, ByIdGrows
<1>6. /\ ById(S) \in Seq(S) /\ Len(ById(S)) \in Nat
      /\ ById(T) \in Seq(T) /\ Len(ById(T)) \in Nat
      /\ PageLimit \in Nat
  BY <1>2, ByIdSorts, PageLimitAssumption
<1>. HIDE DEF S, T, old, new
<1>7. /\ old \in Seq(S) /\ new \in Seq(T)
      /\ Len(old) = IF Len(ById(S)) < PageLimit THEN Len(ById(S)) ELSE PageLimit
      /\ Len(new) = IF Len(ById(T)) < PageLimit THEN Len(ById(T)) ELSE PageLimit
      /\ \A i \in 1 .. Len(old) : i \in 1 .. Len(ById(S)) /\ old[i] = ById(S)[i]
      /\ \A i \in 1 .. Len(new) : i \in 1 .. Len(ById(T)) /\ new[i] = ById(T)[i]
  BY <1>4, <1>6, FirstRows
<1>8. Len(old) \in Nat /\ Len(new) \in Nat /\ Len(old) <= Len(new)
  BY <1>5, <1>6, <1>7
<1>9. \A i \in 1 .. Len(old) : i \in 1 .. Len(new) /\ new[i] = old[i]
  BY <1>5, <1>7, <1>8
<1>10. \A i \in 1 .. Len(old) : old[i] \in T /\ new[i] \in T
  BY <1>7, <1>9, ElementOfSeq
<1>11. /\ SubSeq(old, 1, Len(old)) \in Seq(T) /\ SubSeq(new, 1, Len(old)) \in Seq(T)
       /\ Len(SubSeq(old, 1, Len(old))) = Len(old)
       /\ Len(SubSeq(new, 1, Len(old))) = Len(old)
       /\ \A i \in 1 .. Len(old) : SubSeq(old, 1, Len(old))[i] = old[i]
                                   /\ SubSeq(new, 1, Len(old))[i] = new[i]
  BY <1>8, <1>10, SubSeqProperties
<1>12. SubSeq(old, 1, Len(old)) = SubSeq(new, 1, Len(old))
  BY <1>9, <1>11, SeqEqual
<1>13. IsPrefix(old, new)
  BY <1>8, <1>12 DEF IsPrefix
<1>. QED  BY <1>13 DEF old, new

LEMMA KeepChainStep ==
    ASSUME JInv, [AnchorNext]_allVars, UNCHANGED anchorVars
    PROVE  JInv'
<1>1. IInv' /\ EntryIds \subseteq EntryIds'
  BY ChainKeeps, RowsKept DEF JInv
<1>2. anchors' = anchors /\ job' = job /\ raced' = raced
  BY DEF anchorVars
<1>3. JobsTyped'
  BY <1>2 DEF JInv, JobsTyped, TypedBy
<1>4. AnchorsTile' /\ RangesFollow'
  BY <1>2 DEF JInv, AnchorsTile, RangesFollow, Ranged, RangeEnd
<1>5. WithinChain'
  BY <1>1, <1>2 DEF JInv, WithinChain, Ranged
<1>. QED  BY <1>1, <1>2, <1>3, <1>4, <1>5 DEF JInv

\* A tick that ends, or restarts, without an insert: no range of its own is left.
LEMMA KeepEndTick ==
    ASSUME JInv, [AnchorNext]_allVars, UNCHANGED <<anchors, raced>>,
           NEW j \in Jobs, EndTick(j)
    PROVE  JInv'
<1>1. IInv' /\ EntryIds \subseteq EntryIds'
  BY ChainKeeps, RowsKept DEF JInv
<1>2. PICK S : TypedBy(S)
  BY DEF JInv, JobsTyped
<1>. DEFINE T == S \union {<< >>}
<1>3. TypedBy(T)
  BY <1>2, Widen
<1>4. job' = [job EXCEPT ![j] = Waiting] /\ Waiting \in Tick(T)
  BY DEF EndTick, Waiting, Tick
<1>5. job' \in [Jobs -> Tick(T)] /\ anchors' \in Seq(Anchor(T))
  BY <1>3, <1>4 DEF TypedBy
<1>6. \A k \in Jobs : job'[k] = IF k = j THEN Waiting ELSE job[k]
  BY <1>3, <1>4 DEF TypedBy
<1>7. \A k \in Jobs : job'[k].pc # "max" => job'[k] = job[k]
  BY <1>6 DEF Waiting
<1>8. \A k \in Jobs : job'[k].pc \in {"leaves", "insert"} => job'[k] = job[k]
  BY <1>7
<1>9. JobsTyped'
  BY <1>5 DEF JobsTyped, TypedBy
<1>10. AnchorsTile' /\ RangesFollow'
  BY <1>8 DEF JInv, AnchorsTile, RangesFollow, RangeEnd, Ranged
<1>11. WithinChain'
  BY <1>1, <1>7, <1>8 DEF JInv, WithinChain, Ranged
<1>. QED  BY <1>1, <1>9, <1>10, <1>11 DEF JInv

\* The other steps of a tick: a job takes a next value with typed fields.
LEMMA KeepJobMaxId ==
    ASSUME JInv, [AnchorNext]_allVars, NEW j \in Jobs, JobMaxId(j)
    PROVE  JInv'
<1>1. IInv' /\ EntryIds \subseteq EntryIds'
  BY ChainKeeps, RowsKept DEF JInv
<1>2. PICK S : TypedBy(S)
  BY DEF JInv, JobsTyped
<1>3. MaxEntryID \in EntryIds /\ MaxEntryID \in Nat
  <2>1. CASE Rows = {}
    BY <2>1 DEF JobMaxId, MaxEntryID
  <2>2. CASE Rows # {}
    BY <2>2, MaxIsLast DEF JInv
  <2>. QED  BY <2>1, <2>2
<1>4. /\ job' = [job EXCEPT ![j].pc = "range", ![j].maxId = MaxEntryID]
      /\ anchors' = anchors /\ raced' = raced
  BY DEF JobMaxId
<1>. DEFINE next == [job[j] EXCEPT !.pc = "range", !.maxId = MaxEntryID]
<1>5. next \in Tick(S) /\ next.pc = "range" /\ next.maxId = MaxEntryID
  BY <1>2, <1>3 DEF TypedBy, Tick
<1>6. job' \in [Jobs -> Tick(S)] /\ \A k \in Jobs : job'[k] = IF k = j THEN next ELSE job[k]
  BY <1>2, <1>4, <1>5 DEF TypedBy
<1>7. JobsTyped'
  BY <1>2, <1>4, <1>6 DEF JobsTyped, TypedBy
<1>. HIDE DEF next
<1>8. \A k \in Jobs : job'[k].pc \in {"leaves", "insert"} => job'[k] = job[k]
  BY <1>5, <1>6
<1>9. AnchorsTile' /\ RangesFollow'
  <2>1. AnchorsTile'
    BY <1>4 DEF JInv, AnchorsTile, RangeEnd
  <2>2. RangesFollow /\ anchors' = anchors /\ raced' = raced
    BY <1>4 DEF JInv
  <2>3. RangesFollow'
    BY <1>8, <2>2 DEF RangesFollow, RangeEnd, Ranged
  <2>. QED  BY <2>1, <2>3
<1>10. \A k \in Jobs : job'[k].pc # "max" => job'[k].maxId \in EntryIds'
  BY <1>1, <1>3, <1>5, <1>6 DEF JInv, WithinChain
<1>11. WithinChain'
  BY <1>1, <1>4, <1>8, <1>10 DEF JInv, WithinChain, Ranged
<1>. QED  BY <1>1, <1>4, <1>7, <1>9, <1>11 DEF JInv

LEMMA KeepTakeRange ==
    ASSUME JInv, [AnchorNext]_allVars, NEW j \in Jobs, At(j, "range"),
           NextFrom <= job[j].maxId, TakeRange(j), UNCHANGED anchors
    PROVE  JInv'
<1>1. IInv' /\ EntryIds \subseteq EntryIds'
  BY ChainKeeps, RowsKept DEF JInv
<1>2. PICK S : TypedBy(S)
  BY DEF JInv, JobsTyped
<1>. DEFINE next == [job[j] EXCEPT !.pc = "leaves", !.from = NextFrom,
                                   !.to = job[j].maxId]
<1>3. job[j] \in Tick(S) /\ job[j].pc = "range"
  BY <1>2 DEF TypedBy, At
<1>4. /\ Len(anchors) \in Nat /\ DOMAIN anchors = 1 .. Len(anchors)
      /\ \A i \in DOMAIN anchors : anchors[i] \in Anchor(S)
      /\ anchors = << >> <=> Len(anchors) = 0
  BY <1>2, LenProperties, ElementOfSeq, EmptySeq DEF TypedBy
<1>5. NextFrom \in Nat \ {0} /\ NextFrom - 1 = RangeEnd(anchors, Len(anchors))
  BY <1>4 DEF NextFrom, RangeEnd, Anchor, Last
<1>6. next \in Tick(S) /\ next.pc = "leaves" /\ next.from = NextFrom
      /\ next.to = job[j].maxId /\ next.maxId = job[j].maxId
  BY <1>3, <1>5 DEF Tick
<1>7. job' \in [Jobs -> Tick(S)] /\ \A k \in Jobs : job'[k] = IF k = j THEN next ELSE job[k]
  BY <1>2, <1>6 DEF TypedBy, TakeRange
<1>8. raced' = (raced \/ \E k \in Jobs \ {j} : Ranged(k))
  BY DEF TakeRange, Ranged
<1>9. JobsTyped' /\ raced' \in BOOLEAN
  BY <1>2, <1>7, <1>8 DEF JInv, JobsTyped, TypedBy
<1>10. AnchorsTile'
  BY <1>8 DEF JInv, AnchorsTile, RangeEnd
<1>11. \A k \in Jobs : Ranged(k)' <=> Ranged(k) \/ k = j
  BY <1>6, <1>7 DEF Ranged
<1>12. RangesFollow'
  <2>1. ASSUME NEW k \in Jobs, Ranged(k)'
        PROVE  /\ job'[k].from - 1 < job'[k].to
               /\ \E i \in 0 .. Len(anchors) : job'[k].from - 1 = RangeEnd(anchors, i)
               /\ ~raced' => job'[k].from - 1 = RangeEnd(anchors, Len(anchors))
    <3>1. CASE k = j
      <4>1. job'[k].from = NextFrom /\ job'[k].to = job[j].maxId
        BY <1>6, <1>7, <3>1
      <4>2. job[j].maxId \in Nat /\ NextFrom - 1 < job[j].maxId
        BY <1>3, <1>5 DEF Tick
      <4>3. Len(anchors) \in 0 .. Len(anchors)
        BY <1>4
      <4>. QED  BY <1>5, <4>1, <4>2, <4>3
    <3>2. CASE k # j
      BY <1>7, <1>8, <1>11, <2>1, <3>2 DEF JInv, RangesFollow
    <3>. QED  BY <3>1, <3>2
  <2>2. ~raced' => \A k, l \in Jobs : Ranged(k)' /\ Ranged(l)' => k = l
    BY <1>8, <1>11
  <2>. QED  BY <2>1, <2>2 DEF RangesFollow, RangeEnd
<1>13. WithinChain'
  BY <1>1, <1>3, <1>6, <1>7, <1>11 DEF JInv, WithinChain, Ranged
<1>. QED  BY <1>1, <1>9, <1>10, <1>12, <1>13 DEF JInv

LEMMA KeepJobLeaves ==
    ASSUME JInv, [AnchorNext]_allVars, NEW j \in Jobs, JobLeaves(j)
    PROVE  JInv'
<1>. DEFINE leaves == EntryHashRange(job[j].from, job[j].to)
<1>1. CASE leaves = << >>
  BY <1>1, KeepEndTick DEF JobLeaves
<1>2. CASE leaves # << >>
  <2>1. IInv' /\ EntryIds \subseteq EntryIds'
    BY ChainKeeps, RowsKept DEF JInv
  <2>2. PICK S : TypedBy(S)
    BY DEF JInv, JobsTyped
  <2>. DEFINE T == S \union {leaves}
              next == [job[j] EXCEPT !.pc = "insert", !.leaves = leaves]
  <2>3. TypedBy(T)
    BY <2>2, Widen
  <2>4. job' = [job EXCEPT ![j].pc = "insert", ![j].leaves = leaves]
        /\ anchors' = anchors /\ raced' = raced
    BY <1>2 DEF JobLeaves
  <2>5. job[j] \in Tick(T) /\ job[j].pc = "leaves" /\ leaves \in T
    BY <2>3 DEF TypedBy, JobLeaves, At
  <2>. HIDE DEF leaves, T
  <2>6. next \in Tick(T) /\ next.pc = "insert" /\ next.from = job[j].from
        /\ next.to = job[j].to /\ next.maxId = job[j].maxId
    BY <2>5 DEF Tick
  <2>7. job' \in [Jobs -> Tick(T)] /\ \A k \in Jobs : job'[k] = IF k = j THEN next ELSE job[k]
    BY <2>3, <2>4, <2>6 DEF TypedBy
  <2>8. JobsTyped'
    BY <2>3, <2>4, <2>7 DEF JobsTyped, TypedBy
  <2>. HIDE DEF next
  <2>9. ASSUME NEW k \in Jobs
        PROVE  /\ (job'[k].pc \in {"leaves", "insert"}) <=> (job[k].pc \in {"leaves", "insert"})
               /\ job'[k].pc # "max" => job[k].pc # "max"
               /\ job'[k].from = job[k].from
               /\ job'[k].to = job[k].to
               /\ job'[k].maxId = job[k].maxId
    <3>1. CASE k = j
      <4>1. job'[k] = next
        BY <2>7, <3>1
      <4>. QED  BY <2>5, <2>6, <3>1, <4>1
    <3>2. CASE k # j
      <4>1. job'[k] = job[k]
        BY <2>7, <3>2
      <4>. QED  BY <4>1
    <3>. QED  BY <3>1, <3>2
  <2>10. AnchorsTile'
    BY <2>4 DEF JInv, AnchorsTile, RangeEnd
  <2>11. RangesFollow'
    <3>1. \A k \in Jobs : Ranged(k)' <=> Ranged(k)
      BY <2>9 DEF Ranged
    <3>2. \A k \in Jobs : job'[k].from = job[k].from /\ job'[k].to = job[k].to
      BY <2>9
    <3>3. \A k : RangeEnd(anchors', k) = RangeEnd(anchors, k)
      BY <2>4
    <3>4. RangesFollow /\ Len(anchors') = Len(anchors)
      BY <2>4 DEF JInv
    <3>. QED  BY <2>4, <3>1, <3>2, <3>3, <3>4 DEF RangesFollow
  <2>12. WithinChain'
    BY <2>1, <2>4, <2>9 DEF JInv, WithinChain, Ranged
  <2>. QED  BY <2>1, <2>4, <2>8, <2>10, <2>11, <2>12 DEF JInv
<1>. QED  BY <1>1, <1>2

\* The insert: the new range starts where its tick found the last anchor's end,
\* which is still the last one unless another tick came in between.
LEMMA KeepJobInsert ==
    ASSUME JInv, [AnchorNext]_allVars, NEW j \in Jobs, JobInsert(j)
    PROVE  JInv'
<1>. DEFINE a == [range_from_id |-> job[j].from, range_to_id |-> job[j].to,
                  merkle_root |-> job[j].leaves]
            n == Len(anchors)
<1>1. IInv' /\ EntryIds \subseteq EntryIds'
  BY ChainKeeps, RowsKept DEF JInv
<1>2. PICK S : TypedBy(S)
  BY DEF JInv, JobsTyped
<1>. DEFINE T == S \union {<< >>}
<1>3. TypedBy(T)
  BY <1>2, Widen
<1>4. Ranged(j) /\ a \in Anchor(T) /\ anchors' = Append(anchors, a) /\ raced' = raced
  BY <1>3 DEF TypedBy, Tick, Anchor, JobInsert, At, Ranged
<1>5. anchors \in Seq(Anchor(T))
  BY <1>3 DEF TypedBy
<1>6. /\ anchors' \in Seq(Anchor(T))
      /\ n \in Nat /\ DOMAIN anchors = 1 .. n /\ DOMAIN anchors' = 1 .. n + 1
      /\ Len(anchors') = n + 1
      /\ \A i \in 1 .. n : anchors'[i] = anchors[i]
      /\ anchors'[n + 1] = a
      /\ RangeEnd(anchors', n + 1) = a.range_to_id
      /\ \A k \in 0 .. n : RangeEnd(anchors', k) = RangeEnd(anchors, k)
  BY <1>4, <1>5, AppendAnchor
<1>7. Waiting \in Tick(T) /\ job' = [job EXCEPT ![j] = Waiting]
  BY DEF JobInsert, EndTick, Waiting, Tick
<1>8. job' \in [Jobs -> Tick(T)] /\ \A k \in Jobs : job'[k] = IF k = j THEN Waiting ELSE job[k]
  BY <1>3, <1>7 DEF TypedBy
<1>9. JobsTyped'
  BY <1>6, <1>8 DEF JobsTyped, TypedBy
<1>10. \A k \in Jobs : job'[k].pc # "max" => k # j /\ job'[k] = job[k]
  BY <1>8 DEF Waiting
<1>11. \A k \in Jobs : job'[k].pc \in {"leaves", "insert"} => k # j /\ Ranged(k) /\ job'[k] = job[k]
  BY <1>10 DEF Ranged
<1>12. /\ a.range_from_id - 1 < a.range_to_id
       /\ \E k \in 0 .. n : a.range_from_id - 1 = RangeEnd(anchors, k)
       /\ ~raced => a.range_from_id - 1 = RangeEnd(anchors, n)
  BY <1>4 DEF JInv, RangesFollow
<1>. HIDE DEF a, n
<1>13. AnchorsTile'
  <2>. SUFFICES ASSUME NEW i \in 1 .. n + 1
                PROVE  LET before == anchors'[i].range_from_id - 1
                       IN  /\ before < anchors'[i].range_to_id
                           /\ \E k \in 0 .. i - 1 : before = RangeEnd(anchors', k)
                           /\ ~raced => before = RangeEnd(anchors', i - 1)
    BY <1>4, <1>6 DEF AnchorsTile, RangeEnd
  <2>1. CASE i = n + 1
    BY <1>6, <1>12, <2>1
  <2>2. CASE i \in 1 .. n
    <3>1. anchors'[i] = anchors[i] /\ i \in DOMAIN anchors
      BY <1>6, <2>2
    <3>2. \A k \in 0 .. i - 1 : RangeEnd(anchors', k) = RangeEnd(anchors, k)
      BY <1>6, <2>2
    <3>. QED  BY <2>2, <3>1, <3>2, <1>6 DEF JInv, AnchorsTile
  <2>. QED  BY <1>6, <2>1, <2>2
<1>14. RangesFollow'
  <2>1. ASSUME NEW k \in Jobs, job'[k].pc \in {"leaves", "insert"}
        PROVE  /\ job'[k].from - 1 < job'[k].to
               /\ \E i \in 0 .. n + 1 : job'[k].from - 1 = RangeEnd(anchors', i)
               /\ raced
    <3>1. k # j /\ Ranged(k) /\ job'[k] = job[k]
      BY <1>11, <2>1
    <3>2. PICK i \in 0 .. n : job[k].from - 1 = RangeEnd(anchors, i)
      BY <3>1 DEF JInv, RangesFollow, n
    <3>3. raced
      BY <1>4, <3>1 DEF JInv, RangesFollow
    <3>4. i \in 0 .. n + 1 /\ job'[k].from - 1 = RangeEnd(anchors', i)
      BY <1>6, <3>1, <3>2
    <3>. QED  BY <3>1, <3>3, <3>4 DEF JInv, RangesFollow
  <2>2. ASSUME NEW k \in Jobs, job'[k].pc \in {"leaves", "insert"}, ~raced
        PROVE  FALSE
    BY <2>1, <2>2
  <2>. QED  BY <1>4, <1>6, <2>1, <2>2 DEF RangesFollow, Ranged, RangeEnd
<1>15. WithinChain'
  <2>1. a.range_to_id \in EntryIds
    BY <1>4 DEF JInv, WithinChain, Ranged, a
  <2>2. \A i \in DOMAIN anchors' : anchors'[i].range_to_id \in EntryIds
    BY <1>6, <2>1 DEF JInv, WithinChain
  <2>. QED  BY <1>1, <1>10, <1>11, <2>2 DEF JInv, WithinChain, Ranged
<1>. QED  BY <1>1, <1>4, <1>9, <1>13, <1>14, <1>15 DEF JInv

-----------------------------------------------------------------------------
(* The leaves of a range.                                                  *)

\* EntryHashRange over some rows.
LeavesOf(R, f, t) ==
    LET rows == ById({r \in R : f <= r.entry_id /\ r.entry_id <= t})
    IN  [i \in DOMAIN rows |-> rows[i].entry_hash]

\* A tick has no range before it takes one, and carries the leaves of its range, as
\* they are in some rows, from their query to the insert.
TickReads(tick, R) ==
    /\ IF tick.pc \in {"leaves", "insert"} THEN tick.from \in EntryId ELSE tick.to = 0
    /\ IF tick.pc = "insert"
       THEN tick.leaves = LeavesOf(R, tick.from, tick.to) /\ tick.leaves # << >>
       ELSE tick.leaves = << >>

\* The root of an anchor, and the leaves a tick carries to one, are those its range
\* has now.
RootsRead ==
    /\ \A i \in DOMAIN anchors :
        /\ anchors[i].range_from_id \in EntryId
        /\ anchors[i].merkle_root =
             LeavesOf(Rows, anchors[i].range_from_id, anchors[i].range_to_id)
    /\ \A j \in Jobs : TickReads(job[j], Rows)

LEMMA LeavesOfRange ==
    \A f, t : EntryHashRange(f, t) = LeavesOf(Rows, f, t)
BY DEF EntryHashRange, Between, LeavesOf

\* No step changes the leaves of a range that ends at a row.
LEMMA LeavesStay ==
    ASSUME IInv, [AnchorNext]_allVars, NEW f \in Nat, NEW t \in EntryIds
    PROVE  LeavesOf(Rows', f, t) = LeavesOf(Rows, f, t)
<1>1. Rows \subseteq Rows' /\ \A r \in Rows' \ Rows, s \in Rows : s.entry_id < r.entry_id
  BY RowsOnlyGrow
<1>2. Keyed(Rows')
  <2>1. IInv'
    BY ChainKeeps
  <2>2. (IInv => Keyed(Rows))'
    BY RowsAreKeyed, PTL
  <2>. QED  BY <2>1, <2>2
<1>3. \A r \in Rows' : r.entry_id \in Nat
  BY <1>2 DEF Keyed, Row, EntryId
<1>4. PICK s \in Rows : s.entry_id = t
  BY DEF EntryIds
<1>5. \A r \in Rows' : r.entry_id <= t => r \in Rows
  BY <1>1, <1>3, <1>4
<1>6. {r \in Rows' : f <= r.entry_id /\ r.entry_id <= t}
        = {r \in Rows : f <= r.entry_id /\ r.entry_id <= t}
  BY <1>1, <1>5
<1>. QED  BY <1>6 DEF LeavesOf

\* The ids of a range are numbers, and there is a row at its end.
LEMMA RangesAreTyped ==
    ASSUME JInv
    PROVE  /\ \A n \in EntryIds : n \in EntryId
           /\ DOMAIN anchors = 1 .. Len(anchors) /\ Len(anchors) \in Nat
           /\ \A i \in DOMAIN anchors :
                /\ anchors[i].range_from_id \in Nat
                /\ anchors[i].range_to_id \in EntryIds
           /\ \A j \in Jobs : /\ job[j].pc \in {"max", "range", "leaves", "insert"}
                              /\ job[j].from \in Nat
                              /\ Ranged(j) => job[j].to \in EntryIds
<1>1. PICK S : TypedBy(S)
  BY DEF JInv, JobsTyped
<1>2. \A n \in EntryIds : n \in EntryId
  BY RowsAreKeyed DEF JInv, EntryIds, Keyed, Row
<1>3. /\ DOMAIN anchors = 1 .. Len(anchors) /\ Len(anchors) \in Nat
      /\ \A i \in DOMAIN anchors : anchors[i] \in Anchor(S)
  BY <1>1, LenProperties, ElementOfSeq DEF TypedBy
<1>4. \A j \in Jobs : job[j] \in Tick(S)
  BY <1>1 DEF TypedBy
<1>5. \A j \in Jobs : Ranged(j) => job[j].to \in EntryIds
  BY DEF JInv, WithinChain, Ranged
<1>. QED  BY <1>2, <1>3, <1>4, <1>5 DEF JInv, WithinChain, Anchor, Tick

\* Where the anchors stay, their roots do, and so do the leaves of the ticks that
\* are left alone.
LEMMA RootsStay ==
    ASSUME JInv, RootsRead, [AnchorNext]_allVars
    PROVE  /\ \A i \in DOMAIN anchors :
                anchors[i].merkle_root =
                  LeavesOf(Rows', anchors[i].range_from_id, anchors[i].range_to_id)
           /\ \A j \in Jobs : Ranged(j) =>
                LeavesOf(Rows', job[j].from, job[j].to) =
                LeavesOf(Rows, job[j].from, job[j].to)
<1>1. ASSUME NEW i \in DOMAIN anchors
      PROVE  anchors[i].merkle_root =
               LeavesOf(Rows', anchors[i].range_from_id, anchors[i].range_to_id)
  <2>1. PICK f \in Nat, t \in EntryIds :
          f = anchors[i].range_from_id /\ t = anchors[i].range_to_id
    BY RangesAreTyped
  <2>2. LeavesOf(Rows', f, t) = LeavesOf(Rows, f, t)
    BY LeavesStay DEF JInv
  <2>. QED  BY <2>1, <2>2 DEF RootsRead
<1>2. ASSUME NEW j \in Jobs, Ranged(j)
      PROVE  LeavesOf(Rows', job[j].from, job[j].to) =
             LeavesOf(Rows, job[j].from, job[j].to)
  <2>1. PICK f \in Nat, t \in EntryIds : f = job[j].from /\ t = job[j].to
    BY <1>2, RangesAreTyped
  <2>2. LeavesOf(Rows', f, t) = LeavesOf(Rows, f, t)
    BY LeavesStay DEF JInv
  <2>. QED  BY <2>1, <2>2
<1>. QED  BY <1>1, <1>2

\* The first range starts at 1 and every other one behind an id.
LEMMA NextFromIsId ==
    ASSUME JInv
    PROVE  NextFrom \in EntryId
<1>1. CASE anchors = << >>
  BY <1>1 DEF NextFrom, EntryId
<1>2. CASE anchors # << >>
  <2>1. PICK S : anchors \in Seq(Anchor(S))
    BY DEF JInv, JobsTyped, TypedBy
  <2>2. Len(anchors) \in DOMAIN anchors
    BY <1>2, <2>1, EmptySeq, LenProperties
  <2>3. Last(anchors).range_to_id \in Nat
    BY <2>2, RangesAreTyped DEF Last, EntryId
  <2>. QED  BY <1>2, <2>3 DEF NextFrom, EntryId
<1>. QED  BY <1>1, <1>2

\* What a step makes of the ticks.
LEMMA TicksRead ==
    ASSUME JInv, RootsRead, [AnchorNext]_allVars, NEW k \in Jobs
    PROVE  TickReads(job'[k], Rows')
<1>1. PICK S : job \in [Jobs -> Tick(S)]
  BY DEF JInv, JobsTyped, TypedBy
<1>2. job[k] \in Tick(S)
  BY <1>1
<1>3. TickReads(job[k], Rows) /\ TickReads(job[k], Rows')
  BY RootsStay DEF RootsRead, TickReads, Ranged
<1>4. \A j \in Jobs : EndTick(j) => job'[k] = job[k] \/ job'[k] = Waiting
  BY <1>1 DEF EndTick
<1>5. TickReads(Waiting, Rows')
  BY DEF TickReads, Waiting
<1>6. CASE job' = job
  BY <1>3, <1>6
<1>7. ASSUME NEW j \in Jobs, JobMaxId(j)
      PROVE  job'[k] = job[k] \/ TickReads(job'[k], Rows')
  <2>1. job'[k] = job[k] \/ k = j
    BY <1>1, <1>7 DEF JobMaxId
  <2>2. CASE k = j
    <3>1. job'[k] = [job[k] EXCEPT !.pc = "range", !.maxId = MaxEntryID] /\ job[k].pc = "max"
      BY <1>1, <1>7, <2>2 DEF JobMaxId, At
    <3>. QED  BY <1>2, <1>3, <3>1 DEF TickReads, Tick
  <2>. QED  BY <2>1, <2>2
<1>8. ASSUME NEW j \in Jobs, JobRange(j)
      PROVE  job'[k] = job[k] \/ TickReads(job'[k], Rows')
  <2>1. CASE EndTick(j)
    BY <1>4, <1>5, <2>1
  <2>2. CASE TakeRange(j)
    <3>1. job'[k] = job[k] \/ k = j
      BY <1>1, <2>2 DEF TakeRange
    <3>2. CASE k = j
      <4>1. /\ job'[k] = [job[k] EXCEPT !.pc = "leaves", !.from = NextFrom,
                                        !.to = job[k].maxId]
            /\ job[k].pc = "range"
        BY <1>1, <1>8, <2>2, <3>2 DEF JobRange, TakeRange, At
      <4>. QED  BY <1>2, <1>3, <4>1, NextFromIsId DEF TickReads, Tick
    <3>. QED  BY <3>1, <3>2
  <2>. QED  BY <1>8, <2>1, <2>2 DEF JobRange
<1>9. ASSUME NEW j \in Jobs, JobLeaves(j)
      PROVE  job'[k] = job[k] \/ TickReads(job'[k], Rows')
  <2>. DEFINE leaves == EntryHashRange(job[j].from, job[j].to)
  <2>1. CASE EndTick(j)
    BY <1>4, <1>5, <2>1
  <2>2. CASE leaves # << >> /\ job' = [job EXCEPT ![j].pc = "insert", ![j].leaves = leaves]
    <3>1. job'[k] = job[k] \/ k = j
      BY <1>1, <2>2
    <3>2. CASE k = j
      <4>1. /\ leaves = LeavesOf(Rows, job[k].from, job[k].to)
            /\ job[k].pc = "leaves"
        BY <1>9, <3>2, LeavesOfRange DEF JobLeaves, At
      <4>. HIDE DEF leaves
      <4>2. job'[k] = [job[k] EXCEPT !.pc = "insert", !.leaves = leaves]
        BY <1>1, <2>2, <3>2
      <4>3. /\ job'[k].pc = "insert" /\ job'[k].leaves = leaves
            /\ job'[k].from = job[k].from /\ job'[k].to = job[k].to
        BY <1>2, <4>2 DEF Tick
      <4>4. leaves = LeavesOf(Rows', job[k].from, job[k].to)
        BY <4>1, RootsStay DEF Ranged
      <4>. QED  BY <1>3, <2>2, <4>1, <4>3, <4>4 DEF TickReads
    <3>. QED  BY <3>1, <3>2
  <2>. QED  BY <1>9, <2>1, <2>2 DEF JobLeaves
<1>10. ASSUME NEW j \in Jobs, JobInsert(j) \/ JobFail(j)
       PROVE  job'[k] = job[k] \/ TickReads(job'[k], Rows')
  BY <1>4, <1>5, <1>10 DEF JobInsert, JobFail
<1>11. job' = job \/ \E j \in Jobs : Job(j) \/ JobFail(j)
  BY DEF AnchorNext, allVars, anchorVars
<1>. QED  BY <1>3, <1>6, <1>7, <1>8, <1>9, <1>10, <1>11 DEF Job

LEMMA RootsReadInductive ==
    ASSUME JInv, RootsRead, [AnchorNext]_allVars
    PROVE  RootsRead'
<1>1. \A k \in Jobs : TickReads(job'[k], Rows')
  BY TicksRead
<1>2. CASE UNCHANGED anchors
  BY <1>1, <1>2, RootsStay DEF RootsRead
<1>3. ASSUME NEW j \in Jobs, JobInsert(j)
      PROVE  RootsRead'
  <2>. DEFINE a == [range_from_id |-> job[j].from, range_to_id |-> job[j].to,
                    merkle_root |-> job[j].leaves]
              n == Len(anchors)
  <2>1. PICK S : TypedBy(S)
    BY DEF JInv, JobsTyped
  <2>2. a \in Anchor(S) /\ anchors' = Append(anchors, a) /\ Ranged(j) /\ job[j].pc = "insert"
    BY <1>3, <2>1 DEF TypedBy, Tick, Anchor, JobInsert, At, Ranged
  <2>3. /\ a.range_from_id \in EntryId
        /\ a.merkle_root = LeavesOf(Rows', a.range_from_id, a.range_to_id)
    BY <2>2, RootsStay DEF RootsRead, TickReads, Ranged
  <2>. HIDE DEF a
  <2>4. /\ DOMAIN anchors = 1 .. n /\ n \in Nat /\ DOMAIN anchors' = 1 .. n + 1
        /\ \A i \in 1 .. n : anchors'[i] = anchors[i]
        /\ anchors'[n + 1] = a
    BY <2>1, <2>2, AppendAnchor DEF TypedBy
  <2>5. ASSUME NEW i \in DOMAIN anchors'
        PROVE  /\ anchors'[i].range_from_id \in EntryId
               /\ anchors'[i].merkle_root =
                    LeavesOf(Rows', anchors'[i].range_from_id, anchors'[i].range_to_id)
    <3>1. CASE i = n + 1
      BY <2>3, <2>4, <3>1
    <3>2. CASE i \in DOMAIN anchors
      BY <2>4, <3>2, RootsStay DEF RootsRead
    <3>. QED  BY <2>4, <3>1, <3>2
  <2>. QED  BY <1>1, <2>5 DEF RootsRead
<1>. QED
  BY <1>2, <1>3
     DEF AnchorNext, allVars, anchorVars, Job, JobMaxId, JobRange, JobLeaves, JobFail

\* The place of a row among the rows of a range that contains it is one more than
\* the number of rows before it.
LEMMA PositionOfRow ==
    ASSUME IInv, NEW f \in Nat, NEW t \in Nat, NEW r \in Range(Between(f, t))
    PROVE  /\ Len(Between(f, r.entry_id - 1)) \in Nat
           /\ Len(Between(f, r.entry_id - 1)) + 1 \in 1 .. Len(Between(f, t))
           /\ Between(f, t)[Len(Between(f, r.entry_id - 1)) + 1] = r
<1>. DEFINE S == {s \in Rows : f <= s.entry_id /\ s.entry_id <= t}
            T == {s \in Rows : f <= s.entry_id /\ s.entry_id <= r.entry_id - 1}
            id == r.entry_id
<1>1. Keyed(Rows) /\ Keyed(S) /\ Keyed(T)
  BY RowsAreKeyed, KeyedSubset
<1>2. r \in S
  BY <1>1, ByIdRows DEF Between
<1>3. \A s \in Rows : s.entry_id \in Nat
  BY <1>1 DEF Keyed, Row, EntryId
<1>4. id \in Nat /\ f <= id /\ id <= t
  BY <1>2, <1>3
<1>5. {m \in IdsOf(S) : m <= id} = IdsOf(T) \union {id} /\ id \notin IdsOf(T)
  BY <1>2, <1>3, <1>4 DEF IdsOf
<1>6. Rank(IdsOf(S), id) = Cardinality(IdsOf(T)) + 1
  BY <1>1, <1>5, FS_AddElement DEF Rank, Keyed
<1>7. Len(Between(f, id - 1)) = Cardinality(IdsOf(T)) /\ Len(Between(f, id - 1)) \in Nat
  BY <1>1, ByIdSorts DEF Between
<1>8. /\ Rank(IdsOf(S), id) \in 1 .. Len(Between(f, t))
      /\ Between(f, t)[Rank(IdsOf(S), id)] = r
  BY <1>1, <1>2, ByIdSorts DEF Between
<1>. QED  BY <1>6, <1>7, <1>8

LEMMA InvProofsVerify == JInv /\ RootsRead => ProofsVerify
<1>. SUFFICES ASSUME JInv, RootsRead, NEW i \in DOMAIN anchors,
                     NEW r \in Range(Between(anchors[i].range_from_id,
                                             anchors[i].range_to_id))
              PROVE  InclusionProof(anchors[i], r.entry_id)
                       = [leaf_hash |-> r.entry_hash, tree |-> anchors[i].merkle_root]
  BY DEF ProofsVerify
<1>. DEFINE f == anchors[i].range_from_id
            t == anchors[i].range_to_id
            current == EntryHashRange(f, t)
            pos == EntryIDPosition(f, r.entry_id)
<1>1. f \in Nat /\ t \in Nat /\ IInv
  BY RangesAreTyped DEF EntryId, JInv
<1>2. current = anchors[i].merkle_root
  BY LeavesOfRange DEF RootsRead
<1>3. pos \in Nat /\ pos + 1 \in 1 .. Len(Between(f, t)) /\ Between(f, t)[pos + 1] = r
  BY <1>1, PositionOfRow DEF EntryIDPosition
<1>4. DOMAIN Between(f, t) = 1 .. Len(Between(f, t)) /\ Len(Between(f, t)) \in Nat
  BY <1>1, BetweenLinks
<1>5. current = [k \in 1 .. Len(Between(f, t)) |-> Between(f, t)[k].entry_hash]
  BY <1>4 DEF EntryHashRange
<1>6. Len(current) = Len(Between(f, t))
  BY <1>4, <1>5
<1>. HIDE DEF pos
<1>7. pos < Len(current) /\ current[pos + 1] = r.entry_hash
  BY <1>3, <1>4, <1>5, <1>6
<1>. QED  BY <1>2, <1>7 DEF InclusionProof, pos

LEMMA InvAnchorTypes == JInv /\ RootsRead => AnchorTypeOK
<1>. SUFFICES ASSUME JInv, RootsRead
              PROVE  AnchorTypeOK
  OBVIOUS
<1>1. PICK S : TypedBy(S)
  BY DEF JInv, JobsTyped
<1>2. ASSUME NEW f \in Nat, NEW t \in Nat
      PROVE  LeavesOf(Rows, f, t) \in Seq(Digest)
  <2>1. /\ DOMAIN Between(f, t) = 1 .. Len(Between(f, t)) /\ Len(Between(f, t)) \in Nat
        /\ \A i \in 1 .. Len(Between(f, t)) : Between(f, t)[i] \in Rows
    BY BetweenLinks DEF JInv
  <2>2. \A r \in Rows : r.entry_hash \in Digest
    BY RowsAreKeyed DEF JInv, Keyed, Row
  <2>3. LeavesOf(Rows, f, t)
          = [i \in 1 .. Len(Between(f, t)) |-> Between(f, t)[i].entry_hash]
    BY <2>1 DEF LeavesOf, Between
  <2>. QED  BY <2>1, <2>2, <2>3, IsASeq
<1>3. /\ anchors \in Seq(Anchor(S))
      /\ \A i \in DOMAIN anchors : anchors[i] \in Anchor(S)
      /\ DOMAIN anchors = 1 .. Len(anchors) /\ Len(anchors) \in Nat
  BY <1>1, LenProperties, ElementOfSeq DEF TypedBy
<1>. DEFINE A == [range_from_id : EntryId, range_to_id : EntryId, merkle_root : Seq(Digest)]
<1>4. \A i \in DOMAIN anchors : anchors[i] \in A
  <2>. SUFFICES ASSUME NEW i \in DOMAIN anchors
                PROVE  anchors[i] \in A
    OBVIOUS
  <2>1. anchors[i].range_from_id \in EntryId /\ anchors[i].range_to_id \in EntryId
    BY RangesAreTyped DEF RootsRead
  <2>2. anchors[i].merkle_root \in Seq(Digest)
    BY <1>2, <2>1 DEF RootsRead, EntryId
  <2>. QED  BY <1>3, <2>1, <2>2 DEF Anchor
<1>5. anchors \in Seq(A)
  <2>1. anchors = [i \in 1 .. Len(anchors) |-> anchors[i]]
    BY <1>3, LenProperties
  <2>. HIDE DEF A
  <2>2. anchors \in [1 .. Len(anchors) -> A]
    BY <1>3, <1>4, <2>1
  <2>. QED  BY <1>3, <2>2, SeqDef
<1>6. ASSUME NEW j \in Jobs
      PROVE  /\ job[j].pc \in {"max", "range", "leaves", "insert"}
             /\ job[j].pc \in {"leaves", "insert"} =>
                  1 <= job[j].from /\ job[j].from <= job[j].to
             /\ job[j].to \in {0, job[j].maxId}
             /\ (job[j].leaves = << >>) <=> (job[j].pc # "insert")
  <2>1. job[j].pc \in {"max", "range", "leaves", "insert"} /\ TickReads(job[j], Rows)
    BY RangesAreTyped DEF RootsRead
  <2>2. ASSUME Ranged(j)
        PROVE  1 <= job[j].from /\ job[j].from <= job[j].to /\ job[j].to = job[j].maxId
    <3>1. job[j].from \in EntryId /\ job[j].to \in EntryId
      BY <2>1, <2>2, RangesAreTyped DEF TickReads, Ranged
    <3>2. job[j].from - 1 < job[j].to /\ job[j].to = job[j].maxId
      BY <2>2 DEF JInv, RangesFollow, WithinChain
    <3>. QED  BY <3>1, <3>2 DEF EntryId
  <2>. QED  BY <2>1, <2>2 DEF TickReads, Ranged
<1>. QED  BY <1>5, <1>6 DEF AnchorTypeOK, JInv, IInv

-----------------------------------------------------------------------------
(* The trees of a growing range.                                            *)

\* The leaves of AuditMerkle are 1, 2, ... in order.
InOrder ==
    /\ Len(leafHexes) \in Nat /\ Len(leafHexes) <= MaxLeaves
    /\ leafHexes = [i \in 1 .. Len(leafHexes) |-> i]

LEMMA InOrderGrows ==
    ASSUME InOrder, AddLeaf
    PROVE  InOrder' /\ Distinct(leafHexes')
<1>. DEFINE n == Len(leafHexes)
<1>1. n \in Nat /\ n < MaxLeaves /\ leafHexes' = Append(leafHexes, n + 1)
  BY DEF InOrder, AddLeaf
<1>2. leafHexes' = [i \in 1 .. n + 1 |-> i]
  BY <1>1 DEF InOrder
<1>. HIDE DEF n
<1>3. leafHexes' = [i \in 1 .. n + 1 |-> leafHexes'[i]]
  BY <1>2
<1>4. Len(leafHexes') = n + 1
  BY <1>1, <1>3, ListLen
<1>. QED  BY <1>1, <1>2, <1>3, <1>4, MaxLeavesAssumption DEF InOrder, Distinct, IsList

LEMMA InOrderAlways == MerkleSpec => []InOrder
<1>1. MerkleInit => InOrder
  BY MaxLeavesAssumption DEF MerkleInit, InOrder
<1>2. InOrder /\ [AddLeaf]_leafHexes => InOrder'
  BY InOrderGrows DEF InOrder
<1>. QED  BY <1>1, <1>2, PTL DEF MerkleSpec

LEMMA OtherListsAreDistinct ==
    ASSUME NEW s \in LeafLists
    PROVE  Distinct(s)
<1>1. PICK n \in EntryHashes : s \in [1 .. n -> EntryHashes]
  BY DEF LeafLists
<1>2. n \in Nat /\ n >= 1
  BY MaxLeavesAssumption DEF EntryHashes
<1>3. s = [i \in 1 .. n |-> s[i]]
  BY <1>1
<1>4. Len(s) = n /\ DOMAIN s = 1 .. n
  BY <1>2, <1>3, ListLen
<1>5. \A i, j \in 1 .. n : s[i] = s[j] => i = j
  BY <1>4 DEF LeafLists, IsInjective
<1>. QED  BY <1>2, <1>3, <1>4, <1>5 DEF Distinct, IsList

-----------------------------------------------------------------------------
(* The trees of the anchors.                                               *)

\* The hash of a row is as long as the chain up to it, so no two rows have one hash.
LEMMA HashesDiffer ==
    ASSUME IInv, NEW r \in Rows, NEW s \in Rows, r.entry_hash = s.entry_hash
    PROVE  r = s
<1>. DEFINE n == Len(entries)
            S == {k \in 0 .. n : k = 0 \/ Len(entries[k].entry_hash) = k}
<1>1. /\ entries \in Seq(Row) /\ n \in Nat /\ DOMAIN entries = 1 .. n
      /\ \A i \in 1 .. n : /\ entries[i].previous_hash \in Seq(Events)
                           /\ entries[i].entry_uuid \in Events
  <2>1. entries \in Seq(Row) /\ n \in Nat /\ DOMAIN entries = 1 .. n
    BY LenProperties DEF IInv, TypeOK
  <2>2. \A i \in 1 .. n : entries[i] \in Row
    BY <2>1, ElementOfSeq
  <2>. QED  BY <2>1, <2>2 DEF Row, Digest
<1>2. \A i \in 1 .. n :
        /\ entries[i].previous_hash =
             IF i = 1 THEN << >> ELSE entries[i - 1].entry_hash
        /\ entries[i].entry_hash = Append(entries[i].previous_hash, entries[i].entry_uuid)
  BY <1>1 DEF IInv, LinkedInCommitOrder, GenesisHash, Compute
<1>. HIDE DEF n
<1>3. ASSUME NEW k \in 0 .. n, k \in S, k < n
      PROVE  k + 1 \in S
  <2>1. k + 1 \in 1 .. n /\ k + 1 \in 0 .. n
    BY <1>1, <1>3
  <2>2. Len(entries[k + 1].previous_hash) = k
    <3>1. CASE k = 0
      BY <1>2, <2>1, <3>1, EmptySeq
    <3>2. CASE k # 0
      BY <1>2, <1>3, <2>1, <3>2
    <3>. QED  BY <3>1, <3>2
  <2>3. Len(entries[k + 1].entry_hash) = Len(entries[k + 1].previous_hash) + 1
    BY <1>1, <1>2, <2>1, AppendProperties
  <2>. QED  BY <2>1, <2>2, <2>3
<1>4. \A k \in 0 .. n : k \in S
  <2>1. 0 \in S /\ \A k \in 0 .. n : k \in S /\ k < n => k + 1 \in S
    BY <1>1, <1>3
  <2>. HIDE DEF S
  <2>. QED  BY <1>1, <2>1, UpTo, Zenon
<1>5. \A i \in 1 .. n : Len(entries[i].entry_hash) = i
  BY <1>1, <1>4
<1>. QED  BY <1>1, <1>5, RowsOfEntries

\* The leaves of a range with a row are distinct.
LEMMA LeavesAreDistinct ==
    ASSUME IInv, NEW f \in Nat, NEW t \in Nat,
           NEW r \in Rows, f <= r.entry_id, r.entry_id <= t
    PROVE  Distinct(LeavesOf(Rows, f, t))
<1>. DEFINE S == {s \in Rows : f <= s.entry_id /\ s.entry_id <= t}
            rows == ById(S)
            leaf == LeavesOf(Rows, f, t)
            n == Len(rows)
<1>1. Keyed(S) /\ S # {}
  BY RowsAreKeyed, KeyedSubset
<1>2. /\ n \in Nat /\ n # 0 /\ DOMAIN rows = 1 .. n
      /\ \A i \in 1 .. n : rows[i] \in S /\ rows[i].entry_id \in Nat
      /\ \A i, j \in 1 .. n : i < j => rows[i].entry_id < rows[j].entry_id
  BY <1>1, ByIdSorts, ByIdRows
<1>3. leaf = [i \in 1 .. n |-> rows[i].entry_hash]
  BY <1>2 DEF LeavesOf
<1>4. \A i \in 1 .. n : rows[i] \in Rows
  BY <1>2
<1>. HIDE DEF rows, leaf, n, S
<1>5. leaf = [i \in 1 .. n |-> leaf[i]]
  BY <1>3
<1>6. Len(leaf) = n
  BY <1>2, <1>5, ListLen
<1>7. ASSUME NEW i \in 1 .. n, NEW j \in 1 .. n, leaf[i] = leaf[j]
      PROVE  i = j
  <2>1. rows[i] = rows[j]
    BY <1>3, <1>4, <1>7, HashesDiffer
  <2>2. ~(i < j) /\ ~(j < i)
    BY <1>2, <2>1
  <2>. QED  BY <2>2
<1>. QED  BY <1>2, <1>5, <1>6, <1>7 DEF Distinct, IsList, leaf

\* What anchorProofHandler answers with, tree and all: the proof for a row verifies
\* against the published root for the hash of that row and for nothing else, and a
\* root is that of one list of rows only.
TreeProofsVerify ==
    \A i \in DOMAIN anchors :
        LET a == anchors[i]
            root == ComputeMerkleRoot(a.merkle_root)
        IN  /\ \A r \in Range(Between(a.range_from_id, a.range_to_id)) :
                 LET pos == EntryIDPosition(a.range_from_id, r.entry_id)
                     steps == BuildInclusionProof(InclusionProof(a, r.entry_id).tree, pos)
                 IN  \A hash : VerifyInclusionProof(hash, steps, root)
                                  <=> hash = r.entry_hash
            /\ \A j \in DOMAIN anchors :
                 ComputeMerkleRoot(anchors[j].merkle_root) = root
                     => anchors[j].merkle_root = a.merkle_root

LEMMA InvTreeProofs == JInv /\ RootsRead => TreeProofsVerify
<1>. SUFFICES ASSUME JInv, RootsRead
              PROVE  TreeProofsVerify
  OBVIOUS
<1>1. ASSUME NEW i \in DOMAIN anchors
      PROVE  Distinct(anchors[i].merkle_root)
  <2>. DEFINE f == anchors[i].range_from_id
              t == anchors[i].range_to_id
  <2>1. f \in Nat /\ t \in EntryIds /\ t \in Nat
    BY RangesAreTyped DEF EntryId
  <2>2. f <= t
    BY <2>1 DEF JInv, AnchorsTile
  <2>3. PICK r \in Rows : r.entry_id = t
    BY <2>1 DEF EntryIds
  <2>4. anchors[i].merkle_root = LeavesOf(Rows, f, t)
    BY DEF RootsRead
  <2>. HIDE DEF f, t
  <2>. QED  BY <2>1, <2>2, <2>3, <2>4, LeavesAreDistinct DEF JInv
<1>2. ASSUME NEW i \in DOMAIN anchors, NEW hash,
             NEW r \in Range(Between(anchors[i].range_from_id, anchors[i].range_to_id))
      PROVE  VerifyInclusionProof(
                 hash,
                 BuildInclusionProof(
                     InclusionProof(anchors[i], r.entry_id).tree,
                     EntryIDPosition(anchors[i].range_from_id, r.entry_id)),
                 ComputeMerkleRoot(anchors[i].merkle_root))
             <=> hash = r.entry_hash
  <2>. DEFINE f == anchors[i].range_from_id
              t == anchors[i].range_to_id
              tree == anchors[i].merkle_root
              pos == EntryIDPosition(f, r.entry_id)
              rows == Between(f, t)
  <2>1. f \in Nat /\ t \in Nat /\ IInv
    BY RangesAreTyped DEF EntryId, JInv
  <2>2. InclusionProof(anchors[i], r.entry_id).tree = tree
    <3>1. InclusionProof(anchors[i], r.entry_id)
            = [leaf_hash |-> r.entry_hash, tree |-> anchors[i].merkle_root]
      BY InvProofsVerify, Zenon DEF ProofsVerify
    <3>. QED  BY <3>1
  <2>3. pos \in Nat /\ pos + 1 \in 1 .. Len(rows) /\ rows[pos + 1] = r
    BY <2>1, PositionOfRow DEF EntryIDPosition
  <2>4. DOMAIN rows = 1 .. Len(rows) /\ Len(rows) \in Nat
    BY <2>1, BetweenLinks
  <2>5. tree = [k \in 1 .. Len(rows) |-> rows[k].entry_hash]
    BY <2>4 DEF RootsRead, LeavesOf, Between
  <2>6. Distinct(tree)
    BY <1>1
  <2>. HIDE DEF f, t, tree, pos, rows
  <2>7. Len(tree) = Len(rows) /\ tree[pos + 1] = r.entry_hash
    <3>1. tree = [k \in 1 .. Len(rows) |-> tree[k]]
      BY <2>5
    <3>. QED  BY <2>3, <2>4, <2>5, <3>1, ListLen
  <2>8. pos \in 0 .. Len(tree) - 1
    BY <2>3, <2>4, <2>7
  <2>9. VerifyInclusionProof(hash, BuildInclusionProof(tree, pos), ComputeMerkleRoot(tree))
          <=> hash = tree[pos + 1]
    BY <2>6, <2>8, ProofFits
  <2>. QED  BY <2>2, <2>7, <2>9 DEF f, tree, pos
<1>3. ASSUME NEW i \in DOMAIN anchors, NEW j \in DOMAIN anchors,
             ComputeMerkleRoot(anchors[j].merkle_root)
               = ComputeMerkleRoot(anchors[i].merkle_root)
      PROVE  anchors[j].merkle_root = anchors[i].merkle_root
  BY <1>1, <1>3, RootBinds
<1>. QED  BY <1>2, <1>3 DEF TreeProofsVerify

-----------------------------------------------------------------------------
(* Theorems.                                                               *)

LEMMA JInvInductive == JInv /\ [AnchorNext]_allVars => JInv'
<1>. SUFFICES ASSUME JInv, [AnchorNext]_allVars
              PROVE  JInv'
  OBVIOUS
<1>1. CASE UNCHANGED anchorVars
  BY <1>1, KeepChainStep
<1>2. ASSUME NEW j \in Jobs, JobMaxId(j)
      PROVE  JInv'
  BY <1>2, KeepJobMaxId
<1>3. ASSUME NEW j \in Jobs, JobRange(j)
      PROVE  JInv'
  <2>1. CASE EndTick(j) /\ UNCHANGED raced
    BY <1>3, <2>1, KeepEndTick DEF JobRange
  <2>2. CASE NextFrom <= job[j].maxId /\ TakeRange(j)
    BY <1>3, <2>2, KeepTakeRange DEF JobRange
  <2>. QED  BY <1>3, <2>1, <2>2 DEF JobRange
<1>4. ASSUME NEW j \in Jobs, JobLeaves(j)
      PROVE  JInv'
  BY <1>4, KeepJobLeaves
<1>5. ASSUME NEW j \in Jobs, JobInsert(j)
      PROVE  JInv'
  BY <1>5, KeepJobInsert
<1>6. ASSUME NEW j \in Jobs, JobFail(j)
      PROVE  JInv'
  BY <1>6, KeepEndTick DEF JobFail
<1>. QED
  BY <1>1, <1>2, <1>3, <1>4, <1>5, <1>6 DEF AnchorNext, allVars, Job

LEMMA AnchorInitJInv == AnchorInit => JInv
<1>. SUFFICES ASSUME AnchorInit
              PROVE  JInv
  OBVIOUS
<1>1. IInv
  BY InitIInv DEF AnchorInit
<1>2. anchors = << >> /\ job = [j \in Jobs |-> Waiting] /\ raced = FALSE
  BY DEF AnchorInit
<1>. DEFINE T == {<< >>}
<1>3. anchors \in Seq(Anchor(T)) /\ Len(anchors) = 0 /\ DOMAIN anchors = {}
  BY <1>2, EmptySeq, LenProperties
<1>4. job \in [Jobs -> Tick(T)] /\ \A j \in Jobs : job[j].pc = "max"
  BY <1>2 DEF Waiting, Tick
<1>5. JobsTyped
  BY <1>3, <1>4 DEF JobsTyped, TypedBy
<1>6. AnchorsTile /\ RangesFollow /\ WithinChain
  BY <1>3, <1>4 DEF AnchorsTile, RangesFollow, WithinChain, Ranged
<1>. QED  BY <1>1, <1>2, <1>5, <1>6 DEF JInv

\* The chain, the anchors and the ticks of every job satisfy the invariant in every
\* state of the composed system.
THEOREM AnchorInvariance == AnchorSpec => []JInv
BY AnchorInitJInv, JInvInductive, PTL DEF AnchorSpec

\* The anchored ids have no gap, whichever jobs raced and whatever failed; and the
\* ranges tile them as long as no two ticks overlapped.
THEOREM AnchorsAreTiled == AnchorSpec => []AnchorsTile
<1>1. JInv => AnchorsTile
  BY DEF JInv
<1>. QED  BY <1>1, AnchorInvariance, PTL

\* The chain stays linked beside the jobs.
THEOREM AnchoredChainIsLinked == AnchorSpec => []ChainLinked
<1>1. JInv => ChainLinked
  BY InvLinks DEF JInv
<1>. QED  BY <1>1, AnchorInvariance, PTL

\* An anchored range is closed: a row committed from then on has an id behind every
\* range anchored before, so no proof of that range can change.
THEOREM AnchoredRangesAreClosed ==
    AnchorSpec => [][\A r \in Range(entries') \ Rows : \A i \in DOMAIN anchors :
                        anchors[i].range_to_id < r.entry_id]_allVars
<1>1. JInv /\ [AnchorNext]_allVars =>
        [\A r \in Range(entries') \ Rows : \A i \in DOMAIN anchors :
            anchors[i].range_to_id < r.entry_id]_allVars
  <2>. SUFFICES ASSUME JInv, AnchorNext,
                       NEW r \in Range(entries') \ Rows, NEW i \in DOMAIN anchors
                PROVE  anchors[i].range_to_id < r.entry_id
    OBVIOUS
  <2>1. PICK s \in Rows : s.entry_id = anchors[i].range_to_id
    BY DEF JInv, WithinChain, EntryIds
  <2>2. entries' # entries
    BY DEF Rows
  <2>3. Next
    BY <2>2
       DEF AnchorNext, vars, Job, JobMaxId, JobRange, JobLeaves, JobInsert, JobFail
  <2>4. s.entry_id < r.entry_id
    BY <2>3, NewRowIsLast DEF JInv
  <2>. QED  BY <2>1, <2>4
<1>. QED  BY <1>1, AnchorInvariance, PTL DEF AnchorSpec

\* The roots, and the leaves on the way to one, are in every state those their
\* ranges have.
THEOREM RootsInvariance == AnchorSpec => [](JInv /\ RootsRead)
<1>1. AnchorInit => RootsRead
  <2>. SUFFICES ASSUME AnchorInit
                PROVE  RootsRead
    OBVIOUS
  <2>1. DOMAIN anchors = {} /\ \A j \in Jobs : job[j] = Waiting
    BY DEF AnchorInit
  <2>. QED  BY <2>1 DEF RootsRead, TickReads, Waiting
<1>2. JInv /\ RootsRead /\ [AnchorNext]_allVars => RootsRead'
  BY RootsReadInductive
<1>. QED  BY <1>1, <1>2, AnchorInitJInv, JInvInductive, PTL DEF AnchorSpec

\* The rows, the anchors and the locals of every tick stay well typed, and no range
\* that is being anchored is ever empty.
THEOREM AnchorTypeCorrect == AnchorSpec => []AnchorTypeOK
BY InvAnchorTypes, RootsInvariance, PTL

\* Every inclusion proof for a row of an anchored range verifies against the
\* published root, whenever it is asked for and whatever was appended since.
THEOREM InclusionProofsVerify == AnchorSpec => []ProofsVerify
BY InvProofsVerify, RootsInvariance, PTL

\* GET /verify blames no row that was appended as the code appends rows, but for
\* those whose columns changed a hashed value (a time that lost digits, a
\* correlation id that came back in another spelling): for every range, whatever
\* ids are burnt and whatever is appended meanwhile.
THEOREM VerifyBlamesNoGoodRow == AnchorSpec => []VerifyBlamesOnlyAltered
<1>1. JInv => VerifyBlamesOnlyAltered
  BY InvVerifies DEF JInv
<1>. QED  BY <1>1, AnchorInvariance, PTL

\* Every exported bundle without such a row passes the auditor's chain walk, the
\* walk blames no other row, and an export that starts where another ended extends
\* it, for every size of a page.
THEOREM ExportedBundlesChain == AnchorSpec => []BundlesChain
<1>1. JInv => BundlesChain
  BY InvBundles DEF JInv
<1>. QED  BY <1>1, AnchorInvariance, PTL

\* A page of GET /entries that is read again is the same page, or a longer one: for
\* every cursor, limit and filter.
THEOREM PagesAreStable == AnchorSpec => PagesOnlyGrow
<1>1. JInv /\ [AnchorNext]_allVars =>
        [entries' # entries =>
           \A after \in 0 .. seq, filter \in SUBSET Events :
               IsPrefix(List(after, PageLimit, filter),
                        List(after, PageLimit, filter)')]_vars
  <2>. SUFFICES ASSUME JInv, [AnchorNext]_allVars,
                       NEW after \in 0 .. seq, NEW filter \in SUBSET Events
                PROVE  IsPrefix(List(after, PageLimit, filter),
                                List(after, PageLimit, filter)')
    OBVIOUS
  <2>1. after \in Nat /\ IInv
    BY DEF JInv, IInv, TypeOK
  <2>. QED  BY <2>1, PagesGrow
<1>. QED  BY <1>1, AnchorInvariance, PTL DEF AnchorSpec, PagesOnlyGrow

\* For lists of any length, the bottom-up loop builds the tree the header describes.
THEOREM RootsAreTrees == MerkleSpec => RootIsTheTree
<1>1. InOrder /\ [AddLeaf]_leafHexes =>
        [AddLeaf => ComputeMerkleRoot(leafHexes')
                      = Subtrees(leafHexes')[HeightOf(Len(leafHexes'))][0]]_leafHexes
  BY InOrderGrows, RootIsReference
<1>. QED  BY <1>1, InOrderAlways, PTL DEF MerkleSpec, RootIsTheTree

\* The root commits to every leaf, although the odd tail is duplicated: no other list
\* of distinct leaves has the same root, for trees of any size.
THEOREM RootsBindLeaves == MerkleSpec => RootBindsLeaves
<1>1. InOrder /\ [AddLeaf]_leafHexes =>
        [AddLeaf => \A s \in LeafLists :
            ComputeMerkleRoot(s) = ComputeMerkleRoot(leafHexes') => s = leafHexes']_leafHexes
  BY InOrderGrows, OtherListsAreDistinct, RootBinds
<1>. QED  BY <1>1, InOrderAlways, PTL DEF MerkleSpec, RootBindsLeaves

\* The proof built for a position verifies for the leaf there and for no other, for
\* trees of any size.
THEOREM ProofsFitLeaves == MerkleSpec => ProofFitsItsLeafOnly
<1>1. InOrder /\ [AddLeaf]_leafHexes =>
        [AddLeaf => \A i \in DOMAIN leafHexes', h \in EntryHashes :
            VerifyInclusionProof(h, BuildInclusionProof(leafHexes', i - 1),
                                 ComputeMerkleRoot(leafHexes'))
              <=> h = leafHexes'[i]]_leafHexes
  <2>. SUFFICES ASSUME InOrder, AddLeaf, NEW i \in DOMAIN leafHexes', NEW h
                PROVE  VerifyInclusionProof(h, BuildInclusionProof(leafHexes', i - 1),
                                            ComputeMerkleRoot(leafHexes'))
                         <=> h = leafHexes'[i]
    OBVIOUS
  <2>1. Distinct(leafHexes')
    BY InOrderGrows
  <2>2. i - 1 \in 0 .. Len(leafHexes') - 1 /\ (i - 1) + 1 = i
    BY <2>1 DEF Distinct, IsList
  <2>. QED  BY <2>1, <2>2, ProofFits
<1>. QED  BY <1>1, InOrderAlways, PTL DEF MerkleSpec, ProofFitsItsLeafOnly

\* A row's proof, built and verified with the tree itself, holds for that row's hash
\* only, against the root of every anchor that covers it, and no two lists of rows
\* have one root.
THEOREM TreeProofsAlwaysVerify == AnchorSpec => []TreeProofsVerify
BY InvTreeProofs, RootsInvariance, PTL

=============================================================================
