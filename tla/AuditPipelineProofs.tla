------------------------ MODULE AuditPipelineProofs ------------------------
(***************************************************************************)
(* The pipeline forgets no outbox row, commits past an unhandled event     *)
(* only after an error, and every step of it is a step of AuditChannel or  *)
(* none: for any workers, partitions, events, batch limit and faults.      *)
(***************************************************************************)
EXTENDS AuditPipeline, AuditListTheorems

Records == [event_id : Events, sent : BOOLEAN]
Message == [partition : Partitions, offset : Nat]

\* A worker marks rows only after it has published them, whatever other workers
\* did with the same rows meanwhile, and Kafka has nothing but events of rows.
MarkedIsPublished ==
    \A w \in Workers : wpc[w] = "mark" =>
        \A i \in batch[w] : outbox[i].event_id \in Published

WorkerInv ==
    /\ outbox \in Seq(Records)
    /\ wpc \in [Workers -> {"select", "write", "mark"}]
    /\ batch \in [Workers -> SUBSET DOMAIN outbox]
    /\ log \in [Partitions -> Seq(Events)]
    /\ MarkedIsPublished
    /\ SentIsPublished
    /\ Published \subseteq Emitted

\* The message in hand is the last one fetched from its partition, and its offset
\* is not committed.
InHand ==
    /\ msg \in Message \union {None}
    /\ msg = None <=> cpc = "fetch"
    /\ msg # None =>
         /\ msg.offset = position[msg.partition]
         /\ committed[msg.partition] < msg.offset
         /\ cpc = "commit" => Event \in ToSet(ledger)

\* Every message up to the position of the session was handled, with an entry or
\* an error as its result, but for the one in hand.
Handled(p, o) == log[p][o] \in ToSet(ledger) \union failed

Covered ==
    \A p \in Partitions : \A o \in 1 .. position[p] :
        Handled(p, o) \/ (cpc = "handle" /\ msg = [partition |-> p, offset |-> o])

ConsumerInv ==
    /\ cpc \in {"fetch", "handle", "commit"}
    /\ committed \in [Partitions -> Nat]
    /\ position \in [Partitions -> Nat]
    /\ \A p \in Partitions :
           committed[p] <= position[p] /\ position[p] <= Len(log[p])
    /\ ledger \in Seq(Events)
    /\ ToSet(ledger) \union failed \subseteq Published
    /\ InHand
    /\ Covered

PInv == WorkerInv /\ ConsumerInv /\ faults \in 0 .. MaxFaults

-----------------------------------------------------------------------------
(* The outbox, batches and the log.                                        *)

LEMMA Rows ==
    ASSUME outbox \in Seq(Records)
    PROVE  /\ DOMAIN outbox \in SUBSET Nat
           /\ \A ids \in SUBSET DOMAIN outbox : ids \in SUBSET Nat /\ IsFiniteSet(ids)
           /\ \A i \in DOMAIN outbox :
                  outbox[i].event_id \in Events /\ outbox[i].sent \in BOOLEAN
<1>1. Len(outbox) \in Nat /\ DOMAIN outbox = 1 .. Len(outbox)
  BY LenProperties
<1>2. IsFiniteSet(DOMAIN outbox)
  BY <1>1, FS_Interval
<1>3. \A i \in DOMAIN outbox : outbox[i] \in Records
  BY <1>1, ElementOfSeq
<1>. QED  BY <1>1, <1>2, <1>3, FS_Subset DEF Records

LEMMA MessagesOfRows ==
    ASSUME outbox \in Seq(Records), NEW ids \in SUBSET DOMAIN outbox, NEW p
    PROVE  /\ Messages(ids, p) \in Seq(Events)
           /\ ToSet(Messages(ids, p)) =
                {outbox[i].event_id : i \in {k \in ids : PartitionOf[outbox[k].event_id] = p}}
<1>. DEFINE mine == {k \in ids : PartitionOf[outbox[k].event_id] = p}
            rows == Ascending(mine)
<1>1. mine \in SUBSET Nat /\ IsFiniteSet(mine) /\ mine \subseteq DOMAIN outbox
  <2>1. mine \in SUBSET DOMAIN outbox
    OBVIOUS
  <2>. QED  BY <2>1, Rows
<1>2. /\ Cardinality(mine) \in Nat
      /\ DOMAIN rows = 1 .. Cardinality(mine)
      /\ \A n \in DOMAIN rows : rows[n] \in mine
      /\ \A i \in mine : \E n \in DOMAIN rows : rows[n] = i
  <2>. HIDE DEF mine
  <2>1. Cardinality(mine) \in Nat /\ rows \in [1 .. Cardinality(mine) -> mine]
        /\ \A i \in mine : Rank(mine, i) \in 1 .. Cardinality(mine)
                           /\ rows[Rank(mine, i)] = i
    BY <1>1, AscendingSorts
  <2>. HIDE DEF rows
  <2>. QED  BY <2>1
<1>3. Messages(ids, p) = [n \in DOMAIN rows |-> outbox[rows[n]].event_id]
  BY DEF Messages
<1>. HIDE DEF rows, mine
<1>4. \A n \in DOMAIN rows : outbox[rows[n]].event_id \in Events
  BY <1>1, <1>2, Rows
<1>5. Messages(ids, p) \in Seq(Events)
  <2>1. Messages(ids, p) \in [1 .. Cardinality(mine) -> Events]
    BY <1>2, <1>3, <1>4
  <2>. QED  BY <1>2, <2>1, SeqDef
<1>6. ToSet(Messages(ids, p)) = {outbox[i].event_id : i \in mine}
  BY <1>2, <1>3 DEF ToSet
<1>. QED  BY <1>5, <1>6 DEF mine

\* Publishing appends to the log, and adds the events of the rows to it.
LEMMA PublishAppends ==
    ASSUME WorkerInv, NEW ids \in SUBSET DOMAIN outbox, Publish(ids)
    PROVE  /\ log' \in [Partitions -> Seq(Events)]
           /\ \A p \in Partitions :
                  /\ Len(log[p]) \in Nat /\ Len(log[p]) <= Len(log'[p])
                  /\ \A o \in 1 .. Len(log[p]) : log'[p][o] = log[p][o]
           /\ Published' = Published \union {outbox[i].event_id : i \in ids}
<1>1. log' = [p \in Partitions |-> log[p] \o Messages(ids, p)]
  BY DEF Publish
<1>2. ASSUME NEW p \in Partitions
      PROVE  /\ log'[p] \in Seq(Events)
             /\ Len(log[p]) \in Nat /\ Len(log[p]) <= Len(log'[p])
             /\ \A o \in 1 .. Len(log[p]) : log'[p][o] = log[p][o]
             /\ ToSet(log'[p]) = ToSet(log[p]) \union
                  {outbox[i].event_id : i \in {k \in ids : PartitionOf[outbox[k].event_id] = p}}
  <2>. DEFINE s == log[p]
              t == Messages(ids, p)
  <2>1. s \in Seq(Events) /\ t \in Seq(Events)
        /\ ToSet(t) =
             {outbox[i].event_id : i \in {k \in ids : PartitionOf[outbox[k].event_id] = p}}
    BY MessagesOfRows DEF WorkerInv
  <2>2. log'[p] = s \o t
    BY <1>1
  <2>. HIDE DEF s, t
  <2>3. /\ Len(s) \in Nat /\ Len(t) \in Nat /\ DOMAIN s = 1 .. Len(s)
        /\ DOMAIN t = 1 .. Len(t)
    BY <2>1, LenProperties
  <2>4. /\ s \o t \in Seq(Events)
        /\ Len(s \o t) = Len(s) + Len(t)
        /\ \A i \in 1 .. Len(s) + Len(t) :
               (s \o t)[i] = IF i <= Len(s) THEN s[i] ELSE t[i - Len(s)]
    BY <2>1, ConcatProperties
  <2>5. DOMAIN (s \o t) = 1 .. Len(s) + Len(t)
    BY <2>4, LenProperties
  <2>6. ToSet(s \o t) = ToSet(s) \union ToSet(t)
    <3>1. \A i \in DOMAIN (s \o t) : (s \o t)[i] \in ToSet(s) \union ToSet(t)
      <4>. SUFFICES ASSUME NEW i \in 1 .. Len(s) + Len(t)
                    PROVE  (s \o t)[i] \in ToSet(s) \union ToSet(t)
        BY <2>5
      <4>1. CASE i <= Len(s)
        BY <2>3, <2>4, <4>1 DEF ToSet
      <4>2. CASE ~(i <= Len(s))
        <5>1. i - Len(s) \in DOMAIN t /\ (s \o t)[i] = t[i - Len(s)]
          BY <2>3, <2>4, <4>2
        <5>. QED  BY <5>1 DEF ToSet
      <4>. QED  BY <4>1, <4>2
    <3>2. \A i \in DOMAIN s : i \in DOMAIN (s \o t) /\ (s \o t)[i] = s[i]
      BY <2>3, <2>4, <2>5
    <3>3. ASSUME NEW i \in DOMAIN t
          PROVE  Len(s) + i \in DOMAIN (s \o t) /\ (s \o t)[Len(s) + i] = t[i]
      <4>1. /\ Len(s) + i \in 1 .. Len(s) + Len(t) /\ ~(Len(s) + i <= Len(s))
            /\ (Len(s) + i) - Len(s) = i
        BY <2>3
      <4>. QED  BY <2>4, <2>5, <4>1
    <3>. QED  BY <3>1, <3>2, <3>3 DEF ToSet
  <2>7. Len(s) <= Len(s \o t) /\ \A o \in 1 .. Len(s) : (s \o t)[o] = s[o]
    BY <2>3, <2>4
  <2>. QED  BY <2>1, <2>2, <2>3, <2>4, <2>6, <2>7 DEF s
<1>3. log' \in [Partitions -> Seq(Events)]
  BY <1>1, <1>2
<1>4. Published' = Published \union {outbox[i].event_id : i \in ids}
  <2>1. \A i \in ids : PartitionOf[outbox[i].event_id] \in Partitions
    BY Rows, PartitionAssumption DEF WorkerInv
  <2>2. Published' = UNION {ToSet(log'[p]) : p \in Partitions}
    BY DEF Published
  <2>. DEFINE new(p) == {outbox[i].event_id :
                            i \in {k \in ids : PartitionOf[outbox[k].event_id] = p}}
  <2>3. \A p \in Partitions : ToSet(log'[p]) = ToSet(log[p]) \union new(p)
    BY <1>2
  <2>4. \A e : e \in {outbox[i].event_id : i \in ids} <=> \E p \in Partitions : e \in new(p)
    BY <2>1
  <2>. HIDE DEF new
  <2>5. \A e : e \in Published' <=> \E p \in Partitions : e \in ToSet(log[p]) \/ e \in new(p)
    BY <2>2, <2>3
  <2>6. \A e : e \in Published <=> \E p \in Partitions : e \in ToSet(log[p])
    BY DEF Published
  <2>. QED  BY <2>4, <2>5, <2>6
<1>. QED  BY <1>2, <1>3, <1>4

-----------------------------------------------------------------------------
(* What the steps of the others keep.                                      *)

\* The consumer's half only depends on what is in the log already.
LEMMA KeepConsumer ==
    ASSUME ConsumerInv, UNCHANGED consumerVars, Published \subseteq Published',
           \A p \in Partitions :
               /\ Len(log[p]) \in Nat /\ Len(log'[p]) \in Nat
               /\ Len(log[p]) <= Len(log'[p])
               /\ \A o \in 1 .. Len(log[p]) : log'[p][o] = log[p][o]
    PROVE  ConsumerInv'
<1>1. \A p \in Partitions : committed[p] \in Nat /\ position[p] \in Nat
        /\ committed[p] <= position[p] /\ position[p] <= Len(log[p])
  BY DEF ConsumerInv
<1>2. \A p \in Partitions : \A o \in 1 .. position[p] :
          o \in 1 .. Len(log[p]) /\ log'[p][o] = log[p][o]
  BY <1>1
<1>3. \A p \in Partitions : committed'[p] <= position'[p] /\ position'[p] <= Len(log'[p])
  BY <1>1 DEF consumerVars
<1>4. InHand'
  <2>1. CASE msg = None
    BY <2>1 DEF ConsumerInv, InHand, consumerVars
  <2>2. CASE msg # None
    <3>1. msg.partition \in Partitions /\ msg.offset \in Nat
      BY <2>2 DEF ConsumerInv, InHand, Message
    <3>2. msg.offset \in 1 .. position[msg.partition]
      BY <1>1, <2>2, <3>1 DEF ConsumerInv, InHand
    <3>3. Event' = Event
      BY <1>2, <3>1, <3>2 DEF Event, consumerVars
    <3>. QED  BY <3>3 DEF ConsumerInv, InHand, consumerVars
  <2>. QED  BY <2>1, <2>2
<1>5. Covered'
  BY <1>2 DEF ConsumerInv, Covered, Handled, consumerVars
<1>. QED  BY <1>3, <1>4, <1>5 DEF ConsumerInv, consumerVars

LEMMA SameLog ==
    ASSUME WorkerInv, UNCHANGED log
    PROVE  /\ Published' = Published
           /\ \A p \in Partitions :
                  /\ Len(log[p]) \in Nat /\ Len(log'[p]) \in Nat
                  /\ Len(log[p]) <= Len(log'[p])
                  /\ \A o \in 1 .. Len(log[p]) : log'[p][o] = log[p][o]
<1>1. \A p \in Partitions : log[p] \in Seq(Events) /\ Len(log[p]) \in Nat
  BY LenProperties DEF WorkerInv
<1>. QED  BY <1>1 DEF Published

\* A row of the log is an event of the table.
LEMMA LogRow ==
    ASSUME WorkerInv, NEW p \in Partitions, NEW o \in 1 .. Len(log[p])
    PROVE  /\ log[p][o] \in Events
           /\ log[p][o] \in Published
           /\ log[p][o] \in Emitted
<1>1. log[p] \in Seq(Events) /\ DOMAIN log[p] = 1 .. Len(log[p])
  BY LenProperties DEF WorkerInv
<1>2. log[p][o] \in ToSet(log[p]) /\ log[p][o] \in Events
  BY <1>1, ElementOfSeq DEF ToSet
<1>. QED  BY <1>2 DEF Published, WorkerInv

\* And so is the message in hand.
LEMMA EventInHand ==
    ASSUME PInv, cpc # "fetch"
    PROVE  /\ msg \in Message
           /\ msg.partition \in Partitions
           /\ msg.offset = position[msg.partition]
           /\ msg.offset \in 1 .. Len(log[msg.partition])
           /\ Event \in Events /\ Event \in Published /\ Event \in Emitted
<1>1. msg # None /\ msg \in Message
  BY DEF PInv, ConsumerInv, InHand
<1>2. msg.partition \in Partitions /\ msg.offset \in Nat
  BY <1>1 DEF Message
<1>3. /\ msg.offset = position[msg.partition]
      /\ committed[msg.partition] \in Nat
      /\ committed[msg.partition] < msg.offset
      /\ position[msg.partition] <= Len(log[msg.partition])
  BY <1>1, <1>2 DEF PInv, ConsumerInv, InHand
<1>4. Len(log[msg.partition]) \in Nat
  BY <1>2, LenProperties DEF PInv, WorkerInv
<1>5. msg.offset \in 1 .. Len(log[msg.partition])
  BY <1>2, <1>3, <1>4
<1>. QED  BY <1>1, <1>2, <1>3, <1>5, LogRow DEF PInv, Event

\* The workers' half only depends on the outbox, the batches and the log.
LEMMA KeepWorker ==
    ASSUME WorkerInv, UNCHANGED <<outbox, workerVars, log>>
    PROVE  WorkerInv'
<1>1. outbox' = outbox /\ wpc' = wpc /\ batch' = batch /\ log' = log
  BY DEF workerVars
<1>2. Published' = Published /\ Emitted' = Emitted
  BY <1>1 DEF Published, Emitted
<1>3. MarkedIsPublished' /\ SentIsPublished'
  BY <1>1, <1>2 DEF WorkerInv, MarkedIsPublished, SentIsPublished
<1>. QED  BY <1>1, <1>2, <1>3 DEF WorkerInv

\* A drain that is over has nothing to mark.
LEMMA DrainEnds ==
    ASSUME WorkerInv, NEW w \in Workers, EndDrain(w)
    PROVE  /\ wpc' \in [Workers -> {"select", "write", "mark"}]
           /\ batch' \in [Workers -> SUBSET DOMAIN outbox]
           /\ \A v \in Workers : wpc'[v] = "mark" => wpc[v] = "mark" /\ batch'[v] = batch[v]
BY DEF WorkerInv, EndDrain

-----------------------------------------------------------------------------
(* The steps.                                                              *)

LEMMA KeepEmit ==
    ASSUME PInv, NEW e \in Events, Emit(e)
    PROVE  PInv'
<1>. DEFINE row == [event_id |-> e, sent |-> FALSE]
<1>1. outbox' = Append(outbox, row) /\ row \in Records /\ outbox \in Seq(Records)
  BY DEF Emit, PInv, WorkerInv, Records
<1>. HIDE DEF row
<1>2. /\ outbox' \in Seq(Records) /\ Len(outbox) \in Nat
      /\ DOMAIN outbox = 1 .. Len(outbox) /\ DOMAIN outbox' = 1 .. Len(outbox) + 1
      /\ \A i \in 1 .. Len(outbox) : outbox'[i] = outbox[i]
      /\ outbox'[Len(outbox) + 1] = row
  <2>1. /\ Append(outbox, row) \in Seq(Records)
        /\ Len(Append(outbox, row)) = Len(outbox) + 1
        /\ \A i \in 1 .. Len(outbox) : Append(outbox, row)[i] = outbox[i]
        /\ Append(outbox, row)[Len(outbox) + 1] = row
    BY <1>1, AppendProperties
  <2>. QED  BY <1>1, <2>1, LenProperties
<1>3. DOMAIN outbox \subseteq DOMAIN outbox' /\ \A i \in DOMAIN outbox : outbox'[i] = outbox[i]
  BY <1>2
<1>4. UNCHANGED <<workerVars, log, consumerVars, faults>>
  BY DEF Emit
<1>5. Published' = Published
  BY <1>4 DEF Published
<1>6. Emitted \subseteq Emitted'
  BY <1>3 DEF Emitted
<1>7. batch' \in [Workers -> SUBSET DOMAIN outbox']
  BY <1>3, <1>4 DEF PInv, WorkerInv, workerVars
<1>8. MarkedIsPublished'
  BY <1>3, <1>4, <1>5 DEF PInv, WorkerInv, MarkedIsPublished, workerVars
<1>9. SentIsPublished'
  <2>1. \A i \in DOMAIN outbox' : outbox'[i].sent => i \in DOMAIN outbox
    BY <1>2 DEF row
  <2>. QED  BY <1>3, <1>5, <2>1 DEF PInv, WorkerInv, SentIsPublished
<1>10. WorkerInv'
  BY <1>2, <1>4, <1>5, <1>6, <1>7, <1>8, <1>9 DEF PInv, WorkerInv, workerVars
<1>11. ConsumerInv'
  BY <1>4, <1>5, SameLog, KeepConsumer DEF PInv
<1>. QED  BY <1>4, <1>10, <1>11 DEF PInv

LEMMA KeepSelectUnsent ==
    ASSUME PInv, NEW w \in Workers, SelectUnsent(w)
    PROVE  PInv'
<1>. DEFINE chosen == ToSet(FirstOf(Ascending(Unsent), BatchLimit))
<1>1. UNCHANGED <<outbox, log, consumerVars, faults>>
      /\ wpc' = [wpc EXCEPT ![w] = "write"] /\ batch' = [batch EXCEPT ![w] = chosen]
  BY DEF SelectUnsent
<1>2. chosen \in SUBSET DOMAIN outbox
  <2>1. Unsent \in SUBSET DOMAIN outbox
    BY DEF Unsent
  <2>2. Unsent \in SUBSET Nat /\ IsFiniteSet(Unsent)
    BY <2>1, Rows DEF PInv, WorkerInv
  <2>3. Ascending(Unsent) \in Seq(Unsent)
    BY <2>2, AscendingSorts
  <2>4. FirstOf(Ascending(Unsent), BatchLimit) \in Seq(Unsent)
    BY <2>3, FirstRows, BoundsAssumption
  <2>5. \A i \in DOMAIN FirstOf(Ascending(Unsent), BatchLimit) :
            FirstOf(Ascending(Unsent), BatchLimit)[i] \in Unsent
    BY <2>4, LenProperties, ElementOfSeq
  <2>. QED  BY <2>1, <2>5 DEF ToSet
<1>. HIDE DEF chosen
<1>3. Published' = Published /\ Emitted' = Emitted
  BY <1>1 DEF Published, Emitted
<1>4. WorkerInv'
  BY <1>1, <1>2, <1>3 DEF PInv, WorkerInv, MarkedIsPublished, SentIsPublished
<1>5. ConsumerInv'
  BY <1>1, <1>3, SameLog, KeepConsumer DEF PInv
<1>. QED  BY <1>1, <1>4, <1>5 DEF PInv

\* Whatever part of a batch gets into Kafka.
LEMMA KeepPublish ==
    ASSUME PInv, NEW ids \in SUBSET DOMAIN outbox, Publish(ids),
           UNCHANGED <<outbox, consumerVars>>
    PROVE  /\ ConsumerInv'
           /\ outbox' \in Seq(Records) /\ log' \in [Partitions -> Seq(Events)]
           /\ SentIsPublished'
           /\ Published' \subseteq Emitted'
           /\ Published' = Published \union {outbox[i].event_id : i \in ids}
<1>1. /\ log' \in [Partitions -> Seq(Events)]
      /\ \A p \in Partitions :
             /\ Len(log[p]) \in Nat /\ Len(log[p]) <= Len(log'[p])
             /\ \A o \in 1 .. Len(log[p]) : log'[p][o] = log[p][o]
      /\ Published' = Published \union {outbox[i].event_id : i \in ids}
  BY PublishAppends DEF PInv
<1>2. \A p \in Partitions : log'[p] \in Seq(Events) /\ Len(log'[p]) \in Nat
  BY <1>1, LenProperties
<1>3. ConsumerInv'
  BY <1>1, <1>2, KeepConsumer DEF PInv
<1>4. Emitted' = Emitted /\ {outbox[i].event_id : i \in ids} \subseteq Emitted
  BY DEF Emitted
<1>. QED  BY <1>1, <1>3, <1>4 DEF PInv, WorkerInv, SentIsPublished

LEMMA KeepWriteMessages ==
    ASSUME PInv, NEW w \in Workers, WriteMessages(w)
    PROVE  PInv'
<1>1. batch[w] \in SUBSET DOMAIN outbox
  BY DEF PInv, WorkerInv
<1>2. Publish(batch[w]) /\ wpc' = [wpc EXCEPT ![w] = "mark"]
      /\ UNCHANGED <<outbox, batch, consumerVars, faults>>
  BY DEF WriteMessages
<1>3. /\ ConsumerInv'
      /\ outbox' \in Seq(Records) /\ log' \in [Partitions -> Seq(Events)]
      /\ SentIsPublished' /\ Published' \subseteq Emitted'
      /\ Published' = Published \union {outbox[i].event_id : i \in batch[w]}
  BY <1>1, <1>2, KeepPublish
<1>4. MarkedIsPublished'
  BY <1>2, <1>3 DEF PInv, WorkerInv, MarkedIsPublished
<1>. QED  BY <1>2, <1>3, <1>4 DEF PInv, WorkerInv

LEMMA KeepWriteFails ==
    ASSUME PInv, NEW w \in Workers, WriteFails(w)
    PROVE  PInv'
<1>1. PICK ok \in SUBSET batch[w] : Publish(ok)
  BY DEF WriteFails
<1>2. ok \in SUBSET DOMAIN outbox
  BY DEF PInv, WorkerInv
<1>3. EndDrain(w) /\ UNCHANGED <<outbox, consumerVars>>
      /\ faults < MaxFaults /\ faults' = faults + 1
  BY DEF WriteFails, Fault
<1>4. /\ ConsumerInv'
      /\ outbox' \in Seq(Records) /\ log' \in [Partitions -> Seq(Events)]
      /\ SentIsPublished' /\ Published' \subseteq Emitted'
      /\ Published' = Published \union {outbox[i].event_id : i \in ok}
  BY <1>1, <1>2, <1>3, KeepPublish
<1>5. /\ wpc' \in [Workers -> {"select", "write", "mark"}]
      /\ batch' \in [Workers -> SUBSET DOMAIN outbox]
      /\ \A v \in Workers : wpc'[v] = "mark" => wpc[v] = "mark" /\ batch'[v] = batch[v]
  BY <1>3, DrainEnds DEF PInv
<1>6. MarkedIsPublished'
  BY <1>3, <1>4, <1>5 DEF PInv, WorkerInv, MarkedIsPublished
<1>7. faults' \in 0 .. MaxFaults
  BY <1>3, BoundsAssumption DEF PInv
<1>. QED  BY <1>3, <1>4, <1>5, <1>6, <1>7 DEF PInv, WorkerInv

LEMMA KeepMarkSent ==
    ASSUME PInv, NEW w \in Workers, MarkSent(w)
    PROVE  PInv'
<1>1. /\ outbox' = [i \in DOMAIN outbox |->
                       [outbox[i] EXCEPT !.sent = @ \/ i \in batch[w]]]
      /\ EndDrain(w) /\ UNCHANGED <<log, consumerVars, faults>> /\ wpc[w] = "mark"
  BY DEF MarkSent
<1>2. outbox \in Seq(Records) /\ Len(outbox) \in Nat /\ DOMAIN outbox = 1 .. Len(outbox)
  BY LenProperties DEF PInv, WorkerInv
<1>3. \A i \in DOMAIN outbox :
          /\ outbox'[i] \in Records
          /\ outbox'[i].event_id = outbox[i].event_id
          /\ outbox'[i].sent => outbox[i].sent \/ i \in batch[w]
  <2>1. \A i \in DOMAIN outbox : outbox[i] \in Records
    BY <1>2, ElementOfSeq
  <2>2. \A i \in DOMAIN outbox : (outbox[i].sent \/ i \in batch[w]) \in BOOLEAN
    OBVIOUS
  <2>3. \A i \in DOMAIN outbox :
            outbox'[i] = [outbox[i] EXCEPT !.sent = (outbox[i].sent \/ i \in batch[w])]
    BY <1>1
  <2>4. ASSUME NEW i \in DOMAIN outbox
        PROVE  /\ outbox'[i] \in Records
               /\ outbox'[i].event_id = outbox[i].event_id
               /\ outbox'[i].sent = (outbox[i].sent \/ i \in batch[w])
    BY <2>1, <2>2, <2>3 DEF Records
  <2>. QED  BY <2>4
<1>4. DOMAIN outbox' = DOMAIN outbox /\ outbox' \in Seq(Records)
  <2>1. DOMAIN outbox' = 1 .. Len(outbox)
    BY <1>1, <1>2
  <2>2. outbox' = [i \in 1 .. Len(outbox) |-> outbox'[i]]
    BY <1>1, <1>2
  <2>3. outbox' \in Seq(Records)
    BY <1>2, <1>3, <2>2, IsASeq
  <2>. QED  BY <1>2, <2>1, <2>3
<1>5. Published' = Published /\ Emitted' = Emitted
  BY <1>1, <1>3, <1>4 DEF Published, Emitted
<1>6. /\ wpc' \in [Workers -> {"select", "write", "mark"}]
      /\ batch' \in [Workers -> SUBSET DOMAIN outbox]
      /\ \A v \in Workers : wpc'[v] = "mark" => wpc[v] = "mark" /\ batch'[v] = batch[v]
  BY <1>1, DrainEnds DEF PInv
<1>7. \A v \in Workers : batch[v] \in SUBSET DOMAIN outbox
  BY DEF PInv, WorkerInv
<1>8. MarkedIsPublished'
  BY <1>3, <1>5, <1>6, <1>7 DEF PInv, WorkerInv, MarkedIsPublished
<1>9. SentIsPublished'
  <2>1. \A i \in DOMAIN outbox : outbox[i].sent \/ i \in batch[w] =>
            outbox[i].event_id \in Published
    BY <1>1 DEF PInv, WorkerInv, MarkedIsPublished, SentIsPublished
  <2>2. \A i \in DOMAIN outbox : outbox'[i].sent => outbox'[i].event_id \in Published'
    BY <1>3, <1>5, <2>1
  <2>. QED  BY <1>4, <2>2 DEF SentIsPublished
<1>10. WorkerInv'
  BY <1>1, <1>4, <1>5, <1>6, <1>8, <1>9 DEF PInv, WorkerInv
<1>11. ConsumerInv'
  BY <1>1, <1>5, SameLog, KeepConsumer DEF PInv
<1>. QED  BY <1>1, <1>10, <1>11 DEF PInv

LEMMA KeepMarkFails ==
    ASSUME PInv, NEW w \in Workers, MarkFails(w)
    PROVE  PInv'
<1>1. EndDrain(w) /\ UNCHANGED <<outbox, log, consumerVars>>
      /\ faults < MaxFaults /\ faults' = faults + 1
  BY DEF MarkFails, Fault
<1>2. /\ wpc' \in [Workers -> {"select", "write", "mark"}]
      /\ batch' \in [Workers -> SUBSET DOMAIN outbox]
      /\ \A v \in Workers : wpc'[v] = "mark" => wpc[v] = "mark" /\ batch'[v] = batch[v]
  BY <1>1, DrainEnds DEF PInv
<1>3. Published' = Published /\ Emitted' = Emitted
  BY <1>1 DEF Published, Emitted
<1>4. WorkerInv'
  BY <1>1, <1>2, <1>3 DEF PInv, WorkerInv, MarkedIsPublished, SentIsPublished
<1>5. ConsumerInv'
  BY <1>1, <1>3, SameLog, KeepConsumer DEF PInv
<1>6. faults' \in 0 .. MaxFaults
  BY <1>1, BoundsAssumption DEF PInv
<1>. QED  BY <1>4, <1>5, <1>6 DEF PInv

\* FetchMessage puts the next message in hand: what was covered stays covered.
LEMMA KeepFetchMessage ==
    ASSUME PInv, NEW p \in Partitions, FetchMessage(p)
    PROVE  PInv'
<1>1. /\ cpc = "fetch" /\ msg = None
      /\ position[p] < Len(log[p])
      /\ position' = [position EXCEPT ![p] = position[p] + 1]
      /\ msg' = [partition |-> p, offset |-> position[p] + 1]
      /\ cpc' = "handle"
      /\ UNCHANGED <<outbox, workerVars, log, committed, ledger, failed, faults>>
  BY DEF FetchMessage, PInv, ConsumerInv, InHand
<1>2. \A q \in Partitions :
          /\ committed[q] \in Nat /\ position[q] \in Nat /\ Len(log[q]) \in Nat
          /\ committed[q] <= position[q] /\ position[q] <= Len(log[q])
          /\ position'[q] = IF q = p THEN position[q] + 1 ELSE position[q]
  BY <1>1, LenProperties DEF PInv, ConsumerInv, WorkerInv
<1>3. /\ position' \in [Partitions -> Nat]
      /\ \A q \in Partitions : committed'[q] <= position'[q] /\ position'[q] <= Len(log'[q])
  BY <1>1, <1>2 DEF PInv, ConsumerInv
<1>4. InHand'
  <2>1. msg' \in Message /\ msg' # None
    BY <1>1, <1>2, NoneAssumption DEF Message
  <2>2. msg'.partition = p /\ msg'.offset = position'[p] /\ committed'[p] < position'[p]
    BY <1>1, <1>2
  <2>. QED  BY <1>1, <2>1, <2>2 DEF InHand
<1>5. Covered'
  <2>. SUFFICES ASSUME NEW q \in Partitions, NEW o \in 1 .. position'[q]
                PROVE  Handled(q, o)' \/ (q = p /\ o = position[p] + 1)
    BY <1>1 DEF Covered
  <2>1. o \in 1 .. position[q] \/ (q = p /\ o = position[p] + 1)
    BY <1>2
  <2>2. o \in 1 .. position[q] => Handled(q, o)
    BY <1>1 DEF PInv, ConsumerInv, Covered
  <2>. QED  BY <1>1, <2>1, <2>2 DEF Handled
<1>6. Published' = Published
  BY <1>1 DEF Published
<1>7. ConsumerInv'
  BY <1>1, <1>3, <1>4, <1>5, <1>6 DEF PInv, ConsumerInv
<1>. QED  BY <1>1, <1>7, KeepWorker DEF PInv

\* AppendEntry leaves the event in the ledger, and takes nothing out of it.
LEMMA AppendKeeps ==
    ASSUME ledger \in Seq(Events), NEW e \in Events, AppendEntry(e)
    PROVE  /\ ledger' \in Seq(Events)
           /\ ToSet(ledger') = ToSet(ledger) \union {e}
<1>1. CASE e \in ToSet(ledger)
  BY <1>1 DEF AppendEntry
<1>2. CASE e \notin ToSet(ledger)
  <2>1. /\ ledger' = Append(ledger, e)
        /\ Append(ledger, e) \in Seq(Events)
        /\ Len(ledger) \in Nat /\ DOMAIN ledger = 1 .. Len(ledger)
        /\ Len(Append(ledger, e)) = Len(ledger) + 1
        /\ \A i \in 1 .. Len(ledger) : Append(ledger, e)[i] = ledger[i]
        /\ Append(ledger, e)[Len(ledger) + 1] = e
    BY <1>2, AppendProperties, LenProperties DEF AppendEntry
  <2>2. DOMAIN ledger' = 1 .. Len(ledger) + 1
    BY <2>1, LenProperties
  <2>. QED  BY <2>1, <2>2 DEF ToSet
<1>. QED  BY <1>1, <1>2

\* A message that is answered is covered: by an entry, or by an error.
LEMMA KeepAnswer ==
    ASSUME PInv, cpc = "handle",
           UNCHANGED <<outbox, workerVars, log, committed, position>>,
           ledger' \in Seq(Events),
           ToSet(ledger) \subseteq ToSet(ledger'), failed \subseteq failed',
           ToSet(ledger') \subseteq ToSet(ledger) \union {Event},
           failed' \subseteq failed \union {Event},
           Event \in ToSet(ledger') \union failed'
    PROVE  WorkerInv' /\ Covered' /\ ToSet(ledger') \union failed' \subseteq Published'
<1>1. WorkerInv' /\ Published' = Published
  BY KeepWorker DEF PInv, Published
<1>2. Event \in Published
  BY EventInHand
<1>3. ToSet(ledger') \union failed' \subseteq Published'
  BY <1>1, <1>2 DEF PInv, ConsumerInv
<1>4. Covered'
  <2>. SUFFICES ASSUME NEW p \in Partitions, NEW o \in 1 .. position[p]
                PROVE  log[p][o] \in ToSet(ledger') \union failed'
    BY DEF Covered, Handled
  <2>1. CASE Handled(p, o)
    BY <2>1 DEF Handled
  <2>2. CASE msg = [partition |-> p, offset |-> o]
    BY <2>2 DEF Event
  <2>. QED  BY <2>1, <2>2 DEF PInv, ConsumerInv, Covered
<1>. QED  BY <1>1, <1>3, <1>4

LEMMA KeepHandle ==
    ASSUME PInv, Handle
    PROVE  PInv'
<1>1. /\ cpc = "handle" /\ AppendEntry(Event) /\ cpc' = "commit"
      /\ UNCHANGED <<outbox, workerVars, log, committed, position, msg, failed, faults>>
  BY DEF Handle
<1>2. Event \in Events
  BY <1>1, EventInHand
<1>3. ledger' \in Seq(Events) /\ ToSet(ledger') = ToSet(ledger) \union {Event}
  BY <1>1, <1>2, AppendKeeps DEF PInv, ConsumerInv
<1>4. WorkerInv' /\ Covered' /\ ToSet(ledger') \union failed' \subseteq Published'
  BY <1>1, <1>3, KeepAnswer
<1>5. Event' = Event
  BY <1>1 DEF Event
<1>6. InHand'
  BY <1>1, <1>3, <1>5 DEF PInv, ConsumerInv, InHand
<1>. QED  BY <1>1, <1>3, <1>4, <1>6 DEF PInv, ConsumerInv

\* handle returned an error, whether or not the event got into the chain.
LEMMA KeepSkip ==
    ASSUME PInv, Skip, AppendEntry(Event) \/ UNCHANGED ledger
    PROVE  WorkerInv' /\ ConsumerInv'
<1>1. /\ cpc = "handle" /\ cpc' = "fetch" /\ msg' = None /\ failed' = failed \union {Event}
      /\ UNCHANGED <<outbox, workerVars, log, committed, position>>
  BY DEF Skip
<1>2. Event \in Events
  BY <1>1, EventInHand
<1>3. /\ ledger' \in Seq(Events) /\ ToSet(ledger) \subseteq ToSet(ledger')
      /\ ToSet(ledger') \subseteq ToSet(ledger) \union {Event}
  BY <1>2, AppendKeeps DEF PInv, ConsumerInv
<1>4. WorkerInv' /\ Covered' /\ ToSet(ledger') \union failed' \subseteq Published'
  BY <1>1, <1>3, KeepAnswer
<1>5. InHand'
  BY <1>1 DEF InHand
<1>. QED  BY <1>1, <1>3, <1>4, <1>5 DEF PInv, ConsumerInv

\* A commit, a commit that fails and a restart let go of the message.
LEMMA KeepRelease ==
    ASSUME PInv, cpc' = "fetch", msg' = None,
           UNCHANGED <<outbox, workerVars, log, ledger, failed>>,
           committed' \in [Partitions -> Nat], position' \in [Partitions -> Nat],
           \A p \in Partitions :
               /\ committed'[p] <= position'[p] /\ position'[p] <= position[p]
               /\ \A o \in 1 .. position'[p] : Handled(p, o)
    PROVE  WorkerInv' /\ ConsumerInv'
<1>1. WorkerInv' /\ Published' = Published
  BY KeepWorker DEF PInv, Published
<1>2. InHand'
  BY DEF InHand
<1>3. Covered'
  BY DEF Covered, Handled
<1>4. \A p \in Partitions : committed'[p] <= position'[p] /\ position'[p] <= Len(log'[p])
  <2>1. \A p \in Partitions : position[p] \in Nat /\ position'[p] \in Nat
          /\ Len(log[p]) \in Nat /\ position[p] <= Len(log[p])
    BY LenProperties DEF PInv, ConsumerInv, WorkerInv
  <2>. QED  BY <2>1
<1>. QED  BY <1>1, <1>2, <1>3, <1>4 DEF PInv, ConsumerInv

LEMMA KeepCommit ==
    ASSUME PInv, CommitMessages \/ CommitFails
    PROVE  PInv'
<1>1. /\ cpc = "commit" /\ cpc' = "fetch" /\ msg' = None
      /\ UNCHANGED <<outbox, workerVars, log, position, ledger, failed>>
      /\ \/ committed' = [committed EXCEPT ![msg.partition] = msg.offset]
            /\ UNCHANGED faults
         \/ UNCHANGED committed /\ faults < MaxFaults /\ faults' = faults + 1
  BY DEF CommitMessages, CommitFails, Fault
<1>2. /\ msg.partition \in Partitions /\ msg.offset \in Nat
      /\ msg.offset = position[msg.partition]
  BY <1>1, EventInHand DEF Message
<1>3. /\ committed' \in [Partitions -> Nat]
      /\ \A p \in Partitions : position[p] \in Nat /\ committed'[p] <= position[p]
  <2>1. committed \in [Partitions -> Nat] /\ position \in [Partitions -> Nat]
        /\ \A p \in Partitions : committed[p] <= position[p]
    BY DEF PInv, ConsumerInv
  <2>2. CASE committed' = [committed EXCEPT ![msg.partition] = msg.offset]
    <3>1. committed' \in [Partitions -> Nat]
      BY <1>2, <2>1, <2>2
    <3>2. \A p \in Partitions :
              committed'[p] = IF p = msg.partition THEN position[p] ELSE committed[p]
      BY <1>2, <2>1, <2>2
    <3>. QED  BY <2>1, <3>1, <3>2
  <2>3. CASE UNCHANGED committed
    BY <2>1, <2>3
  <2>. QED  BY <1>1, <2>2, <2>3
<1>4. \A p \in Partitions : \A o \in 1 .. position[p] : Handled(p, o)
  BY <1>1 DEF PInv, ConsumerInv, Covered
<1>5. WorkerInv' /\ ConsumerInv'
  BY <1>1, <1>3, <1>4, KeepRelease DEF PInv, ConsumerInv
<1>6. faults' \in 0 .. MaxFaults
  BY <1>1, BoundsAssumption DEF PInv
<1>. QED  BY <1>5, <1>6 DEF PInv

\* A restart goes back to the committed offsets, behind which no message is in hand.
LEMMA KeepRestart ==
    ASSUME PInv, Restart
    PROVE  PInv'
<1>1. /\ cpc' = "fetch" /\ msg' = None /\ position' = committed
      /\ faults < MaxFaults /\ faults' = faults + 1
      /\ UNCHANGED <<outbox, workerVars, log, committed, ledger, failed>>
  BY DEF Restart, Fault
<1>2. \A p \in Partitions :
          committed[p] \in Nat /\ position[p] \in Nat /\ committed[p] <= position[p]
  BY DEF PInv, ConsumerInv
<1>3. ASSUME NEW p \in Partitions, NEW o \in 1 .. committed[p]
      PROVE  Handled(p, o)
  <2>1. o \in 1 .. position[p]
    BY <1>2
  <2>2. CASE cpc = "handle" /\ msg = [partition |-> p, offset |-> o]
    <3>1. msg.partition = p /\ msg.offset = o
      BY <2>2
    <3>2. committed[p] < o
      BY <2>2, <3>1 DEF PInv, ConsumerInv, InHand
    <3>. QED  BY <1>2, <3>2
  <2>. QED  BY <2>1, <2>2 DEF PInv, ConsumerInv, Covered
<1>4. WorkerInv' /\ ConsumerInv'
  BY <1>1, <1>2, <1>3, KeepRelease DEF PInv, ConsumerInv
<1>5. faults' \in 0 .. MaxFaults
  BY <1>1, BoundsAssumption DEF PInv
<1>. QED  BY <1>4, <1>5 DEF PInv

-----------------------------------------------------------------------------
(* Theorems.                                                               *)

LEMMA InitPInv == Init => PInv
<1>. SUFFICES ASSUME Init
              PROVE  PInv
  OBVIOUS
<1>1. outbox = << >> /\ << >> \in Seq(Records) /\ DOMAIN outbox = {}
  BY EmptySeq DEF Init
<1>2. /\ log = [p \in Partitions |-> << >>] /\ << >> \in Seq(Events) /\ ledger = << >>
      /\ Len(<< >>) = 0
  BY EmptySeq DEF Init
<1>3. Published = {} /\ ToSet(ledger) = {}
  BY <1>2 DEF Published, ToSet
<1>4. WorkerInv
  BY <1>1, <1>2, <1>3 DEF Init, WorkerInv, MarkedIsPublished, SentIsPublished
<1>5. InHand /\ Covered
  BY DEF Init, InHand, Covered
<1>6. ConsumerInv
  BY <1>2, <1>3, <1>5 DEF Init, ConsumerInv
<1>7. faults \in 0 .. MaxFaults
  BY BoundsAssumption DEF Init
<1>. QED  BY <1>4, <1>6, <1>7 DEF PInv

LEMMA PInvInductive == PInv /\ [Next]_vars => PInv'
<1>. SUFFICES ASSUME PInv, [Next]_vars
              PROVE  PInv'
  OBVIOUS
<1>1. CASE UNCHANGED vars
  <2>1. UNCHANGED <<outbox, workerVars, log, consumerVars, faults>>
    BY <1>1 DEF vars
  <2>2. Published' = Published
    BY <2>1 DEF Published
  <2>. QED  BY <2>1, <2>2, KeepWorker, KeepConsumer, SameLog DEF PInv
<1>2. ASSUME NEW e \in Events, Emit(e)
      PROVE  PInv'
  BY <1>2, KeepEmit
<1>3. ASSUME NEW w \in Workers, Drain(w) \/ WriteFails(w) \/ MarkFails(w)
      PROVE  PInv'
  BY <1>3, KeepSelectUnsent, KeepWriteMessages, KeepMarkSent, KeepWriteFails,
     KeepMarkFails DEF Drain
<1>4. ASSUME NEW p \in Partitions, FetchMessage(p)
      PROVE  PInv'
  BY <1>4, KeepFetchMessage
<1>5. CASE Handle
  BY <1>5, KeepHandle
<1>6. CASE HandlePoison
  BY <1>6, KeepSkip DEF HandlePoison, PInv
<1>7. CASE HandleFails
  <2>1. faults' \in 0 .. MaxFaults
    BY <1>7, BoundsAssumption DEF HandleFails, Fault, PInv
  <2>. QED  BY <1>7, <2>1, KeepSkip DEF HandleFails, PInv
<1>8. CASE CommitMessages \/ CommitFails
  BY <1>8, KeepCommit
<1>9. CASE Restart
  BY <1>9, KeepRestart
<1>. QED
  BY <1>1, <1>2, <1>3, <1>4, <1>5, <1>6, <1>7, <1>8, <1>9 DEF Next, Consume

\* Workers, Kafka and the consumer satisfy the invariant in every state.
THEOREM Invariance == Spec => []PInv
BY InitPInv, PInvInductive, PTL DEF Spec

\* Rows, batches, offsets and positions have their types, and no offset overtakes
\* the session or the log.
THEOREM TypeCorrect == Spec => []TypeOK
<1>1. PInv => TypeOK
  <2>. SUFFICES ASSUME PInv
                PROVE  TypeOK
    OBVIOUS
  <2>1. \A p \in Partitions :
            /\ committed[p] \in 0 .. position[p]
            /\ position[p] \in 0 .. Len(log[p])
    <3>1. \A p \in Partitions : /\ committed[p] \in Nat /\ position[p] \in Nat
                                /\ Len(log[p]) \in Nat
                                /\ committed[p] <= position[p]
                                /\ position[p] <= Len(log[p])
      BY LenProperties DEF PInv, WorkerInv, ConsumerInv
    <3>. QED  BY <3>1
  <2>. QED  BY <2>1 DEF PInv, WorkerInv, ConsumerInv, InHand, TypeOK, Records
<1>. QED  BY <1>1, Invariance, PTL

\* No outbox row is marked sent whose event is not in Kafka, for any number of
\* workers on the table.
THEOREM NoRowForgotten == Spec => []SentIsPublished
<1>1. PInv => SentIsPublished
  BY DEF PInv, WorkerInv
<1>. QED  BY <1>1, Invariance, PTL

\* Only an event whose handling returned an error can be behind a committed offset
\* and not in the ledger.
THEOREM LossNeedsAnError == Spec => []LostOnlyByError
<1>1. PInv => LostOnlyByError
  <2>. SUFFICES ASSUME PInv, NEW p \in Partitions, NEW o \in 1 .. committed[p]
                PROVE  Handled(p, o)
    BY DEF LostOnlyByError, Handled
  <2>1. /\ committed[p] \in Nat /\ position[p] \in Nat /\ committed[p] <= position[p]
    BY DEF PInv, ConsumerInv
  <2>2. o \in 1 .. position[p]
    BY <2>1
  <2>3. CASE cpc = "handle" /\ msg = [partition |-> p, offset |-> o]
    <3>1. msg.partition = p /\ msg.offset = o
      BY <2>3
    <3>2. committed[p] < o
      BY <2>3, <3>1 DEF PInv, ConsumerInv, InHand
    <3>. QED  BY <2>1, <3>2
  <2>. QED  BY <2>2, <2>3 DEF PInv, ConsumerInv, Covered
<1>. QED  BY <1>1, Invariance, PTL

-----------------------------------------------------------------------------
(* The channel.                                                            *)

\* An event in hand that is appended is delivered, one that is found is not.
LEMMA AppendDelivers ==
    ASSUME PInv, cpc = "handle", AppendEntry(Event), UNCHANGED outbox
    PROVE  /\ Event \in Events /\ Event \in Emitted /\ Emitted' = Emitted
           /\ Channel!Deliver(Event) \/ UNCHANGED ledger
<1>1. Event \in Events /\ Event \in Emitted
  BY EventInHand
<1>2. Channel!Range(ledger) = ToSet(ledger)
  BY DEF Channel!Range, ToSet
<1>3. CASE Event \in ToSet(ledger)
  BY <1>1, <1>3 DEF AppendEntry, Emitted
<1>4. CASE Event \notin ToSet(ledger)
  BY <1>1, <1>2, <1>4 DEF AppendEntry, Emitted, Channel!Deliver
<1>. QED  BY <1>3, <1>4, <1>1 DEF Emitted

\* Every step of the pipeline is a step of the channel or none: only a business
\* transaction emits, only handle delivers or refuses, and it delivers an event
\* that was emitted and not delivered before.
LEMMA StepRefines == PInv /\ [Next]_vars => [Channel!Next]_(Channel!channelVars)
<1>. SUFFICES ASSUME PInv, [Next]_vars
              PROVE  Channel!Next \/ UNCHANGED Channel!channelVars
  OBVIOUS
<1>1. ASSUME UNCHANGED <<ledger, failed>>, Emitted' = Emitted
      PROVE  UNCHANGED Channel!channelVars
  BY <1>1 DEF Channel!channelVars
<1>2. CASE UNCHANGED vars
  BY <1>1, <1>2 DEF vars, consumerVars, Emitted
<1>3. ASSUME NEW e \in Events, Emit(e)
      PROVE  Channel!Next
  <2>. DEFINE row == [event_id |-> e, sent |-> FALSE]
  <2>1. row \in Records /\ outbox \in Seq(Records)
    BY DEF Records, PInv, WorkerInv
  <2>2. outbox' = Append(outbox, row) /\ row.event_id = e
    BY <1>3 DEF Emit
  <2>. HIDE DEF row
  <2>3. /\ Len(outbox) \in Nat
        /\ DOMAIN outbox = 1 .. Len(outbox) /\ DOMAIN outbox' = 1 .. Len(outbox) + 1
        /\ \A i \in 1 .. Len(outbox) : outbox'[i] = outbox[i]
        /\ outbox'[Len(outbox) + 1] = row
    <3>1. /\ Append(outbox, row) \in Seq(Records)
          /\ Len(Append(outbox, row)) = Len(outbox) + 1
          /\ \A i \in 1 .. Len(outbox) : Append(outbox, row)[i] = outbox[i]
          /\ Append(outbox, row)[Len(outbox) + 1] = row
      BY <2>1, AppendProperties
    <3>. QED  BY <2>1, <2>2, <3>1, LenProperties
  <2>4. Emitted' = Emitted \union {e}
    BY <2>2, <2>3 DEF Emitted
  <2>5. UNCHANGED <<ledger, failed>>
    BY <1>3 DEF Emit, consumerVars
  <2>6. Channel!Emit(e)
    BY <2>4, <2>5 DEF Channel!Emit
  <2>. QED  BY <2>6 DEF Channel!Next
<1>4. ASSUME NEW w \in Workers,
             SelectUnsent(w) \/ WriteMessages(w) \/ WriteFails(w) \/ MarkFails(w)
      PROVE  UNCHANGED Channel!channelVars
  BY <1>1, <1>4 DEF SelectUnsent, WriteMessages, WriteFails, MarkFails, consumerVars, Emitted
<1>5. ASSUME NEW w \in Workers, MarkSent(w)
      PROVE  UNCHANGED Channel!channelVars
  <2>1. /\ outbox' = [i \in DOMAIN outbox |->
                         [outbox[i] EXCEPT !.sent = @ \/ i \in batch[w]]]
        /\ UNCHANGED <<ledger, failed>>
    BY <1>5 DEF MarkSent, consumerVars
  <2>2. \A i \in DOMAIN outbox : outbox[i] \in Records
    BY LenProperties, ElementOfSeq DEF PInv, WorkerInv
  <2>3. \A i \in DOMAIN outbox : outbox'[i].event_id = outbox[i].event_id
    BY <2>1, <2>2 DEF Records
  <2>4. DOMAIN outbox' = DOMAIN outbox
    BY <2>1
  <2>. QED  BY <1>1, <2>1, <2>3, <2>4 DEF Emitted
<1>6. CASE (\E p \in Partitions : FetchMessage(p)) \/ CommitMessages \/ CommitFails \/ Restart
  BY <1>1, <1>6 DEF FetchMessage, CommitMessages, CommitFails, Restart, Emitted
<1>7. CASE Handle
  <2>1. cpc = "handle" /\ AppendEntry(Event) /\ UNCHANGED <<outbox, failed>>
    BY <1>7 DEF Handle
  <2>2. CASE Channel!Deliver(Event)
    BY <2>1, <2>2, AppendDelivers DEF Channel!Handle, Channel!Next
  <2>3. CASE UNCHANGED ledger
    BY <1>1, <2>1, <2>3, AppendDelivers
  <2>. QED  BY <2>1, <2>2, <2>3, AppendDelivers
<1>8. CASE HandlePoison \/ HandleFails
  <2>1. /\ cpc = "handle" /\ failed' = failed \union {Event} /\ UNCHANGED outbox
        /\ AppendEntry(Event) \/ UNCHANGED ledger
    BY <1>8 DEF HandlePoison, HandleFails, Skip
  <2>2. Event \in Events /\ Event \in Emitted /\ Emitted' = Emitted
    BY <2>1, EventInHand DEF Emitted
  <2>3. Channel!Refuse(Event)
    BY <2>1, <2>2 DEF Channel!Refuse
  <2>4. Channel!Deliver(Event) \/ UNCHANGED ledger
    BY <2>1, AppendDelivers
  <2>. QED  BY <2>2, <2>3, <2>4 DEF Channel!Handle, Channel!Next
<1>. QED
  BY <1>2, <1>3, <1>4, <1>5, <1>6, <1>7, <1>8 DEF Next, Drain, Consume

\* The pipeline implements the channel: what it emits, delivers and refuses is a
\* behaviour of AuditChannel.
THEOREM PipelineRefinesChannel == Spec => Channel!SafetySpec
<1>1. Init => Channel!Init
  BY DEF Init, Channel!Init, Emitted
<1>. QED  BY <1>1, StepRefines, Invariance, PTL DEF Spec, Channel!SafetySpec

\* Hence an event is in the ledger at most once, and only if it was emitted: the
\* argument is about AuditChannel and looks at no row or message.
DeliveredOnce ==
    /\ ledger \in Seq(Events)
    /\ \A i, j \in DOMAIN ledger : ledger[i] = ledger[j] => i = j
    /\ ToSet(ledger) \subseteq Emitted

THEOREM EventsAreDeliveredOnce == Spec => []DeliveredOnce
<1>1. Channel!Init => DeliveredOnce
  BY EmptySeq DEF Channel!Init, DeliveredOnce, ToSet
<1>2. DeliveredOnce /\ [Channel!Next]_(Channel!channelVars) => DeliveredOnce'
  <2>. SUFFICES ASSUME DeliveredOnce, [Channel!Next]_(Channel!channelVars)
                PROVE  DeliveredOnce'
    OBVIOUS
  <2>1. ASSUME UNCHANGED ledger, Emitted \subseteq Emitted'
        PROVE  DeliveredOnce'
    BY <2>1 DEF DeliveredOnce
  <2>2. ASSUME NEW e \in Events, Channel!Deliver(e), Emitted' = Emitted
        PROVE  DeliveredOnce'
    <3>1. e \in Emitted /\ e \notin ToSet(ledger) /\ ledger' = Append(ledger, e)
      BY <2>2 DEF Channel!Deliver, Channel!Range, ToSet
    <3>2. ledger \in Seq(Events) /\ Len(ledger) \in Nat /\ DOMAIN ledger = 1 .. Len(ledger)
      BY LenProperties DEF DeliveredOnce
    <3>3. /\ ledger' \in Seq(Events) /\ Len(ledger') = Len(ledger) + 1
          /\ \A i \in 1 .. Len(ledger) : ledger'[i] = ledger[i]
          /\ ledger'[Len(ledger) + 1] = e
      BY <3>1, <3>2, AppendProperties
    <3>4. DOMAIN ledger' = 1 .. Len(ledger) + 1
      BY <3>3, LenProperties
    <3>5. \A i \in DOMAIN ledger : ledger[i] # e /\ ledger[i] \in Emitted
      BY <3>1 DEF ToSet, DeliveredOnce
    <3>6. \A i \in DOMAIN ledger' : i \in DOMAIN ledger \/ i = Len(ledger) + 1
      BY <3>2, <3>4
    <3>7. \A i \in DOMAIN ledger' : ledger'[i] \in Emitted'
      BY <2>2, <3>1, <3>2, <3>3, <3>5, <3>6
    <3>8. ASSUME NEW i \in DOMAIN ledger', NEW j \in DOMAIN ledger', ledger'[i] = ledger'[j]
          PROVE  i = j
      BY <3>2, <3>3, <3>5, <3>6, <3>8 DEF DeliveredOnce
    <3>. QED  BY <3>3, <3>7, <3>8 DEF DeliveredOnce, ToSet
  <2>3. CASE UNCHANGED Channel!channelVars
    BY <2>1, <2>3 DEF Channel!channelVars
  <2>4. ASSUME NEW e \in Events, Channel!Emit(e)
        PROVE  DeliveredOnce'
    BY <2>1, <2>4 DEF Channel!Emit
  <2>5. ASSUME NEW e \in Events, Channel!Handle(e)
        PROVE  DeliveredOnce'
    BY <2>1, <2>2, <2>5 DEF Channel!Handle
  <2>. QED  BY <2>3, <2>4, <2>5 DEF Channel!Next
<1>. QED  BY <1>1, <1>2, PipelineRefinesChannel, PTL DEF Channel!SafetySpec

=============================================================================
