----------------------- MODULE WebhookDeliveryProofs ------------------------
(***************************************************************************)
(* Theorems about the webhook deliveries, for any number of subscriptions, *)
(* events, handlers, attempts and faults: no job the broker received is    *)
(* lost, rows and dead letters tell the truth, and an event behind the     *)
(* committed offset went to its subscribers.                               *)
(***************************************************************************)
EXTENDS WebhookDelivery, FiniteSetTheorems, SequenceTheorems, TLAPS

-----------------------------------------------------------------------------
(* The inductive invariant, in three parts.                                *)

IsBagOver(S, B) == BagToSet(B) \subseteq S /\ \A e \in BagToSet(B) : B[e] \in Nat \ {0}

\* A job in the queue or with a handler has been POSTed for every attempt it
\* counts, and is of a delivery the broker was given.
Counted(j) ==
    /\ j.uuid \in queued
    /\ j.attempt < MaxAttempts
    /\ j.attempt <= Tries(j.uuid)

\* What the handler in slot w knows about its job at each step.
HandlerKnows(w) ==
    /\ Counted(slot[w].job)
    /\ slot[w].pc = "markDelivered" => slot[w].job.uuid \in received
    /\ slot[w].pc \in {"markRetry", "republish"} =>
         Attempt(w) < MaxAttempts /\ Attempt(w) <= Tries(slot[w].job.uuid)
    /\ slot[w].pc \in {"markDlq", "reject"} => TriedOrUnparsable(slot[w].job.uuid)

\* The handlers that will still do something about their job.
Active == {w \in Held : slot[w].pc # "ack"}

WorkerInv ==
    /\ IsBagOver(JobRecord, queue)
    /\ IsBagOver(Delivery, posts)
    /\ slot \in [Slots -> {None} \union Handler]
    /\ \A j \in BagToSet(queue) : Counted(j)
    /\ \A w \in Busy : HandlerKnows(w)
    /\ \A u \in queued :
          \/ \E j \in BagToSet(queue) : j.uuid = u
          \/ \E w \in Active : slot[w].job.uuid = u
          \/ u \in dead \union received

RowsInv ==
    /\ issued \in [Offsets \X Subs -> Nat]
    /\ Deliveries \subseteq Delivery
    /\ \A u \in Deliveries :
          /\ u[3] <= issued[<<u[1], u[2]>>]
          /\ rows[u].status \in {"pending", "ok", "retry", "dlq"}
          /\ rows[u].attempt \in 0 .. MaxAttempts
    /\ StatusIsEarned

\* The fan-out of the event at position is under way.
FanningOut == mpc \in {"record", "publish", "commit"}

\* Subscription s of event o has a job, or the fan-out is about to make one.
Served(o, s) == \E u \in queued : u[1] = o /\ u[2] = s
AboutToServe(s) == s \in todo \/ (mpc = "publish" /\ uuid[2] = s)

\* Event o went to every subscription it matched.
FannedOut(o) ==
    \A m \in matched : m[1] = o /\ sub[m[2]] = "enabled" => Served(o, m[2])

MatcherInv ==
    /\ sub \in [Subs -> {"absent", "enabled", "deleted"}]
    /\ unparsable \subseteq Subs
    /\ position \in 0 .. Len(Matches)
    /\ committed \in 0 .. position
    /\ mpc \in {"fetch", "match", "record", "publish", "commit"}
    /\ mpc # "fetch" => committed < position
    /\ IF mpc = "publish" THEN uuid \in Delivery /\ uuid[1] = position ELSE uuid = None
    /\ todo \subseteq Subs
    /\ mpc = "commit" => todo = {}
    /\ faults \in 0 .. MaxFaults
    /\ queued \subseteq Delivery
    /\ \A m \in matched :
          m[1] \in Offsets /\ m[2] \in Matches[m[1]] /\ sub[m[2]] # "absent"
    /\ \A o \in committed + 1 .. position :
          o \in missed \/ (o = position /\ mpc # "fetch") \/ FannedOut(o)
    /\ FanningOut =>
          \A m \in matched :
             m[1] = position /\ position \notin missed /\ sub[m[2]] = "enabled" =>
                AboutToServe(m[2]) \/ Served(position, m[2])
    /\ CommittedIsFannedOut

WInv == WorkerInv /\ RowsInv /\ MatcherInv

-----------------------------------------------------------------------------
(* Bags.                                                                   *)

Copies(e, B) == IF BagIn(e, B) THEN B[e] ELSE 0

\* A union of two bags has the elements of both, and no fewer copies of any.
LEMMA BagAddElements ==
    ASSUME NEW B, NEW C
    PROVE  BagToSet(B (+) C) = BagToSet(B) \union BagToSet(C)
BY DEF (+), BagToSet

LEMMA BagAddCopies ==
    ASSUME NEW S, NEW B, NEW C, IsBagOver(S, B), IsBagOver(S, C)
    PROVE  /\ IsBagOver(S, B (+) C)
           /\ \A e : Copies(e, B) <= Copies(e, B (+) C)
<1>1. \A e \in BagToSet(B (+) C) :
         (B (+) C)[e] = (IF e \in BagToSet(B) THEN B[e] ELSE 0)
                          + (IF e \in BagToSet(C) THEN C[e] ELSE 0)
  BY DEF (+), BagToSet
<1>2. \A e \in BagToSet(B (+) C) : (B (+) C)[e] \in Nat \ {0}
  BY <1>1, BagAddElements DEF IsBagOver
<1>3. \A e : Copies(e, B) <= Copies(e, B (+) C)
  BY <1>1, <1>2, BagAddElements DEF Copies, BagIn, IsBagOver
<1>. QED  BY <1>2, <1>3, BagAddElements DEF IsBagOver

\* Adding one copy of x.
LEMMA OneElement ==
    ASSUME NEW x
    PROVE  BagToSet(SetToBag({x})) = {x} /\ SetToBag({x})[x] = 1
BY DEF SetToBag, BagToSet

LEMMA BagAddElement ==
    ASSUME NEW B, NEW x
    PROVE  BagToSet(B (+) SetToBag({x})) = BagToSet(B) \union {x}
BY DEF (+), BagToSet, SetToBag

LEMMA BagAddOne ==
    ASSUME NEW S, NEW B, IsBagOver(S, B), NEW x \in S
    PROVE  /\ IsBagOver(S, B (+) SetToBag({x}))
           /\ Copies(x, B) \in Nat
           /\ Copies(x, B (+) SetToBag({x})) = Copies(x, B) + 1
           /\ \A e : Copies(e, B) <= Copies(e, B (+) SetToBag({x}))
<1>. DEFINE C == SetToBag({x})
<1>1. IsBagOver(S, C) /\ BagToSet(C) = {x} /\ C[x] = 1
  <2>1. BagToSet(C) = {x} /\ C[x] = 1
    BY OneElement
  <2>. HIDE DEF C
  <2>. QED  BY <2>1 DEF IsBagOver
<1>. HIDE DEF C
<1>2. IsBagOver(S, B (+) C) /\ \A e : Copies(e, B) <= Copies(e, B (+) C)
  BY <1>1, BagAddCopies
<1>3. x \in BagToSet(B (+) C)
  BY <1>1, BagAddElements
<1>4. (B (+) C)[x] = (IF x \in BagToSet(B) THEN B[x] ELSE 0) + 1
  BY <1>1 DEF (+), BagToSet
<1>5. Copies(x, B) \in Nat /\ Copies(x, B (+) C) = Copies(x, B) + 1
  BY <1>3, <1>4 DEF Copies, BagIn, IsBagOver
<1>. QED  BY <1>2, <1>5 DEF C

\* Taking one copy of x out leaves the other elements where they are.
LEMMA BagTakeOne ==
    ASSUME NEW S, NEW B, IsBagOver(S, B), NEW x
    PROVE  /\ IsBagOver(S, B (-) SetToBag({x}))
           /\ \A e \in BagToSet(B (-) SetToBag({x})) : e \in BagToSet(B)
           /\ \A e \in BagToSet(B) :
                 e # x => e \in BagToSet(B (-) SetToBag({x}))
<1>. DEFINE C == [e \in DOMAIN B |-> IF e \in {x} THEN B[e] - 1 ELSE B[e]]
<1>1. B (-) SetToBag({x}) = [e \in {d \in DOMAIN B : C[d] > 0} |-> C[e]]
  BY DEF (-), SetToBag
<1>2. \A e \in DOMAIN B : C[e] \in Int /\ (e # x => C[e] = B[e] /\ C[e] > 0)
  BY DEF IsBagOver, BagToSet
<1>. HIDE DEF C
<1>. QED  BY <1>1, <1>2 DEF IsBagOver, BagToSet

\* The jobs a closing channel gives back are those of the handlers holding one.
LEMMA HeldBag ==
    ASSUME slot \in [Slots -> {None} \union Handler]
    PROVE  /\ IsBagOver(JobRecord, HeldJobs)
           /\ BagToSet(HeldJobs) = {slot[w].job : w \in Held}
<1>1. BagToSet(HeldJobs) = {slot[w].job : w \in Held}
  BY DEF HeldJobs, BagToSet
<1>2. \A w \in Held : w \in Slots /\ slot[w] \in Handler
  BY DEF Held, Busy
<1>3. ASSUME NEW j \in BagToSet(HeldJobs)
      PROVE  j \in JobRecord /\ HeldJobs[j] \in Nat \ {0}
  <2>1. PICK w \in Held : j = slot[w].job
    BY <1>1
  <2>. DEFINE T == {v \in Held : slot[v].job = j}
  <2>2. IsFiniteSet(T) /\ T # {}
    BY <1>2, <2>1, FS_Subset, SlotsAssumption
  <2>3. Cardinality(T) \in Nat /\ Cardinality(T) # 0
    BY <2>2, FS_CardinalityType, FS_EmptySet
  <2>4. HeldJobs[j] = Cardinality(T)
    BY <1>1 DEF HeldJobs, BagToSet
  <2>. QED  BY <1>2, <2>1, <2>3, <2>4 DEF Handler
<1>. QED  BY <1>1, <1>3 DEF IsBagOver

-----------------------------------------------------------------------------
(* What a step never takes back.                                           *)

Grows ==
    /\ queued \subseteq queued'
    /\ received \subseteq received'
    /\ unparsable \subseteq unparsable'
    /\ IsBagOver(Delivery, posts)
    /\ IsBagOver(Delivery, posts')
    /\ \A u : Copies(u, posts) <= Copies(u, posts')

LEMMA CopiesType ==
    ASSUME NEW S, NEW B, IsBagOver(S, B)
    PROVE  \A e : Copies(e, B) \in Nat
BY DEF Copies, BagIn, IsBagOver

LEMMA StepGrows ==
    ASSUME WInv, [Next]_vars
    PROVE  Grows
<1>1. IsBagOver(Delivery, posts) /\ slot \in [Slots -> {None} \union Handler]
  BY DEF WInv, WorkerInv
<1>2. \A u : Copies(u, posts) \in Nat
  BY <1>1, CopiesType
<1>3. ASSUME NEW w \in Slots, Post(w)
      PROVE  /\ IsBagOver(Delivery, posts')
             /\ \A u : Copies(u, posts) <= Copies(u, posts')
  <2>. DEFINE u == slot[w].job.uuid
  <2>1. u \in Delivery
    BY <1>1, <1>3 DEF Post, Goto, Busy, Handler, JobRecord
  <2>2. posts' = posts (+) SetToBag({u})
    BY <1>3 DEF Post
  <2>. HIDE DEF u
  <2>. QED  BY <1>1, <2>1, <2>2, BagAddOne
<1>4. CASE posts' = posts
  <2>1. queued \subseteq queued' /\ received \subseteq received'
        /\ unparsable \subseteq unparsable'
    BY DEF Next, vars, matcherVars, workerVars, matchHistory, postHistory, subVars,
           CreateSubscription, DeleteSubscription, Matcher, FetchMessage,
           MatchingSubscriptions, RecordDelivery, PublishJob, CommitMessages,
           PublishLost, FanOutFails, CommitFails, Handle, Consume, Post, Mark, Republish, Ack,
           Reject, ConnectionLost, Restart
  <2>. QED  BY <1>1, <1>2, <1>4, <2>1 DEF Grows
<1>5. CASE \E w \in Slots : Post(w)
  <2>1. queued \subseteq queued' /\ received \subseteq received'
        /\ unparsable \subseteq unparsable'
    BY <1>5 DEF Post, subVars, matchHistory
  <2>. QED  BY <1>1, <1>3, <1>5, <2>1 DEF Grows
<1>6. posts' = posts \/ \E w \in Slots : Post(w)
  BY DEF Next, vars, matcherVars, workerVars, matchHistory, postHistory, subVars,
         CreateSubscription, DeleteSubscription, Matcher, FetchMessage,
         MatchingSubscriptions, RecordDelivery, PublishJob, CommitMessages,
         PublishLost, FanOutFails, CommitFails, Handle, Consume, Mark, Republish, Ack,
         Reject, ConnectionLost, Restart
<1>. QED  BY <1>4, <1>5, <1>6

\* Facts about a job or a delivery that held go on holding.
LEMMA StillTrue ==
    ASSUME Grows
    PROVE  /\ \A j \in JobRecord : Counted(j) => Counted(j)'
           /\ \A u : TriedOrUnparsable(u) => TriedOrUnparsable(u)'
<1>1. \A u : /\ Tries(u) \in Nat /\ Tries(u)' \in Nat
             /\ Tries(u) <= Tries(u)'
  BY CopiesType DEF Grows, Tries, Copies
<1>2. \A j \in JobRecord : j.attempt \in Nat
  BY DEF JobRecord
<1>. QED  BY <1>1, <1>2, BoundsAssumption DEF Counted, TriedOrUnparsable, Grows

LEMMA HandlerStillKnows ==
    ASSUME Grows, NEW w \in Slots, slot[w] \in Handler, HandlerKnows(w),
           slot'[w].job = slot[w].job, slot'[w].pc = slot[w].pc
    PROVE  HandlerKnows(w)'
<1>1. slot[w].job \in JobRecord
  BY DEF Handler
<1>2. PICK j \in JobRecord : j = slot[w].job
  BY <1>1
<1>3. j.attempt \in Nat /\ slot'[w].job = j
  BY <1>2 DEF JobRecord
<1>4. Counted(j)'
  BY <1>2, StillTrue DEF HandlerKnows
<1>5. TriedOrUnparsable(j.uuid) => TriedOrUnparsable(j.uuid)'
  BY StillTrue
<1>6. Tries(j.uuid) \in Nat /\ Tries(j.uuid)' \in Nat /\ Tries(j.uuid) <= Tries(j.uuid)'
  BY CopiesType DEF Grows, Tries, Copies
<1>7. j.attempt + 1 <= Tries(j.uuid) => j.attempt + 1 <= Tries(j.uuid)'
  BY <1>3, <1>6
<1>8. received \subseteq received'
  BY DEF Grows
<1>. QED  BY <1>2, <1>3, <1>4, <1>5, <1>7, <1>8 DEF HandlerKnows, Attempt

-----------------------------------------------------------------------------
(* The worker's part.                                                      *)

\* A handler that still has its job to do.
Working(h) == h # None /\ h.live /\ h.pc # "ack"

\* A step of the handler in slot w, which leaves h there.
LEMMA OneSlot ==
    ASSUME WorkerInv, Grows, NEW w \in Slots, NEW h \in {None} \union Handler,
           slot' = [slot EXCEPT ![w] = h],
           h # None => HandlerKnows(w)',
           queued' = queued, dead \subseteq dead',
           IsBagOver(JobRecord, queue'),
           \A j \in BagToSet(queue') : j \in BagToSet(queue) \/ Counted(j)',
           \A j \in BagToSet(queue) :
              j \in BagToSet(queue') \/ (Working(h) /\ h.job = j),
           Working(slot[w]) =>
              \/ slot[w].job.uuid \in dead' \union received'
              \/ Working(h) /\ h.job = slot[w].job
              \/ \E j \in BagToSet(queue') : j.uuid = slot[w].job.uuid
    PROVE  WorkerInv'
<1>. USE DEF WorkerInv
<1>1. IsBagOver(Delivery, posts')
  BY DEF Grows
<1>2. slot' \in [Slots -> {None} \union Handler]
  OBVIOUS
<1>3. ASSUME NEW j \in BagToSet(queue')
      PROVE  Counted(j)'
  <2>1. j \in BagToSet(queue) => j \in JobRecord /\ Counted(j)
    BY DEF IsBagOver
  <2>. QED  BY <2>1, StillTrue
<1>4. ASSUME NEW v \in Busy'
      PROVE  HandlerKnows(v)'
  <2>1. v \in Slots /\ slot'[v] # None
    BY DEF Busy
  <2>2. CASE v = w
    BY <2>1, <2>2
  <2>3. CASE v # w
    <3>1. slot'[v] = slot[v] /\ v \in Busy /\ slot[v] \in Handler
      BY <2>1, <2>3 DEF Busy
    <3>. QED  BY <2>1, <3>1, HandlerStillKnows
  <2>. QED  BY <2>2, <2>3
<1>5. Active = {v \in Slots : Working(slot[v])}
  BY DEF Active, Held, Busy, Working
<1>6. Active' = {v \in Slots : Working(slot'[v])}
  BY DEF Active, Held, Busy, Working
<1>7. w \in Active' <=> Working(h)
  BY <1>6
<1>8. ASSUME NEW u \in queued'
      PROVE  \/ \E j \in BagToSet(queue') : j.uuid = u
             \/ \E v \in Active' : slot'[v].job.uuid = u
             \/ u \in dead' \union received'
  <2>1. CASE \E j \in BagToSet(queue) : j.uuid = u
    BY <1>7, <2>1
  <2>2. CASE \E v \in Active : slot[v].job.uuid = u
    <3>1. PICK v \in Active : slot[v].job.uuid = u
      BY <2>2
    <3>2. CASE v = w
      BY <1>5, <1>7, <3>1, <3>2
    <3>3. CASE v # w
      BY <1>5, <1>6, <3>1, <3>3
    <3>. QED  BY <3>2, <3>3
  <2>3. CASE u \in dead \union received
    BY <2>3 DEF Grows
  <2>. QED  BY <2>1, <2>2, <2>3
<1>. QED  BY <1>1, <1>2, <1>3, <1>4, <1>8

\* A handler that only goes to its next call.
LEMMA OnlyGoto ==
    ASSUME WorkerInv, NEW w \in Slots, NEW from, NEW to \in Calls, Goto(w, from, to)
    PROVE  /\ slot[w] \in Handler /\ slot[w].pc = from
           /\ [slot[w] EXCEPT !.pc = to] \in {None} \union Handler
           /\ slot' = [slot EXCEPT ![w] = [slot[w] EXCEPT !.pc = to]]
           /\ slot'[w].job = slot[w].job /\ slot'[w].pc = to
           /\ slot'[w] # None
           /\ Working(slot[w]) /\ to # "ack" =>
                Working([slot[w] EXCEPT !.pc = to])
<1>1. slot \in [Slots -> {None} \union Handler] /\ w \in Slots /\ slot[w] # None
  BY DEF WorkerInv, Goto, Busy
<1>2. slot[w] \in Handler
  BY <1>1
<1>3. [slot[w] EXCEPT !.pc = to] \in Handler
  BY <1>2 DEF Handler
<1>4. slot'[w] = [slot[w] EXCEPT !.pc = to]
  BY <1>1 DEF Goto
<1>. QED  BY <1>1, <1>2, <1>3, <1>4, NoneAssumption DEF Goto, Handler, Working

LEMMA ConsumeKeeps ==
    ASSUME WorkerInv, Grows, NEW w \in Slots, Consume(w)
    PROVE  WorkerInv'
<1>. DEFINE H(j, pc) == [pc |-> pc, job |-> j, live |-> TRUE]
<1>1. PICK j \in BagToSet(queue), pc \in {"markDlq", "post"} :
         /\ queue' = queue (-) SetToBag({j})
         /\ slot' = [slot EXCEPT ![w] = H(j, pc)]
         /\ pc = "markDlq" => j.uuid[2] \in unparsable
  BY DEF Consume
<1>2. UNCHANGED <<queued, dead, received, unparsable, posts>> /\ slot[w] = None
  BY DEF Consume, Busy, matchHistory, postHistory, subVars
<1>3. IsBagOver(JobRecord, queue) /\ j \in JobRecord /\ Counted(j)
  BY DEF WorkerInv, IsBagOver
<1>4. /\ IsBagOver(JobRecord, queue')
      /\ \A i \in BagToSet(queue') : i \in BagToSet(queue)
      /\ \A i \in BagToSet(queue) : i # j => i \in BagToSet(queue')
  BY <1>1, <1>3, BagTakeOne
<1>5. H(j, pc) \in Handler
  <2>1. pc \in Calls
    BY DEF Calls
  <2>. QED  BY <1>3, <2>1 DEF Handler
<1>6. Working(H(j, pc)) /\ H(j, pc).job = j
  BY <1>5, NoneAssumption DEF Working
<1>7. HandlerKnows(w)'
  <2>1. slot'[w] = H(j, pc)
    BY <1>1 DEF WorkerInv
  <2>2. Counted(j)'
    BY <1>3, StillTrue
  <2>3. j.uuid[2] \in unparsable => TriedOrUnparsable(j.uuid)'
    BY <1>2 DEF TriedOrUnparsable
  <2>. QED  BY <1>1, <2>1, <2>2, <2>3 DEF HandlerKnows
<1>. HIDE DEF H
<1>. QED  BY <1>1, <1>2, <1>4, <1>5, <1>6, <1>7, OneSlot DEF Working

LEMMA PostKeeps ==
    ASSUME WorkerInv, Grows, NEW w \in Slots, Post(w)
    PROVE  WorkerInv'
<1>1. PICK to \in {"markDelivered", "markDlq", "markRetry"} :
         /\ Goto(w, "post", to)
         /\ to = "markDelivered" => slot[w].job.uuid \in received'
         /\ to = "markDlq" => Last(w)
         /\ to = "markRetry" => ~Last(w)
  BY DEF Post
<1>2. to \in Calls /\ to # "ack"
  BY DEF Calls
<1>. DEFINE h == [slot[w] EXCEPT !.pc = to]
<1>3. /\ slot[w] \in Handler /\ h \in {None} \union Handler
      /\ slot' = [slot EXCEPT ![w] = h]
      /\ slot'[w].job = slot[w].job /\ slot'[w].pc = to
      /\ Working(slot[w]) => Working(h)
  BY <1>1, <1>2, OnlyGoto
<1>4. UNCHANGED <<queue, queued, dead>>
      /\ posts' = posts (+) SetToBag({slot[w].job.uuid})
  BY DEF Post, matchHistory
<1>5. PICK n \in Nat, u \in Delivery :
         slot[w].job = [uuid |-> u, attempt |-> n] /\ slot[w].job \in JobRecord
  BY <1>3 DEF Handler, JobRecord
<1>6. Counted(slot[w].job)
  BY <1>1 DEF Goto, WorkerInv, HandlerKnows
<1>7. n < MaxAttempts /\ n <= Tries(u)
  BY <1>5, <1>6 DEF Counted
<1>8. Copies(u, posts) \in Nat /\ Copies(u, posts') = Copies(u, posts) + 1
  BY <1>4, <1>5, BagAddOne DEF WorkerInv
<1>9. Tries(u) \in Nat /\ Tries(u)' = Tries(u) + 1
  BY <1>8 DEF Tries, Copies
<1>10. n + 1 <= Tries(u)' /\ Tries(u)' \in Nat
  BY <1>7, <1>9
<1>11. Attempt(w) = n + 1 /\ Attempt(w)' = n + 1 /\ slot'[w].job.uuid = u
  BY <1>3, <1>5 DEF Attempt
<1>12. HandlerKnows(w)'
  <2>1. Counted(slot[w].job)'
    BY <1>3, <1>5, <1>6, StillTrue
  <2>2. CASE to = "markDlq"
    <3>1. n + 1 >= MaxAttempts
      BY <1>1, <1>11, <2>2 DEF Last
    <3>2. Tries(u)' >= MaxAttempts
      BY <1>10, <3>1, BoundsAssumption
    <3>. QED  BY <1>3, <1>11, <2>1, <2>2, <3>2 DEF HandlerKnows, TriedOrUnparsable
  <2>3. CASE to = "markRetry"
    <3>1. n + 1 < MaxAttempts
      BY <1>1, <1>11, <2>3, BoundsAssumption DEF Last
    <3>. QED  BY <1>3, <1>10, <1>11, <2>1, <2>3, <3>1 DEF HandlerKnows
  <2>4. CASE to = "markDelivered"
    BY <1>1, <1>3, <2>1, <2>4 DEF HandlerKnows
  <2>. QED  BY <2>2, <2>3, <2>4
<1>13. h.job = slot[w].job
  BY <1>3 DEF Handler
<1>14. IsBagOver(JobRecord, queue')
  BY <1>4 DEF WorkerInv
<1>. HIDE DEF h
<1>. QED  BY <1>3, <1>4, <1>12, <1>13, <1>14, OneSlot

LEMMA MarkKeeps ==
    ASSUME WorkerInv, Grows, NEW w \in Slots, Mark(w)
    PROVE  WorkerInv'
<1>1. PICK from \in Calls, to \in Calls :
         /\ Goto(w, from, to)
         /\ \/ from = "markDelivered" /\ to = "ack"
            \/ from = "markRetry" /\ to = "republish"
            \/ from = "markDlq" /\ to = "reject"
  BY DEF Mark, Marks, Calls
<1>. DEFINE h == [slot[w] EXCEPT !.pc = to]
<1>2. /\ slot[w] \in Handler /\ slot[w].pc = from
      /\ h \in {None} \union Handler /\ slot' = [slot EXCEPT ![w] = h]
      /\ slot'[w].job = slot[w].job /\ slot'[w].pc = to
      /\ Working(slot[w]) /\ to # "ack" => Working(h)
  BY <1>1, OnlyGoto
<1>3. UNCHANGED <<queue, queued, dead, posts, received, unparsable>>
  BY DEF Mark, matchHistory, postHistory, subVars
<1>4. HandlerKnows(w)
  BY <1>1 DEF Goto, WorkerInv
<1>5. HandlerKnows(w)'
  <2>1. Counted(slot[w].job)'
    BY <1>2, <1>4, StillTrue DEF HandlerKnows, Handler
  <2>2. Tries(slot[w].job.uuid)' = Tries(slot[w].job.uuid)
        /\ Attempt(w)' = Attempt(w)
    BY <1>2, <1>3 DEF Tries, Attempt
  <2>3. TriedOrUnparsable(slot[w].job.uuid) => TriedOrUnparsable(slot[w].job.uuid)'
    BY <1>2, <1>3, <2>2 DEF TriedOrUnparsable
  <2>4. CASE from = "markDelivered" /\ to = "ack"
    BY <1>2, <1>4, <2>1, <2>4 DEF HandlerKnows
  <2>5. CASE from = "markRetry" /\ to = "republish"
    BY <1>2, <1>4, <2>1, <2>2, <2>5 DEF HandlerKnows
  <2>6. CASE from = "markDlq" /\ to = "reject"
    BY <1>2, <1>4, <2>1, <2>3, <2>6 DEF HandlerKnows
  <2>. QED  BY <1>1, <2>4, <2>5, <2>6
<1>6. to = "ack" => slot[w].job.uuid \in received
  BY <1>1, <1>2, <1>4 DEF HandlerKnows
<1>7. h.job = slot[w].job
  BY <1>2 DEF Handler
<1>8. IsBagOver(JobRecord, queue')
  BY <1>3 DEF WorkerInv
<1>. HIDE DEF h
<1>. QED  BY <1>2, <1>3, <1>5, <1>6, <1>7, <1>8, OneSlot

LEMMA RepublishKeeps ==
    ASSUME WorkerInv, Grows, NEW w \in Slots, Republish(w)
    PROVE  WorkerInv'
<1>1. w \in Busy /\ slot[w] \in Handler /\ slot[w].pc = "republish" /\ HandlerKnows(w)
  BY DEF Republish, WorkerInv, Busy
<1>2. UNCHANGED <<queued, dead, posts, received, unparsable>>
  BY DEF Republish, matchHistory, postHistory, subVars
<1>3. IsBagOver(JobRecord, queue)
  BY DEF WorkerInv
<1>4. CASE slot[w].live
  <2>. DEFINE h == [slot[w] EXCEPT !.pc = "ack"]
  <2>1. Goto(w, "republish", "ack") /\ "ack" \in Calls
    BY <1>4 DEF Republish, Calls
  <2>2. /\ h \in {None} \union Handler /\ slot' = [slot EXCEPT ![w] = h]
        /\ slot'[w].job = slot[w].job /\ slot'[w].pc = "ack"
    BY <2>1, OnlyGoto
  <2>3. HandlerKnows(w)'
    BY <1>1, <2>2, StillTrue DEF HandlerKnows, Handler
  <2>4. PICK j \in JobRecord : j = Job(slot[w].job.uuid, Attempt(w))
    <3>1. slot[w].job \in JobRecord
      BY <1>1 DEF Handler
    <3>2. slot[w].job.uuid \in Delivery /\ Attempt(w) \in Nat
      BY <3>1 DEF JobRecord, Attempt
    <3>. QED  BY <3>2 DEF Job, JobRecord
  <2>5. queue' = queue (+) SetToBag({j})
    BY <1>4, <2>4 DEF Republish
  <2>6. j.uuid = slot[w].job.uuid /\ Counted(j)
    BY <1>1, <2>4 DEF HandlerKnows, Counted, Job
  <2>7. IsBagOver(JobRecord, queue')
    BY <1>3, <2>5, BagAddOne
  <2>8. BagToSet(queue') = BagToSet(queue) \union {j}
    BY <2>5, BagAddElement
  <2>9. Counted(j)'
    BY <2>6, StillTrue
  <2>. HIDE DEF h
  <2>. QED  BY <1>2, <2>2, <2>3, <2>6, <2>7, <2>8, <2>9, OneSlot
<1>5. CASE ~slot[w].live
  <2>1. slot' = [slot EXCEPT ![w] = None] /\ queue' = queue
    BY <1>5 DEF Republish, Free
  <2>. QED  BY <1>2, <1>3, <1>5, <2>1, OneSlot DEF Working
<1>. QED  BY <1>4, <1>5

LEMMA AckKeeps ==
    ASSUME WorkerInv, Grows, NEW w \in Slots, Ack(w)
    PROVE  WorkerInv'
<1>1. slot' = [slot EXCEPT ![w] = None] /\ slot[w].pc = "ack"
      /\ UNCHANGED <<queue, queued, dead>>
  BY DEF Ack, Free, matchHistory
<1>2. IsBagOver(JobRecord, queue')
  BY <1>1 DEF WorkerInv
<1>. QED  BY <1>1, <1>2, OneSlot DEF Working

LEMMA RejectKeeps ==
    ASSUME WorkerInv, Grows, NEW w \in Slots, Reject(w)
    PROVE  WorkerInv'
<1>1. slot' = [slot EXCEPT ![w] = None] /\ UNCHANGED <<queue, queued>>
      /\ dead' = IF slot[w].live THEN dead \union {slot[w].job.uuid} ELSE dead
  BY DEF Reject, Free, matchHistory
<1>2. IsBagOver(JobRecord, queue')
  BY <1>1 DEF WorkerInv
<1>. QED  BY <1>1, <1>2, OneSlot DEF Working

\* The broker takes back what the handlers hold, and h is what they become.
LEMMA TakenBack ==
    ASSUME WorkerInv, Grows, queue' = queue (+) HeldJobs,
           slot' \in [Slots -> {None} \union Handler],
           \A w \in Slots : slot'[w] # None =>
              /\ slot[w] # None
              /\ slot'[w].job = slot[w].job /\ slot'[w].pc = slot[w].pc,
           UNCHANGED <<queued, dead>>
    PROVE  WorkerInv'
<1>. USE DEF WorkerInv
<1>1. /\ IsBagOver(JobRecord, HeldJobs)
      /\ BagToSet(HeldJobs) = {slot[w].job : w \in Held}
  BY HeldBag
<1>2. IsBagOver(JobRecord, queue')
  BY <1>1, BagAddCopies
<1>3. BagToSet(queue') = BagToSet(queue) \union {slot[w].job : w \in Held}
  BY <1>1, BagAddElements
<1>4. IsBagOver(Delivery, posts')
  BY DEF Grows
<1>5. ASSUME NEW j \in BagToSet(queue')
      PROVE  Counted(j)'
  <2>1. j \in JobRecord /\ Counted(j)
    BY <1>2, <1>3 DEF IsBagOver, Held, HandlerKnows
  <2>. QED  BY <2>1, StillTrue
<1>6. ASSUME NEW w \in Busy'
      PROVE  HandlerKnows(w)'
  <2>1. w \in Slots /\ w \in Busy /\ slot[w] \in Handler
        /\ slot'[w].job = slot[w].job /\ slot'[w].pc = slot[w].pc
    BY DEF Busy
  <2>. QED  BY <2>1, HandlerStillKnows
<1>7. ASSUME NEW u \in queued'
      PROVE  \/ \E j \in BagToSet(queue') : j.uuid = u
             \/ u \in dead' \union received'
  BY <1>3 DEF Active, Grows
<1>. QED  BY <1>2, <1>4, <1>5, <1>6, <1>7

LEMMA WorkerFrame ==
    ASSUME WorkerInv, Grows, UNCHANGED <<queue, posts, slot, queued, dead>>
    PROVE  WorkerInv'
<1>. USE DEF WorkerInv
<1>1. ASSUME NEW j \in BagToSet(queue')
      PROVE  Counted(j)'
  BY StillTrue DEF IsBagOver
<1>2. ASSUME NEW w \in Busy'
      PROVE  HandlerKnows(w)'
  <2>1. w \in Slots /\ w \in Busy /\ slot[w] \in Handler /\ slot'[w] = slot[w]
    BY DEF Busy
  <2>. QED  BY <2>1, HandlerStillKnows
<1>3. Active' = Active /\ received \subseteq received'
  BY DEF Active, Held, Busy, Grows
<1>. QED  BY <1>1, <1>2, <1>3

LEMMA PublishKeeps ==
    ASSUME WorkerInv, MatcherInv, Grows, PublishJob
    PROVE  WorkerInv'
<1>. USE DEF WorkerInv
<1>1. /\ uuid \in Delivery /\ queued' = queued \union {uuid}
      /\ queue' = queue (+) SetToBag({Job(uuid, 0)})
      /\ UNCHANGED <<posts, slot, dead>>
  BY DEF PublishJob, MatcherInv, postHistory, workerVars
<1>2. PICK n \in JobRecord : n = Job(uuid, 0)
  BY <1>1 DEF JobRecord, Job
<1>3. n.uuid = uuid /\ n.attempt = 0
  BY <1>2 DEF Job
<1>4. IsBagOver(JobRecord, queue')
  BY <1>1, <1>2, BagAddOne
<1>5. BagToSet(queue') = BagToSet(queue) \union {n}
  BY <1>1, <1>2, BagAddElement
<1>6. Counted(n)'
  <2>1. \A u : Tries(u)' \in Nat
    BY CopiesType DEF Grows, Tries, Copies
  <2>. QED  BY <1>1, <1>3, <2>1, BoundsAssumption DEF Counted
<1>7. ASSUME NEW j \in BagToSet(queue')
      PROVE  Counted(j)'
  BY <1>5, <1>6, StillTrue DEF IsBagOver
<1>8. ASSUME NEW w \in Busy'
      PROVE  HandlerKnows(w)'
  <2>1. w \in Slots /\ w \in Busy /\ slot[w] \in Handler /\ slot'[w] = slot[w]
    BY <1>1 DEF Busy
  <2>. QED  BY <2>1, HandlerStillKnows
<1>9. Active' = Active /\ received \subseteq received'
  BY <1>1 DEF Active, Held, Busy, Grows
<1>. QED  BY <1>1, <1>3, <1>4, <1>5, <1>7, <1>8, <1>9

LEMMA WorkerStep ==
    ASSUME WInv, [Next]_vars
    PROVE  WorkerInv'
<1>1. WorkerInv /\ MatcherInv /\ Grows
  BY StepGrows DEF WInv
<1>. USE DEF subVars, matcherVars, workerVars, matchHistory, postHistory
<1>2. CASE UNCHANGED vars
  BY <1>1, <1>2, WorkerFrame DEF vars
<1>3. CASE \E s \in Subs : CreateSubscription(s) \/ DeleteSubscription(s)
  BY <1>1, <1>3, WorkerFrame DEF CreateSubscription, DeleteSubscription
<1>4. CASE Matcher
  <2>1. CASE PublishJob
    BY <1>1, <2>1, PublishKeeps
  <2>2. CASE UNCHANGED <<queue, posts, slot, queued, dead>>
    BY <1>1, <2>2, WorkerFrame
  <2>. QED  BY <1>4, <2>1, <2>2
         DEF Matcher, FetchMessage, MatchingSubscriptions, RecordDelivery, CommitMessages
<1>5. CASE PublishLost \/ FanOutFails \/ CommitFails
  BY <1>1, <1>5, WorkerFrame DEF PublishLost, FanOutFails, CommitFails
<1>6. CASE \E w \in Slots : Handle(w)
  BY <1>1, <1>6, ConsumeKeeps, PostKeeps, MarkKeeps, RepublishKeeps, AckKeeps,
     RejectKeeps DEF Handle
<1>7. slot \in [Slots -> {None} \union Handler]
  BY <1>1 DEF WorkerInv
<1>8. CASE ConnectionLost
  <2>1. slot' = [w \in Slots |-> IF w \in Held THEN [slot[w] EXCEPT !.live = FALSE]
                                 ELSE slot[w]]
    BY <1>8 DEF ConnectionLost
  <2>2. \A w \in Held : w \in Slots /\ slot[w] \in Handler
    BY <1>7 DEF Held, Busy
  <2>3. \A w \in Held : /\ [slot[w] EXCEPT !.live = FALSE] \in Handler
                        /\ [slot[w] EXCEPT !.live = FALSE].job = slot[w].job
                        /\ [slot[w] EXCEPT !.live = FALSE].pc = slot[w].pc
    BY <2>2 DEF Handler
  <2>4. \A w \in Held : slot[w] # None
    BY DEF Held, Busy
  <2>5. slot' \in [Slots -> {None} \union Handler]
    BY <1>7, <2>1, <2>3
  <2>6. \A w \in Slots : slot'[w] # None =>
           /\ slot[w] # None
           /\ slot'[w].job = slot[w].job /\ slot'[w].pc = slot[w].pc
    BY <2>1, <2>3, <2>4
  <2>7. queue' = queue (+) HeldJobs /\ UNCHANGED <<queued, dead>>
    BY <1>8 DEF ConnectionLost
  <2>. QED  BY <1>1, <2>5, <2>6, <2>7, TakenBack
<1>9. CASE Restart
  BY <1>1, <1>9, TakenBack DEF Restart
<1>. QED  BY <1>2, <1>3, <1>4, <1>5, <1>6, <1>8, <1>9 DEF Next

-----------------------------------------------------------------------------
(* The rows' part.                                                         *)

LEMMA RowsFrame ==
    ASSUME RowsInv, Grows, UNCHANGED <<rows, issued>>,
           \A u \in dead' : u \in dead \/ TriedOrUnparsable(u)
    PROVE  RowsInv'
<1>1. Deliveries' = Deliveries
  BY DEF Deliveries
<1>2. StatusIsEarned'
  <2>1. \A u \in dead' : TriedOrUnparsable(u)'
    BY StillTrue DEF RowsInv, StatusIsEarned
  <2>2. \A u \in Deliveries' :
           /\ rows'[u].status = "ok" => u \in received'
           /\ rows'[u].status = "dlq" => TriedOrUnparsable(u)'
    BY <1>1, StillTrue DEF RowsInv, StatusIsEarned, Grows
  <2>. QED  BY <2>1, <2>2 DEF StatusIsEarned
<1>. QED  BY <1>1, <1>2 DEF RowsInv

LEMMA RecordKeepsRows ==
    ASSUME RowsInv, MatcherInv, Grows, NEW s \in Subs, RecordDelivery(s)
    PROVE  RowsInv'
<1>. DEFINE n == issued[<<position, s>>] + 1
            u == <<position, s, n>>
<1>1. /\ mpc = "record"
      /\ issued' = [issued EXCEPT ![<<position, s>>] = @ + 1]
      /\ rows' = [v \in Deliveries \union {u} |->
                     IF v = u THEN [status |-> "pending", attempt |-> 0] ELSE rows[v]]
      /\ dead' = dead
  BY DEF RecordDelivery
<1>2. position \in Offsets
  <2>1. Len(Matches) \in Nat /\ Offsets = 1 .. Len(Matches)
    BY MatchesAssumption DEF Offsets
  <2>. QED  BY <1>1, <2>1 DEF MatcherInv
<1>3. issued[<<position, s>>] \in Nat /\ u \in Delivery
  BY <1>2 DEF RowsInv, Delivery
<1>4. issued' \in [Offsets \X Subs -> Nat]
  <2>. DEFINE k == <<position, s>>
              D == Offsets \X Subs
  <2>1. k \in D /\ issued \in [D -> Nat]
    BY <1>2 DEF RowsInv
  <2>2. issued' = [issued EXCEPT ![k] = issued[k] + 1]
    BY <1>1
  <2>3. issued[k] + 1 \in Nat
    BY <1>3
  <2>. HIDE DEF k, D
  <2>4. issued' \in [D -> Nat]
    BY <2>1, <2>2, <2>3
  <2>. QED  BY <2>4 DEF D
<1>5. \A os \in Offsets \X Subs : issued[os] <= issued'[os]
  BY <1>1, <1>3 DEF RowsInv
<1>6. Deliveries' = Deliveries \union {u}
  BY <1>1 DEF Deliveries
<1>7. u[3] <= issued'[<<u[1], u[2]>>]
  BY <1>1, <1>2, <1>3 DEF RowsInv
<1>8. ASSUME NEW v \in Deliveries
      PROVE  v[3] <= issued'[<<v[1], v[2]>>]
  <2>1. v[3] \in Nat /\ <<v[1], v[2]>> \in Offsets \X Subs
    BY DEF RowsInv, Delivery
  <2>2. /\ v[3] <= issued[<<v[1], v[2]>>] /\ issued[<<v[1], v[2]>>] \in Nat
        /\ issued'[<<v[1], v[2]>>] \in Nat
    BY <1>4, <2>1 DEF RowsInv
  <2>. QED  BY <1>5, <2>1, <2>2
<1>9. /\ rows'[u] = [status |-> "pending", attempt |-> 0]
      /\ \A v \in Deliveries : v # u => rows'[v] = rows[v]
  BY <1>1
<1>. HIDE DEF u
<1>10. StatusIsEarned'
  <2>1. \A v \in dead' : TriedOrUnparsable(v)'
    BY <1>1, StillTrue DEF RowsInv, StatusIsEarned
  <2>2. \A v \in Deliveries' :
           /\ rows'[v].status = "ok" => v \in received'
           /\ rows'[v].status = "dlq" => TriedOrUnparsable(v)'
    BY <1>6, <1>9, StillTrue DEF RowsInv, StatusIsEarned, Grows
  <2>. QED  BY <2>1, <2>2 DEF StatusIsEarned
<1>11. \A v \in Deliveries' :
          /\ rows'[v].status \in {"pending", "ok", "retry", "dlq"}
          /\ rows'[v].attempt \in 0 .. MaxAttempts
  <2>1. 0 \in 0 .. MaxAttempts
    BY BoundsAssumption
  <2>2. ASSUME NEW v \in Deliveries
        PROVE  rows[v].status \in {"pending", "ok", "retry", "dlq"}
               /\ rows[v].attempt \in 0 .. MaxAttempts
    BY DEF RowsInv
  <2>3. rows'[u].status = "pending" /\ rows'[u].attempt = 0
    BY <1>9
  <2>. QED  BY <1>6, <1>9, <2>1, <2>2, <2>3
<1>. QED  BY <1>3, <1>4, <1>6, <1>7, <1>8, <1>10, <1>11 DEF RowsInv

LEMMA DeleteKeepsRows ==
    ASSUME RowsInv, Grows, NEW s \in Subs, DeleteSubscription(s)
    PROVE  RowsInv'
<1>1. Deliveries' \subseteq Deliveries /\ \A u \in Deliveries' : rows'[u] = rows[u]
  BY DEF DeleteSubscription, Deliveries
<1>2. issued' = issued /\ dead' = dead
  BY DEF DeleteSubscription
<1>3. StatusIsEarned'
  <2>1. \A u \in dead' : TriedOrUnparsable(u)'
    BY <1>2, StillTrue DEF RowsInv, StatusIsEarned
  <2>2. \A u \in Deliveries' :
           /\ rows'[u].status = "ok" => u \in received'
           /\ rows'[u].status = "dlq" => TriedOrUnparsable(u)'
    BY <1>1, StillTrue DEF RowsInv, StatusIsEarned, Grows
  <2>. QED  BY <2>1, <2>2 DEF StatusIsEarned
<1>. QED  BY <1>1, <1>2, <1>3 DEF RowsInv

LEMMA MarkKeepsRows ==
    ASSUME WorkerInv, RowsInv, Grows, NEW w \in Slots, Mark(w)
    PROVE  RowsInv'
<1>1. PICK status \in {"ok", "retry", "dlq"} :
         /\ w \in Busy
         /\ status = "ok" => slot[w].pc = "markDelivered"
         /\ status = "dlq" => slot[w].pc = "markDlq"
         /\ \/ rows' = [u \in Deliveries |->
                          IF u = slot[w].job.uuid
                          THEN [status |-> status, attempt |-> Attempt(w)]
                          ELSE rows[u]]
            \/ rows' = rows
  BY DEF Mark, Marks, Goto
<1>2. UNCHANGED <<issued, dead, received, posts, unparsable>>
  BY DEF Mark, postHistory, subVars
<1>3. CASE rows' = rows
  BY <1>2, <1>3, RowsFrame
<1>4. CASE rows' = [u \in Deliveries |->
                       IF u = slot[w].job.uuid
                       THEN [status |-> status, attempt |-> Attempt(w)] ELSE rows[u]]
  <2>1. HandlerKnows(w) /\ slot[w].job \in JobRecord
    BY <1>1 DEF WorkerInv, Busy, Handler
  <2>2. Attempt(w) \in 0 .. MaxAttempts
    <3>1. slot[w].job.attempt \in Nat /\ slot[w].job.attempt < MaxAttempts
      BY <2>1 DEF HandlerKnows, Counted, JobRecord
    <3>. QED  BY <3>1, BoundsAssumption DEF Attempt
  <2>3. Deliveries' = Deliveries
    BY <1>4 DEF Deliveries
  <2>4. /\ status = "ok" => slot[w].job.uuid \in received
        /\ status = "dlq" => TriedOrUnparsable(slot[w].job.uuid)
    BY <1>1, <2>1 DEF HandlerKnows
  <2>5. StatusIsEarned'
    <3>1. \A u \in dead' : TriedOrUnparsable(u)'
      BY <1>2, StillTrue DEF RowsInv, StatusIsEarned
    <3>2. \A u \in Deliveries' :
             /\ rows'[u].status = "ok" => u \in received'
             /\ rows'[u].status = "dlq" => TriedOrUnparsable(u)'
      BY <1>2, <1>4, <2>3, <2>4, StillTrue DEF RowsInv, StatusIsEarned
    <3>. QED  BY <3>1, <3>2 DEF StatusIsEarned
  <2>. QED  BY <1>2, <1>4, <2>2, <2>3, <2>5 DEF RowsInv
<1>. QED  BY <1>1, <1>3, <1>4

LEMMA RowsStep ==
    ASSUME WInv, [Next]_vars
    PROVE  RowsInv'
<1>1. WorkerInv /\ RowsInv /\ MatcherInv /\ Grows
  BY StepGrows DEF WInv
<1>2. CASE UNCHANGED <<rows, issued, dead>>
  BY <1>1, <1>2, RowsFrame
<1>3. CASE \E s \in Subs : RecordDelivery(s)
  BY <1>1, <1>3, RecordKeepsRows
<1>4. CASE \E s \in Subs : DeleteSubscription(s)
  BY <1>1, <1>4, DeleteKeepsRows
<1>5. CASE \E w \in Slots : Mark(w)
  BY <1>1, <1>5, MarkKeepsRows
<1>6. CASE \E w \in Slots : Reject(w)
  <2>1. PICK w \in Slots : Reject(w)
    BY <1>6
  <2>2. TriedOrUnparsable(slot[w].job.uuid)
    BY <1>1, <2>1 DEF Reject, WorkerInv, HandlerKnows
  <2>. QED  BY <1>1, <2>1, <2>2, RowsFrame DEF Reject
<1>. QED  BY <1>2, <1>3, <1>4, <1>5, <1>6
       DEF Next, vars, matcherVars, CreateSubscription, Matcher, FetchMessage,
           MatchingSubscriptions, PublishJob, CommitMessages, PublishLost,
           FanOutFails, CommitFails, Handle, Consume, Post, Republish, Ack, ConnectionLost,
           Restart

-----------------------------------------------------------------------------
(* The matcher's part.                                                     *)

LEMMA LenMatches == Len(Matches) \in Nat /\ Offsets = 1 .. Len(Matches)
BY MatchesAssumption DEF Offsets

\* Only these variables matter to the matcher's part.
LEMMA MatcherFrame ==
    ASSUME MatcherInv, faults' \in 0 .. MaxFaults,
           UNCHANGED <<sub, unparsable, committed, position, mpc, todo, uuid,
                       matched, missed, queued>>
    PROVE  MatcherInv'
BY DEF MatcherInv, FanningOut, AboutToServe, FannedOut, Served,
       CommittedIsFannedOut

LEMMA SubscriptionsKeepMatcher ==
    ASSUME MatcherInv, NEW s \in Subs, CreateSubscription(s) \/ DeleteSubscription(s)
    PROVE  MatcherInv'
<1>1. /\ sub' \in [Subs -> {"absent", "enabled", "deleted"}]
      /\ unparsable' \subseteq Subs
      /\ UNCHANGED <<committed, position, mpc, todo, uuid, matched, missed, queued,
                     faults>>
  BY DEF MatcherInv, CreateSubscription, DeleteSubscription, matcherVars, matchHistory
<1>2. \A m \in matched : m[2] \in Subs
  BY LenMatches, MatchesAssumption DEF MatcherInv, Offsets
<1>3. ASSUME NEW m \in matched
      PROVE  /\ sub'[m[2]] # "absent"
             /\ sub'[m[2]] = "enabled" => sub[m[2]] = "enabled"
  BY <1>2 DEF MatcherInv, CreateSubscription, DeleteSubscription
<1>. QED  BY <1>1, <1>3
       DEF MatcherInv, FanningOut, AboutToServe, FannedOut, Served,
           CommittedIsFannedOut

LEMMA FetchKeepsMatcher ==
    ASSUME MatcherInv, FetchMessage
    PROVE  MatcherInv'
<1>1. /\ mpc = "fetch" /\ mpc' = "match"
      /\ position < Len(Matches) /\ position' = position + 1
      /\ UNCHANGED <<sub, unparsable, committed, todo, uuid, matched, missed, queued,
                     faults>>
  BY DEF FetchMessage, subVars, matchHistory
<1>2. /\ position \in Nat /\ committed \in Nat /\ committed <= position
      /\ \A o \in committed + 1 .. position : o \in missed \/ FannedOut(o)
  BY <1>1, LenMatches DEF MatcherInv
<1>3. /\ position' \in 0 .. Len(Matches) /\ committed \in 0 .. position'
      /\ committed < position'
      /\ \A o \in committed + 1 .. position' :
            o \in missed \/ o = position' \/ FannedOut(o)
  BY <1>1, <1>2, LenMatches
<1>4. \A o : FannedOut(o) => FannedOut(o)'
  BY <1>1 DEF FannedOut, Served
<1>. QED  BY <1>1, <1>3, <1>4 DEF MatcherInv, FanningOut, CommittedIsFannedOut

LEMMA MatchKeepsMatcher ==
    ASSUME MatcherInv, MatchingSubscriptions
    PROVE  MatcherInv'
<1>. DEFINE found == {s \in Matches[position] : sub[s] = "enabled"}
<1>1. /\ mpc = "match" /\ todo' = found
      /\ matched' = matched \union {<<position, s>> : s \in found}
      /\ mpc' = IF found = {} THEN "commit" ELSE "record"
      /\ UNCHANGED <<sub, unparsable, committed, position, uuid, missed, queued, faults>>
  BY DEF MatchingSubscriptions, subVars
<1>2. position \in Nat /\ committed \in Nat /\ committed < position
      /\ position \in Offsets
  BY <1>1, LenMatches DEF MatcherInv
<1>3. Matches[position] \subseteq Subs
  BY <1>2, MatchesAssumption DEF Offsets
<1>4. ASSUME NEW m \in matched'
      PROVE  /\ m[1] \in Offsets /\ m[2] \in Matches[m[1]] /\ sub[m[2]] # "absent"
             /\ m \in matched \/ m[1] = position
             /\ m[1] = position /\ sub[m[2]] = "enabled" => m[2] \in found
  BY <1>1, <1>2 DEF MatcherInv
<1>5. todo' \subseteq Subs /\ (mpc' = "commit" => todo' = {})
      /\ mpc' \in {"commit", "record"}
  BY <1>1, <1>3
<1>6. CommittedIsFannedOut'
  BY <1>1, <1>2, <1>4 DEF MatcherInv, CommittedIsFannedOut
<1>7. \A m \in matched' :
         m[1] = position /\ sub[m[2]] = "enabled" => m[2] \in todo'
  BY <1>1, <1>4
<1>8. \A o : FannedOut(o) => FannedOut(o)' \/ o = position
  BY <1>1, <1>4 DEF FannedOut, Served
<1>. HIDE DEF found
<1>. QED  BY <1>1, <1>2, <1>4, <1>5, <1>6, <1>7, <1>8
       DEF MatcherInv, FanningOut, AboutToServe

LEMMA RecordKeepsMatcher ==
    ASSUME MatcherInv, RowsInv, NEW s \in Subs, RecordDelivery(s)
    PROVE  MatcherInv'
<1>. DEFINE n == issued[<<position, s>>] + 1
<1>1. /\ mpc = "record" /\ s \in todo /\ mpc' = "publish"
      /\ uuid' = <<position, s, n>> /\ todo' = todo \ {s}
      /\ UNCHANGED <<sub, unparsable, committed, position, matched, missed, queued,
                     faults>>
  BY DEF RecordDelivery, subVars, matchHistory
<1>2. position \in Nat /\ committed \in Nat /\ committed < position
      /\ position \in Offsets
  BY <1>1, LenMatches DEF MatcherInv
<1>3. uuid' \in Delivery /\ uuid'[1] = position /\ uuid'[2] = s
  <2>1. n \in Nat \ {0}
    BY <1>2 DEF RowsInv
  <2>. HIDE DEF n
  <2>. QED  BY <1>1, <1>2, <2>1 DEF Delivery
<1>4. \A t : AboutToServe(t) => AboutToServe(t)'
  BY <1>1, <1>3 DEF AboutToServe
<1>. HIDE DEF n
<1>. QED  BY <1>1, <1>2, <1>3, <1>4
       DEF MatcherInv, FanningOut, FannedOut, Served, CommittedIsFannedOut

LEMMA PublishKeepsMatcher ==
    ASSUME MatcherInv, PublishJob
    PROVE  MatcherInv'
<1>1. /\ mpc = "publish" /\ uuid' = None /\ queued' = queued \union {uuid}
      /\ mpc' = IF todo = {} THEN "commit" ELSE "record"
      /\ UNCHANGED <<sub, unparsable, committed, position, todo, matched, missed,
                     faults>>
  BY DEF PublishJob, NextSub, subVars
<1>2. uuid \in Delivery /\ uuid[1] = position /\ committed < position
  BY <1>1 DEF MatcherInv
<1>3. \A o, t : Served(o, t) => Served(o, t)'
  BY <1>1 DEF Served
<1>4. \A t : AboutToServe(t) => AboutToServe(t)' \/ Served(position, t)'
  BY <1>1, <1>2 DEF AboutToServe, Served
<1>5. CommittedIsFannedOut'
  BY <1>1 DEF MatcherInv, CommittedIsFannedOut
<1>6. FanningOut
  BY <1>1 DEF FanningOut
<1>7. \A m \in matched :
         m[1] = position /\ position \notin missed /\ sub[m[2]] = "enabled" =>
            AboutToServe(m[2])' \/ Served(position, m[2])'
  BY <1>1, <1>3, <1>4, <1>6 DEF MatcherInv
<1>8. mpc' \in {"commit", "record"} /\ (mpc' = "commit" => todo' = {})
  BY <1>1
<1>9. \A o : FannedOut(o) => FannedOut(o)'
  BY <1>1, <1>3 DEF FannedOut
<1>. QED  BY <1>1, <1>2, <1>5, <1>7, <1>8, <1>9 DEF MatcherInv, Served

LEMMA MissKeepsMatcher ==
    ASSUME MatcherInv, mpc # "fetch", missed' = missed \union {position},
           mpc' \in {"fetch", "commit", "record"}, uuid' = None,
           todo' \subseteq todo, mpc' = "commit" => todo' = {},
           faults' \in 0 .. MaxFaults,
           UNCHANGED <<sub, unparsable, committed, position, matched, queued>>
    PROVE  MatcherInv'
<1>1. \A o : FannedOut(o) => FannedOut(o)'
  BY DEF FannedOut, Served
<1>. QED  BY <1>1 DEF MatcherInv, FanningOut, CommittedIsFannedOut

\* The fan-out that ends at the commit went to every subscription.
LEMMA AtCommit ==
    ASSUME MatcherInv, mpc = "commit"
    PROVE  \A o \in committed + 1 .. position : o \in missed \/ FannedOut(o)
<1>1. FanningOut /\ todo = {}
  BY DEF MatcherInv, FanningOut
<1>2. position \in missed \/ FannedOut(position)
  BY <1>1 DEF MatcherInv, AboutToServe, FannedOut
<1>. QED  BY <1>2 DEF MatcherInv

LEMMA CommitFailsKeepsMatcher ==
    ASSUME MatcherInv, CommitFails, faults' \in 0 .. MaxFaults
    PROVE  MatcherInv'
<1>1. /\ mpc = "commit" /\ mpc' = "fetch"
      /\ UNCHANGED <<sub, unparsable, committed, position, todo, uuid, matched,
                     missed, queued>>
  BY DEF CommitFails, subVars, matcherVars, matchHistory
<1>2. \A o : FannedOut(o) => FannedOut(o)'
  BY <1>1 DEF FannedOut, Served
<1>. QED  BY <1>1, <1>2, AtCommit DEF MatcherInv, FanningOut, CommittedIsFannedOut

LEMMA CommitKeepsMatcher ==
    ASSUME MatcherInv, CommitMessages
    PROVE  MatcherInv'
<1>1. /\ mpc = "commit" /\ committed' = position /\ mpc' = "fetch"
      /\ UNCHANGED <<sub, unparsable, position, todo, uuid, matched, missed, queued,
                     faults>>
  BY DEF CommitMessages, subVars, matchHistory
<1>2. position \in Nat /\ committed \in Nat /\ position <= Len(Matches)
  BY <1>1, LenMatches DEF MatcherInv
<1>3. CommittedIsFannedOut'
  <2>1. SUFFICES ASSUME NEW m \in matched, m[1] <= position, m[1] \notin missed,
                        sub[m[2]] = "enabled"
                 PROVE  Served(m[1], m[2])
    BY <1>1 DEF CommittedIsFannedOut, Served
  <2>2. m[1] \in Nat
    BY LenMatches DEF MatcherInv
  <2>3. CASE m[1] <= committed
    BY <2>1, <2>3 DEF MatcherInv, CommittedIsFannedOut, Served
  <2>4. CASE ~(m[1] <= committed)
    <3>1. m[1] \in committed + 1 .. position
      BY <1>2, <2>1, <2>2, <2>4
    <3>2. FannedOut(m[1])
      BY <1>1, <2>1, <3>1, AtCommit
    <3>. QED  BY <2>1, <3>2 DEF FannedOut
  <2>. QED  BY <2>3, <2>4
<1>4. position + 1 .. position = {} /\ position \in 0 .. position
  BY <1>2
<1>. QED  BY <1>1, <1>3, <1>4 DEF MatcherInv, FanningOut

LEMMA RestartKeepsMatcher ==
    ASSUME MatcherInv, Restart
    PROVE  MatcherInv'
<1>1. /\ position' = committed /\ mpc' = "fetch" /\ todo' = {} /\ uuid' = None
      /\ UNCHANGED <<sub, unparsable, committed, matched, missed, queued>>
  BY DEF Restart, subVars, matchHistory
<1>2. faults' \in 0 .. MaxFaults
  BY BoundsAssumption DEF Restart, Fault, MatcherInv
<1>3. committed \in 0 .. Len(Matches) /\ committed \in 0 .. committed
      /\ committed + 1 .. committed = {}
  BY LenMatches DEF MatcherInv
<1>. QED  BY <1>1, <1>2, <1>3 DEF MatcherInv, FanningOut, CommittedIsFannedOut

LEMMA MatcherStep ==
    ASSUME WInv, [Next]_vars
    PROVE  MatcherInv'
<1>. USE DEF subVars, matcherVars, workerVars, matchHistory, postHistory
<1>1. MatcherInv /\ RowsInv
  BY DEF WInv
<1>2. CASE UNCHANGED vars
  BY <1>1, <1>2, MatcherFrame DEF vars, MatcherInv
<1>3. CASE \E s \in Subs : CreateSubscription(s) \/ DeleteSubscription(s)
  BY <1>1, <1>3, SubscriptionsKeepMatcher
<1>4. CASE Matcher
  BY <1>1, <1>4, FetchKeepsMatcher, MatchKeepsMatcher, RecordKeepsMatcher,
     PublishKeepsMatcher, CommitKeepsMatcher DEF Matcher
<1>5. Fault => faults' \in 0 .. MaxFaults
  BY <1>1, BoundsAssumption DEF Fault, MatcherInv
<1>6. faults \in 0 .. MaxFaults
  BY <1>1 DEF MatcherInv
<1>7. CASE PublishLost
  <2>1. mpc' \in {"commit", "record"} /\ (mpc' = "commit" => todo' = {})
    BY <1>7 DEF PublishLost, NextSub
  <2>. QED  BY <1>1, <1>5, <1>7, <2>1, MissKeepsMatcher DEF PublishLost
<1>8. CASE FanOutFails
  BY <1>1, <1>5, <1>6, <1>8, MissKeepsMatcher DEF FanOutFails
<1>9. CASE CommitFails
  BY <1>1, <1>5, <1>9, CommitFailsKeepsMatcher DEF CommitFails
<1>10. CASE \E w \in Slots : Handle(w)
  <2>1. faults' \in 0 .. MaxFaults
    BY <1>5, <1>6, <1>10 DEF Handle, Consume, Post, Mark, Republish, Ack, Reject
  <2>. QED  BY <1>1, <1>10, <2>1, MatcherFrame
         DEF Handle, Consume, Post, Mark, Republish, Ack, Reject
<1>11. CASE ConnectionLost
  BY <1>1, <1>5, <1>11, MatcherFrame DEF ConnectionLost
<1>12. CASE Restart
  BY <1>1, <1>12, RestartKeepsMatcher
<1>. QED  BY <1>2, <1>3, <1>4, <1>7, <1>8, <1>9, <1>10, <1>11, <1>12
       DEF Next

-----------------------------------------------------------------------------
(* Theorems.                                                               *)

LEMMA InitHolds == Init => WInv
<1>. SUFFICES ASSUME Init PROVE WInv
  OBVIOUS
<1>. USE DEF Init
<1>1. /\ BagToSet(EmptyBag) = {} /\ BagToSet(<< >>) = {} /\ DOMAIN << >> = {}
  BY DEF EmptyBag, SetToBag, BagToSet
<1>2. Busy = {}
  BY DEF Busy
<1>3. WorkerInv
  BY <1>1, <1>2 DEF WorkerInv, IsBagOver
<1>4. RowsInv
  BY <1>1 DEF RowsInv, Deliveries, StatusIsEarned
<1>5. MatcherInv
  BY LenMatches, BoundsAssumption
     DEF MatcherInv, FanningOut, CommittedIsFannedOut
<1>. QED  BY <1>3, <1>4, <1>5 DEF WInv

\* The three parts hold in every state the service can be in, whatever the number
\* of subscriptions, events, handlers, attempts and faults.
THEOREM Invariance == Spec => []WInv
<1>1. WInv /\ [Next]_vars => WInv'
  BY WorkerStep, RowsStep, MatcherStep DEF WInv
<1>. QED  BY InitHolds, <1>1, PTL DEF Spec

\* Every job in the queue or with a handler belongs to a delivery that was
\* recorded and published, and is tried fewer than MaxAttempts times.
THEOREM TypeCorrect == Spec => []TypeOK
<1>1. WInv => TypeOK
  <2>. SUFFICES ASSUME WInv PROVE TypeOK
    OBVIOUS
  <2>. USE DEF WInv
  <2>1. /\ committed <= position /\ position <= Len(Matches)
        /\ (uuid = None) <=> (mpc # "publish")
    BY LenMatches, NoneAssumption DEF MatcherInv
  <2>2. \A u \in Deliveries : u \in Offsets \X Subs \X (1 .. issued[<<u[1], u[2]>>])
    <3>1. TAKE u \in Deliveries
    <3>2. PICK o \in Offsets, s \in Subs, n \in Nat \ {0} : u = <<o, s, n>>
      BY DEF RowsInv, Delivery
    <3>3. issued[<<o, s>>] \in Nat /\ n <= issued[<<o, s>>]
      BY <3>2 DEF RowsInv
    <3>. QED  BY <3>2, <3>3
  <2>3. \A j \in Jobs : j.uuid \in queued /\ j.attempt < MaxAttempts
    BY DEF Jobs, Held, WorkerInv, HandlerKnows, Counted
  <2>. QED  BY <2>1, <2>2, <2>3 DEF TypeOK, RowsInv, MatcherInv
<1>. QED  BY Invariance, <1>1, PTL

\* A job the broker received is never lost: whatever fails between the POST, the
\* writes, the republish and the ack, it is in the queue, with a handler, in the
\* dead-letter queue or accepted.
THEOREM NoJobLost == Spec => []JobNotLost
<1>1. WInv => JobNotLost
  BY DEF WInv, WorkerInv, JobNotLost, Jobs, Active
<1>. QED  BY Invariance, <1>1, PTL

\* A row that says "ok" was accepted; a row that says "dlq" and a dead letter were
\* POSTed MaxAttempts times, unless no request can be built for the target.
THEOREM StatusesAreEarned == Spec => []StatusIsEarned
<1>1. WInv => StatusIsEarned
  BY DEF WInv, RowsInv
<1>. QED  BY Invariance, <1>1, PTL

\* An event behind the committed offset went to every subscription it matched,
\* save for failed fan-outs, lost publishes and deleted subscriptions.
THEOREM CommittedEventsAreFannedOut == Spec => []CommittedIsFannedOut
<1>1. WInv => CommittedIsFannedOut
  BY DEF WInv, MatcherInv
<1>. QED  BY Invariance, <1>1, PTL

=============================================================================
