-------------------------- MODULE WebhookDelivery ---------------------------
(***************************************************************************)
(* services/webhooks: the matcher reads audit events from Kafka, records a *)
(* delivery row and publishes a job to RabbitMQ for every subscription     *)
(* that matches; the delivery worker takes jobs, POSTs them, and retries   *)
(* or dead-letters them.  The subscription API runs beside both.           *)
(*                                                                         *)
(* RabbitMQ hands a job to one slot at a time, takes it back when the      *)
(* channel is lost, and keeps what it received; publishes are unconfirmed. *)
(* A delivery is named <<offset, subscription, n>>: the n-th row recorded  *)
(* for that event and subscription.  Timing (back-off) is left out.        *)
(***************************************************************************)
EXTENDS Naturals, Sequences, FiniteSets, Bags

CONSTANTS
    Subs,           \* subscription ids
    Matches,        \* Matches[o]: the subscriptions whose patterns match event o
    Slots,          \* concurrent handlers of the delivery worker (8)
    None,
    MaxAttempts,    \* WEBHOOKS_MAX_ATTEMPTS
    MaxFaults       \* bound on crashes, lost connections and failed calls

Offsets == DOMAIN Matches       \* the events on the topic, by offset

\* The name of a delivery, the body of a job, and a handler at work on one.
Delivery == Offsets \X Subs \X (Nat \ {0})
JobRecord == [uuid : Delivery, attempt : Nat]
Calls == {"post", "markDelivered", "markRetry", "markDlq", "republish", "ack", "reject"}
Handler == [pc : Calls, job : JobRecord, live : BOOLEAN]

ASSUME MatchesAssumption == Matches \in Seq(SUBSET Subs)
ASSUME SlotsAssumption == IsFiniteSet(Slots)
ASSUME NoneAssumption == None \notin Delivery \union Handler
ASSUME BoundsAssumption == MaxAttempts \in Nat \ {0} /\ MaxFaults \in Nat

VARIABLES
    sub,            \* sub[s]: "absent", "enabled" or "deleted"
    unparsable,     \* subscriptions whose target_url no request can be built for
    rows,           \* webhook_deliveries: delivery -> [status, attempt]
    issued,         \* issued[<<o, s>>]: rows recorded so far for event o and s
    committed,      \* the matcher's committed offset
    position,       \* the offset FetchMessage returned last
    mpc,            \* the matcher's next call
    todo,           \* fanOut: matched subscriptions not served yet
    uuid,           \* fanOut: the delivery recorded, about to be published
    matcherUp,      \* the matcher's AMQP channel is open
    queue,          \* webhooks.delivery: a bag of jobs [uuid, attempt]
    dead,           \* deliveries in webhooks.delivery.dead
    workerUp,       \* the delivery worker consumes
    slot,           \* slot[w]: [pc, job, live] of a handler, or None
    faults,
    matched,        \* history: <<o, s>> that MatchingSubscriptions returned
    missed,         \* history: events whose fan-out failed or lost a publish
    queued,         \* history: deliveries the broker received
    posts,          \* history: POSTs tried (client.Do) for each delivery
    received        \* history: deliveries the endpoint accepted

matcherVars == <<committed, position, mpc, todo, uuid, matcherUp>>
workerVars == <<workerUp, slot>>
matchHistory == <<matched, missed, queued>>
postHistory == <<posts, received>>
subVars == <<sub, unparsable>>
vars == <<subVars, rows, issued, matcherVars, queue, dead, workerVars, faults,
          matchHistory, postHistory>>

-----------------------------------------------------------------------------
Job(u, n) == [uuid |-> u, attempt |-> n]
Deliveries == DOMAIN rows

Busy == {w \in Slots : slot[w] # None}
Held == {w \in Busy : slot[w].live}     \* handlers whose job is unacked
HeldJobs == [j \in {slot[w].job : w \in Held} |->
                Cardinality({w \in Held : slot[w].job = j})]

Fault ==
    /\ faults < MaxFaults
    /\ faults' = faults + 1

Init ==
    /\ sub = [s \in Subs |-> "absent"]
    /\ unparsable = {}
    /\ rows = << >>
    /\ issued = [os \in Offsets \X Subs |-> 0]
    /\ committed = 0
    /\ position = 0
    /\ mpc = "fetch"
    /\ todo = {}
    /\ uuid = None
    /\ matcherUp = TRUE
    /\ queue = EmptyBag
    /\ dead = {}
    /\ workerUp = TRUE
    /\ slot = [w \in Slots |-> None]
    /\ faults = 0
    /\ matched = {}
    /\ missed = {}
    /\ queued = {}
    /\ posts = << >>
    /\ received = {}

-----------------------------------------------------------------------------
(* The subscription API.                                                   *)

\* target_url is checked only for being non-empty.
CreateSubscription(s) ==
    /\ sub[s] = "absent"
    /\ sub' = [sub EXCEPT ![s] = "enabled"]
    /\ unparsable' \in {unparsable, unparsable \union {s}}
    /\ UNCHANGED <<rows, issued, matcherVars, queue, dead, workerVars, faults,
                   matchHistory, postHistory>>

\* The subscription's deliveries cascade; its jobs in the queue stay.
DeleteSubscription(s) ==
    /\ sub[s] = "enabled"
    /\ sub' = [sub EXCEPT ![s] = "deleted"]
    /\ rows' = [u \in {v \in Deliveries : v[2] # s} |-> rows[u]]
    /\ UNCHANGED <<unparsable, issued, matcherVars, queue, dead, workerVars, faults,
                   matchHistory, postHistory>>

-----------------------------------------------------------------------------
(* The matcher: Run and fanOut, for the event at offset position.          *)

FetchMessage ==
    /\ mpc = "fetch"
    /\ position < Len(Matches)
    /\ position' = position + 1
    /\ mpc' = "match"
    /\ UNCHANGED <<subVars, rows, issued, committed, todo, uuid, matcherUp, queue,
                   dead, workerVars, faults, matchHistory, postHistory>>

MatchingSubscriptions ==
    LET found == {s \in Matches[position] : sub[s] = "enabled"}
    IN  /\ mpc = "match"
        /\ todo' = found
        /\ matched' = matched \union {<<position, s>> : s \in found}
        /\ mpc' = IF found = {} THEN "commit" ELSE "record"
        /\ UNCHANGED <<subVars, rows, issued, committed, position, uuid, matcherUp,
                       queue, dead, workerVars, faults, missed, queued,
                       postHistory>>

\* INSERT a pending row under a fresh uuid.
RecordDelivery(s) ==
    LET u == <<position, s, issued[<<position, s>>] + 1>>
    IN  /\ mpc = "record"
        /\ s \in todo
        /\ sub[s] = "enabled"
        /\ issued' = [issued EXCEPT ![<<position, s>>] = @ + 1]
        /\ rows' = [v \in Deliveries \union {u} |->
                       IF v = u THEN [status |-> "pending", attempt |-> 0]
                       ELSE rows[v]]
        /\ uuid' = u
        /\ todo' = todo \ {s}
        /\ mpc' = "publish"
        /\ UNCHANGED <<subVars, committed, position, matcherUp, queue, dead,
                       workerVars, faults, matchHistory, postHistory>>

NextSub == mpc' = IF todo = {} THEN "commit" ELSE "record"

PublishJob ==
    /\ mpc = "publish"
    /\ matcherUp
    /\ queue' = queue (+) SetToBag({Job(uuid, 0)})
    /\ queued' = queued \union {uuid}
    /\ uuid' = None
    /\ NextSub
    /\ UNCHANGED <<subVars, rows, issued, committed, position, todo, matcherUp, dead,
                   workerVars, faults, matched, missed, postHistory>>

\* The connection breaks after the client wrote the frame: PublishWithContext
\* returned nil, the broker has nothing, and the channel stays closed.
PublishLost ==
    /\ mpc = "publish"
    /\ matcherUp
    /\ Fault
    /\ matcherUp' = FALSE
    /\ missed' = missed \union {position}
    /\ uuid' = None
    /\ NextSub
    /\ UNCHANGED <<subVars, rows, issued, committed, position, todo, queue, dead,
                   workerVars, matched, queued, postHistory>>

\* fanOut returns an error: a query fails, the subscription of the next row was
\* deleted (its foreign key), or the channel is closed.  The event is not
\* committed and the loop goes on with the next one.
FanOutFails ==
    /\ \/ mpc \in {"match", "record", "publish"} /\ Fault
       \/ /\ \/ mpc = "record" /\ \E s \in todo : sub[s] # "enabled"
             \/ mpc = "publish" /\ ~matcherUp
          /\ UNCHANGED faults
    /\ mpc' = "fetch"
    /\ todo' = {}
    /\ uuid' = None
    /\ missed' = missed \union {position}
    /\ UNCHANGED <<subVars, rows, issued, committed, position, matcherUp, queue, dead,
                   workerVars, matched, queued, postHistory>>

\* CommitMessages; and before the fan-out.
CommitMessages_Early ==
    /\ mpc \in {"match", "commit"}
    /\ committed' = position
    /\ mpc' = IF mpc = "match" THEN "record" ELSE "fetch"
    /\ UNCHANGED <<subVars, rows, issued, position, todo, uuid, matcherUp, queue, dead,
                   workerVars, faults, matchHistory, postHistory>>

CommitMessages ==
    /\ mpc = "commit"
    /\ committed' = position
    /\ mpc' = "fetch"
    /\ UNCHANGED <<subVars, rows, issued, position, todo, uuid, matcherUp, queue, dead,
                   workerVars, faults, matchHistory, postHistory>>

\* The commit fails; the loop goes on with the next event, whose commit covers
\* this one.
CommitFails ==
    /\ mpc = "commit"
    /\ Fault
    /\ mpc' = "fetch"
    /\ UNCHANGED <<subVars, rows, issued, committed, position, todo, uuid, matcherUp,
                   queue, dead, workerVars, matchHistory, postHistory>>

Matcher ==
    \/ FetchMessage
    \/ MatchingSubscriptions
    \/ \E s \in Subs : RecordDelivery(s)
    \/ PublishJob
    \/ CommitMessages

-----------------------------------------------------------------------------
(* The delivery worker: handle, retryOrDLQ, terminalFailure.               *)

Goto(w, from, to) ==
    /\ w \in Busy
    /\ slot[w].pc = from
    /\ slot' = [slot EXCEPT ![w].pc = to]

Free(w) == slot' = [slot EXCEPT ![w] = None]

Attempt(w) == slot[w].job.attempt + 1

\* attempt := job.Attempt + 1; is it the last one?  And counted one too soon, or
\* one too late.
Last_Early(w) == Attempt(w) + 1 >= MaxAttempts

Last_Late(w) == Attempt(w) > MaxAttempts

Last(w) == Attempt(w) >= MaxAttempts

\* The broker delivers a job to a free slot.  Without a request to send, the
\* failure is terminal at once.
Consume(w) ==
    /\ workerUp
    /\ w \notin Busy
    /\ \E j \in BagToSet(queue) :
           /\ queue' = queue (-) SetToBag({j})
           /\ slot' = [slot EXCEPT ![w] =
                          [pc |-> IF j.uuid[2] \in unparsable THEN "markDlq"
                                  ELSE "post",
                           job |-> j, live |-> TRUE]]
    /\ UNCHANGED <<subVars, rows, issued, matcherVars, dead, workerUp, faults,
                   matchHistory, postHistory>>

\* The POST: the endpoint accepts or not, and the answer is read or lost.
Post(w) ==
    /\ \E accepted, answered \in BOOLEAN :
           /\ Goto(w, "post", IF accepted /\ answered THEN "markDelivered"
                              ELSE IF Last(w) THEN "markDlq"
                              ELSE "markRetry")
           /\ received' = IF accepted THEN received \union {slot[w].job.uuid}
                          ELSE received
    /\ posts' = posts (+) SetToBag({slot[w].job.uuid})
    /\ UNCHANGED <<subVars, rows, issued, matcherVars, queue, dead, workerUp, faults,
                   matchHistory>>

\* The writes that follow a POST, and what comes next; and with "ok" for any
\* answer.
Marks_AnyAnswer ==
    {<<"markDelivered", "ok", "ack">>, <<"markRetry", "ok", "republish">>,
     <<"markDlq", "dlq", "reject">>}

\* MarkDelivered, MarkAttempt and MarkAttempt (terminal).  The row may be gone;
\* an error is logged and the handler goes on.
Marks == {<<"markDelivered", "ok", "ack">>, <<"markRetry", "retry", "republish">>,
          <<"markDlq", "dlq", "reject">>}

Mark(w) ==
    /\ \E m \in Marks :
           /\ Goto(w, m[1], m[3])
           /\ \/ /\ rows' = [u \in Deliveries |->
                               IF u = slot[w].job.uuid
                               THEN [status |-> m[2], attempt |-> Attempt(w)]
                               ELSE rows[u]]
                 /\ UNCHANGED faults
              \/ Fault /\ UNCHANGED rows
    /\ UNCHANGED <<subVars, issued, matcherVars, queue, dead, workerUp, matchHistory,
                   postHistory>>

\* After the delay, the job is published again with its attempt counted.  On a
\* closed channel the publish fails, and so does the Nack.
Republish(w) ==
    /\ w \in Busy
    /\ slot[w].pc = "republish"
    /\ IF slot[w].live
       THEN /\ Goto(w, "republish", "ack")
            /\ queue' = queue (+) SetToBag({Job(slot[w].job.uuid, Attempt(w))})
       ELSE Free(w) /\ UNCHANGED queue
    /\ UNCHANGED <<subVars, rows, issued, matcherVars, dead, workerUp, faults,
                   matchHistory, postHistory>>

\* Ack: the broker forgets the job, unless it took it back already.
Ack(w) ==
    /\ w \in Busy
    /\ slot[w].pc = "ack"
    /\ Free(w)
    /\ UNCHANGED <<subVars, rows, issued, matcherVars, queue, dead, workerUp, faults,
                   matchHistory, postHistory>>

\* Nack without requeue: the broker dead-letters the job; and drops it, or is not
\* told, and counts the slot as busy.
Reject_Drop(w) ==
    /\ w \in Busy
    /\ slot[w].pc = "reject"
    /\ Free(w)
    /\ UNCHANGED <<subVars, rows, issued, matcherVars, queue, dead, workerUp, faults,
                   matchHistory, postHistory>>

Reject_NoNack(w) ==
    /\ Goto(w, "reject", "done")
    /\ UNCHANGED <<subVars, rows, issued, matcherVars, queue, dead, workerUp, faults,
                   matchHistory, postHistory>>

Reject(w) ==
    /\ w \in Busy
    /\ slot[w].pc = "reject"
    /\ Free(w)
    /\ dead' = IF slot[w].live THEN dead \union {slot[w].job.uuid} ELSE dead
    /\ UNCHANGED <<subVars, rows, issued, matcherVars, queue, workerUp, faults,
                   matchHistory, postHistory>>

Handle(w) == Consume(w) \/ Post(w) \/ Mark(w) \/ Republish(w) \/ Ack(w) \/ Reject(w)

\* The worker's connection is lost: the broker takes back the unacked jobs, as
\* they were published; Run returns and nothing starts it again, but the handlers
\* run on.
ConnectionLost ==
    /\ workerUp
    /\ Fault
    /\ workerUp' = FALSE
    /\ queue' = queue (+) HeldJobs
    /\ slot' = [w \in Slots |-> IF w \in Held
                                THEN [slot[w] EXCEPT !.live = FALSE] ELSE slot[w]]
    /\ UNCHANGED <<subVars, rows, issued, matcherVars, dead, matchHistory, postHistory>>

\* The process restarts: after a crash, or by hand once a connection is lost.
\* Jobs a handler held go back (on shutdown it nacks with requeue).
Restart ==
    /\ IF matcherUp /\ workerUp THEN Fault ELSE UNCHANGED faults
    /\ position' = committed
    /\ mpc' = "fetch"
    /\ todo' = {}
    /\ uuid' = None
    /\ matcherUp' = TRUE
    /\ workerUp' = TRUE
    /\ queue' = queue (+) HeldJobs
    /\ slot' = [w \in Slots |-> None]
    /\ UNCHANGED <<subVars, rows, issued, committed, dead, matchHistory, postHistory>>

-----------------------------------------------------------------------------
Next ==
    \/ \E s \in Subs : CreateSubscription(s) \/ DeleteSubscription(s)
    \/ Matcher
    \/ PublishLost \/ FanOutFails \/ CommitFails
    \/ \E w \in Slots : Handle(w)
    \/ ConnectionLost \/ Restart

\* Handlers end (the client has a timeout, the back-off is finite) and a free
\* slot is given a job, whichever waits.
Fairness == \A w \in Slots : WF_vars(Handle(w))

Spec == Init /\ [][Next]_vars /\ Fairness

-----------------------------------------------------------------------------
(* Properties.                                                             *)

Jobs == BagToSet(queue) \union {slot[w].job : w \in Held}

TypeOK ==
    /\ sub \in [Subs -> {"absent", "enabled", "deleted"}]
    /\ unparsable \subseteq Subs
    /\ \A u \in Deliveries :
           /\ u \in Offsets \X Subs \X (1 .. issued[<<u[1], u[2]>>])
           /\ rows[u].status \in {"pending", "ok", "retry", "dlq"}
           /\ rows[u].attempt \in 0 .. MaxAttempts
    /\ committed <= position /\ position <= Len(Matches)
    /\ mpc \in {"fetch", "match", "record", "publish", "commit"}
    /\ (uuid = None) <=> (mpc # "publish")
    /\ \A j \in Jobs : j.uuid \in queued /\ j.attempt < MaxAttempts
    /\ faults \in 0 .. MaxFaults

\* A job the broker received is in the queue, with a handler, in the dead-letter
\* queue, or accepted by the endpoint: no failure between the POST, the database
\* writes, the republish and the ack loses it.
JobNotLost ==
    \A u \in queued :
        u \in {j.uuid : j \in Jobs} \union dead \union received

Tries(u) == IF BagIn(u, posts) THEN posts[u] ELSE 0

TriedOrUnparsable(u) == Tries(u) >= MaxAttempts \/ u[2] \in unparsable

\* A job that can be sent is dead-lettered only after MaxAttempts POSTs, counted
\* over the copies that republishing, requeueing and reconnecting make of it; and
\* its row agrees: one that says "ok" was accepted and one that says "dlq" was
\* tried that often, even when two handlers write it in either order.
StatusIsEarned ==
    /\ \A u \in dead : TriedOrUnparsable(u)
    /\ \A u \in Deliveries :
           /\ rows[u].status = "ok" => u \in received
           /\ rows[u].status = "dlq" => TriedOrUnparsable(u)

\* An event behind the committed offset went to every subscription it matched,
\* unless its fan-out failed, a publish was lost, or the subscription was deleted
\* before a restarted matcher came to the event again.
CommittedIsFannedOut ==
    \A m \in matched :
        m[1] <= committed /\ m[1] \notin missed /\ sub[m[2]] = "enabled" =>
            \E u \in queued : u[1] = m[1] /\ u[2] = m[2]

\* Every queued job is accepted or dead-lettered, unless the worker's connection
\* is lost (Run does not reconnect).
JobResolved ==
    \A o \in Offsets : \A s \in Matches[o], n \in 1 .. MaxFaults + 1 :
        LET u == <<o, s, n>>
        IN  u \in queued ~> u \in received \union dead \/ ~workerUp

=============================================================================
