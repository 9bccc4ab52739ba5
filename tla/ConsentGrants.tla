--------------------------- MODULE ConsentGrants ----------------------------
(***************************************************************************)
(* services/consent: grants are created, revoked and verified by           *)
(* concurrent requests against one Postgres table whose trigger lets a row *)
(* change once, from active to revoked.  Every operation emits its audit   *)
(* event in a transaction of its own, best-effort, after the mutation.     *)
(*                                                                         *)
(* A request that dies takes no further step: it holds nothing.  Failures  *)
(* leave nothing behind that grows, so they need no bound.  Of the audit   *)
(* events, only consent.revoked is kept: the properties ask whether it is  *)
(* true; consent.granted and consent.verified repeat what happened.        *)
(***************************************************************************)
CONSTANTS
    Grants,         \* ids of grants, drawn by generateGrantID
    Revokers,       \* revoke requests in flight; each gives its own reason
    Queries,        \* verification requests: consumer, subject and body
    Ref,            \* Ref[q]: the consent_reference of q, or None
    Covered,        \* the queries whose consumer and attributes Ref[q] covers
    None

ASSUME RefAssumption == Ref \in [Queries -> Grants \union {None}]
ASSUME CoveredAssumption == Covered \subseteq Queries
ASSUME NoneAssumption == None \notin Grants \union Revokers \union Queries

VARIABLES
    created,        \* the rows of consent_grants
    expired,        \* grants whose expires_at has passed
    revokedBy,      \* revokedBy[g]: the stored revocation_reason, or None
    rpc,            \* rpc[v]: the call RevokeGrant makes next
    target,         \* target[v]: the grant it was asked to revoke
    reason,         \* reason[v]: the reason its answer and its event will give
    answers,        \* history: <<g, reason>> of the revocations answered 200
    outbox          \* history: <<g, reason>> of the consent.revoked events

revokeVars == <<rpc, target, reason>>
consentVars == <<created, expired, revokedBy, revokeVars, answers, outbox>>

-----------------------------------------------------------------------------
Init ==
    /\ created = {}
    /\ expired = {}
    /\ revokedBy = [g \in Grants |-> None]
    /\ rpc = [v \in Revokers |-> "idle"]
    /\ target = [v \in Revokers |-> None]
    /\ reason = [v \in Revokers |-> None]
    /\ answers = {}
    /\ outbox = {}

\* emit: best-effort.
Emit(event) == outbox' \in {outbox, outbox \union {event}}

\* createGrantHandler: sign, insert, emit.
CreateGrant(g) ==
    /\ g \notin created
    /\ created' = created \union {g}
    /\ UNCHANGED <<expired, revokedBy, revokeVars, answers, outbox>>

\* expires_at passes.
GrantExpires(g) ==
    /\ g \in created \ expired
    /\ expired' = expired \union {g}
    /\ UNCHANGED <<created, revokedBy, revokeVars, answers, outbox>>

Done(v) ==
    /\ rpc' = [rpc EXCEPT ![v] = "idle"]
    /\ target' = [target EXCEPT ![v] = None]
    /\ reason' = [reason EXCEPT ![v] = None]

\* RevokeGrant reads the grant.  Revoked already, it is answered as stored; a
\* grant that does not exist is a 404.
GetGrant(v, g) ==
    /\ rpc[v] = "idle"
    /\ g \in created
    /\ rpc' = [rpc EXCEPT ![v] = IF revokedBy[g] = None THEN "update" ELSE "emit"]
    /\ target' = [target EXCEPT ![v] = g]
    /\ reason' = [reason EXCEPT ![v] = revokedBy[g]]
    /\ UNCHANGED <<created, expired, revokedBy, answers, outbox>>

\* UPDATE consent_grants, and the trigger that refuses a second revocation; and
\* without the trigger.
Update_NoTrigger(v) ==
    /\ rpc[v] = "update"
    /\ revokedBy' = [revokedBy EXCEPT ![target[v]] = v]
    /\ rpc' = [rpc EXCEPT ![v] = "emit"]
    /\ reason' = [reason EXCEPT ![v] = v]
    /\ UNCHANGED <<created, expired, target, answers, outbox>>

Update(v) ==
    /\ rpc[v] = "update"
    /\ revokedBy[target[v]] = None
    /\ revokedBy' = [revokedBy EXCEPT ![target[v]] = v]
    /\ rpc' = [rpc EXCEPT ![v] = "emit"]
    /\ reason' = [reason EXCEPT ![v] = v]
    /\ UNCHANGED <<created, expired, target, answers, outbox>>

\* The trigger raises, or the statement fails, perhaps after it took effect: 500.
UpdateFails(v) ==
    /\ rpc[v] = "update"
    /\ \/ UNCHANGED revokedBy
       \/ /\ revokedBy[target[v]] = None
          /\ revokedBy' = [revokedBy EXCEPT ![target[v]] = v]
    /\ Done(v)
    /\ UNCHANGED <<created, expired, answers, outbox>>

\* emit, best-effort, then 200.
AnswerRevoke(v) ==
    /\ rpc[v] = "emit"
    /\ Emit(<<target[v], reason[v]>>)
    /\ answers' = answers \union {<<target[v], reason[v]>>}
    /\ Done(v)
    /\ UNCHANGED <<created, expired, revokedBy>>

\* verifyGrantHandler and evaluate, for the grant a query refers to.
Evaluate(q) ==
    LET g == Ref[q]
    IN  IF g \notin created THEN "not_found"
        ELSE IF revokedBy[g] # None THEN "revoked"
        ELSE IF g \in expired THEN "expired"
        ELSE IF q \in Covered THEN "granted"
        ELSE "not_covered"

Next ==
    \/ \E g \in Grants : CreateGrant(g) \/ GrantExpires(g)
    \/ \E v \in Revokers :
          \/ \E g \in Grants : GetGrant(v, g)
          \/ Update(v) \/ UpdateFails(v) \/ AnswerRevoke(v)

-----------------------------------------------------------------------------
(* Properties.                                                             *)

\* What the table and the requests in flight hold.
ConsentTypeOK ==
    /\ created \subseteq Grants
    /\ expired \subseteq created
    /\ revokedBy \in [Grants -> Revokers \union {None}]
    /\ rpc \in [Revokers -> {"idle", "update", "emit"}]
    /\ target \in [Revokers -> Grants \union {None}]
    /\ reason \in [Revokers -> Revokers \union {None}]
    /\ answers \union outbox \subseteq Grants \X Revokers

\* What a revoke request was answered and what the audit chain says of it is what
\* the table says, for good: concurrent revocations of a grant agree on one
\* reason, and a refused one neither answers nor emits.
RevocationsAgree ==
    \A g \in Grants, v \in Revokers :
        <<g, v>> \in answers \union outbox => revokedBy[g] = v

=============================================================================
