------------------------ MODULE CitizenVerification -------------------------
(***************************************************************************)
(* POST /verify/citizen of services/verification (verifyCitizenHandler),   *)
(* beside the consent service it asks first and the NIRA registry it asks  *)
(* last, with a cache of answers between.  Each call to another service or *)
(* to Postgres is one step; grants are revoked, records change and cache   *)
(* rows expire between any two.                                            *)
(*                                                                         *)
(* A consent client is wired.  nira[q] is the status buildResponse gives   *)
(* NIRA's current record against the claims of q.                          *)
(***************************************************************************)
EXTENDS ConsentGrants

CONSTANTS
    Handlers,       \* requests served at the same time
    NiraStatuses    \* the statuses NIRA's records give

Cacheable == {"verified", "mismatch"}

ASSUME NiraAssumption ==
    NiraStatuses \subseteq {"verified", "mismatch", "deceased", "revoked", "not_found"}
ASSUME NoneIsNoStatus ==
    None \notin NiraStatuses \union {"verified", "mismatch", "consent_invalid", "error"}

VARIABLES
    nira,           \* nira[q]: what a lookup for q gives now
    cache,          \* verification_cache: cache[q], or None
    pc,             \* pc[h]: the call the handler makes next
    query,          \* query[h]: the request
    response,       \* response[h]: the status it built or sent, or None
    logged,         \* logged[q]: the status of q's last verification_log row
    seen,           \* history: seen[h], NIRA's statuses for query[h] so far
    late            \* history: the requests whose grant was over when they began

handlerVars == <<pc, query, response>>
verifyHistory == <<seen, late>>
verifyVars == <<nira, cache, handlerVars, logged, verifyHistory>>
allVars == <<consentVars, verifyVars>>

-----------------------------------------------------------------------------
VerifyInit ==
    /\ Init
    /\ nira \in [Queries -> NiraStatuses]
    /\ cache = [q \in Queries |-> None]
    /\ pc = [h \in Handlers |-> "idle"]
    /\ query = [h \in Handlers |-> None]
    /\ response = [h \in Handlers |-> None]
    /\ logged = [q \in Queries |-> None]
    /\ seen = [h \in Handlers |-> {}]
    /\ late = {}

\* The grant of q has expired, or some revoke request for it was answered 200.
Over(q) ==
    /\ Ref[q] # None
    /\ Ref[q] \in expired \/ \E v \in Revokers : <<Ref[q], v>> \in answers

\* A valid request arrives; and goes to the cache first.
Receive_CacheFirst(h, q) ==
    /\ pc[h] = "idle"
    /\ pc' = [pc EXCEPT ![h] = IF Ref[q] = None \/ cache[q] # None THEN "cache"
                               ELSE "consent"]
    /\ query' = [query EXCEPT ![h] = q]
    /\ seen' = [seen EXCEPT ![h] = {nira[q]}]
    /\ late' = IF Over(q) THEN late \union {h} ELSE late
    /\ UNCHANGED <<consentVars, nira, cache, response, logged>>

Receive(h, q) ==
    /\ pc[h] = "idle"
    /\ pc' = [pc EXCEPT ![h] = IF Ref[q] = None THEN "cache" ELSE "consent"]
    /\ query' = [query EXCEPT ![h] = q]
    /\ seen' = [seen EXCEPT ![h] = {nira[q]}]
    /\ late' = IF Over(q) THEN late \union {h} ELSE late
    /\ UNCHANGED <<consentVars, nira, cache, response, logged>>

Goto(h, from, to) ==
    /\ pc[h] = from
    /\ pc' = [pc EXCEPT ![h] = to]
    /\ UNCHANGED query

Respond(h, status) == response' = [response EXCEPT ![h] = status]

Granted(h) ==
    /\ Goto(h, "consent", "cache")
    /\ Evaluate(query[h]) = "granted"
    /\ UNCHANGED <<consentVars, nira, cache, response, logged, verifyHistory>>

\* Any other outcome, or a call that fails whatever the outcome.
Refused(h) ==
    /\ Goto(h, "consent", "record")
    /\ Respond(h, "consent_invalid")
    /\ UNCHANGED <<consentVars, nira, cache, logged, verifyHistory>>

\* The cached body is written as it is, whatever its status.
CacheHit(h) ==
    /\ Goto(h, "cache", "record hit")
    /\ cache[query[h]] # None
    /\ Respond(h, cache[query[h]])
    /\ UNCHANGED <<consentVars, nira, cache, logged, verifyHistory>>

\* No live row; a Get that fails counts as a miss, too.
CacheMiss(h) ==
    /\ Goto(h, "cache", "lookup")
    /\ UNCHANGED <<consentVars, nira, cache, response, logged, verifyHistory>>

\* buildResponse sums NIRA's record up: whether there is one, the life event on it,
\* and only then whether every attribute claimed in q matches.
BuildResponse(q) == nira[q]

Lookup(h) ==
    /\ Goto(h, "lookup", "record")
    /\ Respond(h, BuildResponse(query[h]))
    /\ UNCHANGED <<consentVars, nira, cache, logged, verifyHistory>>

\* NIRA cannot be reached: recorded as "error", then 502.
LookupFails(h) ==
    /\ Goto(h, "lookup", "record")
    /\ Respond(h, "error")
    /\ UNCHANGED <<consentVars, nira, cache, logged, verifyHistory>>

\* recordVerification: a log row and an event of the same status, best-effort.  A
\* cache hit is recorded as "verified".
Log(h, status) ==
    logged' \in {logged, [logged EXCEPT ![query[h]] = status]}

Record(h) ==
    /\ Goto(h, "record", "put")
    /\ Log(h, response[h])
    /\ UNCHANGED <<consentVars, nira, cache, response, verifyHistory>>

End(h) ==
    /\ pc' = [pc EXCEPT ![h] = "idle"]
    /\ query' = [query EXCEPT ![h] = None]
    /\ Respond(h, None)
    /\ seen' = [seen EXCEPT ![h] = {}]
    /\ late' = late \ {h}

RecordHit(h) ==
    /\ pc[h] = "record hit"
    /\ Log(h, "verified")
    /\ End(h)
    /\ UNCHANGED <<consentVars, nira, cache>>

\* Put, for the two statuses that are cached, best-effort, and the response; and
\* for every answer of NIRA's.
Put_Any(h) ==
    /\ pc[h] = "put"
    /\ IF response[h] \in NiraStatuses
       THEN cache' \in {cache, [cache EXCEPT ![query[h]] = response[h]]}
       ELSE UNCHANGED cache
    /\ End(h)
    /\ UNCHANGED <<consentVars, nira, logged>>

Put(h) ==
    /\ pc[h] = "put"
    /\ IF response[h] \in Cacheable
       THEN cache' \in {cache, [cache EXCEPT ![query[h]] = response[h]]}
       ELSE UNCHANGED cache
    /\ End(h)
    /\ UNCHANGED <<consentVars, nira, logged>>

\* The TTL of a cache row passes.
CacheExpires(q) ==
    /\ cache[q] # None
    /\ cache' = [cache EXCEPT ![q] = None]
    /\ UNCHANGED <<consentVars, nira, handlerVars, logged, verifyHistory>>

\* The citizen's record changes in the registry.
NiraChanges(q, status) ==
    /\ nira[q] # status
    /\ nira' = [nira EXCEPT ![q] = status]
    /\ seen' = [h \in Handlers |-> IF query[h] = q THEN seen[h] \union {status}
                                   ELSE seen[h]]
    /\ UNCHANGED <<consentVars, cache, handlerVars, logged, late>>

VerifyNext ==
    \/ Next /\ UNCHANGED verifyVars
    \/ \E h \in Handlers :
          \/ \E q \in Queries : Receive(h, q)
          \/ Granted(h) \/ Refused(h)
          \/ CacheHit(h) \/ CacheMiss(h)
          \/ Lookup(h) \/ LookupFails(h)
          \/ Record(h) \/ RecordHit(h)
          \/ Put(h)
    \/ \E q \in Queries :
          \/ CacheExpires(q)
          \/ \E status \in NiraStatuses : NiraChanges(q, status)

VerifySpec == VerifyInit /\ [][VerifyNext]_allVars

-----------------------------------------------------------------------------
(* Properties.                                                             *)

Statuses == NiraStatuses \union Cacheable \union {"consent_invalid", "error"}

\* What a verification request and the stores it uses hold; only the two cacheable
\* statuses are cached.
VerifyTypeOK ==
    /\ nira \in [Queries -> NiraStatuses]
    /\ cache \in [Queries -> Cacheable \union {None}]
    /\ pc \in [Handlers -> {"idle", "consent", "cache", "lookup", "record",
                            "record hit", "put"}]
    /\ query \in [Handlers -> Queries \union {None}]
    /\ response \in [Handlers -> Statuses \union {None}]
    /\ logged \in [Queries -> Statuses \union {None}]
    /\ seen \in [Handlers -> SUBSET NiraStatuses]
    /\ late \subseteq Handlers

\* The type invariant of both services.
TypeOK == ConsentTypeOK /\ VerifyTypeOK

\* Once a revocation was answered 200, or the grant has expired, no request received
\* afterwards learns anything of the citizen, from NIRA or from the cache.
RevocationHonoured ==
    \A h \in late : response[h] \in {None, "consent_invalid"}

\* "Cache only successful outcomes - caching not_found / deceased risks freezing a
\* state change" (server.go): every negative answer was true of NIRA's record at
\* some time since the request arrived, however answers and expiries interleave.
NegativeAnswersAreFresh ==
    \A h \in Handlers :
        response[h] \in NiraStatuses \ Cacheable => response[h] \in seen[h]

=============================================================================
