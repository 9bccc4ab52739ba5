---------------------- MODULE CitizenVerificationProofs ----------------------
(***************************************************************************)
(* Theorems about consent and POST /verify/citizen for any number of       *)
(* grants, revocations, queries and concurrent requests: what a revocation *)
(* was answered stays what the table says, no request that comes after it  *)
(* learns anything of the citizen, and a negative answer is never stale.   *)
(***************************************************************************)
EXTENDS CitizenVerification, TLAPS

-----------------------------------------------------------------------------
(* The inductive invariant.                                                *)

\* A revocation under way has its grant; one about to answer gives the reason the
\* table holds.
RevokerHasGrant ==
    \A v \in Revokers :
        /\ rpc[v] # "idle" => target[v] \in Grants
        /\ rpc[v] = "emit" => /\ reason[v] \in Revokers
                              /\ revokedBy[target[v]] = reason[v]

\* A request in progress has a query; NIRA's present status for it has been seen.
BusyHasQuery ==
    \A h \in Handlers :
        pc[h] # "idle" => query[h] \in Queries /\ nira[query[h]] \in seen[h]

\* A request that came too late refers to a grant that is over, and is at the
\* consent check or past its refusal.
LateIsRefused ==
    \A h \in late :
        /\ Ref[query[h]] \in Grants
        /\ Ref[query[h]] \in expired \/ revokedBy[Ref[query[h]]] # None
        /\ \/ pc[h] = "consent" /\ response[h] = None
           \/ pc[h] \in {"record", "put"} /\ response[h] = "consent_invalid"

\* A request has no response before it is refused or answered.
NoEarlyResponse ==
    \A h \in Handlers :
        pc[h] \in {"idle", "consent", "cache", "lookup"} => response[h] = None

ConsentInv == RevocationsAgree /\ RevokerHasGrant
RequestsInv == BusyHasQuery /\ LateIsRefused /\ NoEarlyResponse
                            /\ NegativeAnswersAreFresh

IInv == TypeOK /\ ConsentInv /\ RequestsInv

-----------------------------------------------------------------------------
\* It holds before the first request,
THEOREM InitIInv == VerifyInit => IInv
<1> SUFFICES ASSUME VerifyInit PROVE IInv
  OBVIOUS
<1> USE DEF VerifyInit, Init
<1>1. TypeOK
  BY DEF TypeOK, ConsentTypeOK, VerifyTypeOK, Statuses
<1>2. ConsentInv
  BY DEF ConsentInv, RevocationsAgree, RevokerHasGrant
<1>3. RequestsInv
  BY NoneIsNoStatus
     DEF RequestsInv, BusyHasQuery, LateIsRefused, NoEarlyResponse,
         NegativeAnswersAreFresh
<1>4. QED
  BY <1>1, <1>2, <1>3 DEF IInv

\* Verification leaves the consent service alone.
LEMMA ConsentRunsAlone == [VerifyNext]_allVars => [Next]_consentVars
BY DEF VerifyNext, allVars, Receive, Goto, Granted, Refused, CacheHit, CacheMiss,
       Lookup, LookupFails, Record, RecordHit, Put, CacheExpires, NiraChanges

\* No step of the consent service leaves its types.
LEMMA ConsentTypeStep ==
    ASSUME ConsentTypeOK, RevokerHasGrant, [Next]_consentVars
    PROVE  ConsentTypeOK'
<1> USE DEF ConsentTypeOK, RevokerHasGrant, revokeVars, Done
<1>1. ASSUME NEW g \in Grants, CreateGrant(g) PROVE ConsentTypeOK'
  <2>1. created' \subseteq Grants /\ expired \subseteq created'
    BY <1>1 DEF CreateGrant
  <2>2. QED
    BY <1>1, <2>1 DEF CreateGrant
<1>2. ASSUME NEW g \in Grants, GrantExpires(g) PROVE ConsentTypeOK'
  BY <1>2 DEF GrantExpires
<1>3. ASSUME NEW v \in Revokers, NEW g \in Grants, GetGrant(v, g)
      PROVE  ConsentTypeOK'
  BY <1>3 DEF GetGrant
<1>4. ASSUME NEW v \in Revokers, Update(v) PROVE ConsentTypeOK'
  BY <1>4 DEF Update
<1>5. ASSUME NEW v \in Revokers, UpdateFails(v) PROVE ConsentTypeOK'
  <2>1. revokedBy' \in [Grants -> Revokers \union {None}]
    BY <1>5 DEF UpdateFails
  <2>2. QED
    BY <1>5, <2>1 DEF UpdateFails
<1>6. ASSUME NEW v \in Revokers, AnswerRevoke(v) PROVE ConsentTypeOK'
  <2>1. <<target[v], reason[v]>> \in Grants \X Revokers
    BY <1>6 DEF AnswerRevoke
  <2>2. answers' \union outbox' \subseteq Grants \X Revokers
    BY <1>6, <2>1 DEF AnswerRevoke, Emit
  <2>3. QED
    BY <1>6, <2>2 DEF AnswerRevoke
<1>7. CASE UNCHANGED consentVars
  BY <1>7 DEF consentVars
<1>8. QED
  BY <1>1, <1>2, <1>3, <1>4, <1>5, <1>6, <1>7 DEF Next

\* A row is revoked once, so what was said of its reason stays true.
LEMMA ConsentInvStep ==
    ASSUME ConsentTypeOK, ConsentInv, [Next]_consentVars
    PROVE  ConsentInv'
<1> USE NoneAssumption
    DEF ConsentTypeOK, ConsentInv, RevocationsAgree, RevokerHasGrant, revokeVars,
        Done
<1>1. ASSUME NEW g \in Grants, CreateGrant(g) PROVE ConsentInv'
  BY <1>1 DEF CreateGrant
<1>2. ASSUME NEW g \in Grants, GrantExpires(g) PROVE ConsentInv'
  BY <1>2 DEF GrantExpires
<1>3. ASSUME NEW v \in Revokers, NEW g \in Grants, GetGrant(v, g)
      PROVE  ConsentInv'
  <2>1. RevocationsAgree'
    BY <1>3 DEF GetGrant
  <2>2. RevokerHasGrant'
    BY <1>3 DEF GetGrant
  <2>3. QED
    BY <2>1, <2>2
<1>4. ASSUME NEW v \in Revokers, Update(v) PROVE ConsentInv'
  <2>1. RevocationsAgree'
    BY <1>4 DEF Update
  <2>2. RevokerHasGrant'
    BY <1>4 DEF Update
  <2>3. QED
    BY <2>1, <2>2
<1>5. ASSUME NEW v \in Revokers, UpdateFails(v) PROVE ConsentInv'
  <2>1. RevocationsAgree'
    BY <1>5 DEF UpdateFails
  <2>2. RevokerHasGrant'
    BY <1>5 DEF UpdateFails
  <2>3. QED
    BY <2>1, <2>2
<1>6. ASSUME NEW v \in Revokers, AnswerRevoke(v) PROVE ConsentInv'
  <2>1. RevocationsAgree'
    BY <1>6 DEF AnswerRevoke, Emit
  <2>2. RevokerHasGrant'
    BY <1>6 DEF AnswerRevoke
  <2>3. QED
    BY <2>1, <2>2
<1>7. CASE UNCHANGED consentVars
  BY <1>7 DEF consentVars
<1>8. QED
  BY <1>1, <1>2, <1>3, <1>4, <1>5, <1>6, <1>7 DEF Next

\* A grant that is over stays over.
LEMMA OverStaysOver ==
    ASSUME ConsentTypeOK, [Next]_consentVars, NEW g \in Grants,
           g \in expired \/ revokedBy[g] # None
    PROVE  g \in expired' \/ revokedBy'[g] # None
BY NoneAssumption
   DEF ConsentTypeOK, Next, consentVars, CreateGrant, GrantExpires, GetGrant,
       Update, UpdateFails, AnswerRevoke

\* No step of verification leaves its types.
LEMMA VerifyTypeStep ==
    ASSUME IInv, [VerifyNext]_allVars
    PROVE  VerifyTypeOK'
<1> USE NoneAssumption, NiraAssumption
    DEF IInv, TypeOK, VerifyTypeOK, RequestsInv, BusyHasQuery, Goto, Respond,
        End, verifyVars, handlerVars, verifyHistory
<1>1. ASSUME NEW h \in Handlers, NEW q \in Queries, Receive(h, q)
      PROVE  VerifyTypeOK'
  <2>1. {nira[q]} \in SUBSET NiraStatuses
    OBVIOUS
  <2>2. seen' \in [Handlers -> SUBSET NiraStatuses]
    BY <1>1, <2>1 DEF Receive
  <2>3. late' \subseteq Handlers
    BY <1>1 DEF Receive
  <2>4. QED
    BY <1>1, <2>2, <2>3 DEF Receive
<1>2. ASSUME NEW h \in Handlers, Granted(h) PROVE VerifyTypeOK'
  BY <1>2 DEF Granted
<1>3. ASSUME NEW h \in Handlers, Refused(h) PROVE VerifyTypeOK'
  BY <1>3 DEF Refused, Statuses
<1>4. ASSUME NEW h \in Handlers, CacheHit(h) PROVE VerifyTypeOK'
  <2>1. query[h] \in Queries
    BY <1>4 DEF CacheHit
  <2>2. cache[query[h]] \in Statuses
    BY <1>4, <2>1, NoneIsNoStatus DEF CacheHit, Cacheable, Statuses
  <2>3. QED
    BY <1>4, <2>2 DEF CacheHit
<1>5. ASSUME NEW h \in Handlers, CacheMiss(h) PROVE VerifyTypeOK'
  BY <1>5 DEF CacheMiss
<1>6. ASSUME NEW h \in Handlers, Lookup(h) PROVE VerifyTypeOK'
  BY <1>6 DEF Lookup, BuildResponse, Statuses
<1>7. ASSUME NEW h \in Handlers, LookupFails(h) PROVE VerifyTypeOK'
  BY <1>7 DEF LookupFails, Statuses
<1>8. ASSUME NEW h \in Handlers, Record(h) PROVE VerifyTypeOK'
  <2>1. logged' \in [Queries -> Statuses \union {None}]
    <3> DEFINE status == response[h]
    <3>1. status \in Statuses \union {None}
      BY DEF Statuses, Cacheable
    <3> HIDE DEF status
    <3>2. [logged EXCEPT ![query[h]] = status] \in [Queries -> Statuses \union {None}]
      BY <3>1
    <3>3. logged' \in {logged, [logged EXCEPT ![query[h]] = status]}
      BY <1>8 DEF Record, status, Log
    <3>4. QED
      BY <3>2, <3>3
  <2>2. QED
    BY <1>8, <2>1 DEF Record
<1>9. ASSUME NEW h \in Handlers, RecordHit(h) PROVE VerifyTypeOK'
  <2>1. logged' \in [Queries -> Statuses \union {None}]
    <3> DEFINE status == "verified"
    <3>1. status \in Statuses \union {None}
      BY DEF Statuses, Cacheable
    <3> HIDE DEF status
    <3>2. [logged EXCEPT ![query[h]] = status] \in [Queries -> Statuses \union {None}]
      BY <3>1
    <3>3. logged' \in {logged, [logged EXCEPT ![query[h]] = status]}
      BY <1>9 DEF RecordHit, status, Log
    <3>4. QED
      BY <3>2, <3>3
  <2>2. QED
    BY <1>9, <2>1 DEF RecordHit
<1>10. ASSUME NEW h \in Handlers, Put(h) PROVE VerifyTypeOK'
  <2>1. cache' \in [Queries -> Cacheable \union {None}]
    <3>1. CASE UNCHANGED cache
      BY <3>1
    <3>2. CASE response[h] \in Cacheable /\ cache' = [cache EXCEPT ![query[h]] = response[h]]
      BY <3>2
    <3>3. QED
      BY <1>10, <3>1, <3>2 DEF Put
  <2>2. QED
    BY <1>10, <2>1 DEF Put
<1>11. CASE Next /\ UNCHANGED verifyVars
  BY <1>11
<1>12. ASSUME NEW q \in Queries, CacheExpires(q) PROVE VerifyTypeOK'
  BY <1>12 DEF CacheExpires
<1>13. ASSUME NEW q \in Queries, NEW status \in NiraStatuses, NiraChanges(q, status)
      PROVE  VerifyTypeOK'
  <2>1. \A h \in Handlers : seen[h] \union {status} \in SUBSET NiraStatuses
    OBVIOUS
  <2>2. seen' \in [Handlers -> SUBSET NiraStatuses]
    BY <1>13, <2>1 DEF NiraChanges
  <2>3. QED
    BY <1>13, <2>2 DEF NiraChanges
<1>14. CASE UNCHANGED allVars
  BY <1>14 DEF allVars
<1>15. QED
  BY <1>1, <1>2, <1>3, <1>4, <1>5, <1>6, <1>7, <1>8, <1>9, <1>10, <1>11,
     <1>12, <1>13, <1>14 DEF VerifyNext

\* A request in progress keeps its query, and sees every change of its record.
LEMMA BusyStep ==
    ASSUME IInv, [VerifyNext]_allVars
    PROVE  BusyHasQuery'
<1> USE NoneAssumption
    DEF IInv, TypeOK, VerifyTypeOK, RequestsInv, BusyHasQuery, Goto, End,
        verifyVars, handlerVars, verifyHistory
<1>1. ASSUME NEW h \in Handlers, NEW q \in Queries, Receive(h, q)
      PROVE  BusyHasQuery'
  BY <1>1 DEF Receive
<1>2. ASSUME NEW h \in Handlers, Granted(h) PROVE BusyHasQuery'
  BY <1>2 DEF Granted
<1>3. ASSUME NEW h \in Handlers, Refused(h) PROVE BusyHasQuery'
  BY <1>3 DEF Refused
<1>4. ASSUME NEW h \in Handlers, CacheHit(h) PROVE BusyHasQuery'
  BY <1>4 DEF CacheHit
<1>5. ASSUME NEW h \in Handlers, CacheMiss(h) PROVE BusyHasQuery'
  BY <1>5 DEF CacheMiss
<1>6. ASSUME NEW h \in Handlers, Lookup(h) PROVE BusyHasQuery'
  BY <1>6 DEF Lookup, BuildResponse
<1>7. ASSUME NEW h \in Handlers, LookupFails(h) PROVE BusyHasQuery'
  BY <1>7 DEF LookupFails
<1>8. ASSUME NEW h \in Handlers, Record(h) PROVE BusyHasQuery'
  BY <1>8 DEF Record
<1>9. ASSUME NEW h \in Handlers, RecordHit(h) PROVE BusyHasQuery'
  BY <1>9 DEF RecordHit
<1>10. ASSUME NEW h \in Handlers, Put(h) PROVE BusyHasQuery'
  BY <1>10 DEF Put
<1>11. CASE Next /\ UNCHANGED verifyVars
  BY <1>11
<1>12. ASSUME NEW q \in Queries, CacheExpires(q) PROVE BusyHasQuery'
  BY <1>12 DEF CacheExpires
<1>13. ASSUME NEW q \in Queries, NEW status \in NiraStatuses, NiraChanges(q, status)
      PROVE  BusyHasQuery'
  BY <1>13 DEF NiraChanges
<1>14. CASE UNCHANGED allVars
  BY <1>14 DEF allVars
<1>15. QED
  BY <1>1, <1>2, <1>3, <1>4, <1>5, <1>6, <1>7, <1>8, <1>9, <1>10, <1>11,
     <1>12, <1>13, <1>14 DEF VerifyNext

\* A response is built at the last moment.
LEMMA NoEarlyStep ==
    ASSUME IInv, [VerifyNext]_allVars
    PROVE  NoEarlyResponse'
<1> USE DEF IInv, TypeOK, VerifyTypeOK, RequestsInv, NoEarlyResponse, Goto,
        Respond, End, verifyVars, handlerVars, verifyHistory
<1>1. ASSUME NEW h \in Handlers, NEW q \in Queries, Receive(h, q)
      PROVE  NoEarlyResponse'
  BY <1>1 DEF Receive
<1>2. ASSUME NEW h \in Handlers, Granted(h) PROVE NoEarlyResponse'
  BY <1>2 DEF Granted
<1>3. ASSUME NEW h \in Handlers, Refused(h) PROVE NoEarlyResponse'
  BY <1>3 DEF Refused
<1>4. ASSUME NEW h \in Handlers, CacheHit(h) PROVE NoEarlyResponse'
  BY <1>4 DEF CacheHit
<1>5. ASSUME NEW h \in Handlers, CacheMiss(h) PROVE NoEarlyResponse'
  BY <1>5 DEF CacheMiss
<1>6. ASSUME NEW h \in Handlers, Lookup(h) PROVE NoEarlyResponse'
  BY <1>6 DEF Lookup, BuildResponse
<1>7. ASSUME NEW h \in Handlers, LookupFails(h) PROVE NoEarlyResponse'
  BY <1>7 DEF LookupFails
<1>8. ASSUME NEW h \in Handlers, Record(h) PROVE NoEarlyResponse'
  BY <1>8 DEF Record
<1>9. ASSUME NEW h \in Handlers, RecordHit(h) PROVE NoEarlyResponse'
  BY <1>9 DEF RecordHit
<1>10. ASSUME NEW h \in Handlers, Put(h) PROVE NoEarlyResponse'
  BY <1>10 DEF Put
<1>11. CASE Next /\ UNCHANGED verifyVars
  BY <1>11
<1>12. ASSUME NEW q \in Queries, CacheExpires(q) PROVE NoEarlyResponse'
  BY <1>12 DEF CacheExpires
<1>13. ASSUME NEW q \in Queries, NEW status \in NiraStatuses, NiraChanges(q, status)
      PROVE  NoEarlyResponse'
  BY <1>13 DEF NiraChanges
<1>14. CASE UNCHANGED allVars
  BY <1>14 DEF allVars
<1>15. QED
  BY <1>1, <1>2, <1>3, <1>4, <1>5, <1>6, <1>7, <1>8, <1>9, <1>10, <1>11,
     <1>12, <1>13, <1>14 DEF VerifyNext

\* A negative answer comes from NIRA, never from the cache.
LEMMA FreshStep ==
    ASSUME IInv, [VerifyNext]_allVars
    PROVE  NegativeAnswersAreFresh'
<1> USE NiraAssumption, NoneIsNoStatus
    DEF IInv, TypeOK, VerifyTypeOK, RequestsInv, BusyHasQuery,
        NegativeAnswersAreFresh, Cacheable, Goto, Respond, End, verifyVars,
        handlerVars, verifyHistory
<1>1. ASSUME NEW h \in Handlers, NEW q \in Queries, Receive(h, q)
      PROVE  NegativeAnswersAreFresh'
  BY <1>1 DEF Receive, NoEarlyResponse
<1>2. ASSUME NEW h \in Handlers, Granted(h) PROVE NegativeAnswersAreFresh'
  BY <1>2 DEF Granted
<1>3. ASSUME NEW h \in Handlers, Refused(h) PROVE NegativeAnswersAreFresh'
  BY <1>3 DEF Refused
<1>4. ASSUME NEW h \in Handlers, CacheHit(h) PROVE NegativeAnswersAreFresh'
  BY <1>4 DEF CacheHit
<1>5. ASSUME NEW h \in Handlers, CacheMiss(h) PROVE NegativeAnswersAreFresh'
  BY <1>5 DEF CacheMiss
<1>6. ASSUME NEW h \in Handlers, Lookup(h) PROVE NegativeAnswersAreFresh'
  BY <1>6 DEF Lookup, BuildResponse
<1>7. ASSUME NEW h \in Handlers, LookupFails(h) PROVE NegativeAnswersAreFresh'
  BY <1>7 DEF LookupFails
<1>8. ASSUME NEW h \in Handlers, Record(h) PROVE NegativeAnswersAreFresh'
  BY <1>8 DEF Record
<1>9. ASSUME NEW h \in Handlers, RecordHit(h) PROVE NegativeAnswersAreFresh'
  BY <1>9 DEF RecordHit
<1>10. ASSUME NEW h \in Handlers, Put(h) PROVE NegativeAnswersAreFresh'
  BY <1>10 DEF Put
<1>11. CASE Next /\ UNCHANGED verifyVars
  BY <1>11
<1>12. ASSUME NEW q \in Queries, CacheExpires(q) PROVE NegativeAnswersAreFresh'
  BY <1>12 DEF CacheExpires
<1>13. ASSUME NEW q \in Queries, NEW status \in NiraStatuses, NiraChanges(q, status)
      PROVE  NegativeAnswersAreFresh'
  BY <1>13 DEF NiraChanges
<1>14. CASE UNCHANGED allVars
  BY <1>14 DEF allVars
<1>15. QED
  BY <1>1, <1>2, <1>3, <1>4, <1>5, <1>6, <1>7, <1>8, <1>9, <1>10, <1>11,
     <1>12, <1>13, <1>14 DEF VerifyNext

\* The end of a request does not touch the others.
LEMMA EndKeepsOthers ==
    ASSUME VerifyTypeOK, NEW h \in Handlers, NEW i \in Handlers, i # h, End(h)
    PROVE  pc'[i] = pc[i] /\ query'[i] = query[i] /\ response'[i] = response[i]
BY DEF VerifyTypeOK, End, Respond

\* A handler that goes on and maybe answers leaves the others alone.
LEMMA MoveKeepsLate ==
    ASSUME LateIsRefused, VerifyTypeOK, NEW h \in Handlers,
           UNCHANGED <<expired, revokedBy, query, late>>,
           \A i \in Handlers \ {h} : pc'[i] = pc[i] /\ response'[i] = response[i],
           h \in late => pc'[h] = "record" /\ response'[h] = "consent_invalid"
    PROVE  LateIsRefused'
<1>1. late \subseteq Handlers
  BY DEF VerifyTypeOK
<1>2. ASSUME NEW i \in late
      PROVE  \/ pc'[i] = "consent" /\ response'[i] = None
             \/ pc'[i] \in {"record", "put"} /\ response'[i] = "consent_invalid"
  BY <1>1 DEF LateIsRefused
<1> QED
  BY <1>2 DEF LateIsRefused

LEMMA HandlerMoves ==
    ASSUME VerifyTypeOK, NEW h \in Handlers,
           Refused(h) \/ CacheHit(h) \/ CacheMiss(h) \/ Lookup(h) \/ LookupFails(h)
    PROVE  /\ UNCHANGED <<expired, revokedBy, query, late>>
           /\ \A i \in Handlers \ {h} : pc'[i] = pc[i] /\ response'[i] = response[i]
           /\ \/ pc'[h] = "record" /\ response'[h] = "consent_invalid"
              \/ pc[h] \in {"cache", "lookup"}
BY DEF VerifyTypeOK, Refused, CacheHit, CacheMiss, Lookup, LookupFails, Goto, Respond,
       consentVars, verifyHistory

\* A request that arrives is the only one that changes.
LEMMA ReceiveMoves ==
    ASSUME VerifyTypeOK, NEW h \in Handlers, NEW q \in Queries, Receive(h, q)
    PROVE  /\ query'[h] = q
           /\ pc'[h] = IF Ref[q] = None THEN "cache" ELSE "consent"
           /\ \A i \in Handlers \ {h} : query'[i] = query[i] /\ pc'[i] = pc[i]
BY DEF VerifyTypeOK, Receive

\* A late request is refused: its grant was over and stays so.
LEMMA LateStep ==
    ASSUME IInv, [VerifyNext]_allVars
    PROVE  LateIsRefused'
<1> USE NoneAssumption, RefAssumption
    DEF IInv, TypeOK, ConsentTypeOK, VerifyTypeOK, ConsentInv,
        RevocationsAgree, RequestsInv, BusyHasQuery, NoEarlyResponse,
        LateIsRefused, Goto, Respond, verifyVars, handlerVars,
        verifyHistory, consentVars, revokeVars
<1>1. ASSUME NEW h \in Handlers, NEW q \in Queries, Receive(h, q)
      PROVE  LateIsRefused'
  <2>1. Over(q) => /\ Ref[q] \in Grants
                   /\ Ref[q] \in expired \/ revokedBy[Ref[q]] # None
    <3>1. ASSUME NEW v \in Revokers, <<Ref[q], v>> \in answers, Ref[q] \in Grants
          PROVE  revokedBy[Ref[q]] # None
      BY <3>1
    <3>2. QED
      BY <3>1 DEF Over
  <2>2. /\ pc' = [pc EXCEPT ![h] = IF Ref[q] = None THEN "cache" ELSE "consent"]
        /\ query' = [query EXCEPT ![h] = q]
        /\ UNCHANGED <<response, expired, revokedBy>>
        /\ response[h] = None
        /\ late' = IF Over(q) THEN late \union {h} ELSE late
        /\ h \notin late
    BY <1>1 DEF Receive
  <2>3. ASSUME NEW i \in late', i # h
        PROVE  /\ Ref[query'[i]] \in Grants
               /\ Ref[query'[i]] \in expired \/ revokedBy[Ref[query'[i]]] # None
               /\ \/ pc'[i] = "consent" /\ response[i] = None
                  \/ pc'[i] \in {"record", "put"} /\ response[i] = "consent_invalid"
    <3>1. i \in late
      BY <2>2, <2>3
    <3>2. i \in Handlers /\ query'[i] = query[i] /\ pc'[i] = pc[i]
      BY <2>2, <2>3, <3>1
    <3>3. QED
      BY <3>1, <3>2
  <2>4. ASSUME h \in late'
        PROVE  /\ Ref[query'[h]] \in Grants
               /\ Ref[query'[h]] \in expired \/ revokedBy[Ref[query'[h]]] # None
               /\ pc'[h] = "consent"
    <3>1. Over(q)
      BY <2>2, <2>4
    <3>2. query'[h] = q
      BY <1>1, ReceiveMoves
    <3>3. Ref[q] # None
      BY <3>1 DEF Over
    <3>4. pc'[h] = "consent"
      BY <1>1, <3>3, ReceiveMoves
    <3>5. /\ Ref[q] \in Grants
          /\ Ref[q] \in expired \/ revokedBy[Ref[q]] # None
      BY <2>1, <3>1 DEF Over
    <3>6. QED
      BY <3>2, <3>4, <3>5
  <2>5. UNCHANGED <<response, expired, revokedBy>> /\ response[h] = None
    BY <2>2
  <2>6. QED
    BY <2>3, <2>4, <2>5
<1>2. ASSUME NEW h \in Handlers, Granted(h) PROVE LateIsRefused'
  BY <1>2 DEF Granted, Evaluate
<1>3. ASSUME NEW h \in Handlers,
             Refused(h) \/ CacheHit(h) \/ CacheMiss(h) \/ Lookup(h) \/ LookupFails(h)
      PROVE  LateIsRefused'
  <2>1. /\ UNCHANGED <<expired, revokedBy, query, late>>
        /\ \A i \in Handlers \ {h} : pc'[i] = pc[i] /\ response'[i] = response[i]
        /\ \/ pc'[h] = "record" /\ response'[h] = "consent_invalid"
           \/ pc[h] \in {"cache", "lookup"}
    BY <1>3, HandlerMoves
  <2>2. h \in late => pc[h] \notin {"cache", "lookup"}
    OBVIOUS
  <2>3. QED
    BY <2>1, <2>2, MoveKeepsLate
<1>8. ASSUME NEW h \in Handlers, Record(h) PROVE LateIsRefused'
  BY <1>8 DEF Record
<1>9. ASSUME NEW h \in Handlers, RecordHit(h) PROVE LateIsRefused'
  <2>1. UNCHANGED <<expired, revokedBy>> /\ late' = late \ {h}
    BY <1>9 DEF RecordHit, End
  <2>2. ASSUME NEW i \in late'
        PROVE  /\ i \in late
               /\ pc'[i] = pc[i] /\ query'[i] = query[i] /\ response'[i] = response[i]
    BY <1>9, <2>1, <2>2, EndKeepsOthers DEF RecordHit
  <2>3. QED
    BY <2>1, <2>2
<1>10. ASSUME NEW h \in Handlers, Put(h) PROVE LateIsRefused'
  <2>1. UNCHANGED <<expired, revokedBy>> /\ late' = late \ {h}
    BY <1>10 DEF Put, End
  <2>2. ASSUME NEW i \in late'
        PROVE  /\ i \in late
               /\ pc'[i] = pc[i] /\ query'[i] = query[i] /\ response'[i] = response[i]
    BY <1>10, <2>1, <2>2, EndKeepsOthers DEF Put
  <2>3. QED
    BY <2>1, <2>2
<1>11. ASSUME NEW g \in Grants, CreateGrant(g), UNCHANGED verifyVars
      PROVE  LateIsRefused'
  BY <1>11 DEF CreateGrant
<1>12. ASSUME NEW g \in Grants, GrantExpires(g), UNCHANGED verifyVars
      PROVE  LateIsRefused'
  BY <1>12 DEF GrantExpires
<1>13. ASSUME NEW v \in Revokers, NEW g \in Grants, GetGrant(v, g), UNCHANGED verifyVars
      PROVE  LateIsRefused'
  BY <1>13 DEF GetGrant
<1>14. ASSUME NEW v \in Revokers, Update(v), UNCHANGED verifyVars
      PROVE  LateIsRefused'
  BY <1>14 DEF Update
<1>15. ASSUME NEW v \in Revokers, UpdateFails(v), UNCHANGED verifyVars
      PROVE  LateIsRefused'
  BY <1>15 DEF UpdateFails
<1>16. ASSUME NEW v \in Revokers, AnswerRevoke(v), UNCHANGED verifyVars
      PROVE  LateIsRefused'
  BY <1>16 DEF AnswerRevoke
<1>17. ASSUME NEW q \in Queries, CacheExpires(q) PROVE LateIsRefused'
  BY <1>17 DEF CacheExpires
<1>18. ASSUME NEW q \in Queries, NEW status \in NiraStatuses, NiraChanges(q, status)
      PROVE  LateIsRefused'
  BY <1>18 DEF NiraChanges
<1>19. CASE UNCHANGED allVars
  BY <1>19 DEF allVars
<1>20. QED
  BY <1>1, <1>2, <1>3, <1>8, <1>9, <1>10, <1>11,
     <1>12, <1>13, <1>14, <1>15, <1>16, <1>17, <1>18, <1>19 DEF VerifyNext, Next

\* every step keeps it,
THEOREM NextIInv == IInv /\ [VerifyNext]_allVars => IInv'
<1> SUFFICES ASSUME IInv, [VerifyNext]_allVars PROVE IInv'
  OBVIOUS
<1>1. TypeOK' /\ ConsentInv'
  BY ConsentRunsAlone, ConsentTypeStep, ConsentInvStep, VerifyTypeStep
     DEF IInv, TypeOK, ConsentInv
<1>2. RequestsInv'
  BY BusyStep, NoEarlyStep, FreshStep, LateStep DEF RequestsInv
<1>3. QED
  BY <1>1, <1>2 DEF IInv

\* so every state of every behaviour satisfies it.
THEOREM Invariance == VerifySpec => []IInv
BY InitIInv, NextIInv, PTL DEF VerifySpec

-----------------------------------------------------------------------------
\* Every variable of the two services keeps its type; only the two cacheable
\* statuses are ever cached.
THEOREM TypeCorrect == VerifySpec => []TypeOK
<1>1. IInv => TypeOK
  BY DEF IInv
<1>2. QED
  BY Invariance, <1>1, PTL

\* After a revocation was answered, or after the expiry, no new request learns
\* anything of the citizen, however NIRA, the cache and other requests interleave.
THEOREM RevocationIsHonoured == VerifySpec => []RevocationHonoured
<1>1. IInv => RevocationHonoured
  BY DEF IInv, RequestsInv, LateIsRefused, RevocationHonoured
<1>2. QED
  BY Invariance, <1>1, PTL

\* Every answered or audited revocation of a grant gives the one stored reason.
THEOREM RevocationAnswersAgree == VerifySpec => []RevocationsAgree
<1>1. IInv => RevocationsAgree
  BY DEF IInv, ConsentInv
<1>2. QED
  BY Invariance, <1>1, PTL

\* No negative answer is older than the request it answers.
THEOREM NegativesAreFresh == VerifySpec => []NegativeAnswersAreFresh
<1>1. IInv => NegativeAnswersAreFresh
  BY DEF IInv, RequestsInv
<1>2. QED
  BY Invariance, <1>1, PTL

=============================================================================
