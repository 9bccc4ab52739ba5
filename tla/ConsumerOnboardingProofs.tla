---------------------- MODULE ConsumerOnboardingProofs ----------------------
(***************************************************************************)
(* Theorems about POST /consumers for any number of concurrent requests,   *)
(* clients, keys and faults: no two requests hold the same client, a 201   *)
(* is never taken back, a secret is disclosed once, and every difference   *)
(* between Keycloak and the registrations has a failed call or a crash to  *)
(* explain it.                                                             *)
(***************************************************************************)
EXTENDS ConsumerOnboarding, TLAPS

-----------------------------------------------------------------------------
(* The inductive invariant.                                                *)

\* Requests that created their client and have not responded yet.
Holders == {h \in Handlers : pc[h] \in {"secret", "insert", "commit", "compensate",
                                        "stash", "save"}}

\* A request in progress has a body, and one that looks its key up has a key.
BusyHasRequest ==
    \A h \in Handlers :
        /\ pc[h] # "idle" => client[h] \in Clients
        /\ pc[h] = "lookup" => key[h] \in Keys

\* One request holds a client from its creation to the response.
OneHolder == \A h, i \in Holders : client[h] = client[i] => h = i

\* The client a request holds is in Keycloak, and nobody was told of it.
HeldIsNew ==
    \A h \in Holders : client[h] \in keycloak /\ created[client[h]] = 0

\* A request past its commit has its row.  One before it finds a row only if an
\* earlier request for the client left it behind.
RowOfHolder ==
    \A h \in Holders :
        /\ pc[h] \in {"stash", "save"} => client[h] \in registered
        /\ client[h] \in registered =>
             client[h] \in excused \/ pc[h] \in {"stash", "save"}

\* What was disclosed was disclosed once, and works.
DisclosedOnceAndWorks ==
    \A c \in Clients : created[c] > 0 =>
        created[c] = 1 /\ c \in keycloak /\ c \in registered

\* A stored response was sent.
StoredWasSent == \A k \in Keys : idem[k] # None => created[idem[k].client] > 0

RequestsInv == BusyHasRequest /\ OneHolder /\ HeldIsNew /\ RowOfHolder
HistoryInv == DisclosedOnceAndWorks /\ StoredWasSent /\ OrphansExplained

IInv == TypeOK /\ RequestsInv /\ HistoryInv

-----------------------------------------------------------------------------
\* It holds before the first request,
THEOREM InitIInv == Init => IInv
BY MaxFaultsAssumption
   DEF Init, IInv, TypeOK, Calls, RequestsInv, BusyHasRequest, OneHolder,
       HeldIsNew, RowOfHolder, HistoryInv, DisclosedOnceAndWorks, StoredWasSent,
       OrphansExplained, Holders, Working

\* No step leaves the types.
LEMMA TypeStep ==
    ASSUME IInv, [Next]_vars
    PROVE  TypeOK'
<1> USE DEF IInv, TypeOK, Calls, RequestsInv, BusyHasRequest, RowOfHolder, Holders,
           Goto, Respond, Fault, requestVars, storeVars
<1>1. ASSUME NEW h \in Handlers, NEW k \in Keys \union {None}, NEW c \in Clients,
            Receive(h, k, c)
     PROVE  TypeOK'
  BY <1>1 DEF Receive
<1>2. ASSUME NEW h \in Handlers, Lookup(h) PROVE TypeOK'
  BY <1>2 DEF Lookup
<1>3. ASSUME NEW h \in Handlers, LookupFails(h) PROVE TypeOK'
  BY <1>3, MaxFaultsAssumption DEF LookupFails
<1>4. ASSUME NEW h \in Handlers, CreateClient(h) PROVE TypeOK'
  BY <1>4 DEF CreateClient
<1>5. ASSUME NEW h \in Handlers, CreateClientFails(h) PROVE TypeOK'
  BY <1>5, MaxFaultsAssumption DEF CreateClientFails
<1>6. ASSUME NEW h \in Handlers, FetchSecret(h) PROVE TypeOK'
  BY <1>6 DEF FetchSecret
<1>7. ASSUME NEW h \in Handlers, FetchSecretFails(h) PROVE TypeOK'
  BY <1>7, MaxFaultsAssumption DEF FetchSecretFails
<1>8. ASSUME NEW h \in Handlers, InsertRow(h) PROVE TypeOK'
  BY <1>8 DEF InsertRow
<1>9. ASSUME NEW h \in Handlers, InsertFails(h) PROVE TypeOK'
  BY <1>9, MaxFaultsAssumption DEF InsertFails
<1>10. ASSUME NEW h \in Handlers, Commit(h) PROVE TypeOK'
  BY <1>10 DEF Commit
<1>11. ASSUME NEW h \in Handlers, CommitFails(h) PROVE TypeOK'
  BY <1>11, MaxFaultsAssumption DEF CommitFails
<1>12. ASSUME NEW h \in Handlers, Compensate(h) PROVE TypeOK'
  BY <1>12 DEF Compensate
<1>13. ASSUME NEW h \in Handlers, CompensateFails(h) PROVE TypeOK'
  BY <1>13, MaxFaultsAssumption DEF CompensateFails
<1>14. ASSUME NEW h \in Handlers, Stash(h) PROVE TypeOK'
  BY <1>14 DEF Stash
<1>15. ASSUME NEW h \in Handlers, SaveAndRespond(h) PROVE TypeOK'
  <2>1. client[h] \in Clients
    BY <1>15 DEF SaveAndRespond
  <2>2. idem' \in [Keys -> [client : Clients, expired : BOOLEAN] \union {None}]
    <3>1. CASE UNCHANGED idem
      BY <3>1
    <3> DEFINE rec == [client |-> client[h], expired |-> FALSE]
    <3>2. CASE key[h] # None /\ idem' = [idem EXCEPT ![key[h]] = rec]
      <4>1. rec \in [client : Clients, expired : BOOLEAN]
        BY <2>1
      <4> HIDE DEF rec
      <4>2. QED
        BY <3>2, <4>1
    <3>3. QED
      BY <1>15, <3>1, <3>2 DEF SaveAndRespond
  <2>3. created' \in [Clients -> Nat]
    BY <1>15, <2>1 DEF SaveAndRespond
  <2>4. QED
    BY <1>15, <2>2, <2>3, MaxFaultsAssumption DEF SaveAndRespond
<1>16. ASSUME NEW k \in Keys, Expire(k) PROVE TypeOK'
  BY <1>16 DEF Expire
<1>17. CASE Crash
  BY <1>17, MaxFaultsAssumption DEF Crash, Working
<1>18. CASE UNCHANGED vars
  BY <1>18 DEF vars
<1>19. QED
  BY <1>1, <1>2, <1>3, <1>4, <1>5, <1>6, <1>7, <1>8, <1>9, <1>10, <1>11, <1>12,
     <1>13, <1>14, <1>15, <1>16, <1>17, <1>18 DEF Next

\* What is known of the requests in progress stays so: CreateClient admits one
\* holder of a client, and the other steps keep or release it.
LEMMA RequestsStep ==
    ASSUME IInv, [Next]_vars
    PROVE  RequestsInv'
<1> USE DEF IInv, TypeOK, Calls, RequestsInv, BusyHasRequest, OneHolder,
           HeldIsNew, RowOfHolder, Holders, HistoryInv, DisclosedOnceAndWorks,
           OrphansExplained, Working,
           Goto, Respond, Fault, requestVars, storeVars
<1>1. ASSUME NEW h \in Handlers, NEW k \in Keys \union {None}, NEW c \in Clients,
            Receive(h, k, c)
     PROVE  RequestsInv'
  BY <1>1 DEF Receive
<1>2. ASSUME NEW h \in Handlers, Lookup(h) PROVE RequestsInv'
  BY <1>2 DEF Lookup
<1>3. ASSUME NEW h \in Handlers, LookupFails(h) PROVE RequestsInv'
  BY <1>3 DEF LookupFails
<1>4. ASSUME NEW h \in Handlers, CreateClient(h) PROVE RequestsInv'
  BY <1>4 DEF CreateClient
<1>5. ASSUME NEW h \in Handlers, CreateClientFails(h) PROVE RequestsInv'
  BY <1>5 DEF CreateClientFails
<1>6. ASSUME NEW h \in Handlers, FetchSecret(h) PROVE RequestsInv'
  BY <1>6 DEF FetchSecret
<1>7. ASSUME NEW h \in Handlers, FetchSecretFails(h) PROVE RequestsInv'
  BY <1>7 DEF FetchSecretFails
<1>8. ASSUME NEW h \in Handlers, InsertRow(h) PROVE RequestsInv'
  BY <1>8 DEF InsertRow
<1>9. ASSUME NEW h \in Handlers, InsertFails(h) PROVE RequestsInv'
  BY <1>9 DEF InsertFails
<1>10. ASSUME NEW h \in Handlers, Commit(h) PROVE RequestsInv'
  BY <1>10 DEF Commit
<1>11. ASSUME NEW h \in Handlers, CommitFails(h) PROVE RequestsInv'
  BY <1>11 DEF CommitFails
<1>12. ASSUME NEW h \in Handlers, Compensate(h) PROVE RequestsInv'
  BY <1>12 DEF Compensate
<1>13. ASSUME NEW h \in Handlers, CompensateFails(h) PROVE RequestsInv'
  BY <1>13 DEF CompensateFails
<1>14. ASSUME NEW h \in Handlers, Stash(h) PROVE RequestsInv'
  BY <1>14 DEF Stash
<1>15. ASSUME NEW h \in Handlers, SaveAndRespond(h) PROVE RequestsInv'
  BY <1>15 DEF SaveAndRespond
<1>16. ASSUME NEW k \in Keys, Expire(k) PROVE RequestsInv'
  BY <1>16 DEF Expire
<1>17. CASE Crash
  BY <1>17 DEF Crash, Working
<1>18. CASE UNCHANGED vars
  BY <1>18 DEF vars
<1>19. QED
  BY <1>1, <1>2, <1>3, <1>4, <1>5, <1>6, <1>7, <1>8, <1>9, <1>10, <1>11, <1>12,
     <1>13, <1>14, <1>15, <1>16, <1>17, <1>18 DEF Next

\* What was disclosed, stored and left over stays accounted for.
LEMMA HistoryStep ==
    ASSUME IInv, [Next]_vars
    PROVE  HistoryInv'
<1> USE DEF IInv, TypeOK, Calls, RequestsInv, BusyHasRequest, OneHolder,
           HeldIsNew, RowOfHolder, Holders, HistoryInv, DisclosedOnceAndWorks,
           StoredWasSent, OrphansExplained, Working, Goto, Respond, Fault,
           requestVars, storeVars
<1>1. ASSUME NEW h \in Handlers, NEW k \in Keys \union {None}, NEW c \in Clients,
            Receive(h, k, c)
     PROVE  HistoryInv'
  BY <1>1 DEF Receive
<1>2. ASSUME NEW h \in Handlers, Lookup(h) PROVE HistoryInv'
  BY <1>2 DEF Lookup
<1>3. ASSUME NEW h \in Handlers, LookupFails(h) PROVE HistoryInv'
  BY <1>3 DEF LookupFails
<1>4. ASSUME NEW h \in Handlers, CreateClient(h) PROVE HistoryInv'
  BY <1>4 DEF CreateClient
<1>5. ASSUME NEW h \in Handlers, CreateClientFails(h) PROVE HistoryInv'
  BY <1>5 DEF CreateClientFails
<1>6. ASSUME NEW h \in Handlers, FetchSecret(h) PROVE HistoryInv'
  BY <1>6 DEF FetchSecret
<1>7. ASSUME NEW h \in Handlers, FetchSecretFails(h) PROVE HistoryInv'
  BY <1>7 DEF FetchSecretFails
<1>8. ASSUME NEW h \in Handlers, InsertRow(h) PROVE HistoryInv'
  BY <1>8 DEF InsertRow
<1>9. ASSUME NEW h \in Handlers, InsertFails(h) PROVE HistoryInv'
  BY <1>9 DEF InsertFails
<1>10. ASSUME NEW h \in Handlers, Commit(h) PROVE HistoryInv'
  BY <1>10 DEF Commit
<1>11. ASSUME NEW h \in Handlers, CommitFails(h) PROVE HistoryInv'
  BY <1>11 DEF CommitFails
<1>12. ASSUME NEW h \in Handlers, Compensate(h) PROVE HistoryInv'
  BY <1>12 DEF Compensate
<1>13. ASSUME NEW h \in Handlers, CompensateFails(h) PROVE HistoryInv'
  BY <1>13 DEF CompensateFails
<1>14. ASSUME NEW h \in Handlers, Stash(h) PROVE HistoryInv'
  BY <1>14 DEF Stash
<1>15. ASSUME NEW h \in Handlers, SaveAndRespond(h) PROVE HistoryInv'
  BY <1>15 DEF SaveAndRespond
<1>16. ASSUME NEW k \in Keys, Expire(k) PROVE HistoryInv'
  BY <1>16 DEF Expire
<1>17. CASE Crash
  BY <1>17 DEF Crash
<1>18. CASE UNCHANGED vars
  BY <1>18 DEF vars
<1>19. QED
  BY <1>1, <1>2, <1>3, <1>4, <1>5, <1>6, <1>7, <1>8, <1>9, <1>10, <1>11, <1>12,
     <1>13, <1>14, <1>15, <1>16, <1>17, <1>18 DEF Next

\* and after every call, reply, fault and crash.
THEOREM NextIInv == IInv /\ [Next]_vars => IInv'
BY TypeStep, RequestsStep, HistoryStep DEF IInv

\* The strengthening holds in every reachable state.
THEOREM Invariance == Spec => []IInv
<1>1. Init => IInv
  BY InitIInv
<1>2. IInv /\ [Next]_vars => IInv'
  BY NextIInv
<1>3. QED
  BY <1>1, <1>2, PTL DEF Spec

-----------------------------------------------------------------------------
(* The properties.                                                         *)

\* Every variable keeps its type, and no secret is stashed without its row.
THEOREM TypeCorrect == Spec => []TypeOK
<1>1. IInv => TypeOK
  BY DEF IInv
<1>2. QED
  BY <1>1, Invariance, PTL

\* Between Keycloak's 201 and the commit a client belongs to one request.
THEOREM OneHandler == Spec => []OneHandlerPerClient
<1>1. IInv => OneHandlerPerClient
  BY DEF IInv, RequestsInv, OneHolder, Holders, OneHandlerPerClient, Working
<1>2. QED
  BY <1>1, Invariance, PTL

\* What a caller was answered stands: no other request takes the client away.
THEOREM CreatedStands == Spec => []CreatedKeepsWorking
<1>1. IInv => CreatedKeepsWorking
  <2> SUFFICES ASSUME IInv, NEW c \in Clients, Answered(c)
               PROVE  c \in keycloak /\ c \in registered
    BY DEF CreatedKeepsWorking
  <2>1. created[c] > 0
    BY DEF Answered, IInv, HistoryInv, StoredWasSent
  <2>2. QED
    BY <2>1 DEF IInv, HistoryInv, DisclosedOnceAndWorks
<1>2. QED
  BY <1>1, Invariance, PTL

\* No client's secret is in two responses.
THEOREM SecretOnce == Spec => []SecretDisclosedOnce
<1>1. IInv => SecretDisclosedOnce
  BY DEF IInv, TypeOK, HistoryInv, DisclosedOnceAndWorks,
         SecretDisclosedOnce
<1>2. QED
  BY <1>1, Invariance, PTL

\* Keycloak and the registrations differ only where a call failed.
THEOREM OrphansHaveAReason == Spec => []OrphansExplained
<1>1. IInv => OrphansExplained
  BY DEF IInv, HistoryInv
<1>2. QED
  BY <1>1, Invariance, PTL

=============================================================================
