------------------------- MODULE ConsumerOnboarding -------------------------
(***************************************************************************)
(* POST /consumers of services/identity (createConsumerHandler): concurrent*)
(* requests register a client in Keycloak, then in Postgres, with a        *)
(* compensating delete when the second step fails and an Idempotency-Key   *)
(* cache for retries.  Each call to Keycloak or Postgres is one step, may  *)
(* fail with or without its effect, and the process may crash between any  *)
(* two.                                                                    *)
(*                                                                         *)
(* The registration row and its audit-outbox row are one transaction and   *)
(* one element of registered.  A request body is its client id.            *)
(***************************************************************************)
EXTENDS Naturals

CONSTANTS
    Handlers,       \* requests served at the same time
    Clients,        \* keycloak_client_id values
    Keys,           \* Idempotency-Key values
    None,           \* no key, no record
    MaxFaults       \* bound on failed calls and crashes

ASSUME NoneAssumption == None \notin Keys \union Clients
ASSUME MaxFaultsAssumption == MaxFaults \in Nat

VARIABLES
    keycloak,       \* clients that exist in the realm
    registered,     \* clients with a committed row in consumer_registrations
    stashed,        \* clients whose secret is in Vault
    idem,           \* idempotency_keys: idem[k] = [client, expired] or None
    pc,             \* pc[h]: the call the handler makes next
    key, client,    \* the request's Idempotency-Key and body
    faults,
    created,        \* history: 201 responses that disclose a secret, per client
    excused         \* history: clients a failed cleanup or lost reply left over

requestVars == <<key, client>>
storeVars == <<keycloak, registered, stashed, idem>>
vars == <<storeVars, pc, requestVars, faults, created, excused>>

-----------------------------------------------------------------------------
Init ==
    /\ keycloak = {}
    /\ registered = {}
    /\ stashed = {}
    /\ idem = [k \in Keys |-> None]
    /\ pc = [h \in Handlers |-> "idle"]
    /\ key = [h \in Handlers |-> None]
    /\ client = [h \in Handlers |-> None]
    /\ faults = 0
    /\ created = [c \in Clients |-> 0]
    /\ excused = {}

Fault ==
    /\ faults < MaxFaults
    /\ faults' = faults + 1

Goto(h, from, to) ==
    /\ pc[h] = from
    /\ pc' = [pc EXCEPT ![h] = to]
    /\ UNCHANGED requestVars

\* The handler writes its response.
Respond(h) ==
    /\ pc' = [pc EXCEPT ![h] = "idle"]
    /\ key' = [key EXCEPT ![h] = None]
    /\ client' = [client EXCEPT ![h] = None]

Receive(h, k, c) ==
    /\ pc[h] = "idle"
    /\ pc' = [pc EXCEPT ![h] = IF k = None THEN "create" ELSE "lookup"]
    /\ key' = [key EXCEPT ![h] = k]
    /\ client' = [client EXCEPT ![h] = c]
    /\ UNCHANGED <<storeVars, faults, created, excused>>

\* GetIdempotencyRecord finds a live record: replay it, or 422 for another body.
\* An expired record counts as not found, and an error as a new key.
Lookup(h) ==
    LET rec == idem[key[h]]
    IN  /\ pc[h] = "lookup"
        /\ IF rec # None /\ ~rec.expired THEN Respond(h)
           ELSE Goto(h, "lookup", "create")
        /\ UNCHANGED <<storeVars, faults, created, excused>>

LookupFails(h) ==
    /\ Goto(h, "lookup", "create")
    /\ Fault
    /\ UNCHANGED <<storeVars, created, excused>>

\* CreateConfidentialClient: POST /clients, 409 if the client id is taken; and
\* without the conflict.
CreateClient_Blind(h) ==
    /\ Goto(h, "create", "secret")
    /\ keycloak' = keycloak \union {client[h]}
    /\ UNCHANGED <<registered, stashed, idem, faults, created, excused>>

CreateClient(h) ==
    /\ IF client[h] \in keycloak
       THEN /\ pc[h] = "create"
            /\ Respond(h)
            /\ UNCHANGED keycloak
       ELSE /\ Goto(h, "create", "secret")
            /\ keycloak' = keycloak \union {client[h]}
    /\ UNCHANGED <<registered, stashed, idem, faults, created, excused>>

\* The call fails, before or after Keycloak created the client: 502.
CreateClientFails(h) ==
    /\ pc[h] = "create"
    /\ client[h] \notin keycloak
    /\ Fault
    /\ \/ UNCHANGED <<keycloak, excused>>
       \/ /\ keycloak' = keycloak \union {client[h]}
          /\ excused' = excused \union {client[h]}
    /\ Respond(h)
    /\ UNCHANGED <<registered, stashed, idem, created>>

\* fetchClientSecret, inside CreateConfidentialClient: its failure is a 502 too,
\* and nothing deletes the client.
FetchSecret(h) ==
    /\ Goto(h, "secret", "insert")
    /\ UNCHANGED <<storeVars, faults, created, excused>>

FetchSecretFails(h) ==
    /\ pc[h] = "secret"
    /\ Fault
    /\ excused' = excused \union {client[h]}
    /\ Respond(h)
    /\ UNCHANGED <<storeVars, created>>

\* BeginTx, CreateConsumerTx and audit.Emit; keycloak_client_id is UNIQUE.
InsertRow(h) ==
    /\ Goto(h, "insert",
            IF client[h] \in registered THEN "compensate" ELSE "commit")
    /\ UNCHANGED <<storeVars, faults, created, excused>>

InsertFails(h) ==
    /\ Goto(h, "insert", "compensate")
    /\ Fault
    /\ UNCHANGED <<storeVars, created, excused>>

\* And with the secret in Vault before the commit.
Commit_StashFirst(h) ==
    /\ Goto(h, "commit", "compensate")
    /\ stashed' = stashed \union {client[h]}
    /\ UNCHANGED <<keycloak, registered, idem, faults, created, excused>>

Commit(h) ==
    /\ Goto(h, "commit", "stash")
    /\ registered' = registered \union {client[h]}
    /\ UNCHANGED <<keycloak, stashed, idem, faults, created, excused>>

\* Commit returns an error, with or without the commit.
CommitFails_NoDelete(h) ==
    /\ pc[h] = "commit"
    /\ Respond(h)
    /\ Fault
    /\ UNCHANGED <<storeVars, created, excused>>

CommitFails(h) ==
    /\ Goto(h, "commit", "compensate")
    /\ Fault
    /\ \/ UNCHANGED <<registered, excused>>
       \/ /\ registered' = registered \union {client[h]}
          /\ excused' = excused \union {client[h]}
    /\ UNCHANGED <<keycloak, stashed, idem, created>>

\* The compensating DeleteClient, then 500.
Compensate(h) ==
    /\ pc[h] = "compensate"
    /\ keycloak' = keycloak \ {client[h]}
    /\ Respond(h)
    /\ UNCHANGED <<registered, stashed, idem, faults, created, excused>>

CompensateFails(h) ==
    /\ pc[h] = "compensate"
    /\ Fault
    /\ excused' = excused \union {client[h]}
    /\ Respond(h)
    /\ UNCHANGED <<storeVars, created>>

\* vault.Put is best-effort, and skipped without a Vault.
Stash(h) ==
    /\ Goto(h, "stash", "save")
    /\ stashed' \in {stashed, stashed \union {client[h]}}
    /\ UNCHANGED <<keycloak, registered, idem, faults, created, excused>>

\* SaveIdempotencyRecord, ON CONFLICT DO NOTHING (an expired record stays, too);
\* an error is logged.  Then 201 with the secret.
SaveAndRespond(h) ==
    /\ pc[h] = "save"
    /\ \/ /\ idem' = IF key[h] # None /\ idem[key[h]] = None
                     THEN [idem EXCEPT ![key[h]] = [client |-> client[h],
                                                    expired |-> FALSE]]
                     ELSE idem
          /\ UNCHANGED faults
       \/ key[h] # None /\ Fault /\ UNCHANGED idem
    /\ created' = [created EXCEPT ![client[h]] = @ + 1]
    /\ Respond(h)
    /\ UNCHANGED <<keycloak, registered, stashed, excused>>

\* The TTL of a record passes.
Expire(k) ==
    /\ idem[k] # None
    /\ ~idem[k].expired
    /\ idem' = [idem EXCEPT ![k] = [client |-> idem[k].client, expired |-> TRUE]]
    /\ UNCHANGED <<keycloak, registered, stashed, pc, requestVars, faults, created,
                   excused>>

\* Handlers past CreateClient and not past Commit.
Working == {h \in Handlers : pc[h] \in {"secret", "insert", "commit", "compensate"}}

\* The process dies with every request in flight.
Crash ==
    /\ Fault
    /\ excused' = excused \union {client[h] : h \in Working}
    /\ pc' = [h \in Handlers |-> "idle"]
    /\ key' = [h \in Handlers |-> None]
    /\ client' = [h \in Handlers |-> None]
    /\ UNCHANGED <<storeVars, created>>

Next ==
    \/ \E h \in Handlers :
          \/ \E k \in Keys \union {None}, c \in Clients : Receive(h, k, c)
          \/ Lookup(h) \/ LookupFails(h)
          \/ CreateClient(h) \/ CreateClientFails(h)
          \/ FetchSecret(h) \/ FetchSecretFails(h)
          \/ InsertRow(h) \/ InsertFails(h)
          \/ Commit(h) \/ CommitFails(h)
          \/ Compensate(h) \/ CompensateFails(h)
          \/ Stash(h)
          \/ SaveAndRespond(h)
    \/ \E k \in Keys : Expire(k)
    \/ Crash

Spec == Init /\ [][Next]_vars

-----------------------------------------------------------------------------
(* Properties.                                                             *)

Calls == {"idle", "lookup", "create", "secret", "insert", "commit", "compensate",
          "stash", "save"}

TypeOK ==
    /\ keycloak \subseteq Clients
    /\ registered \subseteq Clients
    /\ stashed \subseteq registered
    /\ idem \in [Keys -> [client : Clients, expired : BOOLEAN] \union {None}]
    /\ pc \in [Handlers -> Calls]
    /\ key \in [Handlers -> Keys \union {None}]
    /\ client \in [Handlers -> Clients \union {None}]
    /\ faults \in 0 .. MaxFaults
    /\ created \in [Clients -> Nat]
    /\ excused \subseteq Clients

\* One handler at a time holds a client between its creation in Keycloak and its
\* commit: no compensation can delete a client another request registers.
OneHandlerPerClient ==
    \A h, i \in Working : client[h] = client[i] => h = i

\* A 201 was sent for the client, or will be when its request is replayed.
Answered(c) ==
    \/ created[c] > 0
    \/ \E k \in Keys : idem[k] # None /\ idem[k].client = c

\* A caller that was answered 201, first or by replay, has a client that works: it
\* is in Keycloak and registered, and no later request, retry or compensation for
\* the same client id takes it away.
CreatedKeepsWorking ==
    \A c \in Clients : Answered(c) => c \in keycloak /\ c \in registered

\* A client's secret is disclosed in one response at most, whatever the retries,
\* concurrent duplicates and expired keys (replays repeat that response).
SecretDisclosedOnce == \A c \in Clients : created[c] <= 1

\* Keycloak and the registrations agree on every client no request is working on,
\* unless a reply was lost, a cleanup failed or the process died midway: a failed
\* insert, audit emit or commit leaves no orphan by itself.
OrphansExplained ==
    \A c \in Clients :
        \/ c \in keycloak <=> c \in registered
        \/ c \in excused
        \/ \E h \in Working : client[h] = c

=============================================================================
