---------------------------- MODULE SigningKeys -----------------------------
(***************************************************************************)
(* The Ed25519 keys of the platform: the key with which services/audit     *)
(* signs export bundles (pkg/platform/audit/signer.go) and the one with    *)
(* which services/consent signs assertions.  Both services keep the key    *)
(* and their database password in one Vault secret (pkg/secrets), and load *)
(* both at start: the replicas of a service start, stop and sign while     *)
(* operators write the secret and Vault calls fail.                        *)
(*                                                                         *)
(* A key is the number of its draw.  A stored key that does not parse is   *)
(* treated as an absent one, as both loaders do.  The passwords of a       *)
(* secret are written and lost together and count as one, by what the      *)
(* database makes of it.                                                   *)
(***************************************************************************)
EXTENDS Naturals, FiniteSets

CONSTANTS
    Replicas,       \* the processes of the service
    MaxKeys,        \* bound on the keys drawn by replicas and operators
    MaxFaults       \* bound on failed calls and on crashes during a start

ASSUME ReplicasAssumption == IsFiniteSet(Replicas)
ASSUME MaxKeysAssumption == MaxKeys \in Nat
ASSUME MaxFaultsAssumption == MaxFaults \in Nat

Keys == 1 .. MaxKeys
NoKey == 0

VARIABLES
    service,        \* "audit" or "consent"
    fallbackWorks,  \* the password of the environment opens the database
    secret,         \* services/<service>/config: its key and its password
    pc,             \* pc[r]: the next call of main, "down" or "up"
    key,            \* key[r]: the private key r holds in memory
    opens,          \* opens[r]: the password r holds opens the database
    drawn,          \* keys drawn so far
    signed,         \* history: the keys of the artifacts handed out
    disturbances,   \* history: see Disturb
    faults

config == <<service, fallbackWorks>>
replicaVars == <<pc, key, opens>>
vars == <<config, secret, replicaVars, drawn, signed, disturbances, faults>>

-----------------------------------------------------------------------------
Held == [key : Keys \union {NoKey}, password : {"none", "right", "wrong"}]
NoSecret == [key |-> NoKey, password |-> "none"]

Starting == {r \in Replicas : pc[r] \notin {"down", "up"}}
Putting == {r \in Replicas : pc[r] = "put"}

\* The order of main: audit takes the key, then the password, and opens the
\* database last; consent takes the key when the database is open.
Order ==
    IF service = "audit"
    THEN [start |-> "key", key |-> "password", password |-> "db", db |-> "up"]
    ELSE [start |-> "password", password |-> "db", db |-> "key", key |-> "up"]

Goto(r, stage) == pc' = [pc EXCEPT ![r] = stage]

Fault ==
    /\ faults < MaxFaults
    /\ faults' = faults + 1

\* There is no key that another would displace.
Vacant == secret.key = NoKey /\ Putting = {}

\* What makes two replicas, or two lives of one, hold different keys: one is drawn
\* over a stored key or beside another replica's, Vault refuses to keep one, or
\* somebody else writes the secret.
Disturb(cause) == disturbances' = IF cause THEN disturbances + 1 ELSE disturbances

Init ==
    /\ service \in {"audit", "consent"}
    /\ fallbackWorks \in BOOLEAN
    /\ secret = NoSecret
    /\ pc = [r \in Replicas |-> "down"]
    /\ key = [r \in Replicas |-> NoKey]
    /\ opens = [r \in Replicas |-> FALSE]
    /\ drawn = 0
    /\ signed = {}
    /\ disturbances = 0
    /\ faults = 0

-----------------------------------------------------------------------------
(* A replica.                                                              *)

\* A start may draw a key: MaxKeys must leave it one.
Start(r) ==
    /\ pc[r] = "down"
    /\ drawn + Cardinality(Starting) < MaxKeys
    /\ Goto(r, Order.start)
    /\ UNCHANGED <<config, secret, key, opens, drawn, signed, disturbances, faults>>

\* LoadOrCreateSigner finds a key that parses.
LoadKey(r) ==
    /\ pc[r] = "key"
    /\ secret.key # NoKey
    /\ key' = [key EXCEPT ![r] = secret.key]
    /\ Goto(r, Order.key)
    /\ UNCHANGED <<config, secret, opens, drawn, signed, disturbances, faults>>

\* A fresh key, when Vault has none or, as ReadKeyFails, cannot say.
\* Two replicas that have drawn but not stored are in each other's way.
DrawKey(r) ==
    /\ pc[r] = "key"
    /\ drawn < MaxKeys
    /\ drawn' = drawn + 1
    /\ key' = [key EXCEPT ![r] = drawn + 1]
    /\ Goto(r, "put")
    /\ UNCHANGED <<config, secret, opens, signed>>

\* Vault has none that parses; and whatever it has.
GenerateKey_Always(r) ==
    /\ DrawKey(r)
    /\ Disturb(Putting # {})
    /\ UNCHANGED faults

GenerateKey(r) ==
    /\ secret.key = NoKey
    /\ DrawKey(r)
    /\ Disturb(Putting # {})
    /\ UNCHANGED faults

\* The read fails: a key is drawn whatever Vault has.  And with none drawn.
ReadKeyFails_NoKey(r) ==
    /\ pc[r] = "key"
    /\ Fault
    /\ Goto(r, Order.key)
    /\ UNCHANGED <<config, secret, key, opens, drawn, signed, disturbances>>

ReadKeyFails(r) ==
    /\ Fault
    /\ DrawKey(r)
    /\ Disturb(~Vacant)

\* Put: a KV-v2 write replaces the whole secret, the password with it.  And with
\* the key left out of Vault.
WholeSecret(r) == [key |-> key[r], password |-> "none"]

PutKey_NotStored(r) ==
    /\ pc[r] = "put"
    /\ Goto(r, Order.key)
    /\ UNCHANGED <<config, secret, key, opens, drawn, signed, disturbances, faults>>

PutKey(r) ==
    /\ pc[r] = "put"
    /\ secret' = WholeSecret(r)
    /\ Goto(r, Order.key)
    /\ UNCHANGED <<config, key, opens, drawn, signed, disturbances, faults>>

\* The write fails, or only its reply does: the process goes on with its key.
PutKeyFails(r) ==
    /\ pc[r] = "put"
    /\ Fault
    /\ \/ secret' = WholeSecret(r) /\ UNCHANGED disturbances
       \/ UNCHANGED secret /\ Disturb(TRUE)
    /\ Goto(r, Order.key)
    /\ UNCHANGED <<config, key, opens, drawn, signed>>

\* GetString of the password: one that is there displaces the fallback, right or
\* wrong; without one, or when the read fails, it is the fallback.
ReadPassword(r) ==
    /\ pc[r] = "password"
    /\ opens' = [opens EXCEPT ![r] =
           IF secret.password = "none" THEN fallbackWorks
           ELSE secret.password = "right"]
    /\ Goto(r, Order.password)
    /\ UNCHANGED <<config, secret, key, drawn, signed, disturbances, faults>>

ReadPasswordFails(r) ==
    /\ pc[r] = "password"
    /\ Fault
    /\ opens' = [opens EXCEPT ![r] = fallbackWorks]
    /\ Goto(r, Order.password)
    /\ UNCHANGED <<config, secret, key, drawn, signed, disturbances>>

OpenDatabase(r) ==
    /\ pc[r] = "db"
    /\ opens[r]
    /\ Goto(r, Order.db)
    /\ UNCHANGED <<config, secret, key, opens, drawn, signed, disturbances, faults>>

\* The process is gone, and its memory with it.
Exit(r) ==
    /\ Goto(r, "down")
    /\ key' = [key EXCEPT ![r] = NoKey]
    /\ opens' = [opens EXCEPT ![r] = FALSE]
    /\ UNCHANGED <<config, secret, drawn, signed, disturbances>>

\* store.Open rejects the password: exit status 1.
DatabaseRefuses(r) ==
    /\ pc[r] = "db"
    /\ ~opens[r]
    /\ Exit(r)
    /\ UNCHANGED faults

\* A crash, or a failed call that ends the start.
Crash(r) ==
    /\ r \in Starting
    /\ Fault
    /\ Exit(r)

\* A running replica is stopped, or crashes.
Stop(r) ==
    /\ pc[r] = "up"
    /\ Exit(r)
    /\ UNCHANGED faults

\* GET /export or POST /grants: an artifact is signed and handed out.
Sign(r) ==
    /\ pc[r] = "up"
    /\ signed' = signed \union {key[r]}
    /\ UNCHANGED <<config, secret, replicaVars, drawn, disturbances, faults>>

Boot(r) ==
    \/ LoadKey(r) \/ GenerateKey(r) \/ PutKey(r)
    \/ ReadPassword(r)
    \/ OpenDatabase(r) \/ DatabaseRefuses(r)

FaultOf(r) ==
    ReadKeyFails(r) \/ PutKeyFails(r) \/ ReadPasswordFails(r) \/ Crash(r)

-----------------------------------------------------------------------------
(* Operators and Vault.                                                    *)

\* The secret is written past the replicas: it loses a key, or gets one while a
\* replica is about to store its own.
WriteSecret(s) ==
    /\ secret' = s
    /\ Disturb(secret.key # NoKey \/ (s.key # NoKey /\ Putting # {}))
    /\ UNCHANGED <<config, replicaVars, signed, faults>>

\* seed-vault.sh: the passwords only, as the whole secret.  It writes the default
\* ones, which the database may not have.
SeedVault ==
    /\ \E p \in {"right", "wrong"} : WriteSecret([key |-> NoKey, password |-> p])
    /\ UNCHANGED drawn

\* An operator provisions or rotates the key, beside the password.
ProvisionKey ==
    /\ drawn + Cardinality(Starting) < MaxKeys
    /\ drawn' = drawn + 1
    /\ WriteSecret([secret EXCEPT !.key = drawn + 1])

\* Vault in dev mode restarts: it keeps nothing.
ResetVault ==
    /\ WriteSecret(NoSecret)
    /\ UNCHANGED drawn

Next ==
    \/ \E r \in Replicas :
           Start(r) \/ Boot(r) \/ FaultOf(r) \/ Stop(r) \/ Sign(r)
    \/ SeedVault \/ ProvisionKey \/ ResetVault

Spec == Init /\ [][Next]_vars

-----------------------------------------------------------------------------
(* Properties.                                                             *)

\* The stages of a start, or a life, in which a replica has its key.
Keyed ==
    {"put", "up"} \union (IF service = "audit" THEN {"password", "db"} ELSE {})

\* The type invariant: a replica holds a key exactly from LoadOrCreateSigner on,
\* whatever its order of start, and no key of an earlier life.
TypeOK ==
    /\ service \in {"audit", "consent"}
    /\ fallbackWorks \in BOOLEAN
    /\ secret \in Held
    /\ pc \in [Replicas -> {"down", "key", "put", "password", "db", "up"}]
    /\ key \in [Replicas -> 0 .. drawn]
    /\ \A r \in Replicas : key[r] # NoKey <=> pc[r] \in Keyed
    /\ opens \in [Replicas -> BOOLEAN]
    /\ drawn \in 0 .. MaxKeys
    /\ secret.key <= drawn
    /\ signed \subseteq 1 .. drawn
    /\ disturbances \in Nat
    /\ faults \in 0 .. MaxFaults

\* VerifyBundle, and Verify of an assertion: is it signed with the private half?
Verifies(k, pub) == k = pub

\* exportPubkeyHandler, and pubkeyHandler of consent.
PublishedKey(r) == key[r]

\* Whatever was signed, by whichever replica in whichever life, verifies with the
\* key any running replica publishes, through any restarts, crashes, lost
\* replies and failed starts; unless a stored key was overwritten or lost, two
\* replicas drew a key at once, or Vault refused to keep one.
PublishedKeyVerifies ==
    disturbances = 0 =>
        \A k \in signed, r \in Replicas :
            pc[r] = "up" => Verifies(k, PublishedKey(r))

\* When that happens, it costs one key: a failed read that overwrites the stored key,
\* a key drawn beside another, refused by Vault, rotated or dropped by a seed adds
\* no more than one to the keys an auditor must know, and nothing else adds any,
\* however often replicas restart and overwrite each other ("so subsequent restarts
\* in the same Vault session reuse it", signer.go).
KeyPerDisturbance == Cardinality(signed) <= 1 + disturbances

=============================================================================
