------------------------- MODULE SigningKeysProofs --------------------------
(***************************************************************************)
(* The signing keys are type correct; a disturbance of the stored key adds *)
(* at most one key to those that ever sign; and without one, what was      *)
(* signed verifies with the key any running replica publishes: for any     *)
(* number of replicas, keys and faults, and for both orders of start.      *)
(***************************************************************************)
EXTENDS SigningKeys, FiniteSetTheorems, TLAPS

\* The keys that have signed or still may.
InUse ==
    {k \in Keys : k \in signed \/ k = secret.key \/ \E r \in Replicas : key[r] = k}

\* Every disturbance allows one key more; a key may be drawn at no charge when there
\* is none that it would displace.
Room == IF Vacant THEN 1 ELSE 0
KeyBudget == Cardinality(InUse) + Room <= 1 + disturbances

\* A key that is about to be stored is nobody else's yet.
PuttingFresh ==
    \A r \in Replicas : pc[r] = "put" =>
        /\ key[r] \notin signed /\ key[r] # secret.key
        /\ \A t \in Replicas \ {r} : key[t] # key[r]

IInv == TypeOK /\ KeyBudget /\ PuttingFresh

Stages == {"down", "key", "put", "password", "db", "up"}

\* Either order of main keeps a key once it is there, and starts without one.
LEMMA Orders ==
    ASSUME service \in {"audit", "consent"}
    PROVE  /\ Order.start \in Stages /\ Order.start \notin Keyed
           /\ Order.key \in Stages /\ Order.key \in Keyed
           /\ Order.password \in Stages
           /\ Order.password \in Keyed <=> "password" \in Keyed
           /\ Order.db \in Stages /\ (Order.db \in Keyed <=> "db" \in Keyed)
           /\ {"put", "up"} \subseteq Keyed
           /\ "key" \notin Keyed /\ "down" \notin Keyed
           /\ Order.start # "put" /\ Order.key # "put"
           /\ Order.password # "put" /\ Order.db # "put"
<1>1. CASE service = "audit"
  BY <1>1 DEF Order, Keyed, Stages
<1>2. CASE service = "consent"
  BY <1>2 DEF Order, Keyed, Stages
<1>. QED  BY <1>1, <1>2

LEMMA GotoTyped ==
    ASSUME TypeOK, NEW r \in Replicas, NEW stage \in Stages, Goto(r, stage)
    PROVE  /\ pc' \in [Replicas -> Stages]
           /\ pc'[r] = stage
           /\ \A s \in Replicas \ {r} : pc'[s] = pc[s]
BY DEF TypeOK, Goto, Stages

LEMMA FaultTyped == TypeOK /\ Fault => faults' \in 0 .. MaxFaults
BY MaxFaultsAssumption DEF TypeOK, Fault

LEMMA Disturbed ==
    ASSUME TypeOK, NEW cause \in BOOLEAN, Disturb(cause)
    PROVE  /\ disturbances \in Nat /\ disturbances' \in Nat
           /\ disturbances' \in {disturbances, disturbances + 1}
           /\ cause => disturbances' = disturbances + 1
           /\ ~cause => disturbances' = disturbances
BY DEF TypeOK, Disturb

LEMMA KeysFinite == IsFiniteSet(Keys)
BY FS_Interval, MaxKeysAssumption DEF Keys

LEMMA FewerKeys ==
    ASSUME NEW S \in SUBSET Keys, NEW T \in SUBSET S
    PROVE  /\ IsFiniteSet(S) /\ Cardinality(S) \in Nat
           /\ Cardinality(T) \in Nat /\ Cardinality(T) <= Cardinality(S)
<1>1. IsFiniteSet(S)
  BY KeysFinite, FS_Subset, Zenon
<1>. QED  BY <1>1, FS_Subset, FS_CardinalityType, Zenon

\* How a step keeps within the budget: it adds no key and no room, or a disturbance
\* at most; or it fills the room, or pays, with a key of its own; or it ends one.
LEMMA BudgetKeeps ==
    ASSUME IInv, disturbances' \in {disturbances, disturbances + 1},
           \/ InUse' \subseteq InUse /\ (Vacant' => Vacant)
           \/ InUse' \subseteq InUse /\ disturbances' = disturbances + 1
           \/ /\ ~Vacant' /\ (disturbances' = disturbances => Vacant)
              /\ \E k \in Keys : InUse' \subseteq InUse \union {k}
           \/ \E k \in InUse : InUse' \subseteq InUse \ {k}
    PROVE  KeyBudget'
<1>. DEFINE n == Cardinality(InUse)
            m == Cardinality(InUse')
<1>1. InUse \subseteq Keys
  BY DEF InUse
<1>2. /\ disturbances \in Nat /\ n \in Nat /\ IsFiniteSet(InUse)
      /\ n + Room <= 1 + disturbances
  BY <1>1, FewerKeys DEF IInv, TypeOK, KeyBudget
<1>3. KeyBudget' <=> m + Room' <= 1 + disturbances'
  BY DEF KeyBudget
<1>4. CASE InUse' \subseteq InUse
  <2>1. m \in Nat /\ m <= n
    BY <1>1, <1>4, FewerKeys
  <2>2. CASE Vacant' => Vacant
    BY <1>2, <1>3, <2>1, <2>2 DEF Room
  <2>3. CASE disturbances' = disturbances + 1
    BY <1>2, <1>3, <2>1, <2>3 DEF Room
  <2>4. CASE \E k \in InUse : InUse' \subseteq InUse \ {k}
    <3>1. PICK k \in InUse : InUse' \subseteq InUse \ {k}
      BY <2>4
    <3>2. Cardinality(InUse \ {k}) = n - 1
      BY <1>2, FS_RemoveElement
    <3>3. m <= Cardinality(InUse \ {k})
      BY <1>1, <3>1, FewerKeys
    <3>. QED  BY <1>2, <1>3, <2>1, <3>2, <3>3 DEF Room
  <2>5. CASE ~Vacant'
    BY <2>2, <2>5
  <2>. QED  BY <2>2, <2>3, <2>4, <2>5
<1>5. CASE /\ ~Vacant' /\ (disturbances' = disturbances => Vacant)
           /\ \E k \in Keys : InUse' \subseteq InUse \union {k}
  <2>1. PICK k \in Keys : InUse' \subseteq InUse \union {k}
    BY <1>5
  <2>2. Cardinality(InUse \union {k}) <= n + 1
    <3>1. IsFiniteSet(InUse)
      BY <1>2
    <3>2. Cardinality(InUse \union {k}) = IF k \in InUse THEN n ELSE n + 1
      BY <3>1, FS_AddElement, Zenon
    <3>. QED  BY <1>2, <3>2
  <2>3. m \in Nat /\ m <= Cardinality(InUse \union {k})
        /\ Cardinality(InUse \union {k}) \in Nat
    BY <1>1, <2>1, FewerKeys
  <2>. QED  BY <1>2, <1>3, <1>5, <2>2, <2>3 DEF Room
<1>. QED  BY <1>4, <1>5

THEOREM InitIInv == Init => IInv
<1>. SUFFICES ASSUME Init
              PROVE  IInv
  OBVIOUS
<1>1. /\ service \in {"audit", "consent"}
      /\ secret = NoSecret
      /\ secret \in Held
      /\ pc \in [Replicas -> Stages]
      /\ key \in [Replicas -> 0 .. drawn]
      /\ opens \in [Replicas -> BOOLEAN]
      /\ drawn \in 0 .. MaxKeys
      /\ secret.key <= drawn
      /\ signed = {}
      /\ disturbances = 0
      /\ faults \in 0 .. MaxFaults
  BY MaxKeysAssumption, MaxFaultsAssumption DEF Init, Held, NoSecret, NoKey, Stages
<1>2. fallbackWorks \in BOOLEAN
  BY DEF Init
<1>3. \A r \in Replicas : key[r] = NoKey /\ pc[r] = "down"
  BY DEF Init
<1>4. "down" \notin Keyed
  BY Orders, <1>1
<1>5. TypeOK
  BY <1>1, <1>2, <1>3, <1>4 DEF TypeOK, NoSecret, Stages, NoKey
<1>6. KeyBudget
  <2>1. InUse = {}
    BY <1>1, <1>3 DEF InUse, Keys, NoSecret, NoKey
  <2>2. Room <= 1 /\ Room \in Nat
    BY DEF Room
  <2>. QED  BY <1>1, <2>1, <2>2, FS_EmptySet DEF KeyBudget
<1>7. PuttingFresh
  BY <1>3 DEF PuttingFresh
<1>. QED  BY <1>5, <1>6, <1>7 DEF IInv

\* A step that moves one replica on and leaves keys and secret alone.
LEMMA MoveKeeps ==
    ASSUME IInv, NEW r \in Replicas, NEW stage \in Stages, Goto(r, stage),
           stage \in Keyed <=> pc[r] \in Keyed,
           stage # "put", pc[r] # "put",
           opens' \in [Replicas -> BOOLEAN], faults' \in 0 .. MaxFaults,
           UNCHANGED <<config, secret, key, drawn, signed, disturbances>>
    PROVE  IInv'
<1>1. TypeOK'
  <2>1. pc' \in [Replicas -> Stages]
    BY GotoTyped DEF IInv
  <2>2. Keyed' = Keyed
    BY DEF Keyed, config
  <2>3. \A s \in Replicas : key'[s] # NoKey <=> pc'[s] \in Keyed'
    BY <2>2, GotoTyped DEF IInv, TypeOK
  <2>. QED  BY <2>1, <2>3 DEF IInv, TypeOK, config, Stages
<1>2. Putting' = Putting /\ InUse' = InUse
  BY GotoTyped DEF IInv, Putting, InUse
<1>3. KeyBudget'
  BY <1>2, BudgetKeeps DEF Vacant
<1>4. PuttingFresh'
  BY GotoTyped DEF IInv, PuttingFresh
<1>. QED  BY <1>1, <1>3, <1>4 DEF IInv

\* A start, and the calls about the database password.
LEMMA StartKeeps ==
    ASSUME IInv, NEW r \in Replicas, Start(r)
    PROVE  IInv'
<1>1. pc[r] \notin Keyed /\ pc[r] # "put" /\ Order.start \in Stages
      /\ Order.start \notin Keyed /\ Order.start # "put"
  BY Orders DEF Start, IInv, TypeOK
<1>2. Goto(r, Order.start) /\ opens' \in [Replicas -> BOOLEAN]
      /\ faults' \in 0 .. MaxFaults
      /\ UNCHANGED <<config, secret, key, drawn, signed, disturbances>>
  BY DEF Start, IInv, TypeOK
<1>. QED  BY <1>1, <1>2, MoveKeeps

LEMMA PasswordKeeps ==
    ASSUME IInv, NEW r \in Replicas, ReadPassword(r) \/ ReadPasswordFails(r)
    PROVE  IInv'
<1>1. /\ pc[r] = "password"
      /\ Order.password \in Stages /\ Order.password # "put"
      /\ Order.password \in Keyed <=> pc[r] \in Keyed
  BY Orders DEF ReadPassword, ReadPasswordFails, IInv, TypeOK
<1>2. opens' \in [Replicas -> BOOLEAN]
  <2>. DEFINE found == IF secret.password = "none" THEN fallbackWorks
                       ELSE secret.password = "right"
  <2>1. /\ opens \in [Replicas -> BOOLEAN] /\ fallbackWorks \in BOOLEAN
        /\ found \in BOOLEAN
    BY DEF IInv, TypeOK
  <2>2. \E b \in BOOLEAN : opens' = [opens EXCEPT ![r] = b]
    BY <2>1, Zenon DEF ReadPassword, ReadPasswordFails
  <2>. QED  BY <2>1, <2>2
<1>3. Goto(r, Order.password)
      /\ UNCHANGED <<config, secret, key, drawn, signed, disturbances>>
  BY DEF ReadPassword, ReadPasswordFails
<1>4. faults' \in 0 .. MaxFaults
  BY FaultTyped DEF ReadPassword, ReadPasswordFails, IInv, TypeOK
<1>. QED  BY <1>1, <1>2, <1>3, <1>4, MoveKeeps

LEMMA OpenKeeps ==
    ASSUME IInv, NEW r \in Replicas, OpenDatabase(r)
    PROVE  IInv'
<1>1. /\ pc[r] = "db"
      /\ Order.db \in Stages /\ Order.db # "put"
      /\ Order.db \in Keyed <=> pc[r] \in Keyed
  BY Orders DEF OpenDatabase, IInv, TypeOK
<1>2. Goto(r, Order.db) /\ opens' \in [Replicas -> BOOLEAN]
      /\ faults' \in 0 .. MaxFaults
      /\ UNCHANGED <<config, secret, key, drawn, signed, disturbances>>
  BY DEF OpenDatabase, IInv, TypeOK
<1>. QED  BY <1>1, <1>2, MoveKeeps

\* A replica that loads the stored key joins those that hold it.
LEMMA LoadKeeps ==
    ASSUME IInv, NEW r \in Replicas, LoadKey(r)
    PROVE  IInv'
<1>1. Goto(r, Order.key) /\ Order.key \in Keyed /\ Order.key # "put"
      /\ Order.key \in Stages
  BY Orders DEF LoadKey, IInv, TypeOK
<1>2. key' = [key EXCEPT ![r] = secret.key] /\ secret.key # NoKey
      /\ UNCHANGED <<config, secret, opens, drawn, signed, disturbances, faults>>
  BY DEF LoadKey
<1>3. TypeOK'
  <2>1. pc' \in [Replicas -> Stages] /\ Keyed' = Keyed
    BY <1>1, <1>2, GotoTyped DEF IInv, Keyed, config
  <2>2. secret.key \in 0 .. drawn
    BY DEF IInv, TypeOK, Held, Keys, NoKey
  <2>3. key' \in [Replicas -> 0 .. drawn]
    BY <1>2, <2>2 DEF IInv, TypeOK
  <2>4. \A s \in Replicas : key'[s] # NoKey <=> pc'[s] \in Keyed'
    BY <1>1, <1>2, <2>1, GotoTyped DEF IInv, TypeOK
  <2>. QED  BY <1>2, <2>1, <2>3, <2>4 DEF IInv, TypeOK, config, Stages
<1>4. \A s \in Replicas : key'[s] \in {key[s], secret.key}
  BY <1>2 DEF IInv, TypeOK
<1>5. KeyBudget'
  <2>1. InUse' \subseteq InUse
    BY <1>2, <1>4 DEF InUse
  <2>2. ~Vacant'
    BY <1>2 DEF Vacant
  <2>. QED  BY <1>2, <2>1, <2>2, BudgetKeeps
<1>6. PuttingFresh'
  <2>1. \A s \in Replicas : pc'[s] = "put" => s # r /\ pc[s] = "put"
    BY <1>1, GotoTyped DEF IInv
  <2>2. \A s \in Replicas \ {r} : key'[s] = key[s]
    BY <1>2 DEF IInv, TypeOK
  <2>. QED  BY <1>2, <1>4, <2>1, <2>2 DEF IInv, PuttingFresh
<1>. QED  BY <1>3, <1>5, <1>6 DEF IInv

\* A fresh key is drawn: at no charge only when there is none it would displace.
LEMMA DrawKeeps ==
    ASSUME IInv, NEW r \in Replicas, DrawKey(r), faults' \in 0 .. MaxFaults,
           NEW cause \in BOOLEAN, Disturb(cause), ~Vacant => cause
    PROVE  IInv'
<1>1. /\ pc[r] = "key" /\ Goto(r, "put") /\ drawn < MaxKeys
      /\ drawn' = drawn + 1 /\ key' = [key EXCEPT ![r] = drawn + 1]
      /\ UNCHANGED <<config, secret, opens, signed>>
  BY DEF DrawKey
<1>2. TypeOK'
  <2>1. pc' \in [Replicas -> Stages] /\ Keyed' = Keyed
    BY <1>1, GotoTyped DEF IInv, Keyed, config, Stages
  <2>2. /\ drawn \in Nat /\ drawn' \in 0 .. MaxKeys
        /\ key' \in [Replicas -> 0 .. drawn']
        /\ secret.key <= drawn' /\ signed' \subseteq 1 .. drawn'
    BY <1>1, MaxKeysAssumption DEF IInv, TypeOK, Held, Keys, NoKey
  <2>3. \A s \in Replicas : key'[s] # NoKey <=> pc'[s] \in Keyed'
    <3>1. "put" \in Keyed
      BY Orders DEF IInv, TypeOK
    <3>2. key'[r] # NoKey /\ \A s \in Replicas \ {r} : key'[s] = key[s]
      BY <1>1, <2>2 DEF IInv, TypeOK, NoKey
    <3>. QED
      BY <1>1, <2>1, <3>1, <3>2, GotoTyped DEF IInv, TypeOK, Stages
  <2>4. disturbances' \in Nat
    BY Disturbed DEF IInv
  <2>. QED  BY <1>1, <2>1, <2>2, <2>3, <2>4 DEF IInv, TypeOK, config, Stages
<1>3. drawn + 1 \in Keys /\ drawn + 1 # NoKey
  BY <1>1, MaxKeysAssumption DEF IInv, TypeOK, Keys, NoKey
<1>4. \A s \in Replicas \ {r} : key'[s] = key[s] /\ pc'[s] = pc[s]
  BY <1>1 DEF IInv, TypeOK, Goto
<1>5. key'[r] = drawn + 1 /\ pc'[r] = "put"
  BY <1>1 DEF IInv, TypeOK, Goto
<1>6. KeyBudget'
  <2>1. InUse' \subseteq InUse \union {drawn + 1}
    BY <1>1, <1>4, <1>5 DEF InUse
  <2>2. ~Vacant'
    BY <1>5 DEF Vacant, Putting
  <2>3. /\ disturbances' \in {disturbances, disturbances + 1}
        /\ disturbances' = disturbances => Vacant
    BY Disturbed DEF IInv
  <2>. QED  BY <1>3, <2>1, <2>2, <2>3, BudgetKeeps
<1>7. PuttingFresh'
  <2>1. /\ drawn \in Nat /\ signed' \subseteq 1 .. drawn /\ secret'.key <= drawn
        /\ secret'.key \in Nat
        /\ \A s \in Replicas : key[s] \in 0 .. drawn
    BY <1>1, MaxKeysAssumption DEF IInv, TypeOK, Held, Keys, NoKey
  <2>2. /\ key'[r] \notin signed' /\ key'[r] # secret'.key
        /\ \A s \in Replicas \ {r} : key'[s] # key'[r]
    BY <1>4, <1>5, <2>1
  <2>. QED  BY <1>1, <1>4, <2>2 DEF IInv, PuttingFresh
<1>. QED  BY <1>2, <1>6, <1>7 DEF IInv

\* Put succeeds, fails with its effect, or fails without it: a key that was not
\* stored is a disturbance, a stored one is what the next start loads.
LEMMA PutKeeps ==
    ASSUME IInv, NEW r \in Replicas, PutKey(r) \/ PutKeyFails(r)
    PROVE  IInv'
<1>1. /\ pc[r] = "put" /\ Goto(r, Order.key) /\ Order.key \in Keyed
      /\ Order.key # "put" /\ Order.key \in Stages /\ "put" \in Keyed
  BY Orders DEF PutKey, PutKeyFails, IInv, TypeOK
<1>2. /\ UNCHANGED <<config, key, opens, drawn, signed>>
      /\ \/ secret' = WholeSecret(r) /\ disturbances' = disturbances
         \/ secret' = secret /\ Disturb(TRUE)
  BY Zenon DEF PutKey, PutKeyFails
<1>3. faults' \in 0 .. MaxFaults
  BY FaultTyped DEF PutKey, PutKeyFails, IInv, TypeOK
<1>4. key[r] # NoKey /\ key[r] \in Keys
  BY <1>1, MaxKeysAssumption DEF IInv, TypeOK, Keys, NoKey
<1>5. /\ disturbances' \in Nat
      /\ disturbances' \in {disturbances, disturbances + 1}
      /\ secret' = WholeSecret(r) \/ disturbances' = disturbances + 1
  <2>1. CASE secret' = secret /\ Disturb(TRUE)
    BY <2>1, Disturbed DEF IInv
  <2>2. CASE secret' = WholeSecret(r) /\ disturbances' = disturbances
    BY <2>2 DEF IInv, TypeOK
  <2>. QED  BY <1>2, <2>1, <2>2
<1>6. TypeOK'
  <2>1. pc' \in [Replicas -> Stages] /\ Keyed' = Keyed
    BY <1>1, <1>2, GotoTyped DEF IInv, Keyed, config
  <2>2. secret' \in Held /\ secret'.key <= drawn
    <3>1. CASE secret' = WholeSecret(r)
      BY <3>1, <1>4 DEF IInv, TypeOK, Held, WholeSecret
    <3>2. CASE secret' = secret
      BY <3>2 DEF IInv, TypeOK
    <3>. QED  BY <1>2, <3>1, <3>2
  <2>3. \A s \in Replicas : key'[s] # NoKey <=> pc'[s] \in Keyed'
    BY <1>1, <1>2, <2>1, GotoTyped DEF IInv, TypeOK
  <2>. QED
    BY <1>2, <1>3, <1>5, <2>1, <2>2, <2>3 DEF IInv, TypeOK, config, Stages
<1>7. secret'.key \in {secret.key, key[r]}
  <2>1. CASE secret' = WholeSecret(r)
    BY <2>1 DEF WholeSecret
  <2>2. CASE secret' = secret
    BY <2>2
  <2>. QED  BY <1>2, <2>1, <2>2
<1>8. KeyBudget'
  <2>1. InUse' \subseteq InUse
    BY <1>2, <1>7 DEF InUse
  <2>2. CASE secret' = WholeSecret(r)
    <3>1. ~Vacant'
      BY <1>4, <2>2 DEF Vacant, WholeSecret
    <3>. QED  BY <1>5, <2>1, <3>1, BudgetKeeps
  <2>3. CASE disturbances' = disturbances + 1
    BY <2>1, <2>3, BudgetKeeps
  <2>. QED  BY <1>5, <2>2, <2>3
<1>9. PuttingFresh'
  <2>1. \A s \in Replicas : pc'[s] = "put" => s # r /\ pc[s] = "put"
    BY <1>1, GotoTyped DEF IInv
  <2>. QED  BY <1>2, <1>7, <2>1 DEF IInv, PuttingFresh
<1>. QED  BY <1>6, <1>8, <1>9 DEF IInv

\* A process that ends takes its key with it.
LEMMA ExitKeeps ==
    ASSUME IInv, NEW r \in Replicas, Exit(r), faults' \in 0 .. MaxFaults
    PROVE  IInv'
<1>1. Goto(r, "down") /\ "down" \notin Keyed /\ "down" \in Stages
  BY Orders DEF Exit, IInv, TypeOK, Stages
<1>2. /\ key' = [key EXCEPT ![r] = NoKey] /\ opens' = [opens EXCEPT ![r] = FALSE]
      /\ UNCHANGED <<config, secret, drawn, signed, disturbances>>
  BY DEF Exit
<1>3. TypeOK'
  <2>1. pc' \in [Replicas -> Stages] /\ Keyed' = Keyed
    BY <1>1, <1>2, GotoTyped DEF IInv, Keyed, config
  <2>2. key' \in [Replicas -> 0 .. drawn] /\ opens' \in [Replicas -> BOOLEAN]
    BY <1>2 DEF IInv, TypeOK, NoKey
  <2>3. \A s \in Replicas : key'[s] # NoKey <=> pc'[s] \in Keyed'
    BY <1>1, <1>2, <2>1, GotoTyped DEF IInv, TypeOK
  <2>. QED  BY <1>2, <2>1, <2>2, <2>3 DEF IInv, TypeOK, config, Stages
<1>4. /\ key'[r] = NoKey /\ \A s \in Replicas \ {r} : key'[s] = key[s]
      /\ pc'[r] # "put" /\ \A s \in Replicas \ {r} : pc'[s] = pc[s]
  BY <1>1, <1>2, GotoTyped DEF IInv, TypeOK
<1>5. KeyBudget'
  <2>1. InUse' \subseteq InUse
    BY <1>2, <1>4 DEF InUse, Keys, NoKey
  <2>2. CASE pc[r] = "put"
    <3>1. key[r] \in InUse
      <4>1. key[r] # NoKey /\ key[r] \in 0 .. drawn /\ drawn \in 0 .. MaxKeys
        BY <2>2, Orders DEF IInv, TypeOK
      <4>. QED  BY <4>1, MaxKeysAssumption DEF InUse, Keys, NoKey
    <3>2. key[r] \notin InUse'
      BY <1>2, <1>4, <2>2, <3>1 DEF IInv, PuttingFresh, InUse, Keys, NoKey
    <3>. QED  BY <1>2, <2>1, <3>1, <3>2, BudgetKeeps
  <2>3. CASE pc[r] # "put"
    <3>1. Putting' = Putting
      BY <1>4, <2>3 DEF Putting
    <3>. QED  BY <1>2, <2>1, <3>1, BudgetKeeps DEF Vacant
  <2>. QED  BY <2>2, <2>3
<1>6. PuttingFresh'
  <2>. SUFFICES ASSUME NEW s \in Replicas, pc'[s] = "put"
                PROVE  /\ key'[s] \notin signed' /\ key'[s] # secret'.key
                       /\ \A t \in Replicas \ {s} : key'[t] # key'[s]
    BY DEF PuttingFresh
  <2>1. s # r /\ pc[s] = "put" /\ key'[s] = key[s]
    BY <1>4
  <2>2. key[s] # NoKey
    BY <2>1, Orders DEF IInv, TypeOK
  <2>. QED  BY <1>2, <1>4, <2>1, <2>2 DEF IInv, PuttingFresh
<1>. QED  BY <1>3, <1>5, <1>6 DEF IInv

\* A running replica signs with a key it holds already.
LEMMA SignKeeps ==
    ASSUME IInv, NEW r \in Replicas, Sign(r)
    PROVE  IInv'
<1>1. /\ pc[r] = "up" /\ signed' = signed \union {key[r]}
      /\ UNCHANGED <<config, secret, pc, key, opens, drawn, disturbances, faults>>
  BY DEF Sign, replicaVars
<1>2. key[r] # NoKey /\ key[r] \in 1 .. drawn
  <2>1. pc[r] \in Keyed
    BY <1>1, Orders DEF IInv, TypeOK
  <2>. QED  BY <2>1 DEF IInv, TypeOK, NoKey
<1>3. TypeOK'
  BY <1>1, <1>2 DEF IInv, TypeOK, config, Keyed
<1>4. KeyBudget'
  <2>1. InUse' \subseteq InUse
    BY <1>1 DEF InUse
  <2>. QED  BY <1>1, <2>1, BudgetKeeps DEF Vacant, Putting
<1>5. PuttingFresh'
  BY <1>1 DEF IInv, PuttingFresh
<1>. QED  BY <1>3, <1>4, <1>5 DEF IInv

\* The secret is written past the replicas: at no charge only when it had no key,
\* and gets none beside one a replica is about to store.
LEMMA WriteKeeps ==
    ASSUME IInv, NEW s \in Held, WriteSecret(s),
           \/ drawn' = drawn /\ s.key = NoKey
           \/ drawn' = drawn + 1 /\ drawn + 1 \in Keys /\ s.key = drawn + 1
    PROVE  IInv'
<1>1. /\ secret' = s
      /\ UNCHANGED <<config, pc, key, opens, signed, faults>>
  BY DEF WriteSecret, replicaVars
<1>2. /\ disturbances' \in Nat
      /\ disturbances' \in {disturbances, disturbances + 1}
      /\ secret.key # NoKey => disturbances' = disturbances + 1
      /\ s.key # NoKey /\ Putting # {} => disturbances' = disturbances + 1
  BY Disturbed DEF WriteSecret, IInv
<1>3. TypeOK'
  <2>1. drawn \in Nat /\ drawn' \in 0 .. MaxKeys /\ drawn <= drawn'
    BY MaxKeysAssumption DEF IInv, TypeOK, Keys
  <2>2. /\ key' \in [Replicas -> 0 .. drawn'] /\ s.key <= drawn'
        /\ signed' \subseteq 1 .. drawn'
    BY <1>1, <2>1 DEF IInv, TypeOK, NoKey
  <2>3. Keyed' = Keyed
    BY <1>1 DEF Keyed, config
  <2>. QED  BY <1>1, <1>2, <2>1, <2>2, <2>3 DEF IInv, TypeOK, config
<1>4. Putting' = Putting
  BY <1>1 DEF Putting
<1>5. KeyBudget'
  <2>1. CASE s.key = NoKey
    <3>1. InUse' \subseteq InUse
      BY <1>1, <2>1 DEF InUse, Keys, NoKey
    <3>. QED  BY <1>2, <1>4, <3>1, BudgetKeeps DEF Vacant
  <2>2. CASE s.key = drawn + 1 /\ drawn + 1 \in Keys
    <3>1. InUse' \subseteq InUse \union {drawn + 1} /\ s.key # NoKey
      BY <1>1, <2>2 DEF InUse, Keys, NoKey
    <3>2. ~Vacant' /\ (disturbances' = disturbances => Vacant)
      BY <1>1, <1>2, <3>1 DEF Vacant, IInv, TypeOK
    <3>. QED  BY <1>2, <2>2, <3>1, <3>2, BudgetKeeps
  <2>. QED  BY <2>1, <2>2
<1>6. PuttingFresh'
  <2>1. \A r \in Replicas : pc[r] = "put" => key[r] # NoKey /\ key[r] \in 0 .. drawn
    BY Orders DEF IInv, TypeOK
  <2>2. \A r \in Replicas : pc[r] = "put" => key[r] # s.key
    BY <2>1 DEF IInv, TypeOK
  <2>. QED  BY <1>1, <2>2 DEF IInv, PuttingFresh
<1>. QED  BY <1>3, <1>5, <1>6 DEF IInv

THEOREM NextIInv == IInv /\ [Next]_vars => IInv'
<1>. SUFFICES ASSUME IInv, [Next]_vars
              PROVE  IInv'
  OBVIOUS
<1>1. ASSUME NEW r \in Replicas,
             Start(r) \/ Boot(r) \/ FaultOf(r) \/ Stop(r) \/ Sign(r)
      PROVE  IInv'
  <2>1. CASE Start(r)
    BY <2>1, StartKeeps
  <2>2. CASE LoadKey(r)
    BY <2>2, LoadKeeps
  <2>3. CASE GenerateKey(r)
    <3>1. faults' \in 0 .. MaxFaults
      BY <2>3 DEF GenerateKey, IInv, TypeOK
    <3>2. DrawKey(r) /\ Disturb(Putting # {}) /\ (~Vacant => Putting # {})
      BY <2>3 DEF GenerateKey, Vacant
    <3>. QED  BY <3>1, <3>2, DrawKeeps
  <2>4. CASE ReadKeyFails(r)
    <3>1. faults' \in 0 .. MaxFaults
      BY <2>4, FaultTyped DEF ReadKeyFails, IInv
    <3>2. DrawKey(r) /\ Disturb(~Vacant)
      BY <2>4 DEF ReadKeyFails
    <3>. QED  BY <3>1, <3>2, DrawKeeps
  <2>5. CASE PutKey(r) \/ PutKeyFails(r)
    BY <2>5, PutKeeps
  <2>6. CASE ReadPassword(r) \/ ReadPasswordFails(r)
    BY <2>6, PasswordKeeps
  <2>7. CASE OpenDatabase(r)
    BY <2>7, OpenKeeps
  <2>8. CASE DatabaseRefuses(r) \/ Crash(r) \/ Stop(r)
    <3>1. Exit(r) /\ faults' \in 0 .. MaxFaults
      BY <2>8, FaultTyped DEF DatabaseRefuses, Crash, Stop, IInv, TypeOK
    <3>. QED  BY <3>1, ExitKeeps
  <2>9. CASE Sign(r)
    BY <2>9, SignKeeps
  <2>. QED
    BY <1>1, <2>1, <2>2, <2>3, <2>4, <2>5, <2>6, <2>7, <2>8, <2>9
       DEF Boot, FaultOf
<1>2. CASE SeedVault \/ ResetVault
  <2>1. PICK p \in {"none", "right", "wrong"} :
             WriteSecret([key |-> NoKey, password |-> p])
    BY <1>2 DEF SeedVault, ResetVault, NoSecret
  <2>2. [key |-> NoKey, password |-> p] \in Held
    BY DEF Held
  <2>3. drawn' = drawn
    BY <1>2, Zenon DEF SeedVault, ResetVault
  <2>. QED  BY <2>1, <2>2, <2>3, WriteKeeps
<1>3. CASE ProvisionKey
  <2>. DEFINE s == [secret EXCEPT !.key = drawn + 1]
  <2>1. WriteSecret(s) /\ drawn' = drawn + 1
    BY <1>3 DEF ProvisionKey
  <2>2. drawn + 1 <= MaxKeys
    <3>1. drawn + Cardinality(Starting) < MaxKeys
      BY <1>3 DEF ProvisionKey
    <3>2. Cardinality(Starting) \in Nat
      BY ReplicasAssumption, FS_Subset, FS_CardinalityType DEF Starting
    <3>. QED  BY <3>1, <3>2, MaxKeysAssumption DEF IInv, TypeOK
  <2>3. drawn + 1 \in Keys
    BY <2>2, MaxKeysAssumption DEF IInv, TypeOK, Keys
  <2>4. s \in Held /\ s.key = drawn + 1
    <3>1. secret = [key |-> secret.key, password |-> secret.password]
          /\ secret.password \in {"none", "right", "wrong"}
      BY DEF IInv, TypeOK, Held
    <3>2. s = [key |-> drawn + 1, password |-> secret.password]
      BY <3>1
    <3>. QED  BY <2>3, <3>1, <3>2 DEF Held
  <2>. QED  BY <2>1, <2>3, <2>4, WriteKeeps
<1>4. CASE UNCHANGED vars
  BY <1>4 DEF vars, config, replicaVars, IInv, TypeOK, Keyed, KeyBudget, InUse,
              Room, Vacant, Putting, PuttingFresh
<1>. QED  BY <1>1, <1>2, <1>3, <1>4 DEF Next

\* Every key that signed is in use, and so within the budget.
LEMMA BudgetBounds == IInv => KeyPerDisturbance
<1>. SUFFICES ASSUME IInv
              PROVE  KeyPerDisturbance
  OBVIOUS
<1>1. signed \subseteq InUse /\ InUse \subseteq Keys
  BY MaxKeysAssumption DEF IInv, TypeOK, InUse, Keys
<1>2. /\ Cardinality(signed) \in Nat /\ Cardinality(InUse) \in Nat
      /\ Cardinality(signed) <= Cardinality(InUse)
  BY <1>1, FewerKeys
<1>3. Room \in Nat /\ disturbances \in Nat
  BY DEF Room, IInv, TypeOK
<1>. QED  BY <1>2, <1>3 DEF IInv, KeyBudget, KeyPerDisturbance

\* With no disturbance the budget is one key: what signed, and what is published.
LEMMA OneKeyVerifies == IInv => PublishedKeyVerifies
<1>. SUFFICES ASSUME IInv, disturbances = 0, NEW k \in signed, NEW r \in Replicas,
                     pc[r] = "up"
              PROVE  k = key[r]
  BY DEF PublishedKeyVerifies, Verifies, PublishedKey
<1>1. key[r] # NoKey
  BY Orders DEF IInv, TypeOK
<1>2. k \in InUse /\ key[r] \in InUse
  BY <1>1, MaxKeysAssumption DEF IInv, TypeOK, InUse, Keys, NoKey
<1>3. InUse \subseteq Keys
  BY DEF InUse
<1>4. IsFiniteSet(InUse) /\ Cardinality(InUse) \in Nat
  BY <1>3, FewerKeys
<1>5. Cardinality(InUse) <= 1
  BY <1>4 DEF IInv, KeyBudget, Room
<1>6. Cardinality(InUse) # 0
  BY <1>2, <1>4, FS_EmptySet
<1>7. Cardinality(InUse) = 1
  BY <1>4, <1>5, <1>6
<1>8. \E x : InUse = {x}
  BY <1>4, <1>7, FS_Singleton, Zenon
<1>. QED  BY <1>2, <1>8

THEOREM Invariance == Spec => []IInv
<1>1. Init => IInv
  BY InitIInv
<1>2. IInv /\ [Next]_vars => IInv'
  BY NextIInv
<1>. QED  BY <1>1, <1>2, PTL DEF Spec

\* Keys are held exactly from the loader on, and every key in use was drawn.
THEOREM TypeCorrect == Spec => []TypeOK
<1>1. IInv => TypeOK
  BY DEF IInv
<1>. QED  BY <1>1, Invariance, PTL

\* The keys that ever signed are one more than the disturbances at most, whatever
\* the replicas, crashes, restarts and lost replies did between them.
THEOREM KeysAreBounded == Spec => []KeyPerDisturbance
<1>. QED  BY BudgetBounds, Invariance, PTL

\* Undisturbed, everything that was signed verifies with any published key, for
\* both services and any number of replicas, restarts and faults.
THEOREM SignaturesVerify == Spec => []PublishedKeyVerifies
<1>. QED  BY OneKeyVerifies, Invariance, PTL

=============================================================================
