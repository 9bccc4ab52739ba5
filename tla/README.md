# A TLA+ model of the GUVA backend

This directory models the parts of the repository in which order, failure and
concurrency decide whether the platform keeps its promises: the tamper-evident audit
chain and the way events reach it, webhook deliveries, consumer onboarding, consent
and citizen verification, the circuit breaker in front of NIRA, and the keys the
platform signs with. TLC checks every
module on small instances, TLAPS proves the most important properties for all
instances. `PROJECT.json` lists the runs, the source lines every definition models,
the mutations each property was seen to catch, the hazards and the theorems.

## 1. The system

GUVA is a set of Go services behind an APISIX gateway. They share Postgres (one
database each), Kafka (the audit topic), RabbitMQ (webhook jobs), Vault and Keycloak,
and call each other over HTTP.

```
 APISIX --access log--> apisix-adapter --+
 identity, consent, verification, ...  --+--> audit_outbox --worker--> Kafka --+--> audit consumer --> audit_entries
                                                                              |                        |  anchors, reads
 verification --> consent (grant?)                                            +--> webhooks matcher --> RabbitMQ --> worker --> POST
             --> cache --> nira adapter (breaker) --> NIRA
```

| Component | State | Operations | What is hard | What makes it correct |
|---|---|---|---|---|
| Audit chain, `services/audit/internal/store/store.go`, `chain/` | `audit_entries`, its sequence, one advisory lock | `AppendEntry` | concurrent replicas, redelivered events, burnt ids, a commit whose reply is lost | linked, each event once, rows become visible in id order, the lock is always let go |
| Read API, `internal/server/server.go`, `pkg/platform/audit/bundle.go` | none of its own | list, verify, export | pages and bundles read while appends go on, gaps in the ids, columns that keep less than was hashed | a page only grows, bundles chain, and no row is blamed but one whose columns changed a hashed value |
| Anchors, `internal/anchor`, `store/anchor.go`, `merkle.go` | `audit_anchors` | a tick, a proof | a tick is three reads and a write beside appends and beside the ticks of other replicas | no id is left out, ranges overlap only after overlapping ticks, proofs keep verifying, every row is anchored |
| Outbox, worker, consumer, `pkg/platform/audit/audit.go`, `internal/consumer` | `audit_outbox`, Kafka log, committed and session offsets | emit, drain, fetch, handle, commit | partial batch writes, two workers on one table, redelivery, restarts | nothing forgotten, nothing twice |
| apisix-adapter, `services/apisix-adapter` | `audit_outbox` | `POST /ingest` | a batch is staged entry by entry and retried whole | a request is chained once |
| Webhooks, `services/webhooks` | subscriptions, deliveries, two queues | matcher, worker, API | four stores written one after the other, republish before ack, deletes | jobs are not lost, rows tell the truth |
| Identity onboarding, `services/identity` | registrations, idempotency keys; Keycloak, Vault | `POST /consumers` | two systems without a common transaction, compensation, concurrent retries | no 201 is taken back, no secret is disclosed twice, no unexplained orphan |
| Consent, `services/consent` | `consent_grants` | create, revoke, verify | read then update without a lock, events after the fact | answers, events and table agree |
| Verification, `services/verification` | cache, log | `POST /verify/citizen` | consent checked once, a cache between | revocation is honoured, negative answers are not frozen |
| NIRA adapter, `services/integrations/nira` | the breaker | `Lookup` | late reports of concurrent lookups | never wedged, opens on evidence only |
| Signing keys, `pkg/platform/audit/signer.go`, `services/consent/internal/signing` | one Vault secret per service, shared with the database passwords; the key in each process | load or generate at start, sign, publish | concurrent start-up, failed reads and writes, `Put` replaces the whole secret, two orders of `main` | what any replica signed verifies with the key any replica publishes unless the stored key is disturbed, and a disturbance costs one key |
| Identity's caches and reads; auth, HTTP, tracing, TLS packages; `services/reference`; deployment | little | | | not modelled, see section 6 |

The components meet in three places. `audit.Emit` writes an outbox row inside the
caller's transaction or, in consent, verification and the adapter, in a transaction of
its own. The ledger's consumer hands Kafka messages to `AppendEntry`. The verification
handler asks consent, its cache and then NIRA.

## 2. Modules

| Module | Models | State and actions |
|---|---|---|
| `AppendOnlyLedger` | the promise of `AppendEntry`: a log that only grows, each event once, acknowledged events in it | `ledger`, `acked` |
| `AuditChain` | `Store.AppendEntry`, one action per SQL statement | `entries` (committed rows in commit order), `seq`, `lock`, the locals of each appender; `BeginTx`, `AcquireLock`, `DedupeHit/Miss`, `ReadPrev`, `Insert`, `Commit`, `CommitReplyLost`, `Fail` |
| `IdOrder` | `ORDER BY id ASC` and `LIMIT`, as the stores use them | `Ascending` gives every id the place that is the number of ids up to it; `FirstOf` |
| `AuditReads` | list, verify, export and the auditor's walk as operators on the committed rows | `ById` (rows in id order), `List`, `Verify`, `VerifyRange`, `Bundle`, `VerifyBundleChain` |
| `AuditAnchor` | the anchor jobs of all replicas, one action per query, and the proof endpoint | `anchors`, each tick's locals `job[j]`; `JobMaxId`, `JobRange`, `JobLeaves`, `JobInsert`, `JobFail`; `InclusionProof` |
| `MerkleTree` | `ComputeMerkleRoot`, `BuildInclusionProof`, `VerifyInclusionProof` as functions over symbolic hashes, and the tree the file's header describes, top-down | no state |
| `AuditMerkle` | the trees of a range that grows | `leafHexes` grows by one distinct leaf |
| `AuditChannel` | the promise of the way from `Emit` to the ledger: delivered at most once, and sooner or later delivered or refused | `emitted`, `ledger`, `refused`; `Emit`, `Handle` |
| `AuditPipeline` | outbox, workers, Kafka, consumer; `AppendEntry` is one step | `Emit`; `SelectUnsent`, `WriteMessages`, `MarkSent` and their failures; `FetchMessage`, `Handle`, `CommitMessages`, their failures, `Restart` |
| `ApisixAdapter` | `POST /ingest` and http-logger's retries | `Post`, `Skip`, `Emit`, `EmitFails`, `GivenUp`, `Accept` |
| `WebhookDelivery` | matcher, RabbitMQ, delivery worker, subscription API | rows, queue (a bag), dead letters, slots; one action per call, `CommitFails` among them |
| `ConsumerOnboarding` | `createConsumerHandler` over Keycloak, Postgres, Vault | one action per call and one for each way it fails; `Compensate`, `Expire`, `Crash` |
| `ConsentGrants` | grants, revocation, evaluation | `CreateGrant`, `GetGrant`, `Update`, `AnswerRevoke`, `GrantExpires` |
| `CitizenVerification` | `verifyCitizenHandler` on top of `ConsentGrants` | `Receive`, `Granted`, `CacheHit/Miss`, `Lookup`, `Record`, `Put`; `CacheExpires`, `NiraChanges` |
| `CircuitBreaker` | `upstream.Lookup` and the breaker | `failures`, `openedAt`, `halfOpen`; `AllowClosed`, `AllowProbe`, `Attempt`, `Success`, `Failure`, `WindowOver` |
| `SigningKeys` | `LoadOrCreateSigner` and consent's `LoadOrCreate` in the start of their services, Vault, operators | `secret`, per replica `pc`, `key`, `opens`; `Start`, `LoadKey`, `GenerateKey`, `PutKey`, `ReadPassword`, `OpenDatabase`, `DatabaseRefuses`, `Sign`, `Stop`, `Crash`, the failures of calls; `SeedVault`, `ProvisionKey`, `ResetVault` |

`AuditReads` extends `AuditChain` and `AuditAnchor` extends `AuditReads`, so reads and
ticks interleave with the statements of appends. `CitizenVerification` extends
`ConsentGrants`. `AuditPipeline` implements `AuditChannel` with rows, batches,
messages and offsets (`RefinesChannel` maps its state to the channel's).
`AuditPipeline` and `ApisixAdapter` rest on results of the others, not on their state:
the pipeline takes `AppendEntry` as atomic because `AuditChain` implements the ledger,
and the adapter takes an outbox row as an entry because the pipeline carries every
UUID to the ledger once. `AuditAnchor` compares roots by their leaves because
`AuditMerkle` shows, and a proof for any length, that the root binds them. `MCAuditAnchor` runs both: the trees
grow to their bound first and the chain begins after, so the run is the sum of the two
state spaces and not their product.

The theorems are in modules of their own: `AuditAnchorProofs` (the chain, its reads and
its anchors), `AuditPipelineProofs`, `WebhookDeliveryProofs`, `ConsumerOnboardingProofs`,
`CircuitBreakerProofs`, `CitizenVerificationProofs` and `SigningKeysProofs`.
`AuditListTheorems` says what `ORDER BY` and `LIMIT` return and what Merkle trees are; the
first two rest on it.

`X_Y` names (`AcquireLock_NoWait`, `Put_Any`, ...) are not part of a model. Each is the
definition before it, or after it, with a plausible bug; `PROJECT.json` pairs it with
the property that catches it.

Conventions. A step is a call to a database, broker or service together with the local
code around it; Go code between calls touches only locals. A failing call is a step of
its own that may have had its effect. `faults` counts failed calls, lost replies and
restarts, and `MaxFaults` bounds it; the modules without it (consent, verification)
have failures that leave nothing growing behind. Variables called *history* record what
happened for the properties and guard nothing.

## 3. Runs

The `violation` runs show disagreements between the code and what the repository says
of it; they check one property each.

| Run | Instance | Shows |
|---|---|---|
| `AuditAnchor` | 2 appenders, 2 events (one whose time has digits below the microsecond or is missing, and whose correlation id is spelled unlike Postgres does), pages of 1, 2 jobs, `MinNewEntries` 1, 1 fault, trees of up to 5 leaves; 92,174 states | `ChainLinked`, `CommitInIdOrder`, `RefinesLedger`; `VerifyBlamesOnlyAltered`, `BundlesChain`, `PagesOnlyGrow`; `AnchorsTile`, `ProofsVerify`; `LockReleased`, `EveryRowAnchored`; the bottom-up loop builds the top-down tree (`RootIsTheTree`), a proof fits its leaf only, the root binds the leaves |
| `AuditPipeline` | 2 workers, 1 partition, 2 events (one refused by the schema), batches of 2, 2 faults; 84,320 states | `SentIsPublished`, `LostOnlyByError`, and `RefinesChannel`, safety and liveness |
| `WebhookDelivery` | 1 subscription, 2 events (one matches), 2 slots, 2 attempts, 1 fault; 184,120 states | `JobNotLost`, `StatusIsEarned`, `CommittedIsFannedOut`, `JobResolved` |
| `ConsumerOnboarding` | 2 requests at a time, 2 clients, 1 key, 2 faults; 28,128 states | `OneHandlerPerClient`, `CreatedKeepsWorking`, `SecretDisclosedOnce`, `OrphansExplained` |
| `CircuitBreaker` | 3 lookups of 2 attempts, threshold 2, 3 faults; 22,243 states | `FlagHasProbe`, `OpenOnEvidence`, `KeepsProbing`, `RecoversWithUpstream` |
| `SigningKeys` | 2 replicas of either service, 4 keys drawn by replicas or operators, 2 faults, the environment's password and the seeded one right or wrong; 347,792 states | `PublishedKeyVerifies`, `KeyPerDisturbance` |
| `CitizenVerification` | 1 grant, 2 revocations, 1 query, 2 requests at a time, registry says mismatch or deceased; 380,488 states up to symmetry | `RevocationHonoured`, `RevocationsAgree`, `NegativeAnswersAreFresh` |
| `AuditVerify` (violation) | as `AuditAnchor` with 1 job, every event with a time, one below the microsecond and the other with a respelled correlation id | `VerifyNeverBlames` fails |
| `AuditProof` (violation) | as `AuditAnchor` with 1 job | `ProofsOnlyOfRows` fails |
| `AuditExactlyOnce` (violation) | as `AuditPipeline`, no event refused | `FailedIsNotCommitted` fails |
| `AdapterResend` (violation) | 3 log entries (one noise), 1 retry, 1 fault | `ResendIsHarmless` fails |
| `BreakerProbe` (violation) | as `CircuitBreaker` | `OneProbe` fails |

Why these bounds are enough to be interesting. Two appenders are what it takes for
the lock to matter. Two events on pages of one row give a page that ends and a page that
begins, a row before and a row after an anchored range, and a bundle with a predecessor,
while one fault burns an id anywhere. Two jobs read the same last anchor and insert
overlapping ranges. Five leaves make a tree with an odd node on two levels. Two workers on one table race for a batch of
both events, and with two faults a message can be published twice and redelivered, or
fail and then be passed by a commit. Offsets are committed per partition, so one is
enough. One webhook subscription and two slots let two handlers of copies of one job
write its row in either order; the second event carries the committed offset past the
first. Two requests for one client, or with one key, are what onboarding must keep
apart, and two faults make a lost reply meet a failed cleanup. Three callers give the
breaker a probe, a late success and a late failure. Two replicas draw a key at once, and
two faults make a read fail after a write did; four keys let both draw again after an
operator rotated the stored one, and three disturbances cost a key each. One grant and one query are enough
for verification because nothing in the code relates two of either, while two requests
share the cache row.

`CHECK_DEADLOCK FALSE` appears where the system may rest: the finite set of events is
used up (`AuditPipeline`, `AuditExactlyOnce`, `WebhookDelivery`, `AdapterResend`).

## 4. Fairness

* `AuditChain`: `WF` of some appender's next statement. Postgres answers the statement
  of the transaction that holds the lock. Nothing is assumed of waiters, callers or
  faults; `LockReleased` says only that the holder lets go.
* `AuditAnchor`: `WF` per job. `Job.Run` ticks for ever (`time.NewTicker`), a failing
  tick only logs.
* `AuditPipeline`: `WF` per worker (`Worker.Run` drains on every tick), `WF` of the
  consumer loop and `SF` of fetching from each partition, because kafka-go serves all
  assigned partitions in turn. It carries `RefinesChannel` as well: `AuditChannel` asks
  `WF` of handling an event that is neither delivered nor refused.
* `WebhookDelivery`: `WF` per slot. The HTTP client has a timeout, back-off is finite
  and RabbitMQ hands jobs to a free slot. The matcher gets none, and `JobResolved` gives
  up when the worker's connection is lost, because `Run` then returns and nothing
  starts it again.
* `CircuitBreaker`: `WF` of calling and proceeding per caller and of `WindowOver`.
  Requests keep coming, attempts have a timeout, time passes.

The other specifications state no fairness and have only safety properties.

## 5. Proofs

The theorems hold for every value of the constants that satisfies the assumptions named
in the modules (the constants are sets, numbers or maps of the evident kind, and `None`
is none of the ids). The argument is the same everywhere: the properties are not
inductive, so `IInv` adds what makes them so, `Init => IInv` and
`IInv /\ [Next]_vars => IInv'` are proved action by action, and the property follows.

* `AuditListTheorems`, the order: `ORDER BY` returns every id of a finite set once and in ascending
  order, a set of ids has a smallest one, and ids that are added behind all others come
  after them. Nothing recurses: the rank of an id among *n* is an injection into `1 .. n`,
  so by the pigeonhole principle it is onto, and the order is its inverse.
* `AuditListTheorems`, the trees: for lists of distinct leaves of any length, the root binds
  the list (`RootBinds`), the proof for a position verifies for its leaf and no other
  (`ProofFits`), and the loop builds the top-down tree (`RootIsReference`). The levels are
  a function of a number up to the list's length; such functions are unfolded and followed
  by a first-order induction on the set of the numbers a fact holds for (`UpTo`).
  `NextLevel` is injective on lists of equal length, and of different lengths one has a
  leaf where the other still has a node at the left edge, so two trees of one root agree
  level by level (`NextLevelBinds`, `DepthsDiffer`). A step of a proof leads from a node to
  the node above it and, from any other node, somewhere else (`StepGoesUp`). Every level
  covers the leaves as tightly as the reference's (`LevelsCover`), so both end at one height.
* `AuditAnchorProofs`, the chain: `TypeOK`, `ChainLinked`, `CommitInIdOrder` and the
  refinement `RefinesLedger`. `IInv` says that exactly the transactions past the lock
  statement hold the lock, so at most one does. Hence the event that passed the dedupe
  lookup is still new (`FreshEvent`), the hash that was read is still the tip
  (`PrevIsTip`), and the id that was drawn is above every committed one (`IdsAscend`).
  With ids ascending, linkage in commit order is linkage in id order, which is what the
  verifier walks.
* `AuditAnchorProofs`, the reads: `VerifyBlamesOnlyAltered`, `BundlesChain` and
  `PagesOnlyGrow`, for every range, page size, cursor and filter. Between two neighbours
  of a result lies no row, so every row is linked to its predecessor and the first one to
  the rows before the range (`BetweenLinks`), whatever ids are burnt; the first row a walk
  blames therefore does not recompute (`WalkBlames`), which only a row of `Altered` does: one
  whose time lost digits or whose correlation id came back in another spelling. A trimmed page is a range of ids
  again (`TrimmedIsRange`).
* `AuditAnchorProofs`, the anchors: `AnchorTypeOK`, `AnchorsTile`, `ProofsVerify`, and that
  an anchored range is closed. `JInv` is the chain's `IInv` with `AnchorsTile`,
  `RangesFollow` (a range a tick holds begins right behind some anchor's end, behind the
  last one's unless ticks overlapped) and `WithinChain` (anchors and ticks end at ids of
  committed rows). Rows commit in id order, so the largest id a tick read stays below every
  later row, and the leaves of a range that ends at a row never change (`LeavesStay`). So
  the root of every anchor is that of its range now (`RootsRead`), and the number of rows
  before a row is its place among them (`PositionOfRow`).
* `AuditAnchorProofs`, the trees: `RootIsTheTree`, `RootBindsLeaves` and
  `ProofFitsItsLeafOnly`, whatever the bound on the leaves. `AuditAnchor` speaks of leaves
  and positions; the two meet in `TreeProofsAlwaysVerify`. The hash of a row contains the
  hashes before it, so the leaves of a range are distinct (`LeavesAreDistinct`), and the
  proof the handler builds for an anchored row verifies against the anchor's Merkle
  root for that row's hash and for no other; anchors of one root have the same leaves.
* `AuditPipelineProofs`: the three invariants of its run, the safety half of
  `RefinesChannel` (`Channel!SafetySpec`), and from it alone that no event is in the ledger
  twice. `PInv` says of the workers that what is marked sent, or about to be marked, is in
  Kafka and what is in Kafka was emitted; and of the consumer that no committed offset
  passes the session's position, that the message in hand is the one before the position,
  and that every message behind a position is in the ledger, failed or in hand.
* `WebhookDeliveryProofs`: all four invariants of its run. `WInv` says of the worker that
  every job in the queue or with a handler is of a published delivery with attempts left
  and was POSTed as often as it counts, what a handler knows at each of its calls, and
  that every queued delivery is in the queue, with a handler, dead or received; and of the
  matcher that each event between the committed offset and its position was missed, is in
  hand or was fanned out by a message whose commit failed, and that the fan-out in hand
  owes each matched subscription a job or made one.
* `SigningKeysProofs`: `TypeOK`, `KeyPerDisturbance` and `PublishedKeyVerifies`. `InUse`
  are the keys that have signed, are stored or are in some process's memory. `KeyBudget`:
  they are at most one more than the disturbances, and at most as many as those while
  there is no key that a new one would displace (`Room`). A key is drawn into that room or
  pays for itself; a process that ends before it has stored its key takes it out of use
  again, because nobody else has it (`PuttingFresh`). With no disturbance the budget is one
  key, which is then what signed and what is published.
* `ConsumerOnboardingProofs`: all five invariants of its run. The key is that a client
  is held by one request from its creation in Keycloak to the response (`OneHolder`),
  and that a held client was never disclosed (`HeldIsNew`), so no compensation can hit
  a client somebody was told of.
* `CircuitBreakerProofs`: the three invariants. `CountIsSeen` (the counter never
  exceeds the failures since the last success) makes `OpenOnEvidence` inductive.
* `CitizenVerificationProofs`: the four invariants. A grant that is over stays over
  (`OverStaysOver`), so a request that began afterwards can only be refused
  (`LateIsRefused`); an answer that was built lies in the statuses NIRA had since the
  request arrived; a revoke request has the grant's stored reason before it answers.

Only model-checked: every liveness property, and the liveness half of `RefinesChannel`
(fairness and `ENABLED` are beyond the prover); and the adapter, whose only run shows a
disagreement.

## 6. What is left out, and why

* Data the properties do not tell apart: payloads, problem bodies, filters (a filter is
  a set of events), HMAC and JWT contents, back-off times, metrics, logs.
* The meta-audit events of the read API: they are outbox rows like any other; a read
  whose event cannot be staged is withheld and changes nothing.
* The events of consent and verification other than `consent.revoked`; the log row and
  the event of a verification are one best-effort step.
* Partition maintenance, read-only list endpoints, the NIRA simulator.
* The token caches: identity's admin token (renewed two minutes early) and verification's
  token fetcher (30 seconds early). A mutex serialises each, and a stale token only makes
  a call fail, which the models have.
* The schema validator (`schema.go`): a fetch and a compilation at start. The pipeline
  has its effect, an event that is refused.
* The publication of an anchor to a witness: one best-effort POST after the row exists.
* The HTTP handler of the NIRA adapter: it calls `Lookup`, logs and emits. Log and event
  use the request's context, so a caller that hangs up loses both.
* Authentication, HTTP start-up and shutdown, tracing, TLS, the reference service, and
  deployment files: nothing of theirs outlives a request or a start.

Two hazards have no property. A cache hit is logged as verified even when the cached
answer is a mismatch (`services/verification/internal/server/server.go:168`); the model
records it, but nothing in the repository says what the log of a hit must say. The event
of a consent mutation may be missing, because `emit` runs after the commit and drops its
error; the model lets it be lost, and `RevocationsAgree` says of the events only that
none is false. What the migration says of it is in section 7.

## 7. What the violations say

* **Rows that do not recompute** (`AuditVerify`). The hash covers nanoseconds, the column
  keeps microseconds. It covers the correlation id as the envelope spells it, the column
  is a UUID and is read back in Postgres's spelling. A row whose time has finer digits, or
  whose correlation id was in upper case, in braces or without hyphens, is reported as
  broken by `GET /verify` and by the auditor's tool, although nobody touched it. Of the
  run's two events one is of each kind.
* **Proofs of burnt ids** (`AuditProof`). The leaf is found by counting the rows below
  the id. For an id inside a range that no row has, the handler returns the next row's
  leaf and a valid proof.
* **Failed messages** (`AuditExactlyOnce`). The consumer goes on after an error, and the
  next commit of the partition passes the failed message's offset.
* **Re-sent batches** (`AdapterResend`). Each `Emit` draws a UUID, so dedupe by UUID
  cannot match an entry that is staged again.
* **Two probes** (`BreakerProbe`). A lookup from before the opening that fails late
  clears the half-open flag of the probe that is out; after the next window a second
  probe joins it.

The passing runs state what does hold in spite of them: no other rows are blamed, proofs
of rows always verify, nothing is lost without an error, and the flag never wedges.

Smaller disagreements between text and code, met while modelling. The passing runs model
what the code does:
* The migration of `audit_anchors` (`000004`) speaks of consecutive ranges. With two
  replicas, ticks that overlap insert overlapping ones; no id is left out.
* The audit key and the database passwords are documented as fields of one secret
  (`docs/OPERATIONS.md:279`, `docs/AUDIT.md:467`). `Put` replaces the secret, so storing a
  generated key drops the passwords, and the next start uses its fallback.
* The fallback password is described as being for an unseeded Vault
  (`services/audit/cmd/server/main.go:61-63`). A password that is in Vault displaces it
  even when it does not open the database, as after `seed-vault.sh` wrote the default one
  and `POSTGRES_PASSWORD` was overridden: every start then ends, whatever the fallback.
* `LoadOrCreateSigner` is documented to generate a key "if Vault has none"
  (`signer.go:54-55`) so that restarts reuse it (`signer.go:76-77`). It does so after any
  failed read and overwrites the stored key; `KeyPerDisturbance` bounds what that costs.
* `LoadOrCreateSigner` is documented to return an error if Vault rejects the new key
  (`signer.go:54`). It logs and goes on with a key nobody else has.
* The consent migration (`000001_init.up.sql:86-87`) says that every grant, revoke and
  verify has its chain event in the transaction of the mutation. The handlers emit it
  afterwards, in a transaction of its own and best-effort (`server.go:403-426`).
* The comment of `Emit` says that the worker sets the time of an event
  (`audit.go:78-82`). `Emit` takes it when it is called (`audit.go:106`).
* `NewValidator` is documented to fail only if the fetched and the embedded schema are
  both unusable (`schema.go:71`). A schema that was fetched but does not compile fails it.

## 8. Plan

Done, in this order: the chain and its ledger; reads and anchors; Merkle trees; the
pipeline; webhooks; onboarding; the breaker; consent and verification; the adapter; the
signing keys; several anchor jobs; the pipeline as an implementation of a channel; the
proofs of anchors, webhooks, signing keys, reads, pipeline and Merkle trees.

To extend:
1. `CitizenVerification` over `CircuitBreaker`, with NIRA's lookup log.
2. Several webhook subscriptions per event, and the reconnection of the matcher.
3. The adapter as one of the producers of the channel.
