# buckety-controller: TLA+ models, model checking and proofs

buckety-controller is a Kubernetes controller that provisions backend resources (GCS and S3
buckets, Kafka topics, MySQL databases) for `Buckety` objects and hands out credentials for them
through `BucketyAccess` objects and Secrets. This directory models the parts of it that are
hard to test: what happens between two calls of a reconcile pass when the cache is stale, the
process crashes, a call fails after it took effect, or somebody else touches the same object.

## 1. The system

| Component | State it keeps | Operations | Talks to |
|---|---|---|---|
| BucketyAccess reconciler, `pkg/controller/bucketyaccess` | `status.principal`, `principalRevocable`, Ready condition, `observedGeneration`; the finalizer; the Secret; in memory the start-up set | one `Reconcile` pass: finalizer, gates, live read of the Secret, `GrantAccess`, Secret write, revocation of the replaced credential, status; the deletion path | API server (cached reads of accesses and Bucketys, live reads of Secrets), driver |
| Buckety reconciler, `pkg/controller/buckety` | `status.driver/driverMajor/driverBuild/provenance`, conditions; the finalizer; the implicit `BucketyAccess`; in memory the start-up set and the deletion backoff | adoption gate, sticky stamp, driver checks, `EnsureBuckety`, implicit access, teardown in slices | API server (cached and live reads), driver |
| Recheck cadence, `pkg/controller/cadence` | objects already passed over in this process | `Defer`, `Forget`, jittered recheck | both reconcilers |
| Driver registry, `pkg/drivers/registry` | factories by name | the `Driver` interface, error kinds | reconcilers, drivers |
| gcs driver: buckets | buckets, their parameters and object generations | inspect, create, converge the managed parameters, empty in slices, delete | Buckety reconciler, the data plane |
| gcs driver: service accounts | accounts, bindings and keys in IAM; the ownership marker | ensure account and binding; mint, reuse, expire and revoke keys; delete the account | both reconcilers |
| s3 driver | buckets, versioning, lifecycle | inspect, create or recognise, converge, empty objects, then versions and markers, delete | Buckety reconciler, the data plane |
| kadm driver | topics; in memory the metadata cache, the accepted but unreported values, the export record and the metric series | inspect, create, align, delete topics; export the effective configuration | Buckety reconciler, other clients of the cluster |
| mysql driver: accounts | users and grants; in memory the passed login checks | `GrantAccess`, `ensureAccount`, `alignGrants`, `RevokeAccess` | access reconciler |
| mysql driver: breaker | consecutive failures, deadline | `admit`, `report`, `cooldown` | every caller of the shared pool |
| Status helpers, webhook, configuration, templates, lifecycle documents | none | pure functions | reconcilers |
| `cmd/buckety` | the manager | wiring, one worker per controller | everything |

What is hard here:

* a pass works on a cached object and on a Secret it read earlier; users, the other controller,
  the garbage collector and the informers move between any two of its calls;
* status is written by merge patches without a lock (only fields that differ from the pass's own
  snapshot travel, and the conditions array travels as a whole), finalizers and Secrets are
  written under a resourceVersion;
* a credential is created, delivered, recorded and its predecessor revoked in four calls to three
  systems, and the process can stop after each;
* restarts change what a backend name resolves to, the driver's major, and `userHost`;
* statements and writes can be applied although the caller sees an error;
* a backend answers from a stale cache or listing, keeps tombstones, resets what an update does
  not carry, or does not know a fresh identity yet;
* deletion has to wait for accesses, for the implicit access and for a backend that stalls, and
  still end.

PROJECT.json lists each of these at the line where it bites, under "hazards", with the
properties that would catch it.

## 2. The modules

### AccessReconciler (instance: MCAccess; proofs: AccessReconcilerProofs, AccessRefinementProofs)

`obj` is the API server's `BucketyAccess`, `cache` the informer's copy, `secret` the Secrets (the
owner in the controller reference and the key carried), `live`/`expired`/`holder` the IAM keys,
`bky` and `driver` what the Buckety and its backend resolve to, `seen` the start-up memory. A pass
is the variable group `pc, cur, snap, read, res, why`: `pc` names the next call, `snap` is the
cached object the pass works on, `read` the Secret as its live read returned it, `res` the
`GrantResult`.

| Action | Code |
|---|---|
| `BeginPass` (`NextOnDelete`, `NextOnLive`, `ReasonToReport`) | cached Gets and all gates up to the first call with an effect |
| `AddFinalizer`, `ReportStatus` | the patches that end a pass |
| `ReadSecret` | live read, ownership conflict, `Startup.Defer` |
| `GrantAccess` | gcs `ensureAccessKey` (reuse, mint, refuse when the backend is out of keys; a mint whose answer is lost or cannot be decoded leaves its key), or a shared principal |
| `WriteSecret`, `Unmint` | `writeSecret`, and the revocation of a credential whose write failed |
| `RevokeOld`, `Commit` | revocation of the replaced principal, then the status patch |
| `DeleteRevoke`, `ReleaseFinalizer` | the deletion path |
| `Sync`, `CollectSecret`, `SecretChanges`, `KeyExpires`, `BucketyChanges`, `User*`, `Restart` | informer, garbage collector, users, IAM, the other controller, the process |

A resourceVersion comparison is a comparison of contents. Passes that would spuriously be refused
are covered by the fault "write".

### Credential, implemented by AccessReconciler

The abstract promise, without passes, caches or statuses: `holder`, `live` and the key each client
has been handed; `Issue`, `Deliver`, `Withdraw`, `Revoke`. A key is issued once and for one
client, a client is only handed a working key of its own, and a key is revoked only while no
client holds it. The refinement mapping (`Credentials` in AccessReconciler) takes accesses for
clients and for `delivered[a]` the key in the Secret of a live access that owns it. Minting is
`Issue`, a Secret write is `Deliver`, the garbage collector, users and deletion are `Withdraw`, and
all three calls of `RevokeAccess` have to be `Revoke`.

### BucketyReconciler (instance: MCBuckety; proofs: BucketyReconcilerProofs)

The same style for `Buckety` objects: `base` is the cached object, `mem` the working copy, `lock`
what `Status().Update` returned. That last variable is there because the pass that stamps goes on
to patch with a base from before the update, so that its merge patch carries the new
resourceVersion and is a locked write, while every other status patch is not. `res` is the
backend (existence, units of content, who made it), `implicit`/`explicit`/`listed` the accesses
and their informer, `delay` the deletion backoff, `running` the driver, major and build behind the
backend name, and whether the backend's `defaults` are there. Teardown (`ListAccesses`,
`DropImplicit`, `DeleteBackend`, `ReleaseFinalizer`) uses a live list.

Parameters are "good", "invalid", or "templated": they name a default of the backend, which a
driver with `TemplatedParameters` resolves. `Unresolved` is `ResolvedParameters` failing because a
restart took that default away. A live pass then reports `ParameterTemplate`; the deletion path
does too, and blocks instead of calling the driver without the principals it has to remove.

What differs between drivers is one operator each. `Inspections`: an object store answers from a
listing, and a listing that is denied counts as content; kadm and mysql answer from metadata.
`EnsureDrifts`, `EnsurePropagates`, `EnsureFails`: how an ensure can end short of done.
`DeleteSlice`, `SliceStalls` and `DeleteWhole`: gcs and s3 empty a bucket in slices and may stall,
kadm and mysql delete at once.

Somebody outside the cluster creating the resource between the inspection and the first ensure is
a race the SPEC accepts (SPEC.md:997-1003). `ThirdPartyCreates` leaves it out (it makes a resource
only under a name that nobody has claimed), so `DestroysOnlyOwn` says nothing about it.

Informer lag comes in two strengths: "lag" lets any pass begin on an older copy, "stale" counts
such a beginning as a fault, which is what a liveness run can afford.

The access controller is the environment here: an implicit access that is being
deleted goes away at some point, which is what `DeletionCompletes` of AccessReconciler shows.

### KadmTopics (instance: MCKadm; proofs: KadmTopicsProofs)

The kadm driver from both ends. On the broker: topics with partitions, replication factor,
overrides and offsets, and inherited values from the "broker" or the "default" level. In the
process: `meta`, the client's metadata cache, which `describeTopic` reads and `topicExists` does
not; `accepted`, `Driver.accepted`; `record`, the export record of effective.go; `series` and
`counters`, what the metrics registry holds. A pass is cut at every broker call: `InspectExists`,
`InspectStarts`, `InspectEnds`, `CreateTopic`, `Describe` (with `recordEffective` and the counters
at zero), `Grow`, `Alter`, `DeleteTopic`. `Reconcile` is the reconciler reduced to the order of
its calls and to `ForgetBuckety`, which runs in the pass that finds no object. The Buckety may be
deleted and followed by another of the same name on another topic. `touched` is a history
variable: which keys something the driver cannot see has changed (another client, or an alter
whose answer was lost) since the last acknowledged alter.

### ObjectStore (instance: MCObjectStore; proofs: ObjectStoreProofs)

The bucket operations of the gcs and s3 drivers over one bucket, which differ in fewer places than
their code does. `flavour` is the backend: gcs, gcs without `storage.objects.list`, the fake-gcs
emulator, s3, s3 without versioning, and s3 with credentials that may not list objects, or not
versions. `gens` are object generations: live, archived, delete markers, and the emulator's
tombstones; objects may be held. `Inspect`, `Probe` and `ProbeVersions`
are InspectBuckety; `Head`, `Create`, `Recheck`, `Update`, `SetVersioning` and `SetLifecycle` are
EnsureBuckety; `List`, `ListVersions`, `RemoveObjects` and `RemoveBucket` are one slice of
DeleteBuckety. `seen` are the attributes an update is computed from, `targets` the slice as
listed: both are stale by the time they are used. A call that fails may have taken effect.

s3 has two kinds of delete. A slice of current objects is deleted by name (`DeleteNamed`): on a
versioned bucket each gets a delete marker, on a bucket whose versioning was suspended the marker
also replaces whatever has no version id. A slice of the version listing is deleted by id, and
what is then the newest entry of a name is its current object again (`Settle`): deleting a marker
brings the version it hid back. That is why a page has to have room for a marker and a version
(`PageSize` at least 2): with a page of one entry a teardown would put a marker on the object, delete
the marker, find the object again, and so on. The driver's pages hold 1000 and its slices 256.

### ServiceAccounts (instance: MCServiceAccounts; proofs: ServiceAccountsProofs)

Both reconcilers at once, each cut at its IAM calls, over one bucket with a per-bucket service
account and one access. An account is a name (`Email`) and an identity: recreated, it is a new
identity under the old name, and bindings are of identities. A deleted account's name is reserved
for a while; a new account is not bindable at once. `cached` is what the access controller
believes of the Buckety. Another tenant of the identity project may own an account of that name,
delete ours or edit the bucket's policy; without the webhook the `serviceAccount` parameter can
change. Key rotation inside one access is AccessReconciler's subject and here one step, `Mint`, which
may fail with a new key left behind; the leak of finding 2 is between its calls, and not in this
module.

### MySQLAccounts (instance: MCMySQL; proofs: MySQLAccountsProofs)

One access on the mysql driver, every SQL statement and every login a step: create or alter,
align grants (grant, revoke, grant option), verify, clean up, write the Secret, revoke the old
principal, commit. A statement can be applied and answered, refused, or applied without an answer.
The revocations of the single privileges when the grants are unknown (`revokeIfHeld`) are one step;
on an account that is gone their error is ignored, as in the code. Users delete and edit the
Secret, or put one back from a backup while a pass is about to create it.
`acct[h]` is the account under host `h`; hosts are numbers and a login is matched by the least
one that exists, the way the server prefers the more specific host. `verified` is
`verifiedAccounts`. `tampered` is a history variable: which accounts were changed by hand since
their last passed check.

### MySQLBreaker (instance: MCBreaker; proofs: MySQLBreakerProofs)

`admit` and `report` are atomic (they hold the mutex), the call between them is not. Time is in
ticks and kept relative (`hold` is `until - now`). `elapsed` and `quiet` are history variables.

## 3. The runs

| Run | Instance | Properties | Shows |
|---|---|---|---|
| `access_keys` | 1 access, 3 keys, 2 faults, backend minting or absent | `TypeOK`, `SecretKeyNotRevoked`, `KeysAccountedFor`, `ReleasedAfterRevocation`, `NoSecretOverwritten`, `ImplementsCredential` | consumers keep their key; live keys nobody records are at most one per fault; the finalizer goes after revocation; Secrets are written only as read; the abstract credential is implemented |
| `access_liveness` | 1 access, 2 keys, 2 generations (one refused), 1 fault, all three kinds of backend | `DeletionCompletes`, `ServedEventually` | a deleted access goes, a servable one converges |
| `buckety_claims` | 1 Buckety, a third party, 4 specs (one templated, one invalid), 5 backends (none, gcs, gcs of the next major, kadm, mysql, which refuses the name), 2 faults | `TypeOK`, `ReadyIsClean`, `StickyStamp`, `DestroysOnlyOwn`, `RightDriver` | the stamp is sticky under stale caches; only own resources are destroyed; only the driver and major that claimed a resource work on it; the backoff stays under its cap |
| `buckety_liveness` | 1 Buckety, 1 explicit access, 3 specs, 2 generations, backend missing, with and without its defaults, a writer, 1 fault | `AccessBlocksTeardown`, `ImplicitGoneFirst`, `DeletionCompletes`, `ServedEventually`, `ExplicitReplacesImplicit` | accesses keep the resource and the implicit one goes first; teardown ends, an admissible Buckety becomes Ready, an explicit access displaces the implicit one |
| `breaker` | 2 workers, 2 outages, 6 failures, cooldown 2 to 5 ticks | `FailuresPaced`, `OneProbePerCooldown`, `Recovers` | connection attempts are paced by time and on schedule, and the breaker recovers |
| `mysql_accounts` | 2 hosts, 4 passwords, 3 roles, 2 generations, 2 changes by others, 1 fault | `MemoryHonest`, `RoleEnforced`, `StraysBounded`, `ServedEventually` | the memory of checks is true, roles are enforced, accounts are not left behind, changes by hand are repaired |
| `kadm_topics` | 2 topics, one contested, 3 keys (a number, the policy, one the broker never reports), 3 specs, 2 edits, 1 fault | `SeriesMatchRecord`, `NoSeriesLeft`, `MemoryHonest`, `VerdictTrue`, `Converges`, `GaugesCatchUp` | verdicts of adoption are true when taken; the topic converges and the driver falls silent; metrics show the broker's configuration and nothing of the past |
| `object_store` | 7 kinds of backend, 3 parameter sets, 2 objects, slices of 2, 3 writes and 2 edits, 4 of them together, 1 fault | `StalledHonest`, `ReadyOverOwn`, `TeardownCompletes`, `KnobsConverge` | no Ready over a bucket that is not ours; parameters converge; teardown ends, and backs off only when it removed nothing |
| `service_accounts` | 2 names, 2 identities, 2 keys, 2 edits, 1 fault, no webhook | `NothingLeft`, `KeyGoesWithAccess`, `ForeignUntouched`, `AccountBound`, `DeletionCompletes` | foreign accounts are never touched; nothing of ours is left; bindings heal; deletions end |
| `access_lost_reply` | violation | `SecretKeyNotRevoked` | finding 1 |
| `access_key_outlives` | violation | `NoKeyOutlivesAccess` | finding 2 |
| `mysql_writer_host` | violation | `WriterHoldsNothing` | finding 3 |

Why the bounds are enough for these questions. Passes over different accesses share only Secrets
and the worker; another owner of the Secret is what the disturbance "foreign" is, so one access
exercises every branch of the conflict gate and of the locked write. Three keys allow a rotation
inside a rotation. Two faults allow a crash during the repair of an earlier one, and
`KeysAccountedFor` counts faults, so a leak without a fault shows at once. Two generations are
enough for a pass on the older one to be overtaken. `DeletionRequeueCap` is chosen not to be a
power-of-two multiple of `DeletionRequeue`, and `BreakerMax` likewise, so that the capped step of
the doubling happens. One unit of content and a writer that adds another during the teardown give
slices that leave something and slices that do not. Two hosts give a more and a less specific
account, in both orders of change.

In KadmTopics two edits are a Buckety deleted and followed by another, a topic deleted and
recreated, or two disturbances of one pass; the values of the three keys allow an override equal
to the inherited value, which changes only the source. In ObjectStore three generations under two
names, with slices of two, make teardowns of several slices, markers above versions that resurface
and a slice that separates the two; `MaxMoves` bounds writes and edits together, so that three
writes are combined with one edit and two with two. The flavours are initial states of one run,
because the properties are the same. In ServiceAccounts two identities are the account and its
successor (or a foreign one), two keys a key and its replacement. A recreated account has to be
bound like the first; `AccountBound` exempts only a Buckety that is not Ready because its account is
missing when no identity is left to recreate it with. Two generations in `buckety_liveness` let a
served Buckety be edited, and the pass on its new generation be disturbed.

`DeletionCompletes` of BucketyReconciler exempts `Stuck`: a stamped Buckety with policy Delete whose
backend is not configured, or whose parameters no longer resolve, keeps its finalizer until the
configuration is mended, as the code says it should. `TeardownCompletes` likewise exempts s3
credentials that may not list, whose every teardown ends with an error.

Each module states its type invariant; the runs of AccessReconciler and BucketyReconciler check
theirs, where it carries the numeric bounds. All of them are proved, as part of the inductive
invariants of section 4.

Key symmetry is used in `access_keys` only, which checks no liveness.

`CHECK_DEADLOCK FALSE` is set for the Buckety, mysql, kadm, object store and service account runs:
objects are created once (or as often as the edits allow), and after the last one is gone nothing
is left to do. The access and breaker instances never stop.

### Fairness

* `WF(PassStep)`: a worker that has begun a pass finishes it; every call has a timeout.
* `SF(BeginPass(x))` for each object: the work queue is FIFO, watches, retries and the recheck
  cadence requeue every object, and a pass over another object only delays it. Where a pass of the
  Buckety reconciler returns no requeue (DriverVersionIncompatible, ParameterTemplate and
  InvalidParameters, ParameterDrift at `buckety/reconciler.go:291, 296, 316`, BackendUnavailable),
  the next one comes from an edit, an access event, a restart with the configuration that resolves
  it, or the resync of the informer, which `cmd/buckety` leaves at controller-runtime's default
  (hours). The liveness claims hold at that pace, not at the recheck's. Strong fairness is
  needed because the one worker is busy, and `BeginPass` disabled, again and again. In
  MySQLAccounts there is one object and weak fairness is enough.
* `WF(Sync...)`, `WF(CollectSecret)`: informers and the garbage collector catch up.
* `WF(ImplicitRevoked)`: the access controller finishes deletions.
* `WF(Driver)` in KadmTopics and ObjectStore, `WF(BucketyPass)` and `WF(AccessPass)` in
  ServiceAccounts: the one worker of each controller goes on, and every object is requeued by
  errors, watches or the recheck cadence; after ParameterDrift in KadmTopics and ObjectStore only
  by an edit, a restart or the informer's resync (see above), so drift that somebody resolves on
  the backend is noticed late. One object, so weak fairness is enough.
* `WF(RefreshMetadata)`, `WF(RefreshCache)`, `WF(Propagate)`: caches and IAM catch up.
  `SF(NameFreed)`: the reservation of a deleted account's name (about 30 days) ends; strong,
  because the model lets it end only between passes.
* `WF(CheckExpires)`, `WF(Tick)`: time passes. `WF(ServerComesBack)`: an outage ends.

Users, crashes, failures and reconfigurations have no fairness; faults are bounded, so every
behaviour has a suffix without them, which is what "eventually" is about.

## 4. What is proved

Every safety property that a passing run checks is a theorem about the module's specification, for
every value of its constants: any number of objects, keys, workers,
topics, hosts or object generations, and any number of faults, edits and restarts. The constants
need only what the `ASSUME`s of the modules say, and the hypotheses named below. Each inductive
invariant was checked by TLC on the instance of its run before it was proved.

| Theorem | States | Hypothesis |
|---|---|---|
| AccessReconcilerProofs `TypeCorrect` | `[]TypeOK` | |
| `ConsumersKeepTheirKey` | `[]SecretKeyNotRevoked` | `"lostReply" \notin Env` |
| `SecretsWrittenAsRead` | `NoSecretOverwritten` | |
| `RevokedBeforeRelease`, `LeaksArePaidFor` | `[]ReleasedAfterRevocation`, `[]KeysAccountedFor` | `"bkyGoes" \notin Env`, `"static" \notin Drivers` |
| AccessRefinementProofs `AccessImplementsCredential` | `ImplementsCredential` | `"lostReply" \notin Env` |
| BucketyReconcilerProofs `TypeCorrect` | `[]TypeOK` | |
| `StampIsSticky`, `ClaimedDriverOnly` | `StickyStamp`, `RightDriver` | |
| `ReadyStaysClean` | `[]ReadyIsClean` | |
| `AccessesBlockTeardown`, `ImplicitAccessGoesFirst` | `[]AccessBlocksTeardown`, `[]ImplicitGoneFirst` | |
| `TeardownDestroysOnlyOwn` | `DestroysOnlyOwn` | `DistinctNames` |
| ServiceAccountsProofs `TeardownLeavesNothing`, `AccessTakesItsKey` | `[]NothingLeft`, `[]KeyGoesWithAccess` | |
| `ForeignAccountsUntouched` | `ForeignUntouched` | |
| KadmTopicsProofs `GaugesMatchRecord`, `GoneIsForgotten` | `[]SeriesMatchRecord`, `[]NoSeriesLeft` | |
| `RememberedIsApplied`, `VerdictHolds` | `[]MemoryHonest`, `VerdictTrue` | |
| ObjectStoreProofs `StallIsHonest`, `ReadyIsOwn` | `[]StalledHonest`, `ReadyOverOwn` | |
| MySQLBreakerProofs `FailuresArePaced`, `ProbesAreSpaced` | `[]FailuresPaced`, `OneProbePerCooldown` | |
| MySQLAccountsProofs `MemoryIsTrue`, `ReadyRoleIsEnforced`, `StraysAreBounded` | `[]MemoryHonest`, `[]RoleEnforced`, `[]StraysBounded` | |

The proof modules other than the access ones also prove `[]TypeOK` (`TypeCorrect`) and, as
`Invariance`, their inductive invariant.

The hypotheses are where the code itself stops promising the property:

* `"lostReply" \notin Env`: without it finding 1 is a counterexample.
* `"bkyGoes" \notin Env`: the Buckety of an access that holds a key stays as long as the access.
  That is what the Buckety's own finalizer is for, and `AccessesBlockTeardown` shows it; an access
  whose Buckety is missing is released without a revocation, by design. `"static" \notin Drivers`:
  no restart re-points the backend at a driver whose `RevokeAccess` does nothing (first remark of
  section 5).
* `DistinctNames`: no two Bucketys resolve to one resource name (second remark of section 5).

`access_keys` and `buckety_claims` satisfy the hypotheses of the theorems whose properties they
check, so those are not vacuous.

### Access keys

`SecretKeyNotRevoked` alone is not inductive: the steps that revoke (`RevokeOld`, `Unmint`,
`DeleteRevoke`) act on what the pass remembers, so the induction needs what those memories say
about the present. The invariant is

    Inv == TypeInv /\ PassInv /\ HolderInv /\ PhaseInv /\ GrantInv /\ SecretKeyNotRevoked

* `PassInv`: a pass at a call beyond `BeginPass` is about an access, and what its snapshot and its
  place in the pass say about each other (a `deleteRevoke` pass works on a deleting snapshot).
* `HolderInv`: a key is held by the access it was minted for: live keys, keys in Secrets, in
  statuses, in caches and in the pass all have the holder they should have; keys are handed out
  once.
* `PhaseInv`: phases move in one direction, so a snapshot or cache that says deleting means the
  object is no longer live.
* `GrantInv`: what `res` holds at each later call: a minted key is live and is in no Secret until
  the write; at `revokeOld` the Secret does not carry the principal about to be revoked.

The argument for `RevokeOld`: the snapshot's principal differs from the one just written; if the
Secret carried the snapshot's principal, it would have been changed since this pass's locked
write, and only a pass writes keys into Secrets. For `Unmint`: the write was refused, so the
minted key was never put in a Secret. For `DeleteRevoke`: the object is no longer live. Each
action has its own lemma.

The refinement rests on the same invariant. `OneObject` shows that a step changes the object of at
most one access, and then neither Secrets nor keys; `Stutters`, `Withdraws` and `Revokes` turn a
step described by what it does to `holder`, `live` and the delivered keys into a step of
Credential. Then each action is placed: a pass that writes the Secret delivers a key that
`GrantInv` says is live and of this access; `RevokeOld`, `Unmint` and `DeleteRevoke` revoke a key
that, by the argument above, no live access's Secret carries; whatever users and the garbage
collector do to a Secret or an object takes at most one key away from its client.

`RevokedBeforeRelease` has an invariant of its own, `ReleaseInv`, because it has to hold with lost
replies too. Keys are minted once (`UsedInv`), objects only move forward and a deletion pass works
on a deleted one (`AgeInv`); a status that names a key says that it must be revoked, and no later
status takes that back (`RevocableInv`); the finalizer is there before the first key
(`FinalizerInv`) and the Buckety as long as the access (`BucketyInv`); so at `release` the key of
the snapshot is revoked (`RevokedInv`), and the finalizer goes only if the object is still the
snapshot.

`LeaksArePaidFor` adds a count to `ReleaseInv`. `Loose` are the live keys that no status of their
access names, but for the one the running pass has minted and still answers for; `CountInv` is
`Cardinality(Loose) + Debt <= faults`, where `Debt` is 1 during a pass that began on a stale
principal. A key becomes loose when the pass stops answering for it, which is a fault, a successful
revocation or the commit that names it (`AnswerLost`); when a mint loses its answer, which is a fault (`LostKey`);
or when a status stops naming it, which only
the commit of a pass on a stale principal does to a live key, and pays with its debt (`NameLost`).
`PresentInv` is needed because a commit on an access that is gone would name nothing: a pass that
serves an access does so while it exists. `MintInv`: the snapshot's own key is revoked before the
status names another.

### Bucketys

    Inv == TypeInv /\ PassInv /\ PhaseInv /\ StampInv /\ DriverInv
             /\ FinInv /\ ImplicitInv /\ BoundInv /\ CleanInv /\ ResourceInv

`PassInv` says what a pass has in hand at each call, `PhaseInv` that cache and snapshot are earlier
phases of the object. `StampInv` is the heart of it: a stamp that the cache, the snapshot or the
locked object shows is the object's own. An unstamped snapshot may be stale, but the only write
that stamps is locked, and a merge patch from an unstamped snapshot carries no stamp unless the
pass has just made it. `DriverInv` follows: `ensure` and `deleteBackend` are reached only past the
comparison of that stamp with the running driver, and a restart ends the pass. `FinInv`,
`ImplicitInv` and `BoundInv` tie the implicit access and the accesses of the deletion request to
the finalizer: the live list of the deletion path is taken with the object already deleting, when
no implicit access is made any more. `CleanInv` follows the conditions through every patch, whose
base may be stale but is clean itself. `ResourceInv`: provenance `Created` means that no third
party's resource was under the name, and one that is not there when claimed is not a third party's
later.

### Service accounts

`CheckedInv` says that between reading the marker and the call that relies on it the account is
still ours or gone, because identities are never reused (`IdentityInv`) and nobody takes our marker
off; `KeyInv`, that every live key is of an account of ours. `LeftInv`: past the account's deletion
no account of ours is under the name while the parameter stays (`NameInv`), and a Buckety in that
place is not ensured again (`PhaseInv`). `BlockInv`: an access that the list could have seen holds
the teardown up. `NothingLeft` follows from `LeftInv` and `KeyInv`.

`KeyGoesWithAccess` has two halves. The key that status records is dead once the access is gone, by
`BlockInv` and `LeftInv`, except after a rename and for an access created while a retained Buckety
leaves. Any other live key (`Unrecorded`) is paid for: a step adds at most one to them, and only when
a call of it fails (`PaidNext`). The theorem does not say that no key survives its access; a failed
call can leave one, in this module and, call by call, in finding 2.

### Topics and buckets

KadmTopics: lemmas about `Entry`, `Put` and `Drop` show that exporting under a record keeps the
series a function of the record (`SeriesInv`), whichever of topic, key and source changed;
`ForgetInv` says what is owed to an object that is gone. `MemoryHonest` needs `CreateInv` (a topic
about to be created is not remembered), since creation resets every key. For `VerdictTrue`,
`OffsetInv`: start offsets only grow while the topic is the same one, so a start offset read
earlier that equals the end offset read later leaves no record between them.

ObjectStore: `StallInv` says that a pass which has come as far as the bucket call with nothing to
remove has removed nothing; `TeardownInv` and `KnobInv` say who can be at the calls of the two
operations. `Sound` keeps the generations well formed, with at most one live generation per name,
through overwrites, markers and resurfacing versions.

### MySQL

Accounts: `MemInv` is `MemoryHonest` in the middle of a pass, except while that pass changes the
account; it is restored by the verification, which is why `LoginInv` follows what the pass knows
of the account statement by statement. `AlignInv` and `RoleInv` do the same for the privileges:
the account is within the role from the revocation of the extra ones on, and the status says so
only after that. `StraysBounded` is a count: `CountInv` bounds the accounts no status names by the
faults so far, leaving out the one the running pass has created and still answers for; `GoneInv`
says that a host the status stops naming, or that goes with the finalizer, has no account left.

Breaker: `HoldInv` is `quiet + hold >= Cooldown(failures)`. `PacedInv` has a witness: the calls that
failed or may still fail are the workers' own when the breaker opened and `P` probes, and `P`
probes took `P * BreakerMin` ticks. `Cooldown` is the loop of `cooldown()`, `Schedule` the
published rule (double, then cap). That they agree for every number of failures is an induction
over the naturals; it is made with sets instead of an operator parameter (`LeastNumber`: a
nonempty set of naturals has a least element, from the finiteness of `0..n`; then `SetInduction`
and `Iteration`, which unfolds a recursive function), and so within the provers' reach.

### Only model-checked

All liveness (`DeletionCompletes`, `ServedEventually`, `ExplicitReplacesImplicit`, `Recovers`,
`Converges`, `GaugesCatchUp`, `TeardownCompletes`, `KnobsConverge`, `AccountBound`): fairness and
ENABLED are out of the prover's reach.

## 5. Findings

1. `access_lost_reply`: a Secret write that was applied but not answered counts as not written;
   the pass revokes the key the Secret now carries, and later passes reuse that dead key, because
   a key missing from the listing counts as usable.
2. `access_key_outlives`: when revoking the replaced key fails, status still names the old key and
   the Secret carries the new one. Deleting the access in that window revokes only the old one.
3. `mysql_writer_host`: refusing the Writer role drops the user under the configured `userHost`
   only; the account under a previous `userHost`, which status still names, stays.

Remarks, met while modelling, without a run of their own.

* The access deletion path (`bucketyaccess/reconciler.go:140`) does not compare the Buckety's
  stamped driver with the one the backend now runs, as the Buckety reconciler does. A backend name
  re-pointed at a driver whose `RevokeAccess` does nothing releases the finalizer and leaves the
  key alive (SPEC.md:1008). `access_keys` therefore never re-points from minting to shared.
* Provenance `Created` is stamped before `EnsureBuckety` has made anything
  (`buckety/reconciler.go:240`). A Buckety whose first ensure keeps failing, and which is then
  deleted, destroys what another Buckety of the same resource name made meanwhile (SPEC.md:958,
  992). `DestroysOnlyOwn` is about one Buckety and a third party.
* The deletion path returns before the driver-major check, so teardown runs under any major;
  `RightDriver` claims the major for EnsureBuckety only.
* mysql: `ServedEventually` leaves out `Overshadowed`: an account of a previous, more specific
  `userHost` whose password is not the Secret's denies the verification of every pass
  (`mysql/driver.go:292-310`), so no pass gets as far as dropping it; and one that a failed status
  patch left unrecorded shadows the new account for good. docs/mysql.md:193-195 says otherwise:
  "Changing `userHost` moves each access to a new account on its next reconcile, and the controller
  drops the old one". The exemption in the property is the place to look when that is mended.
* kadm: an alter that was applied although its answer was lost, or another client's change, makes
  the memory of an unreported key stale, and nothing repairs it before a restart or a new value;
  this is what `touched` exempts in `MemoryHonest` and `Converges`. An increase of partitions the
  broker refuses leaves Ready true; later passes ask again. Counter series of a previous topic of
  the same Buckety stay until it is gone.
* s3: InspectBuckety asks for one entry of the version listing (`s3/driver.go:146`), so a leading
  delete marker hides the noncurrent versions behind it and the bucket counts as empty, although
  its comment says they are content. `listVersionsPage` takes only the error code "NotImplemented"
  for a backend without versioning, InspectBuckety any status 501. Credentials that may not list
  adopt nothing, which is intended, and can delete nothing either, not even an empty bucket, unlike
  gcs, where an empty bucket is deleted without a listing.
* gcs: on a backend that keeps tombstones listed, a slice of nothing but tombstones makes no
  progress and is not reported as stalled; with a full slice of them live objects behind it are
  never reached. The model has no more generations than a slice holds on that backend, where it
  claims `TeardownCompletes`.
* gcs: an access created while a retained Buckety is leaving can be granted a key from the cached
  Ready Buckety; once that is gone the finalizer is released without a revocation and the key
  stays. `KeyGoesWithAccess` leaves out exactly this case (`late`, Retain); with Delete the keys
  go with the account. A renamed `serviceAccount` (webhook off, or a changed backend default)
  leaves the old account behind (`renamed`).

## 6. What is not modelled, and why

* Messages, events, logs, jitter and durations: no property depends on them; rechecks are
  fairness. Metrics only where kadm keeps a record of them.
* The Reconciling condition, the drift gauge and the patience for propagating principals.
* CEL rules, and the webhook beyond the question whether an immutable parameter can change: the
  rest is stateless validation that the reconcilers repeat.
* gcs and s3: labels, uniform access, soft delete and jurisdiction, which behave like the
  parameters that are modelled; the worker pool that deletes a slice, whose order cannot be
  observed; Secret payloads and endpoints.
* mysql: databases (created and dropped in one statement each), name and password rules.
* Name templates and parameter merging beyond whether they resolve, lifecycle documents, configuration decoding: string and JSON
  handling without state or branching that a model would add anything to over the table tests.
* `cmd/buckety`, schema generation, generated code, manifests and end-to-end scripts.

## 7. Plan

Done, in this order because a lost or leaked credential and a destroyed resource are the worst
this controller can do: AccessReconciler with its proofs, BucketyReconciler, MySQLBreaker,
MySQLAccounts; then KadmTopics, ObjectStore, ServiceAccounts (which is also where the two
reconcilers meet), Credential and its refinement; then the proofs of section 4. Next:

1. An abstract specification of what the Buckety reconciler promises about a backend resource
   (claimed once, worked on under the claim, destroyed only by its claimant), and the proof that
   BucketyReconciler implements it, as AccessReconciler does Credential.
2. `"bkyGoes" \notin Env` as a consequence of `AccessesBlockTeardown` instead of a hypothesis, in a
   module that composes the two reconcilers.
