--------------------------- MODULE AccessReconciler ---------------------------
(***************************************************************************)
(* The BucketyAccess reconciler (pkg/controller/bucketyaccess) against the *)
(* API server, the credentials Secrets and a driver that mints one live    *)
(* credential per access (gcs service account keys).                       *)
(*                                                                         *)
(* One pass is in flight at a time (one worker per controller).  A pass    *)
(* is cut at every call it makes, so users, the garbage collector, the     *)
(* informers and a crash interleave between any two calls.                 *)
(*                                                                         *)
(* Abstractions.  A resourceVersion comparison is a comparison of object   *)
(* contents: equal contents under different versions would be refused by   *)
(* the code, a refusal the fault "write" also allows.  A condition is its  *)
(* reason; "SecretMinted" is the one that makes the access Ready.  Roles,  *)
(* parameters and Secret payloads other than the key are left out: Invalid *)
(* has the generations of a spec whose parameters are refused.             *)
(***************************************************************************)
EXTENDS Naturals, FiniteSets

CONSTANTS
    Access,      \* BucketyAccess objects, one per UID, each created at most once
    Secret,      \* names of Secrets
    SecretOf,    \* spec.credentialsSecretName of each access (immutable)
    Key,         \* key ids the backend hands out, each at most once
    Invalid,     \* generations whose parameters the driver refuses
    Drivers,     \* what the backend name may resolve to across restarts
    Env,         \* the disturbances that may happen
    MaxFaults,   \* bound: how many counted faults a behaviour has
    MaxGen       \* bound: metadata.generation

Foreign == "foreign"                        \* owner of a Secret nobody here wrote
Principal == Key \cup {"", "static"}        \* status.principal
Payload == Principal \cup {"edited"}        \* the key a Secret carries
Phase == {"none", "live", "deleting", "gone"}
Reason == {"", "BackendUnavailable", "BucketyNotFound", "WaitingForBuckety",
           "InvalidParameters", "SecretConflict", "GrantFailed",
           "SecretWriteFailed", "RevokeFailed", "SecretMinted"}
PC == {"idle", "report", "addFinalizer", "deleteRevoke", "release",
       "readSecret", "grant", "writeSecret", "unmint", "revokeOld", "commit"}

\* "minting" is gcs with serviceAccounts; "static" is every driver whose
\* principal is shared and whose RevokeAccess does nothing; "absent" is a
\* backend name that is not in buckety-controller.yaml.
Driver == {"minting", "static", "absent"}

Disturbance == {"lag", "crash", "revoke", "read", "write", "grant", "patch",
                "lostReply", "expiry", "secretDelete", "secretEdit", "foreign", "bkyWaits",
                "bkyGoes", "namespace"}

ASSUME ConstantsAssumption ==
    /\ SecretOf \in [Access -> Secret]
    /\ Drivers \subseteq Driver /\ Drivers # {}
    /\ Env \subseteq Disturbance
    /\ "" \notin Key /\ "static" \notin Key /\ "edited" \notin Key
    /\ "" \notin Access /\ Foreign \notin Access

ASSUME BoundsAssumption ==
    MaxFaults \in Nat /\ MaxGen \in Nat \ {0} /\ Invalid \subseteq 1..MaxGen

VARIABLES
    obj,         \* the BucketyAccess objects in the API server
    cache,       \* the informer's copy of each
    secret,      \* the Secrets in the API server
    live,        \* keys that exist in the backend
    expired,     \* keys past their validity time (listed as expired)
    holder,      \* holder[k]: the access key k was minted for
    bky,         \* the Buckety as this controller's cache has it
    driver,      \* what the Buckety's backend resolves to in this process
    seen,        \* cadence.Startup: accesses this process has passed over once
    pc, cur,     \* the pass in flight: next call, and the access it is about
    snap,        \* ... the cached access it works on
    read,        \* ... the Secret as its live read returned it
    res,         \* ... the driver's GrantResult
    why,         \* ... the reason it is about to put on status
    faults       \* counted faults so far

pass == <<pc, cur, snap, read, res, why>>
backend == <<live, expired, holder>>
vars == <<obj, cache, secret, live, expired, holder, bky, driver, seen,
          pc, cur, snap, read, res, why, faults>>

NoObj == [phase |-> "none", fin |-> FALSE, principal |-> "", revocable |-> FALSE,
          cond |-> "", gen |-> 0, observed |-> 0]
NewObj == [NoObj EXCEPT !.phase = "live", !.gen = 1]
NoSecret == [owner |-> "", key |-> ""]
NoGrant == [principal |-> "", revocable |-> FALSE, minted |-> FALSE]

Object == [phase : Phase, fin : BOOLEAN, principal : Principal, revocable : BOOLEAN,
           cond : Reason, gen : 0..MaxGen, observed : 0..MaxGen]
SecretObject == [owner : Access \cup {"", Foreign}, key : Payload]
Grant == [principal : Principal, revocable : BOOLEAN, minted : BOOLEAN]

TypeOK ==
    /\ obj \in [Access -> Object]
    /\ cache \in [Access -> Object]
    /\ secret \in [Secret -> SecretObject]
    /\ live \subseteq Key
    /\ expired \subseteq Key
    /\ holder \in [Key -> Access \cup {""}]
    /\ bky \in {"missing", "waiting", "ready"}
    /\ driver \in Driver
    /\ seen \subseteq Access
    /\ pc \in PC
    /\ cur \in Access \cup {""}
    /\ snap \in Object
    /\ read \in SecretObject
    /\ res \in Grant
    /\ why \in Reason
    /\ faults \in 0..MaxFaults

Exists(a) == obj[a].phase \in {"live", "deleting"}
Fresh == {k \in Key : holder[k] = ""}
Fault(kind) == kind \in Env /\ faults < MaxFaults /\ faults' = faults + 1

-----------------------------------------------------------------------------
(* Moving the pass along. *)

Goto(step) == pc' = step /\ UNCHANGED <<cur, snap, read, res, why>>
Report(reason) ==
    pc' = "report" /\ why' = reason /\ UNCHANGED <<cur, snap, read, res>>
Done ==
    /\ pc' = "idle" /\ cur' = "" /\ snap' = NoObj /\ read' = NoSecret
    /\ res' = NoGrant /\ why' = ""

\* client.MergeFrom(base): the patch carries the fields that differ from the
\* pass's own snapshot, and leaves the others as the server has them.
MergePatch(current, base, new) ==
    LET f(field) == IF new[field] # base[field] THEN new[field] ELSE current[field]
    IN  [current EXCEPT !.principal = f("principal"), !.revocable = f("revocable"),
                        !.cond = f("cond"), !.observed = f("observed")]

\* patchStatus: no optimistic lock, NotFound once the object is gone.
PatchStatus(new) ==
    IF Exists(cur)
    THEN obj' = [obj EXCEPT ![cur] = MergePatch(@, snap, new)]
    ELSE UNCHANGED obj

\* RevokeAccess: deletes the key a minting driver recorded, idempotently; a
\* driver with shared principals does nothing.
RevokeAccess(principal) ==
    IF driver = "minting" THEN live \ {principal} ELSE live

-----------------------------------------------------------------------------
(* Reconcile, from its cached reads to the first call with an effect. *)

\* The access is being deleted and still has our finalizer.
\* (Mutant: a missing backend blocks accesses with shared principals too.)
NextOnDeleteBlocksStatic(o) ==
    CASE bky = "missing" -> "release"
      [] bky # "missing" /\ driver = "absent" -> "report"
      [] OTHER -> "deleteRevoke"
NextOnDelete(o) ==
    CASE bky = "missing" -> "release"
      [] bky # "missing" /\ driver = "absent" /\ o.revocable -> "report"
      [] bky # "missing" /\ driver = "absent" /\ ~o.revocable -> "release"
      [] OTHER -> "deleteRevoke"

NextOnLive(o) ==
    IF ~o.fin THEN "addFinalizer"
    ELSE IF bky # "ready" \/ driver = "absent" \/ o.gen \in Invalid THEN "report"
    ELSE "readSecret"

ReasonToReport(o) ==
    CASE o.phase = "deleting" -> "BackendUnavailable"
      [] o.phase # "deleting" /\ bky = "missing" -> "BucketyNotFound"
      [] o.phase # "deleting" /\ bky = "waiting" -> "WaitingForBuckety"
      [] o.phase # "deleting" /\ bky = "ready" /\ driver = "absent" -> "BackendUnavailable"
      [] OTHER -> "InvalidParameters"

\* A pass whose cached status.principal is not the one the API server has is
\* a counted fault: the informer has fallen behind the controller's own patch.
BeginPass(a) ==
    LET o == cache[a]
        step == IF o.phase = "deleting" THEN NextOnDelete(o) ELSE NextOnLive(o)
    IN  /\ pc = "idle"
        /\ o.phase \in {"live", "deleting"}
        /\ o.phase = "deleting" => o.fin
        /\ o # obj[a] => "lag" \in Env
        /\ IF o.principal = obj[a].principal THEN UNCHANGED faults ELSE Fault("lag")
        /\ pc' = step /\ cur' = a /\ snap' = o
        /\ why' = IF step = "report" THEN ReasonToReport(o) ELSE ""
        /\ UNCHANGED <<obj, cache, secret, backend, bky, driver, seen, read, res>>

\* The cached Get answers NotFound: only the start-up memory is dropped.
ForgetPass(a) ==
    /\ pc = "idle"
    /\ cache[a].phase \in {"none", "gone"} /\ a \in seen
    /\ seen' = seen \ {a}
    /\ UNCHANGED <<obj, cache, secret, backend, bky, driver, pass, faults>>

\* Every branch that ends by putting a reason on Ready.
ReportStatus ==
    /\ pc = "report"
    /\ \/ PatchStatus([snap EXCEPT !.cond = why]) /\ UNCHANGED faults
       \/ Fault("patch") /\ UNCHANGED obj
    /\ Done
    /\ UNCHANGED <<cache, secret, backend, bky, driver, seen>>

\* Patch without lock; a deleting object without finalizers does not exist.
AddFinalizer ==
    /\ pc = "addFinalizer"
    /\ \/ /\ obj' = IF obj[cur].phase = "live" THEN [obj EXCEPT ![cur].fin = TRUE] ELSE obj
          /\ UNCHANGED faults
       \/ Fault("patch") /\ UNCHANGED obj
    /\ Done
    /\ UNCHANGED <<cache, secret, backend, bky, driver, seen>>

-----------------------------------------------------------------------------
(* The deletion path. *)

DeleteRevoke ==
    /\ pc = "deleteRevoke"
    /\ \/ live' = RevokeAccess(snap.principal) /\ Goto("release") /\ UNCHANGED faults
       \/ Fault("revoke") /\ Done /\ UNCHANGED live
    /\ UNCHANGED <<obj, cache, secret, expired, holder, bky, driver, seen>>

\* Update under the snapshot's resourceVersion; a conflict ends the pass.
\* (Mutant: a patch instead of the locked Update.)
ReleaseFinalizerUnlocked ==
    /\ pc = "release"
    /\ obj' = [obj EXCEPT ![cur].phase = "gone", ![cur].fin = FALSE]
    /\ Done
    /\ UNCHANGED <<cache, secret, backend, bky, driver, seen, faults>>
ReleaseFinalizer ==
    /\ pc = "release"
    /\ \/ /\ obj' = IF obj[cur] = snap
                    THEN [obj EXCEPT ![cur].phase = "gone", ![cur].fin = FALSE]
                    ELSE obj
          /\ UNCHANGED faults
       \/ Fault("write") /\ UNCHANGED obj
    /\ Done
    /\ UNCHANGED <<cache, secret, backend, bky, driver, seen>>

-----------------------------------------------------------------------------
(* The grant path. *)

Settled(o, s) == s.owner # "" /\ o.observed = o.gen /\ o.cond = "SecretMinted"

\* Live read of the Secret: the conflict gate, then Startup.Defer.
\* (Mutant: a deferred access is not marked as seen.)
ReadSecretDefersAgain ==
    /\ pc = "readSecret"
    /\ LET s == secret[SecretOf[cur]] IN
       \/ /\ s.owner \notin {"", cur}
          /\ Report("SecretConflict") /\ UNCHANGED <<seen, faults>>
       \/ /\ s.owner \in {"", cur} /\ Settled(snap, s) /\ cur \notin seen
          /\ Done /\ UNCHANGED <<seen, faults>>
       \/ /\ s.owner \in {"", cur} /\ ~(Settled(snap, s) /\ cur \notin seen)
          /\ pc' = "grant" /\ read' = s /\ UNCHANGED <<cur, snap, res, why>>
          /\ seen' = seen \cup {cur} /\ UNCHANGED faults
    /\ UNCHANGED <<obj, cache, secret, backend, bky, driver>>
ReadSecret ==
    /\ pc = "readSecret"
    /\ LET s == secret[SecretOf[cur]] IN
       \/ /\ s.owner \notin {"", cur}
          /\ Report("SecretConflict") /\ UNCHANGED <<seen, faults>>
       \/ /\ s.owner \in {"", cur}
          /\ IF Settled(snap, s) /\ cur \notin seen
             THEN Done
             ELSE pc' = "grant" /\ read' = s /\ UNCHANGED <<cur, snap, res, why>>
          /\ seen' = seen \cup {cur} /\ UNCHANGED faults
       \/ Fault("read") /\ Done /\ UNCHANGED seen
    /\ UNCHANGED <<obj, cache, secret, backend, bky, driver>>

\* ensureAccessKey: the key in the Secret is reused unless it does not parse
\* or is listed as expired.  A key missing from the listing is reused.
Reusable(s) == s.key \in Key /\ s.key \notin expired

Granted(principal, revocable, minted) ==
    /\ pc' = "writeSecret"
    /\ res' = [principal |-> principal, revocable |-> revocable, minted |-> minted]
    /\ UNCHANGED <<cur, snap, read, why>>

Mint(k) ==
    /\ live' = live \cup {k}
    /\ holder' = [holder EXCEPT ![k] = cur]

\* A failed call may have had its effect: Keys.Create whose answer is lost, or
\* whose key does not decode, leaves a key that nobody knows of.
GrantAccess ==
    /\ pc = "grant"
    /\ \/ /\ driver = "static" /\ Granted("static", FALSE, FALSE)
          /\ UNCHANGED <<backend, faults>>
       \/ /\ driver = "minting" /\ Reusable(read) /\ Granted(read.key, TRUE, FALSE)
          /\ UNCHANGED <<backend, faults>>
       \/ /\ driver = "minting" /\ ~Reusable(read)
          /\ \E k \in Fresh : Mint(k) /\ Granted(k, TRUE, TRUE)
          /\ UNCHANGED <<expired, faults>>
       \/ /\ driver = "minting" /\ ~Reusable(read) /\ Fresh = {}
          /\ Report("GrantFailed")
          /\ UNCHANGED <<backend, faults>>
       \/ Fault("grant") /\ Report("GrantFailed") /\ UNCHANGED backend
       \/ /\ driver = "minting" /\ ~Reusable(read) /\ Fault("grant") /\ Report("GrantFailed")
          /\ \E k \in Fresh : Mint(k)
          /\ UNCHANGED expired
    /\ UNCHANGED <<obj, cache, secret, bky, driver, seen>>

\* (Mutant: the controller reference names the Secret itself.)
DesiredOwnsItself == [owner |-> SecretOf[cur], key |-> res.principal]
Desired == [owner |-> cur, key |-> res.principal]

\* writeSecret: Create when the read found nothing, nothing when nothing
\* changed, otherwise Update under the read's resourceVersion.
\* (Mutant: the update is not conditional on the resourceVersion read.)
WriteSucceedsUnlocked ==
    \/ read = NoSecret /\ secret[SecretOf[cur]] = NoSecret
    \/ read # NoSecret
WriteSucceeds ==
    \/ read = NoSecret /\ secret[SecretOf[cur]] = NoSecret
    \/ read # NoSecret /\ read = Desired
    \/ read # NoSecret /\ read # Desired /\ secret[SecretOf[cur]] = read
SkipsWrite == read # NoSecret /\ read = Desired
WriteApplied ==
    secret' = IF SkipsWrite THEN secret ELSE [secret EXCEPT ![SecretOf[cur]] = Desired]

\* (Mutant: the recorded principal is revoked although it is the one just
\* written.)
AfterWriteRevokesCurrent ==
    Goto(IF snap.principal # "" THEN "revokeOld" ELSE "commit")
AfterWrite ==
    Goto(IF snap.principal \notin {"", res.principal} THEN "revokeOld" ELSE "commit")

\* (Mutant: the credential minted for a failed write is left behind.)
FailedWriteKeepsKey == Report("SecretWriteFailed")
\* The namespace is terminating: the pass ends without a status.
FailedWrite ==
    \/ res.minted /\ res.revocable /\ Goto("unmint")
    \/ ~(res.minted /\ res.revocable) /\ Report("SecretWriteFailed")
    \/ ~(res.minted /\ res.revocable) /\ "namespace" \in Env /\ Done

WriteSecret ==
    /\ pc = "writeSecret"
    /\ \/ WriteSucceeds /\ WriteApplied /\ AfterWrite /\ UNCHANGED faults
       \/ ~WriteSucceeds /\ FailedWrite /\ UNCHANGED <<secret, faults>>
       \/ ~SkipsWrite /\ Fault("write") /\ FailedWrite /\ UNCHANGED secret
       \/ /\ WriteSucceeds /\ ~SkipsWrite /\ Fault("lostReply")
          /\ WriteApplied /\ FailedWrite
    /\ UNCHANGED <<obj, cache, backend, bky, driver, seen>>

\* The credential of a failed write, revoked with best effort.
\* (Mutant: the recorded credential is revoked instead of the minted one.)
UnmintRecorded ==
    /\ pc = "unmint"
    /\ live' = RevokeAccess(snap.principal) /\ UNCHANGED faults
    /\ Report("SecretWriteFailed")
    /\ UNCHANGED <<obj, cache, secret, expired, holder, bky, driver, seen>>
Unmint ==
    /\ pc = "unmint"
    /\ \/ live' = RevokeAccess(res.principal) /\ UNCHANGED faults
       \/ Fault("revoke") /\ UNCHANGED live
    /\ \/ Report("SecretWriteFailed")
       \/ "namespace" \in Env /\ Done
    /\ UNCHANGED <<obj, cache, secret, expired, holder, bky, driver, seen>>

\* The credential the Secret carried before, revoked once the Secret carries
\* its successor.
RevokeOld ==
    /\ pc = "revokeOld"
    /\ \/ live' = RevokeAccess(snap.principal) /\ Goto("commit") /\ UNCHANGED faults
       \/ Fault("revoke") /\ Report("RevokeFailed") /\ UNCHANGED live
    /\ UNCHANGED <<obj, cache, secret, expired, holder, bky, driver, seen>>

Commit ==
    /\ pc = "commit"
    /\ \/ /\ PatchStatus([snap EXCEPT !.principal = res.principal,
                                      !.revocable = res.revocable,
                                      !.cond = "SecretMinted",
                                      !.observed = snap.gen])
          /\ UNCHANGED faults
       \/ Fault("patch") /\ UNCHANGED obj
    /\ Done
    /\ UNCHANGED <<cache, secret, backend, bky, driver, seen>>

-----------------------------------------------------------------------------
(* The environment: informer, users, garbage collector, process. *)

Sync(a) ==
    /\ cache[a] # obj[a]
    /\ cache' = [cache EXCEPT ![a] = obj[a]]
    /\ UNCHANGED <<obj, secret, backend, bky, driver, seen, pass, faults>>

UserCreates(a) ==
    /\ obj[a].phase = "none"
    /\ obj' = [obj EXCEPT ![a] = NewObj]
    /\ UNCHANGED <<cache, secret, backend, bky, driver, seen, pass, faults>>

UserEdits(a) ==
    /\ Exists(a) /\ obj[a].gen < MaxGen
    /\ obj' = [obj EXCEPT ![a].gen = @ + 1]
    /\ UNCHANGED <<cache, secret, backend, bky, driver, seen, pass, faults>>

UserDeletes(a) ==
    /\ obj[a].phase = "live"
    /\ obj' = [obj EXCEPT ![a].phase = IF obj[a].fin THEN "deleting" ELSE "gone"]
    /\ UNCHANGED <<cache, secret, backend, bky, driver, seen, pass, faults>>

\* A Secret is deleted or edited by hand, created by someone else, or
\* collected after the access that controls it.
SecretChanges(s) ==
    /\ \/ /\ "secretDelete" \in Env /\ secret[s] # NoSecret
          /\ secret' = [secret EXCEPT ![s] = NoSecret]
       \/ /\ "secretEdit" \in Env /\ secret[s].owner \in Access
          /\ secret' = [secret EXCEPT ![s].key = "edited"]
       \/ /\ "foreign" \in Env /\ secret[s] = NoSecret
          /\ secret' = [secret EXCEPT ![s] = [owner |-> Foreign, key |-> "edited"]]
    /\ UNCHANGED <<obj, cache, backend, bky, driver, seen, pass, faults>>

CollectSecret(s) ==
    /\ secret[s].owner \in Access /\ obj[secret[s].owner].phase = "gone"
    /\ secret' = [secret EXCEPT ![s] = NoSecret]
    /\ UNCHANGED <<obj, cache, backend, bky, driver, seen, pass, faults>>

KeyExpires(k) ==
    /\ "expiry" \in Env /\ k \in live \ expired
    /\ expired' = expired \cup {k}
    /\ UNCHANGED <<obj, cache, secret, live, holder, bky, driver, seen, pass, faults>>

\* The Buckety as the cache shows it.  Its own finalizer keeps it while an
\* access exists; "bkyGoes" drops that guarantee.
BucketyChanges ==
    /\ \/ bky # "ready" /\ bky' = "ready"
       \/ "bkyWaits" \in Env /\ bky' = "waiting" /\ bky # "waiting"
       \/ /\ bky # "missing" /\ bky' = "missing"
          /\ "bkyGoes" \in Env \/ \A a \in Access : ~Exists(a)
    /\ UNCHANGED <<obj, cache, secret, backend, driver, seen, pass, faults>>

\* A crash drops the pass and the start-up memory; the new process lists
\* every object and may run with another buckety-controller.yaml.
Restart ==
    /\ Fault("crash")
    /\ driver' \in Drivers
    /\ cache' = obj
    /\ seen' = {}
    /\ Done
    /\ UNCHANGED <<obj, secret, backend, bky>>

-----------------------------------------------------------------------------

Init ==
    /\ obj = [a \in Access |-> NoObj]
    /\ cache = [a \in Access |-> NoObj]
    /\ secret = [s \in Secret |-> NoSecret]
    /\ live = {} /\ expired = {}
    /\ holder = [k \in Key |-> ""]
    /\ bky = "missing"
    /\ driver \in Drivers
    /\ seen = {}
    /\ pc = "idle" /\ cur = "" /\ snap = NoObj /\ read = NoSecret
    /\ res = NoGrant /\ why = ""
    /\ faults = 0

PassStep ==
    \/ ReportStatus \/ AddFinalizer
    \/ DeleteRevoke \/ ReleaseFinalizer
    \/ ReadSecret \/ GrantAccess \/ WriteSecret \/ Unmint \/ RevokeOld \/ Commit

UserStep ==
    \/ \E a \in Access : UserCreates(a) \/ UserEdits(a) \/ UserDeletes(a)
    \/ \E s \in Secret : SecretChanges(s)

Next ==
    \/ PassStep
    \/ \E a \in Access : BeginPass(a) \/ ForgetPass(a) \/ Sync(a)
    \/ UserStep
    \/ \E s \in Secret : CollectSecret(s)
    \/ \E k \in Key : KeyExpires(k)
    \/ BucketyChanges
    \/ Restart

Spec == Init /\ [][Next]_vars

\* The manager keeps reconciling (watch events, the recheck cadence and the
\* workqueue's retries are FIFO over the accesses), informers and the garbage
\* collector catch up, and a user gives an access a chance to exist.
Fairness ==
    /\ WF_vars(PassStep)
    /\ \A a \in Access : SF_vars(BeginPass(a)) /\ WF_vars(Sync(a))
    /\ \A s \in Secret : WF_vars(CollectSecret(s))

FairSpec == Spec /\ Fairness

-----------------------------------------------------------------------------
(* Properties. *)

\* While an access is not being deleted, a key its Secret carries exists in
\* the backend: whatever the informer lag, crashes, failed calls and retries,
\* the controller never revokes the credential consumers are reading
\* (the write-then-revoke order, and the revocation of a failed write).
SecretKeyNotRevoked ==
    \A a \in Access :
        LET s == secret[SecretOf[a]] IN
        obj[a].phase = "live" /\ s.owner = a /\ s.key \in Key => s.key \in live

Accounted(k) ==
    LET a == holder[k] IN
    \/ secret[SecretOf[a]] = [owner |-> a, key |-> k]
    \/ Exists(a) /\ obj[a].principal = k
    \/ pc # "idle" /\ cur = a /\ res.principal = k

Orphans == {k \in live : ~Accounted(k)}

\* A live key that no Secret carries, no status names and no pass holds is
\* the trace of a counted fault (a crash, a failed revocation, status patch or
\* grant, a pass on a stale principal), and each fault leaves at most one:
\* refused and conflicting Secret writes leak none.  Between passes an access has one
\* live key, and one more per fault: it does not walk into the backend's cap
\* of ten keys per service account.
KeysAccountedFor ==
    /\ Cardinality(Orphans) <= faults
    /\ pc = "idle" =>
          \A a \in Access : Cardinality({k \in live : holder[k] = a}) <= 1 + faults

\* An access leaves the API server only after the key its final status names
\* has been revoked, although the revocation used a cached, possibly older
\* status: the finalizer goes under that status's resourceVersion.
ReleasedAfterRevocation ==
    \A a \in Access :
        obj[a].phase = "gone" /\ obj[a].principal \in Key => obj[a].principal \notin live

\* A pass replaces a Secret only in the very state its live read saw: foreign
\* Secrets, Secrets of other accesses and edits made after the read survive.
NoSecretOverwritten ==
    [][PassStep => \A s \in Secret :
            secret'[s] # secret[s] => secret[s] = read /\ secret[s].owner \in {"", cur}]_vars

\* No credential outlives its access: once a BucketyAccess is gone the backend
\* has none of the keys minted for it.
NoKeyOutlivesAccess ==
    \A k \in live : obj[holder[k]].phase # "gone"

\* The key a consumer of access a can read from its Secret.
Delivered(a) ==
    LET s == secret[SecretOf[a]] IN
    IF obj[a].phase = "live" /\ s.owner = a /\ s.key \in Key THEN s.key ELSE ""

\* The reconciler implements Credential: through every interleaving of its
\* calls with users, informers and crashes, a Secret is given only a working
\* key that was minted for its own access, and RevokeAccess is called only on
\* keys that no consumer reads.
Credentials == INSTANCE Credential WITH
    Client <- Access, None <- "", delivered <- [a \in Access |-> Delivered(a)]
ImplementsCredential == Credentials!Spec

\* A deleted access goes away, whatever crash, failed call or reconfiguration
\* came before, unless there is a credential to revoke and the backend that
\* would revoke it is not configured.
DeletionCompletes ==
    \A a \in Access :
        []<>(obj[a].phase # "deleting" \/ (driver = "absent" /\ obj[a].revocable))

\* An access that can be served is: again and again it is Ready with a Secret
\* carrying the very credential its status names, unless the Buckety is not
\* ready, the backend not configured or out of the key it needs, the parameters refused,
\* the Secret somebody else's or the access on its way out.
Converged(a) ==
    /\ obj[a].cond = "SecretMinted" /\ obj[a].principal # ""
    /\ secret[SecretOf[a]] = [owner |-> a, key |-> obj[a].principal]
Unserved(a) ==
    \/ obj[a].phase # "live" \/ bky # "ready" \/ obj[a].gen \in Invalid
    \/ driver = "absent" \/ (driver = "minting" /\ Fresh = {} /\ ~Reusable(secret[SecretOf[a]]))
    \/ secret[SecretOf[a]].owner \notin {"", a}
ServedEventually == \A a \in Access : []<>(Converged(a) \/ Unserved(a))
=============================================================================
