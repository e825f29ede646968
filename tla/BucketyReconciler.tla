-------------------------- MODULE BucketyReconciler --------------------------
(***************************************************************************)
(* The Buckety reconciler (pkg/controller/buckety): finalizer, adoption    *)
(* gate and sticky stamp, driver compatibility, EnsureBuckety, the         *)
(* implicit access, and teardown, against an API server, two informers, a  *)
(* backend that third parties use too, and restarts that change the        *)
(* configuration or the binary.                                            *)
(*                                                                         *)
(* One pass is in flight at a time, cut at every call it makes.  The       *)
(* BucketyAccess controller is the environment here: an implicit access    *)
(* that is being deleted goes away once its finalizer has run.             *)
(*                                                                         *)
(* Abstractions.  A resourceVersion comparison is a comparison of object   *)
(* contents (a refusal of equal contents is covered by the fault "write"). *)
(* Conditions are the reason on Ready and the set of other conditions that *)
(* are True; Reconciling, messages and roles are left out.  BadName has    *)
(* the drivers that refuse the resolved name.  A spec's parameters are     *)
(* good, invalid, or templated: they name a ${backend.X}, which resolves   *)
(* where the driver takes templates and the backend has the default.       *)
(***************************************************************************)
EXTENDS Naturals

CONSTANTS
    Buckety,            \* Buckety objects, one per UID, each created at most once
    Resource,           \* backend resource names
    ResourceOf,         \* the name spec.name resolves to
    BadName,            \* drivers that refuse the resolved names
    Access,             \* explicit BucketyAccess objects
    RefOf,              \* spec.bucketyRef of each explicit access
    Specs,              \* the specs users write
    Backends,           \* what the backend name resolves to across restarts
    DeletionRequeue,    \* seconds, deletebackoff.go
    DeletionRequeueCap, \* seconds, deletebackoff.go
    Env,                \* the disturbances that may happen
    MaxFaults,          \* bound: counted faults
    MaxGen,             \* bound: metadata.generation
    MaxContent          \* bound: units of content in a backend resource

Absent == [driver |-> "", major |-> 0, build |-> 0, defaults |-> FALSE]  \* not in buckety-controller.yaml
ThirdParty == "third party"
ObjectStore == {"gcs", "s3"}                          \* drivers that delete in slices
Templating == {"gcs"}                                 \* ... with TemplatedParameters
Ready == "EnsuredOnBackend"
Reason == {"", "BackendUnavailable", "NameTemplate", "InspectFailed",
           "BackendResourceExists", "DriverVersionIncompatible",
           "ParameterTemplate", "InvalidParameters", "ParameterDrift", "Provisioning",
           "EnsureFailed",
           "RevokingAccesses", "DeletingContents", "DeleteFailed", Ready}
Flag == {"BackendUnavailable", "DriverVersionIncompatible", "ParameterDrift",
         "BlockedByAccesses"}
Disturbance == {"lag", "stale", "crash", "write", "patch", "read", "inspect", "ensure", "delete",
                "stall", "denied", "third", "writer"}
PC == {"idle", "report", "addFinalizer", "inspect", "stamp", "ensure", "implicit",
       "list", "dropImplicit", "deleteBackend", "release"}

Driver == {b.driver : b \in Backends} \cup {""}
Major == {b.major : b \in Backends} \cup {0}
Build == {b.build : b \in Backends} \cup {0}
Provenance == {"", "Created", "Adopted"}
SecretName == {s.want : s \in Specs} \cup {"none"}
SpecValue == Specs \cup {[policy |-> "Retain", adoption |-> "AdoptEmpty",
                      want |-> "none", params |-> "good"]}

ASSUME ConstantsAssumption ==
    /\ ResourceOf \in [Buckety -> Resource]
    /\ BadName \subseteq STRING
    /\ RefOf \in [Access -> Buckety]
    /\ Specs \subseteq [policy : {"Retain", "Delete"}, adoption : {"AdoptEmpty", "Adopt"},
                        want : STRING, params : {"good", "invalid", "templated"}]
    /\ Specs # {}
    /\ Backends \subseteq [driver : STRING, major : Nat, build : Nat, defaults : BOOLEAN]
    /\ Backends # {}
    /\ DeletionRequeue \in Nat \ {0}
    /\ DeletionRequeueCap \in Nat /\ DeletionRequeue <= DeletionRequeueCap
    /\ Env \subseteq Disturbance
    /\ MaxFaults \in Nat /\ MaxGen \in Nat \ {0} /\ MaxContent \in Nat
    /\ {"", ThirdParty} \cap Buckety = {}

VARIABLES
    obj,        \* the Buckety objects in the API server
    cache,      \* the informer's copy of each
    implicit,   \* the implicit access of each Buckety, as the API server has it
    explicit,   \* the explicit accesses that exist
    listed,     \* the access informer's copy of <<implicit, explicit>>
    res,        \* the backend resources
    running,    \* what the backend name resolves to in this process
    seen,       \* cadence.Startup
    delay,      \* deletionBackoff: the delay per Buckety, 0 when there is none
    pc, cur,    \* the pass in flight: next call, and its Buckety
    base, mem,  \* ... the cached object it started from, and its working copy
    lock,       \* ... what Status().Update returned, NoObj if it stamped nothing
    prov,       \* ... the adoption gate's decision
    pace,       \* ... what the teardown slice reported
    bound,      \* history: accesses that existed when deletion was requested
    faults      \* counted faults so far

accesses == <<implicit, explicit, listed>>
pass == <<pc, cur, base, mem, lock, prov, pace>>
vars == <<obj, cache, implicit, explicit, listed, res, running, seen, delay,
          pc, cur, base, mem, lock, prov, pace, bound, faults>>

NoSpec == [policy |-> "Retain", adoption |-> "AdoptEmpty", want |-> "none", params |-> "good"]
NoObj == [phase |-> "none", fin |-> FALSE, gen |-> 0, spec |-> NoSpec,
          driver |-> "", major |-> 0, build |-> 0, prov |-> "",
          conds |-> [ready |-> "", on |-> {}], observed |-> 0]
NoImplicit == [phase |-> "none", secret |-> "none"]
NoResource == [exists |-> FALSE, content |-> 0, origin |-> ""]

Object == [phase : {"none", "live", "deleting", "gone"}, fin : BOOLEAN,
           gen : 0..MaxGen, spec : SpecValue, driver : Driver, major : Major,
           build : Build, prov : Provenance,
           conds : [ready : Reason, on : SUBSET Flag], observed : 0..MaxGen]
Implicit == [phase : {"none", "live", "deleting"}, secret : SecretName]

TypeOK ==
    /\ obj \in [Buckety -> Object]
    /\ cache \in [Buckety -> Object]
    /\ implicit \in [Buckety -> Implicit]
    /\ explicit \subseteq Access
    /\ listed \in [implicit : [Buckety -> Implicit], explicit : SUBSET Access]
    /\ res \in [Resource -> [exists : BOOLEAN, content : 0..MaxContent,
                             origin : Buckety \cup {"", ThirdParty}]]
    /\ running \in Backends
    /\ seen \subseteq Buckety
    /\ delay \in [Buckety -> 0..DeletionRequeueCap]
    /\ pc \in PC
    /\ cur \in Buckety \cup {""}
    /\ base \in Object /\ mem \in Object /\ lock \in Object
    /\ prov \in Provenance
    /\ pace \in {"", "progress", "stalled"}
    /\ bound \in [Buckety -> SUBSET Access]
    /\ faults \in 0..MaxFaults

Exists(b) == obj[b].phase \in {"live", "deleting"}
Stamped(o) == o.driver # ""
Fault(kind) == kind \in Env /\ faults < MaxFaults /\ faults' = faults + 1

-----------------------------------------------------------------------------
(* Moving the pass along. *)

Done ==
    /\ pc' = "idle" /\ cur' = "" /\ base' = NoObj /\ mem' = NoObj /\ lock' = NoObj
    /\ prov' = "" /\ pace' = ""
Goto(step) == pc' = step /\ UNCHANGED <<cur, base, mem, lock, prov, pace>>

\* Ready=False under a reason, with other conditions set True.
Surfaced(o, reason, flags) ==
    [o EXCEPT !.conds = [ready |-> reason, on |-> @.on \cup flags]]
Report(o) == pc' = "report" /\ mem' = o /\ UNCHANGED <<cur, base, lock, prov, pace>>

\* client.MergeFrom(base).  The conditions array is replaced as a whole.
MergePatch(current, from, new) ==
    LET f(field) == IF new[field] # from[field] THEN new[field] ELSE current[field]
    IN  [current EXCEPT !.driver = f("driver"), !.major = f("major"),
                        !.build = f("build"), !.prov = f("prov"),
                        !.conds = f("conds"), !.observed = f("observed")]

\* patchStatus.  In the pass that stamped, base still has the resourceVersion
\* from before Status().Update, so the merge patch carries the new one and is
\* refused when the object has changed since; otherwise there is no lock.
PatchStatus ==
    obj' = IF Exists(cur) /\ (lock = NoObj \/ obj[cur] = lock)
           THEN [obj EXCEPT ![cur] = MergePatch(@, base, mem)]
           ELSE obj

-----------------------------------------------------------------------------
(* Reconcile, from its cached reads to the first call with an effect. *)

Unavailable(o) ==
    running = Absent \/ (Stamped(o) /\ o.driver # running.driver)

\* ResolvedParameters fails; ValidateParameters accepts what it returned.
Unresolved(o) ==
    running.driver \in Templating /\ o.spec.params = "templated" /\ ~running.defaults
Valid(o) ==
    o.spec.params = "good" \/ (o.spec.params = "templated" /\ running.driver \in Templating)

Settled(o) ==
    /\ ~Unavailable(o) /\ o.observed = o.gen /\ o.build = running.build
    /\ o.conds.ready = Ready

\* The working copy once the driver's major is known to match.
\* (Mutant: the conditions of an earlier pause stay.)
CompatibleKeepsFlags(o) == [o EXCEPT !.build = running.build]
Compatible(o) ==
    [o EXCEPT !.build = running.build,
              !.conds.on = @ \ {"DriverVersionIncompatible", "BackendUnavailable"}]

\* Where a pass goes next, with which working copy.
Step(step, o) == [pc |-> step, mem |-> o]
Surface(o, reason, flags) == Step("report", Surfaced(o, reason, flags))

\* From the driver-major check to EnsureBuckety.
\* (Mutant, CheckParameters: a driver of another major runs.)
CheckParameters(o) ==
    IF Unresolved(o) THEN Surface(Compatible(o), "ParameterTemplate", {})
    ELSE IF ~Valid(o) THEN Surface(Compatible(o), "InvalidParameters", {})
    ELSE Step("ensure", Compatible(o))
Check(o) ==
    IF o.major # running.major
    THEN Surface(o, "DriverVersionIncompatible", {"DriverVersionIncompatible"})
    ELSE CheckParameters(o)

FirstStep(o) ==
    CASE o.phase = "deleting" -> Step("list", o)
      [] o.phase # "deleting" /\ ~o.fin -> Step("addFinalizer", o)
      [] o.phase # "deleting" /\ o.fin /\ Unavailable(o) ->
            Surface(o, "BackendUnavailable", {"BackendUnavailable"})
      [] o.phase # "deleting" /\ o.fin /\ ~Unavailable(o) /\ ~Stamped(o) ->
            IF running.driver \in BadName THEN Surface(o, "NameTemplate", {}) ELSE Step("inspect", o)
      [] OTHER -> Check(o)

\* cadence.Startup.Defer is consulted once the finalizer is there.
Defers(b, o) == o.phase = "live" /\ o.fin /\ Settled(o) /\ b \notin seen

\* The informer may lag behind the API server, always or as a counted fault.
BeginPass(b) ==
    LET o == cache[b] IN
    /\ pc = "idle"
    /\ o.phase \in {"live", "deleting"}
    /\ \/ (o # obj[b] => "lag" \in Env) /\ UNCHANGED faults
       \/ o # obj[b] /\ Fault("stale")
    /\ seen' = IF o.phase = "live" /\ o.fin THEN seen \cup {b} ELSE seen
    /\ IF Defers(b, o)
       THEN UNCHANGED <<pc, cur, base, mem>>
       ELSE /\ pc' = FirstStep(o).pc /\ mem' = FirstStep(o).mem
            /\ cur' = b /\ base' = o
    /\ UNCHANGED <<obj, cache, accesses, res, running, delay, lock, prov, pace, bound>>

\* The cached Get answers NotFound.
ForgetPass(b) ==
    /\ pc = "idle"
    /\ cache[b].phase \in {"none", "gone"} /\ b \in seen
    /\ seen' = seen \ {b}
    /\ UNCHANGED <<obj, cache, accesses, res, running, delay, pass, bound, faults>>

\* deletionBackoff.next: a slice that made progress drops the entry, a
\* stalled one starts at the base delay and doubles up to the cap.
\* (Mutant: no cap.)
NextDelayUncapped(d, stalled) ==
    IF ~stalled THEN 0 ELSE IF d = 0 THEN DeletionRequeue ELSE 2 * d
NextDelay(d, stalled) ==
    IF ~stalled THEN 0
    ELSE IF d = 0 THEN DeletionRequeue
    ELSE IF 2 * d > DeletionRequeueCap THEN DeletionRequeueCap ELSE 2 * d

\* Every branch that ends with a status patch; a teardown slice is paced
\* only once its status has been written.
ReportStatus ==
    /\ pc = "report"
    /\ \/ /\ PatchStatus
          /\ delay' = IF pace = "" THEN delay
                      ELSE [delay EXCEPT ![cur] = NextDelay(@, pace = "stalled")]
          /\ UNCHANGED faults
       \/ Fault("patch") /\ UNCHANGED <<obj, delay>>
    /\ Done
    /\ UNCHANGED <<cache, accesses, res, running, seen, bound>>

\* Patch without lock; a deleting object without finalizers does not exist.
AddFinalizer ==
    /\ pc = "addFinalizer"
    /\ \/ /\ obj' = IF obj[cur].phase = "live" THEN [obj EXCEPT ![cur].fin = TRUE] ELSE obj
          /\ UNCHANGED faults
       \/ Fault("patch") /\ UNCHANGED obj
    /\ Done
    /\ UNCHANGED <<cache, accesses, res, running, seen, delay, bound>>

-----------------------------------------------------------------------------
(* First reconcile: the adoption gate and the sticky stamp. *)

\* InspectBuckety.  The object stores take a bucket they may not list for one
\* with content; Kafka compares offsets, MySQL counts tables and routines.
Observed(r) == [exists |-> r.exists, empty |-> r.content = 0]
ListingDenied(r) ==
    IF "denied" \in Env /\ r.exists THEN {[exists |-> TRUE, empty |-> FALSE]} ELSE {}
Inspections(r) ==
    {Observed(r)} \cup (IF running.driver \in ObjectStore THEN ListingDenied(r) ELSE {})

\* (Mutant: whatever exists and is empty counts as created.)
DecideProvenanceEmptyIsNew(i, adoption) ==
    IF ~i.exists \/ i.empty THEN "Created"
    ELSE IF adoption = "Adopt" THEN "Adopted" ELSE ""
DecideProvenance(i, adoption) ==
    IF ~i.exists THEN "Created"
    ELSE IF i.empty \/ adoption = "Adopt" THEN "Adopted" ELSE ""

Inspect ==
    /\ pc = "inspect"
    /\ \/ \E i \in Inspections(res[ResourceOf[cur]]) :
            LET p == DecideProvenance(i, mem.spec.adoption) IN
            \/ /\ p = "" /\ Report(Surfaced(mem, "BackendResourceExists", {}))
               /\ UNCHANGED faults
            \/ /\ p # "" /\ pc' = "stamp" /\ prov' = p
               /\ UNCHANGED <<cur, base, mem, lock, pace, faults>>
       \/ Fault("inspect") /\ Report(Surfaced(mem, "InspectFailed", {}))
    /\ UNCHANGED <<obj, cache, accesses, res, running, seen, delay, bound>>

\* Status().Update: replaces the status as a whole, refused when the object
\* has changed since the cached read.
\* (Mutant: an unlocked status patch.)
StampUnlocked ==
    LET o == [mem EXCEPT !.driver = running.driver, !.major = running.major,
                         !.build = running.build, !.prov = prov]
    IN  /\ pc = "stamp"
        /\ obj' = [obj EXCEPT ![cur] = MergePatch(@, base, o)]
        /\ pc' = Check(o).pc /\ mem' = Check(o).mem /\ lock' = NoObj
        /\ UNCHANGED <<cur, base, prov, pace, faults>>
        /\ UNCHANGED <<cache, accesses, res, running, seen, delay, bound>>
Stamp ==
    LET o == [mem EXCEPT !.driver = running.driver, !.major = running.major,
                         !.build = running.build, !.prov = prov]
    IN  /\ pc = "stamp"
        /\ \/ /\ obj[cur] = base
              /\ obj' = [obj EXCEPT ![cur] = o]
              /\ pc' = Check(o).pc /\ mem' = Check(o).mem /\ lock' = o
              /\ UNCHANGED <<cur, base, prov, pace, faults>>
           \/ obj[cur] # base /\ Done /\ UNCHANGED <<obj, faults>>
           \/ Fault("write") /\ Done /\ UNCHANGED obj
        /\ UNCHANGED <<cache, accesses, res, running, seen, delay, bound>>

-----------------------------------------------------------------------------
(* EnsureBuckety, the implicit access, Ready. *)

Ensured(r, b) == IF r.exists THEN r ELSE [exists |-> TRUE, content |-> 0, origin |-> b]

\* What ends the pass instead: parameters an existing resource cannot be given
\* (s3 has none), a service account that IAM does not know yet, or a failed
\* call, before or after the resource was made.
EnsureDrifts(r) ==
    /\ running.driver # "s3" /\ res[r].exists
    /\ Report(Surfaced(mem, "ParameterDrift", {"ParameterDrift"}))
    /\ UNCHANGED res
EnsurePropagates(r) ==
    /\ running.driver = "gcs"
    /\ res' = [res EXCEPT ![r] = Ensured(@, cur)]
    /\ Report(Surfaced(mem, "Provisioning", {}))
EnsureFails(r) ==
    /\ res' \in {res, [res EXCEPT ![r] = Ensured(@, cur)]}
    /\ Report(Surfaced(mem, "EnsureFailed", {}))
Ensure ==
    LET r == ResourceOf[cur] IN
    /\ pc = "ensure"
    /\ \/ /\ res' = [res EXCEPT ![r] = Ensured(@, cur)]
          /\ pc' = "implicit"
          /\ mem' = [mem EXCEPT !.conds.on = @ \ {"ParameterDrift"}]
          /\ UNCHANGED <<cur, base, lock, prov, pace, faults>>
       \/ Fault("ensure") /\ (EnsureDrifts(r) \/ EnsurePropagates(r) \/ EnsureFails(r))
    /\ UNCHANGED <<obj, cache, accesses, running, seen, delay, bound>>

References(b, as) == {a \in as : RefOf[a] = b}

\* A deleted access with a finalizer stays until the access controller has
\* run; one that has not got its finalizer yet goes at once.
DeleteImplicit(b) ==
    \/ implicit[b].phase = "none" /\ UNCHANGED implicit
    \/ implicit[b].phase # "none" /\ implicit' = [implicit EXCEPT ![b].phase = "deleting"]
    \/ implicit[b].phase = "live" /\ implicit' = [implicit EXCEPT ![b] = NoImplicit]

CreateImplicit(b) ==
    implicit' = IF implicit[b].phase = "none"
                THEN [implicit EXCEPT ![b] = [phase |-> "live", secret |-> mem.spec.want]]
                ELSE implicit

\* Ready=True for the generation this pass worked on.
\* (Mutant: observedGeneration is left alone.)
CommittedUnobserved == [mem EXCEPT !.conds.ready = Ready]
Committed == [mem EXCEPT !.conds.ready = Ready, !.observed = mem.gen]

\* reconcileImplicitAccess and the final status: decided on the cached list; Create tolerates
\* AlreadyExists and Delete tolerates NotFound.
\* (Mutant: an explicit access does not displace the implicit one.)
ReconcileImplicitAccessKeeps ==
    /\ pc = "implicit"
    /\ IF mem.spec.want # "none" THEN CreateImplicit(cur) ELSE DeleteImplicit(cur)
    /\ Report(Committed)
    /\ UNCHANGED <<obj, cache, explicit, listed, res, running, seen, delay, bound, faults>>
ReconcileImplicitAccess ==
    LET has == listed.implicit[cur]
        wanted == mem.spec.want # "none" /\ References(cur, listed.explicit) = {}
    IN  /\ pc = "implicit"
        /\ \/ /\ wanted /\ has.phase = "none" /\ CreateImplicit(cur)
              /\ Report(Committed) /\ UNCHANGED faults
           \/ /\ has.phase # "none" /\ (~wanted \/ has.secret # mem.spec.want)
              /\ DeleteImplicit(cur)
              /\ Report(Committed) /\ UNCHANGED faults
           \/ /\ IF has.phase = "none" THEN ~wanted
                 ELSE wanted /\ has.secret = mem.spec.want
              /\ Report(Committed) /\ UNCHANGED <<implicit, faults>>
           \/ Fault("write") /\ Done /\ UNCHANGED implicit
        /\ UNCHANGED <<obj, cache, explicit, listed, res, running, seen, delay, bound>>

-----------------------------------------------------------------------------
(* reconcileDelete. *)

\* What follows a list that shows no access.  The driver needs the parameters
\* resolved, for the principals they name; it does not validate them.
Teardown(o) ==
    CASE o.spec.policy = "Delete" /\ o.prov = "Adopted" -> Step("release", o)
      [] o.spec.policy = "Delete" /\ o.prov # "Adopted" /\ Stamped(o) ->
            IF Unavailable(o)
            THEN Surface(o, "BackendUnavailable", {"BackendUnavailable"})
            ELSE IF Unresolved(o) THEN Surface(o, "ParameterTemplate", {})
            ELSE Step("deleteBackend", o)
      [] OTHER -> Step("release", o)

\* The live list.  Blocked by an explicit access, Ready stays as it is.
\* (Mutants: the informer's list; an implicit access blocks like any other.)
ListAccessesAllBlock ==
    /\ pc = "list"
    /\ LET next == IF References(cur, explicit) # {} \/ implicit[cur].phase # "none"
                   THEN Surface(mem, mem.conds.ready, {"BlockedByAccesses"})
                   ELSE Teardown(mem)
       IN  pc' = next.pc /\ mem' = next.mem
    /\ UNCHANGED <<cur, base, lock, prov, pace>>
    /\ UNCHANGED <<obj, cache, accesses, res, running, seen, delay, bound, faults>>
ListAccessesCached ==
    /\ pc = "list"
    /\ LET next == IF References(cur, listed.explicit) # {}
                   THEN Surface(mem, mem.conds.ready, {"BlockedByAccesses"})
                   ELSE IF listed.implicit[cur].phase # "none" THEN Step("dropImplicit", mem)
                   ELSE Teardown(mem)
       IN  pc' = next.pc /\ mem' = next.mem
    /\ UNCHANGED <<cur, base, lock, prov, pace>>
    /\ UNCHANGED <<obj, cache, accesses, res, running, seen, delay, bound, faults>>
ListAccesses ==
    LET next == IF References(cur, explicit) # {}
                THEN Surface(mem, mem.conds.ready, {"BlockedByAccesses"})
                ELSE IF implicit[cur].phase # "none" THEN Step("dropImplicit", mem)
                ELSE Teardown(mem)
    IN  /\ pc = "list"
        /\ \/ /\ pc' = next.pc /\ mem' = next.mem
              /\ UNCHANGED <<cur, base, lock, prov, pace, faults>>
           \/ Fault("read") /\ Done
        /\ UNCHANGED <<obj, cache, accesses, res, running, seen, delay, bound>>

\* The implicit access is deleted; the Buckety waits until a later list no
\* longer shows it.
\* (Mutant: the Buckety goes on without waiting.)
DropImplicitWithoutWaiting ==
    /\ pc = "dropImplicit"
    /\ DeleteImplicit(cur)
    /\ pc' = Teardown(mem).pc /\ mem' = Teardown(mem).mem
    /\ UNCHANGED <<cur, base, lock, prov, pace, faults>>
    /\ UNCHANGED <<obj, cache, explicit, listed, res, running, seen, delay, bound>>
DropImplicit ==
    /\ pc = "dropImplicit"
    /\ \/ /\ DeleteImplicit(cur) /\ Report(Surfaced(mem, "RevokingAccesses", {}))
          /\ UNCHANGED faults
       \/ Fault("write") /\ Done /\ UNCHANGED implicit
    /\ UNCHANGED <<obj, cache, explicit, listed, res, running, seen, delay, bound>>

\* DeleteBuckety of the object stores: emptied in slices of one unit.  A call
\* that deleted something leaves the bucket to the next call; a call that found
\* nothing to delete and still met a bucket that is not empty has stalled.
\* The other drivers delete in one call.
SliceReported(p) ==
    /\ pc' = "report" /\ pace' = p
    /\ mem' = Surfaced(mem, "DeletingContents", {})
    /\ UNCHANGED <<cur, base, lock, prov>>
DeleteSlice(r) ==
    /\ res[r].content > 0
    /\ res' = [res EXCEPT ![r].content = @ - 1]
    /\ SliceReported("progress")
    /\ UNCHANGED faults
SliceStalls(r) ==
    /\ res[r].exists /\ Fault("stall")
    /\ SliceReported("stalled")
    /\ UNCHANGED res
DeleteWhole(r) ==
    /\ running.driver \notin ObjectStore \/ res[r].content = 0
    /\ res' = [res EXCEPT ![r] = NoResource]
    /\ Goto("release")
    /\ UNCHANGED faults

\* A failed call may have deleted some or all of it.
DeleteFails(r) ==
    /\ Fault("delete")
    /\ res' \in {res, [res EXCEPT ![r].content = 0], [res EXCEPT ![r] = NoResource]}
    /\ Report(Surfaced(mem, "DeleteFailed", {}))
DeleteBackend ==
    LET r == ResourceOf[cur] IN
    /\ pc = "deleteBackend"
    /\ \/ running.driver \in ObjectStore /\ (DeleteSlice(r) \/ SliceStalls(r))
       \/ DeleteWhole(r)
       \/ DeleteFails(r)
    /\ UNCHANGED <<obj, cache, accesses, running, seen, delay, bound>>

\* Update under the cached object's resourceVersion.  An adopted resource's
\* Buckety returns before deletions.forget.
ReleaseFinalizer ==
    /\ pc = "release"
    /\ delay' = IF mem.spec.policy = "Delete" /\ mem.prov = "Adopted" THEN delay
                ELSE [delay EXCEPT ![cur] = 0]
    /\ \/ /\ obj' = IF obj[cur] = base
                    THEN [obj EXCEPT ![cur].phase = "gone", ![cur].fin = FALSE]
                    ELSE obj
          /\ UNCHANGED faults
       \/ Fault("write") /\ UNCHANGED obj
    /\ Done
    /\ UNCHANGED <<cache, accesses, res, running, seen, bound>>

-----------------------------------------------------------------------------
(* The environment. *)

SyncBuckety(b) ==
    /\ cache[b] # obj[b]
    /\ cache' = [cache EXCEPT ![b] = obj[b]]
    /\ UNCHANGED <<obj, accesses, res, running, seen, delay, pass, bound, faults>>

AccessList == [implicit |-> implicit, explicit |-> explicit]
SyncAccesses ==
    /\ listed # AccessList
    /\ listed' = AccessList
    /\ UNCHANGED <<obj, cache, implicit, explicit, res, running, seen, delay, pass, bound, faults>>

UserCreates(b) ==
    /\ obj[b].phase = "none"
    /\ \E s \in Specs : obj' = [obj EXCEPT ![b] = [NoObj EXCEPT !.phase = "live", !.gen = 1,
                                                               !.spec = s]]
    /\ UNCHANGED <<cache, accesses, res, running, seen, delay, pass, bound, faults>>

UserEdits(b) ==
    /\ Exists(b) /\ obj[b].gen < MaxGen
    /\ \E s \in Specs \ {obj[b].spec} :
            obj' = [obj EXCEPT ![b].spec = s, ![b].gen = @ + 1]
    /\ UNCHANGED <<cache, accesses, res, running, seen, delay, pass, bound, faults>>

UserDeletes(b) ==
    /\ obj[b].phase = "live"
    /\ obj' = [obj EXCEPT ![b].phase = IF obj[b].fin THEN "deleting" ELSE "gone"]
    /\ bound' = [bound EXCEPT ![b] = IF obj[b].fin THEN References(b, explicit) ELSE {}]
    /\ UNCHANGED <<cache, accesses, res, running, seen, delay, pass, faults>>

\* Explicit accesses come and go at any time; an implicit access that is
\* being deleted goes when the access controller has revoked it.
AccessCreated(a) ==
    /\ a \notin explicit
    /\ explicit' = explicit \cup {a}
    /\ UNCHANGED <<obj, cache, implicit, listed, res, running, seen, delay, pass, bound, faults>>
AccessGone(a) ==
    /\ a \in explicit
    /\ explicit' = explicit \ {a}
    /\ bound' = [b \in Buckety |-> bound[b] \ {a}]
    /\ UNCHANGED <<obj, cache, implicit, listed, res, running, seen, delay, pass, faults>>
ImplicitRevoked(b) ==
    /\ implicit[b].phase = "deleting"
    /\ implicit' = [implicit EXCEPT ![b] = NoImplicit]
    /\ UNCHANGED <<obj, cache, explicit, listed, res, running, seen, delay, pass, bound, faults>>

\* Somebody else makes the resource before any Buckety has claimed its name.
Claimed(r) ==
    \E b \in Buckety : ResourceOf[b] = r /\ (Stamped(obj[b]) \/ cur = b)
ThirdPartyCreates(r) ==
    /\ "third" \in Env /\ ~res[r].exists /\ ~Claimed(r)
    /\ \E c \in 0..MaxContent :
            res' = [res EXCEPT ![r] = [exists |-> TRUE, content |-> c, origin |-> ThirdParty]]
    /\ UNCHANGED <<obj, cache, accesses, running, seen, delay, pass, bound, faults>>

\* Consumers write while the Buckety lives; writes during a teardown are
\* counted.
ContentWritten(r) ==
    /\ res[r].exists /\ res[r].content < MaxContent
    /\ \/ (\A b \in Buckety : ResourceOf[b] = r => obj[b].phase # "deleting") /\ UNCHANGED faults
       \/ (\E b \in Buckety : ResourceOf[b] = r /\ obj[b].phase = "deleting") /\ Fault("writer")
    /\ res' = [res EXCEPT ![r].content = @ + 1]
    /\ UNCHANGED <<obj, cache, accesses, running, seen, delay, pass, bound>>

\* A crash or an upgrade: the pass and everything in memory is lost, the new
\* process lists every object and runs its own drivers and configuration.
Restart ==
    /\ Fault("crash")
    /\ running' \in Backends
    /\ cache' = obj /\ listed' = AccessList
    /\ seen' = {} /\ delay' = [b \in Buckety |-> 0]
    /\ Done
    /\ UNCHANGED <<obj, implicit, explicit, res, bound>>

-----------------------------------------------------------------------------

Init ==
    /\ obj = [b \in Buckety |-> NoObj]
    /\ cache = [b \in Buckety |-> NoObj]
    /\ implicit = [b \in Buckety |-> NoImplicit]
    /\ explicit = {}
    /\ listed = AccessList
    /\ res = [r \in Resource |-> NoResource]
    /\ running \in Backends
    /\ seen = {}
    /\ delay = [b \in Buckety |-> 0]
    /\ pc = "idle" /\ cur = "" /\ base = NoObj /\ mem = NoObj /\ lock = NoObj
    /\ prov = "" /\ pace = ""
    /\ bound = [b \in Buckety |-> {}]
    /\ faults = 0

PassStep ==
    \/ ReportStatus \/ AddFinalizer
    \/ Inspect \/ Stamp \/ Ensure \/ ReconcileImplicitAccess
    \/ ListAccesses \/ DropImplicit \/ DeleteBackend \/ ReleaseFinalizer

Next ==
    \/ PassStep
    \/ \E b \in Buckety : BeginPass(b) \/ ForgetPass(b) \/ SyncBuckety(b)
    \/ \E b \in Buckety : UserCreates(b) \/ UserEdits(b) \/ UserDeletes(b)
    \/ \E b \in Buckety : ImplicitRevoked(b)
    \/ SyncAccesses
    \/ \E a \in Access : AccessCreated(a) \/ AccessGone(a)
    \/ \E r \in Resource : ThirdPartyCreates(r) \/ ContentWritten(r)
    \/ Restart

Spec == Init /\ [][Next]_vars

\* Rechecks, watches and retries keep every object coming back.  A pass that
\* ends with DriverVersionIncompatible, unresolved or invalid parameters,
\* ParameterDrift or BackendUnavailable is not requeued; what brings it back
\* is an edit, an access event, a restart or the informer's resync.  Informers
\* catch up, and the access controller finishes the deletions it is given
\* (AccessReconciler's DeletionCompletes).
Fairness ==
    /\ WF_vars(PassStep)
    /\ \A b \in Buckety :
            SF_vars(BeginPass(b)) /\ WF_vars(SyncBuckety(b)) /\ WF_vars(ImplicitRevoked(b))
    /\ WF_vars(SyncAccesses)

FairSpec == Spec /\ Fairness

-----------------------------------------------------------------------------
(* Properties. *)

\* Driver, driver major and provenance, once stamped, never change: passes on
\* a stale cache re-run the adoption gate, see the resource the controller
\* itself has made since, and must not relabel it.
StickyStamp ==
    [][\A b \in Buckety : Stamped(obj[b]) =>
            /\ obj'[b].driver = obj[b].driver
            /\ obj'[b].major = obj[b].major
            /\ obj'[b].prov = obj[b].prov]_vars

\* Teardown destroys only what this Buckety's own EnsureBuckety made: never a
\* resource somebody else made, with or without content.
DestroysOnlyOwn ==
    [][DeleteBackend /\ res' # res => res[ResourceOf[cur]].origin = cur]_vars

\* The backend resource is changed or deleted only through the driver that
\* claimed it, and kept in shape only by the major that claimed it, whatever
\* the backend name resolves to after a restart or an upgrade, and whatever a
\* stale cache says of the first claim.
RightDriver ==
    [][/\ Ensure \/ DeleteBackend => running.driver = obj[cur].driver
       /\ Ensure => running.major = obj[cur].major]_vars

\* A Buckety that says it is Ready does not also say that it is paused: no
\* BackendUnavailable, DriverVersionIncompatible or ParameterDrift from an
\* earlier pass, or from a patch over a newer status, stays next to it.
ReadyIsClean ==
    \A b \in Buckety : obj[b].conds.ready = Ready =>
        obj[b].conds.on \subseteq {"BlockedByAccesses"}

\* An explicit access that existed when the Buckety's deletion was requested
\* keeps the backend resource and the Buckety until it is gone.
AccessBlocksTeardown ==
    \A b \in Buckety :
        \/ bound[b] = {}
        \/ obj[b].phase # "gone" /\ ~(cur = b /\ pc \in {"deleteBackend", "release"})

\* A Buckety leaves only after its implicit access, which therefore finds the
\* backend it must revoke its credential against.
ImplicitGoneFirst ==
    \A b \in Buckety :
        obj[b].phase = "gone" \/ (cur = b /\ pc \in {"deleteBackend", "release"})
            => implicit[b].phase = "none"

\* A deleted Buckety with no access left goes away, unless it must take a
\* backend resource of its own along and the configuration has lost the
\* backend, or the default that its parameters name.
Stuck(b) ==
    /\ obj[b].spec.policy = "Delete" /\ obj[b].prov # "Adopted" /\ Stamped(obj[b])
    /\ Unavailable(obj[b]) \/ Unresolved(obj[b])
DeletionCompletes ==
    \A b \in Buckety :
        []<>(obj[b].phase # "deleting" \/ References(b, explicit) # {} \/ Stuck(b))

Served(b) == obj[b].conds.ready = Ready /\ obj[b].observed = obj[b].gen
Refused(b) ==
    \/ Unavailable(obj[b]) \/ Unresolved(obj[b]) \/ ~Valid(obj[b])
    \/ ~Stamped(obj[b]) /\ running.driver \in BadName
    \/ ~Stamped(obj[b]) /\ DecideProvenance(Observed(res[ResourceOf[b]]),
                                             obj[b].spec.adoption) = ""

\* A Buckety whose spec and backend allow it becomes Ready for its current
\* generation, again and again.
ServedEventually ==
    \A b \in Buckety : []<>(obj[b].phase # "live" \/ Served(b) \/ Refused(b))

\* An explicit access displaces the implicit one.
ExplicitReplacesImplicit ==
    \A b \in Buckety :
        []<>(\/ obj[b].phase # "live" \/ Refused(b)
             \/ implicit[b].phase = "none" \/ References(b, explicit) = {})
=============================================================================
