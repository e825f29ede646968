----------------------- MODULE BucketyReconcilerProofs -----------------------
(***************************************************************************)
(* Proofs about BucketyReconciler, for every set of Bucketys, accesses and *)
(* resources, every set of specs and backends, and every bound.            *)
(***************************************************************************)
EXTENDS BucketyReconciler, TLAPS

\* Every call of a pass is about some Buckety.
TypeInv == TypeOK /\ (pc # "idle" => cur \in Buckety)

-----------------------------------------------------------------------------
(* The inductive invariant. *)

SameStamp(x, y) == x.driver = y.driver /\ x.major = y.major /\ x.prov = y.prov

FirstPass == {"inspect", "stamp"}
Serving == {"inspect", "stamp", "ensure", "implicit"}
Leaving == {"list", "dropImplicit", "deleteBackend", "release"}
Destroying == {"deleteBackend", "release"}

\* What a pass has in hand at its place in the code: the cached object is
\* untouched until the stamp and all through the deletion path.
PassInv ==
    /\ pc = "idle" => lock = NoObj
    /\ pc # "idle" => base.phase \in {"live", "deleting"} /\ mem.phase = base.phase
    /\ pc \in FirstPass => mem = base /\ ~Stamped(base)
    /\ pc \in FirstPass \cup Leaving => lock = NoObj
    /\ pc \in Serving => base.phase = "live" /\ base.fin
    /\ pc \in Leaving => mem = base /\ base.phase = "deleting"
    /\ pc = "stamp" => prov # ""

\* Objects exist before anything else says so, deletion is final, and the
\* cache and the pass's snapshot are older versions of the object.
Later(o, c) ==
    /\ c.phase # "none" => o.phase # "none"
    /\ c.phase \in {"deleting", "gone"} => o.phase \in {"deleting", "gone"}
PhaseInv ==
    /\ \A b \in Buckety : obj[b].phase = "none" => obj[b] = NoObj
    /\ \A b \in Buckety : Later(obj[b], cache[b])
    /\ pc # "idle" => Later(obj[cur], base) /\ Later(cache[cur], base)

\* A stamp found in the cache or by the pass is the one the object has.
StampInv ==
    /\ \A b \in Buckety : Stamped(cache[b]) => SameStamp(obj[b], cache[b])
    /\ pc # "idle" => (Stamped(base) => SameStamp(obj[cur], base))
    /\ pc # "idle" => SameStamp(mem, IF lock = NoObj THEN base ELSE lock)
    /\ lock # NoObj => SameStamp(obj[cur], lock)

\* EnsureBuckety and DeleteBuckety are reached with the right driver.
DriverInv ==
    /\ pc = "ensure" => /\ mem.driver = running.driver /\ mem.major = running.major
                        /\ lock = NoObj => Stamped(mem)
    /\ pc = "deleteBackend" => Stamped(mem) /\ mem.driver = running.driver
    /\ pc = "deleteBackend" => mem.prov # "Adopted"

\* The finalizer stays while the object is served.
FinInv ==
    /\ \A b \in Buckety : obj[b].fin => Exists(b)
    /\ \A b \in Buckety : obj[b].phase = "deleting" => obj[b].fin
    /\ \A b \in Buckety : cache[b].fin /\ cache[b].phase = "live" => obj[b].fin
    /\ pc \in Serving => obj[cur].fin

\* An implicit access exists only next to the finalizer of its Buckety.
ImplicitInv ==
    /\ \A b \in Buckety : implicit[b].phase # "none" => obj[b].fin
    /\ pc \in Destroying => implicit[cur].phase = "none"

\* Accesses that were there when the deletion was requested.
BoundInv ==
    /\ \A b \in Buckety : bound[b] \subseteq References(b, explicit)
    /\ \A b \in Buckety : obj[b].phase # "deleting" => bound[b] = {}
    /\ pc \in Destroying => bound[cur] = {}

\* Conditions that say Ready and nothing to the contrary.
Clean(c) == c.ready = Ready => c.on \subseteq {"BlockedByAccesses"}
Paused == {"DriverVersionIncompatible", "BackendUnavailable"}
CleanInv ==
    /\ \A b \in Buckety : Clean(obj[b].conds) /\ Clean(cache[b].conds)
    /\ pc # "idle" => Clean(base.conds)
    /\ pc = "report" => Clean(mem.conds)
    /\ pc = "ensure" => mem.conds.on \cap Paused = {}
    /\ pc = "implicit" => mem.conds.on \subseteq {"BlockedByAccesses"}

\* A resource that was not there when a Buckety claimed it is not a third
\* party's afterwards.
ResourceInv ==
    /\ \A r \in Resource : ~res[r].exists => res[r] = NoResource
    /\ \A r \in Resource : res[r].exists =>
            \/ res[r].origin = ThirdParty
            \/ res[r].origin \in Buckety /\ ResourceOf[res[r].origin] = r
    /\ \A b \in Buckety : Stamped(obj[b]) => obj[b].prov # ""
    /\ \A b \in Buckety : Stamped(obj[b]) /\ obj[b].prov = "Created" =>
            res[ResourceOf[b]].origin # ThirdParty
    /\ pc = "stamp" /\ prov = "Created" => res[ResourceOf[cur]].origin # ThirdParty

Inv == /\ TypeInv /\ PassInv /\ PhaseInv /\ StampInv /\ DriverInv
       /\ FinInv /\ ImplicitInv /\ BoundInv /\ CleanInv /\ ResourceInv

-----------------------------------------------------------------------------
(* The operators the actions are built from. *)

LEMMA Bounds ==
    /\ MaxGen \in Nat /\ MaxGen # 0 /\ MaxFaults \in Nat /\ MaxContent \in Nat
    /\ DeletionRequeue \in Nat /\ DeletionRequeueCap \in Nat
    /\ DeletionRequeue <= DeletionRequeueCap
<1>1. /\ MaxGen \in Nat \ {0} /\ MaxFaults \in Nat /\ MaxContent \in Nat
      /\ DeletionRequeue \in Nat \ {0} /\ DeletionRequeueCap \in Nat
      /\ DeletionRequeue <= DeletionRequeueCap
  BY ConstantsAssumption, Zenon
<1>. QED BY <1>1

LEMMA ConstantRecords ==
    /\ NoObj \in Object /\ NoImplicit \in Implicit
    /\ NoSpec \in SpecValue /\ Specs \subseteq SpecValue
    /\ "" \in Driver /\ 0 \in Major /\ 0 \in Build
    /\ \A b \in Backends : b.driver \in Driver /\ b.major \in Major /\ b.build \in Build
<1>1. 0 \in 0..MaxGen
  BY Bounds
<1>2. NoSpec \in SpecValue /\ Specs \subseteq SpecValue
  BY DEF NoSpec, SpecValue
<1>3. /\ "" \in Driver /\ 0 \in Major /\ 0 \in Build
      /\ \A b \in Backends : b.driver \in Driver /\ b.major \in Major /\ b.build \in Build
  BY DEF Driver, Major, Build
<1>4. NoObj \in Object
  BY <1>1, <1>2, <1>3 DEF NoObj, Object, Reason, Flag, Provenance
<1>5. NoImplicit \in Implicit
  BY DEF NoImplicit, Implicit, SecretName
<1>. QED BY <1>2, <1>3, <1>4, <1>5

\* Fields of an object.
LEMMA ObjectFields ==
    ASSUME NEW o \in Object
    PROVE  /\ o.phase \in {"none", "live", "deleting", "gone"} /\ o.fin \in BOOLEAN
           /\ o.gen \in 0..MaxGen /\ o.spec \in SpecValue /\ o.driver \in Driver
           /\ o.major \in Major /\ o.build \in Build /\ o.prov \in Provenance
           /\ o.conds \in [ready : Reason, on : SUBSET Flag]
           /\ o.conds.ready \in Reason /\ o.conds.on \subseteq Flag
           /\ o.observed \in 0..MaxGen
<1>1. o.conds \in [ready : Reason, on : SUBSET Flag]
  BY DEF Object
<1>. QED BY <1>1 DEF Object

\* A working copy with other conditions is otherwise the same object.
SameBut(n, o) ==
    /\ n.phase = o.phase /\ n.fin = o.fin /\ n.gen = o.gen /\ n.spec = o.spec
    /\ n.driver = o.driver /\ n.major = o.major /\ n.prov = o.prov

LEMMA SurfacedIs ==
    ASSUME NEW o \in Object, NEW reason \in Reason, NEW flags \in SUBSET Flag
    PROVE  /\ Surfaced(o, reason, flags) \in Object
           /\ SameBut(Surfaced(o, reason, flags), o)
           /\ Surfaced(o, reason, flags).conds = [ready |-> reason, on |-> o.conds.on \cup flags]
<1>1. o.conds.on \cup flags \subseteq Flag
  BY ObjectFields
<1>2. [ready |-> reason, on |-> o.conds.on \cup flags] \in [ready : Reason, on : SUBSET Flag]
  BY <1>1
<1>3. Surfaced(o, reason, flags) =
        [o EXCEPT !.conds = [ready |-> reason, on |-> o.conds.on \cup flags]]
  BY DEF Surfaced, Object
<1>. QED BY <1>2, <1>3 DEF Object, SameBut

LEMMA CompatibleIs ==
    ASSUME NEW o \in Object, running \in Backends
    PROVE  /\ Compatible(o) \in Object /\ SameBut(Compatible(o), o)
           /\ Compatible(o).conds = [ready |-> o.conds.ready, on |-> o.conds.on \ Paused]
<1>1. o.conds \in [ready : Reason, on : SUBSET Flag] /\ running.build \in Build
  BY ObjectFields, ConstantRecords
<1>2. [o.conds EXCEPT !.on = @ \ Paused]
        = [ready |-> o.conds.ready, on |-> o.conds.on \ Paused]
  BY <1>1
<1>3. [ready |-> o.conds.ready, on |-> o.conds.on \ Paused] \in [ready : Reason, on : SUBSET Flag]
  BY <1>1
<1>4. Compatible(o) = [o EXCEPT !.build = running.build,
                                !.conds = [ready |-> o.conds.ready, on |-> o.conds.on \ Paused]]
  BY <1>1, <1>2 DEF Compatible, Object, Paused
<1>. QED BY <1>1, <1>3, <1>4 DEF Object, SameBut

\* A pass about to report something other than Ready.
LEMMA SurfaceIs ==
    ASSUME NEW o \in Object, NEW reason \in Reason \ {Ready}, NEW flags \in SUBSET Flag
    PROVE  /\ Surface(o, reason, flags).pc = "report"
           /\ Surface(o, reason, flags).mem \in Object
           /\ SameBut(Surface(o, reason, flags).mem, o)
           /\ Surface(o, reason, flags).mem.conds.ready # Ready
<1>1. /\ Surfaced(o, reason, flags) \in Object /\ SameBut(Surfaced(o, reason, flags), o)
      /\ Surfaced(o, reason, flags).conds = [ready |-> reason, on |-> o.conds.on \cup flags]
  BY SurfacedIs
<1>2. Surfaced(o, reason, flags).conds.ready = reason
  BY <1>1
<1>3. /\ Surface(o, reason, flags).pc = "report"
      /\ Surface(o, reason, flags).mem = Surfaced(o, reason, flags)
  BY DEF Surface, Step
<1>. QED BY <1>1, <1>2, <1>3

\* What the driver-major check and what follows it can lead to.
LEMMA CheckIs ==
    ASSUME NEW o \in Object, running \in Backends
    PROVE  /\ Check(o).mem \in Object /\ SameBut(Check(o).mem, o)
           /\ Check(o).pc \in {"report", "ensure"}
           /\ Check(o).pc = "report" => Check(o).mem.conds.ready # Ready
           /\ Check(o).pc = "ensure" => /\ o.major = running.major
                                        /\ Check(o).mem.conds.on \cap Paused = {}
<1>1. CASE o.major # running.major
  <2>1. Check(o) = Surface(o, "DriverVersionIncompatible",
                                              {"DriverVersionIncompatible"})
    BY <1>1 DEF Check
  <2>2. "DriverVersionIncompatible" \in Reason \ {Ready} /\ {"DriverVersionIncompatible"} \in SUBSET Flag
    BY DEF Reason, Flag, Ready
  <2>. QED BY <2>1, <2>2, SurfaceIs
<1>2. CASE o.major = running.major /\ (Unresolved(o) \/ ~Valid(o))
  <2>1. \/ Check(o) = Surface(Compatible(o), "ParameterTemplate", {})
        \/ Check(o) = Surface(Compatible(o), "InvalidParameters", {})
    BY <1>2 DEF Check, CheckParameters
  <2>2. {"ParameterTemplate", "InvalidParameters"} \subseteq Reason \ {Ready} /\ {} \in SUBSET Flag
    BY DEF Reason, Ready
  <2>3. Compatible(o) \in Object /\ SameBut(Compatible(o), o)
    BY CompatibleIs
  <2>. QED BY <2>1, <2>2, <2>3, SurfaceIs DEF SameBut
<1>3. CASE o.major = running.major /\ ~Unresolved(o) /\ Valid(o)
  <2>1. Check(o) = Step("ensure", Compatible(o))
    BY <1>3 DEF Check, CheckParameters
  <2>2. Check(o).pc = "ensure" /\ Check(o).mem = Compatible(o)
    BY <2>1 DEF Step
  <2>3. /\ Compatible(o) \in Object /\ SameBut(Compatible(o), o)
        /\ Compatible(o).conds = [ready |-> o.conds.ready, on |-> o.conds.on \ Paused]
    BY CompatibleIs
  <2>4. Compatible(o).conds.on \cap Paused = {}
    BY <2>3
  <2>. QED BY <1>3, <2>2, <2>3, <2>4
<1>. QED BY <1>1, <1>2, <1>3

\* Where a pass that read o begins.
LEMMA FirstStepIs ==
    ASSUME NEW o \in Object, running \in Backends
    PROVE  LET s == FirstStep(o) IN
           /\ s.mem \in Object /\ SameBut(s.mem, o)
           /\ s.pc \in {"report", "addFinalizer", "inspect", "ensure", "list"}
           /\ s.pc = "report" => s.mem.conds.ready # Ready
           /\ s.pc \in {"inspect", "list"} => s.mem = o
           /\ s.pc = "list" => o.phase = "deleting"
           /\ s.pc \in {"inspect", "ensure"} => o.phase # "deleting" /\ o.fin
           /\ s.pc = "inspect" => ~Stamped(o)
           /\ s.pc = "ensure" => /\ Stamped(o) /\ o.driver = running.driver
                                 /\ o.major = running.major
                                 /\ s.mem.conds.on \cap Paused = {}
<1>0. SameBut(o, o)
  BY DEF SameBut
<1>1. CASE o.phase = "deleting"
  <2>1. FirstStep(o) = Step("list", o)
    BY <1>1 DEF FirstStep
  <2>. QED BY <1>0, <1>1, <2>1 DEF Step
<1>2. CASE o.phase # "deleting" /\ ~o.fin
  <2>1. FirstStep(o) = Step("addFinalizer", o)
    BY <1>2 DEF FirstStep
  <2>. QED BY <1>0, <2>1 DEF Step
<1>3. CASE o.phase # "deleting" /\ o.fin /\ Unavailable(o)
  <2>1. FirstStep(o) = Surface(o, "BackendUnavailable", {"BackendUnavailable"})
    BY <1>3 DEF FirstStep
  <2>2. "BackendUnavailable" \in Reason \ {Ready} /\ {"BackendUnavailable"} \in SUBSET Flag
    BY DEF Reason, Flag, Ready
  <2>. QED BY <2>1, <2>2, SurfaceIs
<1>4. CASE o.phase # "deleting" /\ o.fin /\ ~Unavailable(o) /\ ~Stamped(o)
  <2>1. CASE running.driver \in BadName
    <3>1. FirstStep(o) = Surface(o, "NameTemplate", {})
      BY <1>4, <2>1 DEF FirstStep
    <3>2. "NameTemplate" \in Reason \ {Ready} /\ {} \in SUBSET Flag
      BY DEF Reason, Ready
    <3>. QED BY <3>1, <3>2, SurfaceIs
  <2>2. CASE running.driver \notin BadName
    <3>1. FirstStep(o) = Step("inspect", o)
      BY <1>4, <2>2 DEF FirstStep
    <3>. QED BY <1>0, <1>4, <3>1 DEF Step
  <2>. QED BY <2>1, <2>2
<1>5. CASE o.phase # "deleting" /\ o.fin /\ ~Unavailable(o) /\ Stamped(o)
  <2>1. FirstStep(o) = Check(o)
    BY <1>5 DEF FirstStep
  <2>2. o.driver = running.driver
    BY <1>5 DEF Unavailable
  <2>. QED BY <1>5, <2>1, <2>2, CheckIs
<1>. QED BY <1>1, <1>2, <1>3, <1>4, <1>5

\* Where a teardown goes once no access is left.
LEMMA TeardownIs ==
    ASSUME NEW o \in Object, running \in Backends
    PROVE  LET s == Teardown(o) IN
           /\ s.mem \in Object /\ SameBut(s.mem, o)
           /\ s.pc \in {"report", "deleteBackend", "release"}
           /\ s.pc = "report" => s.mem.conds.ready # Ready
           /\ s.pc \in {"deleteBackend", "release"} => s.mem = o
           /\ s.pc = "deleteBackend" => /\ Stamped(o) /\ o.driver = running.driver
                                        /\ o.prov # "Adopted" /\ o.spec.policy = "Delete"
<1>0. SameBut(o, o)
  BY DEF SameBut
<1>1. CASE o.spec.policy = "Delete" /\ o.prov # "Adopted" /\ Stamped(o) /\ Unavailable(o)
  <2>1. Teardown(o) = Surface(o, "BackendUnavailable", {"BackendUnavailable"})
    BY <1>1 DEF Teardown
  <2>2. "BackendUnavailable" \in Reason \ {Ready} /\ {"BackendUnavailable"} \in SUBSET Flag
    BY DEF Reason, Flag, Ready
  <2>. QED BY <2>1, <2>2, SurfaceIs
<1>2. CASE o.spec.policy = "Delete" /\ o.prov # "Adopted" /\ Stamped(o) /\ ~Unavailable(o)
            /\ ~Unresolved(o)
  <2>1. Teardown(o) = Step("deleteBackend", o)
    BY <1>2 DEF Teardown
  <2>. QED BY <1>0, <1>2, <2>1 DEF Step, Unavailable
<1>3. CASE ~(o.spec.policy = "Delete" /\ o.prov # "Adopted" /\ Stamped(o))
  <2>1. Teardown(o) = Step("release", o)
    BY <1>3 DEF Teardown
  <2>. QED BY <1>0, <2>1 DEF Step
<1>4. CASE o.spec.policy = "Delete" /\ o.prov # "Adopted" /\ Stamped(o) /\ ~Unavailable(o)
            /\ Unresolved(o)
  <2>1. Teardown(o) = Surface(o, "ParameterTemplate", {})
    BY <1>4 DEF Teardown
  <2>2. "ParameterTemplate" \in Reason \ {Ready} /\ {} \in SUBSET Flag
    BY DEF Reason, Ready
  <2>. QED BY <2>1, <2>2, SurfaceIs
<1>. QED BY <1>1, <1>2, <1>3, <1>4

\* A merge patch changes the status only, each field to the pass's value or
\* not at all.
LEMMA MergePatchIs ==
    ASSUME NEW current \in Object, NEW from \in Object, NEW new \in Object
    PROVE  LET p == MergePatch(current, from, new) IN
           /\ p \in Object
           /\ p.phase = current.phase /\ p.fin = current.fin /\ p.gen = current.gen
           /\ p.spec = current.spec
           /\ p.driver = IF new.driver # from.driver THEN new.driver ELSE current.driver
           /\ p.major = IF new.major # from.major THEN new.major ELSE current.major
           /\ p.prov = IF new.prov # from.prov THEN new.prov ELSE current.prov
           /\ p.conds \in {new.conds, current.conds}
BY DEF MergePatch, Object

LEMMA NextDelayType ==
    ASSUME NEW d \in 0..DeletionRequeueCap, NEW stalled \in BOOLEAN
    PROVE  NextDelay(d, stalled) \in 0..DeletionRequeueCap
BY Bounds DEF NextDelay

LEMMA DoneIs ==
    ASSUME Done
    PROVE  /\ pc' = "idle" /\ pc' \in PC /\ cur' = "" /\ base' \in Object /\ mem' \in Object
           /\ lock' \in Object /\ lock' = NoObj /\ prov' \in Provenance /\ pace' = ""
BY ConstantRecords DEF Done, PC, Provenance

-----------------------------------------------------------------------------
(* Type correctness. *)

\* A step counts at most one fault.
LEMMA FaultsStep ==
    TypeInv /\ [Next]_vars => faults' \in 0..MaxFaults
<1>. SUFFICES ASSUME TypeInv, [Next]_vars PROVE faults' \in 0..MaxFaults
  OBVIOUS
<1>1. faults \in 0..MaxFaults /\ MaxFaults \in Nat
  BY Bounds DEF TypeInv, TypeOK
<1>2. UNCHANGED faults \/ (faults < MaxFaults /\ faults' = faults + 1)
  <2>1. CASE PassStep
    BY <2>1 DEF PassStep, ReportStatus, AddFinalizer, Inspect, Stamp, Ensure,
       ReconcileImplicitAccess, ListAccesses, DropImplicit, DeleteBackend, DeleteSlice,
       SliceStalls, DeleteWhole, DeleteFails, ReleaseFinalizer, Fault
  <2>2. ASSUME NEW b \in Buckety,
               \/ BeginPass(b) \/ ForgetPass(b) \/ SyncBuckety(b) \/ UserCreates(b)
               \/ UserEdits(b) \/ UserDeletes(b) \/ ImplicitRevoked(b)
        PROVE  UNCHANGED faults \/ (faults < MaxFaults /\ faults' = faults + 1)
    BY <2>2 DEF Fault, BeginPass, ForgetPass, SyncBuckety, UserCreates, UserEdits, UserDeletes,
       ImplicitRevoked
  <2>3. ASSUME NEW a \in Access, AccessCreated(a) \/ AccessGone(a) PROVE UNCHANGED faults
    BY <2>3 DEF AccessCreated, AccessGone
  <2>4. ASSUME NEW r \in Resource, ThirdPartyCreates(r) \/ ContentWritten(r)
        PROVE  UNCHANGED faults \/ (faults < MaxFaults /\ faults' = faults + 1)
    BY <2>4 DEF ThirdPartyCreates, ContentWritten, Fault
  <2>5. CASE SyncAccesses \/ Restart \/ UNCHANGED vars
    BY <2>5 DEF SyncAccesses, Restart, Fault, vars
  <2>. QED BY <2>1, <2>2, <2>3, <2>4, <2>5 DEF Next
<1>. QED BY <1>1, <1>2

\* What deleting or creating the implicit access can leave.
LEMMA ImplicitSteps ==
    ASSUME TypeInv, NEW b \in Buckety,
           DeleteImplicit(b) \/ (b = cur /\ pc # "idle" /\ mem.spec.want \in SecretName
                                   /\ CreateImplicit(b))
    PROVE  implicit' \in [Buckety -> Implicit]
<1>1. implicit \in [Buckety -> Implicit] /\ NoImplicit \in Implicit
  BY ConstantRecords DEF TypeInv, TypeOK
<1>2. [implicit[b] EXCEPT !.phase = "deleting"] \in Implicit
  BY <1>1 DEF Implicit
<1>3. CASE DeleteImplicit(b)
  BY <1>1, <1>2, <1>3 DEF DeleteImplicit
<1>4. CASE mem.spec.want \in SecretName /\ CreateImplicit(b)
  <2>1. [phase |-> "live", secret |-> mem.spec.want] \in Implicit
    BY <1>4 DEF Implicit
  <2>. QED BY <1>1, <1>4, <2>1 DEF CreateImplicit
<1>. QED BY <1>3, <1>4

Res == [exists : BOOLEAN, content : 0..MaxContent, origin : Buckety \cup {"", ThirdParty}]

LEMMA ResourceUpdates ==
    ASSUME NEW r \in Res, NEW b \in Buckety
    PROVE  /\ NoResource \in Res /\ Ensured(r, b) \in Res
           /\ [r EXCEPT !.content = 0] \in Res
           /\ r.content > 0 => [r EXCEPT !.content = @ - 1] \in Res
           /\ r.content < MaxContent => [r EXCEPT !.content = @ + 1] \in Res
           /\ \A c \in 0..MaxContent :
                 [exists |-> TRUE, content |-> c, origin |-> ThirdParty] \in Res
<1>0. r.content \in 0..MaxContent
  BY DEF Res
<1>1. 0 \in 0..MaxContent /\ r.content \in 0..MaxContent
  BY <1>0, Bounds
<1>2. /\ r.content > 0 => r.content - 1 \in 0..MaxContent
      /\ r.content < MaxContent => r.content + 1 \in 0..MaxContent
  BY <1>1, Bounds
<1>. QED BY <1>1, <1>2 DEF Res, NoResource, Ensured

LEMMA TypeInit == Init => TypeInv
<1>. SUFFICES ASSUME Init PROVE TypeInv
  OBVIOUS
<1>1. 0 \in 0..MaxFaults /\ 0 \in 0..MaxContent /\ 0 \in 0..DeletionRequeueCap
  BY Bounds
<1>2. NoResource \in Res
  BY <1>1 DEF Res, NoResource
<1>. QED BY <1>1, <1>2, ConstantRecords DEF Init, TypeInv, TypeOK, AccessList, PC, Provenance, Res

-----------------------------------------------------------------------------
(* What each call of a pass does. *)

\* The variables no call of a pass writes.
Elsewhere == UNCHANGED <<cache, explicit, listed, running, seen, bound>>

\* The pass goes on with its Buckety, its snapshot and a working copy that
\* differs in conditions only.
GoesOn ==
    /\ cur \in Buckety /\ UNCHANGED <<cur, base>>
    /\ pc' \in PC \ {"idle"} /\ mem' \in Object /\ SameBut(mem', mem)
    /\ prov' \in Provenance /\ pace' \in {"", "progress", "stalled"}

LEMMA TypeFacts ==
    ASSUME TypeInv
    PROVE  /\ obj \in [Buckety -> Object] /\ cache \in [Buckety -> Object]
           /\ base \in Object /\ mem \in Object /\ lock \in Object
           /\ implicit \in [Buckety -> Implicit]
           /\ res \in [Resource -> Res] /\ running \in Backends
           /\ pc \in PC /\ prov \in Provenance /\ pace \in {"", "progress", "stalled"}
           /\ delay \in [Buckety -> 0..DeletionRequeueCap]
           /\ pc # "idle" => cur \in Buckety /\ ResourceOf[cur] \in Resource
<1>1. ResourceOf \in [Buckety -> Resource]
  BY ConstantsAssumption, Zenon
<1>. QED BY <1>1 DEF TypeInv, TypeOK, Res

\* Ready=False under one of the reasons of the code.
LEMMA SurfacedReason ==
    ASSUME NEW o \in Object, NEW reason \in Reason \ {Ready}, NEW flags \in SUBSET Flag
    PROVE  /\ Surfaced(o, reason, flags) \in Object /\ SameBut(Surfaced(o, reason, flags), o)
           /\ Clean(Surfaced(o, reason, flags).conds)
<1>1. /\ Surfaced(o, reason, flags) \in Object /\ SameBut(Surfaced(o, reason, flags), o)
      /\ Surfaced(o, reason, flags).conds = [ready |-> reason, on |-> o.conds.on \cup flags]
  BY SurfacedIs
<1>. QED BY <1>1 DEF Clean

LEMMA Reasons ==
    /\ {"InspectFailed", "BackendResourceExists", "ParameterDrift", "Provisioning",
        "EnsureFailed", "RevokingAccesses", "DeletingContents", "DeleteFailed"}
          \subseteq Reason \ {Ready}
    /\ Ready \in Reason
    /\ {} \in SUBSET Flag /\ {"ParameterDrift"} \in SUBSET Flag
    /\ {"BlockedByAccesses"} \in SUBSET Flag
BY DEF Reason, Flag, Ready

\* The status patch.
LEMMA ReportStatusIs ==
    ASSUME TypeInv, ReportStatus
    PROVE  /\ pc = "report" /\ cur \in Buckety /\ Done /\ Elsewhere
           /\ UNCHANGED <<implicit, res>> /\ delay' \in [Buckety -> 0..DeletionRequeueCap]
           /\ \/ UNCHANGED obj
              \/ /\ Exists(cur) /\ (lock = NoObj \/ obj[cur] = lock)
                 /\ MergePatch(obj[cur], base, mem) \in Object
                 /\ obj' = [obj EXCEPT ![cur] = MergePatch(obj[cur], base, mem)]
<1>1. pc = "report" /\ cur \in Buckety /\ Done /\ Elsewhere /\ UNCHANGED <<implicit, res>>
  BY TypeFacts DEF ReportStatus, Elsewhere, accesses
<1>2. MergePatch(obj[cur], base, mem) \in Object
  BY TypeFacts, <1>1, MergePatchIs
<1>3. NextDelay(delay[cur], pace = "stalled") \in 0..DeletionRequeueCap
  BY TypeFacts, <1>1, NextDelayType
<1>4. delay' \in [Buckety -> 0..DeletionRequeueCap]
  BY TypeFacts, <1>1, <1>3 DEF ReportStatus
<1>5. \/ UNCHANGED obj
      \/ /\ Exists(cur) /\ (lock = NoObj \/ obj[cur] = lock)
         /\ obj' = [obj EXCEPT ![cur] = MergePatch(obj[cur], base, mem)]
  BY DEF ReportStatus, PatchStatus
<1>. QED BY <1>1, <1>2, <1>4, <1>5

LEMMA AddFinalizerIs ==
    ASSUME TypeInv, AddFinalizer
    PROVE  /\ pc = "addFinalizer" /\ cur \in Buckety /\ Done /\ Elsewhere
           /\ UNCHANGED <<implicit, res, delay>>
           /\ \/ UNCHANGED obj
              \/ /\ obj[cur].phase = "live" /\ [obj[cur] EXCEPT !.fin = TRUE] \in Object
                 /\ obj' = [obj EXCEPT ![cur] = [obj[cur] EXCEPT !.fin = TRUE]]
<1>1. /\ pc = "addFinalizer" /\ cur \in Buckety /\ Done /\ Elsewhere
      /\ UNCHANGED <<implicit, res, delay>>
  BY TypeFacts DEF AddFinalizer, Elsewhere, accesses
<1>2. [obj[cur] EXCEPT !.fin = TRUE] \in Object
  BY TypeFacts, <1>1 DEF Object
<1>3. \/ UNCHANGED obj
      \/ /\ obj[cur].phase = "live"
         /\ obj' = [obj EXCEPT ![cur] = [obj[cur] EXCEPT !.fin = TRUE]]
  BY DEF AddFinalizer
<1>. QED BY <1>1, <1>2, <1>3

\* The adoption gate: "Created" only for a resource that is not there.
LEMMA InspectIs ==
    ASSUME TypeInv, Inspect
    PROVE  /\ pc = "inspect" /\ GoesOn /\ Elsewhere
           /\ UNCHANGED <<obj, implicit, res, delay, lock>>
           /\ \/ pc' = "report" /\ Clean(mem'.conds)
              \/ /\ pc' = "stamp" /\ mem' = mem /\ prov' # ""
                 /\ prov' = "Created" => ~res[ResourceOf[cur]].exists
<1>1. /\ pc = "inspect" /\ cur \in Buckety /\ Elsewhere
      /\ UNCHANGED <<obj, implicit, res, delay, lock, cur, base, pace>>
  BY TypeFacts DEF Inspect, Elsewhere, accesses, Report
<1>2. /\ Surfaced(mem, "BackendResourceExists", {}) \in Object
      /\ SameBut(Surfaced(mem, "BackendResourceExists", {}), mem)
      /\ Clean(Surfaced(mem, "BackendResourceExists", {}).conds)
      /\ Surfaced(mem, "InspectFailed", {}) \in Object
      /\ SameBut(Surfaced(mem, "InspectFailed", {}), mem)
      /\ Clean(Surfaced(mem, "InspectFailed", {}).conds)
  BY TypeFacts, Reasons, SurfacedReason
<1>3. ASSUME NEW i \in Inspections(res[ResourceOf[cur]]), NEW a
      PROVE  /\ DecideProvenance(i, a) \in Provenance
             /\ DecideProvenance(i, a) = "Created" => ~res[ResourceOf[cur]].exists
  <2>1. \/ i = [exists |-> res[ResourceOf[cur]].exists, empty |-> res[ResourceOf[cur]].content = 0]
        \/ res[ResourceOf[cur]].exists /\ i = [exists |-> TRUE, empty |-> FALSE]
    BY Zenon DEF Inspections, Observed, ListingDenied
  <2>2. res[ResourceOf[cur]].exists => i.exists
    BY <2>1
  <2>. QED BY <2>2 DEF DecideProvenance, Provenance
<1>4. \/ pc' = "report" /\ mem' = Surfaced(mem, "BackendResourceExists", {}) /\ prov' = prov
      \/ pc' = "report" /\ mem' = Surfaced(mem, "InspectFailed", {}) /\ prov' = prov
      \/ \E i \in Inspections(res[ResourceOf[cur]]) :
            /\ pc' = "stamp" /\ prov' = DecideProvenance(i, mem.spec.adoption) /\ prov' # ""
            /\ mem' = mem
  BY DEF Inspect, Report
<1>5. SameBut(mem, mem)
  BY DEF SameBut
<1>6. pc' \in PC \ {"idle"} /\ mem' \in Object /\ SameBut(mem', mem) /\ prov' \in Provenance
  BY TypeFacts, <1>2, <1>3, <1>4, <1>5 DEF PC
<1>7. \/ pc' = "report" /\ Clean(mem'.conds)
      \/ /\ pc' = "stamp" /\ mem' = mem /\ prov' # ""
         /\ prov' = "Created" => ~res[ResourceOf[cur]].exists
  BY <1>2, <1>3, <1>4
<1>. QED BY TypeFacts, <1>1, <1>6, <1>7 DEF GoesOn

\* The object Status().Update writes, and what the pass goes on with.
Stamping == [mem EXCEPT !.driver = running.driver, !.major = running.major,
                        !.build = running.build, !.prov = prov]

LEMMA StampIs ==
    ASSUME TypeInv, Stamp
    PROVE  /\ pc = "stamp" /\ cur \in Buckety /\ Elsewhere /\ UNCHANGED <<implicit, res, delay>>
           /\ \/ Done /\ UNCHANGED obj
              \/ /\ obj[cur] = base /\ Stamping \in Object
                 /\ obj' = [obj EXCEPT ![cur] = Stamping] /\ lock' = Stamping
                 /\ UNCHANGED <<cur, base, prov, pace>>
                 /\ mem' \in Object /\ SameBut(mem', Stamping)
                 /\ \/ pc' = "report" /\ Clean(mem'.conds)
                    \/ pc' = "ensure" /\ Stamping.major = running.major
                                      /\ mem'.conds.on \cap Paused = {}
<1>1. /\ pc = "stamp" /\ cur \in Buckety /\ Elsewhere /\ UNCHANGED <<implicit, res, delay>>
  BY TypeFacts DEF Stamp, Elsewhere, accesses
<1>2. Stamping \in Object
  BY TypeFacts, ConstantRecords DEF Object, Stamping
<1>3. \/ Done /\ UNCHANGED obj
      \/ /\ obj[cur] = base /\ obj' = [obj EXCEPT ![cur] = Stamping] /\ lock' = Stamping
         /\ UNCHANGED <<cur, base, prov, pace>>
         /\ pc' = Check(Stamping).pc /\ mem' = Check(Stamping).mem
  BY DEF Stamp, Stamping
<1>4. /\ Check(Stamping).mem \in Object /\ SameBut(Check(Stamping).mem, Stamping)
      /\ Check(Stamping).pc \in {"report", "ensure"}
      /\ Check(Stamping).pc = "report" => Check(Stamping).mem.conds.ready # Ready
      /\ Check(Stamping).pc = "ensure" => /\ Stamping.major = running.major
                                          /\ Check(Stamping).mem.conds.on \cap Paused = {}
  BY TypeFacts, <1>2, CheckIs
<1>. QED BY <1>1, <1>2, <1>3, <1>4 DEF Clean

LEMMA StampingIs ==
    ASSUME TypeInv
    PROVE  /\ Stamping.phase = mem.phase /\ Stamping.fin = mem.fin
           /\ Stamping.conds = mem.conds /\ Stamping.spec = mem.spec
           /\ Stamping.driver = running.driver /\ Stamping.major = running.major
           /\ Stamping.prov = prov
BY TypeFacts DEF Stamping, Object

\* EnsureBuckety makes the resource when it is not there, or leaves it.
LEMMA EnsureIs ==
    ASSUME TypeInv, Ensure
    PROVE  /\ pc = "ensure" /\ GoesOn /\ Elsewhere /\ UNCHANGED <<obj, implicit, delay, lock, prov>>
           /\ \/ UNCHANGED res
              \/ /\ Ensured(res[ResourceOf[cur]], cur) \in Res
                 /\ res' = [res EXCEPT ![ResourceOf[cur]] = Ensured(res[ResourceOf[cur]], cur)]
           /\ \/ pc' = "report" /\ Clean(mem'.conds)
              \/ pc' = "implicit" /\ mem'.conds.on = mem.conds.on \ {"ParameterDrift"}
<1>. DEFINE m == [mem EXCEPT !.conds.on = @ \ {"ParameterDrift"}]
<1>1. /\ pc = "ensure" /\ cur \in Buckety /\ Elsewhere
      /\ UNCHANGED <<obj, implicit, delay, lock, prov, cur, base, pace>>
  BY TypeFacts DEF Ensure, Elsewhere, accesses, EnsureDrifts, EnsurePropagates, EnsureFails, Report
<1>2. Ensured(res[ResourceOf[cur]], cur) \in Res
  BY TypeFacts, <1>1, ResourceUpdates
<1>3. \/ UNCHANGED res
      \/ res' = [res EXCEPT ![ResourceOf[cur]] = Ensured(res[ResourceOf[cur]], cur)]
  BY DEF Ensure, EnsureDrifts, EnsurePropagates, EnsureFails
<1>4. ASSUME NEW reason \in {"ParameterDrift", "Provisioning", "EnsureFailed"},
             NEW flags \in {{}, {"ParameterDrift"}}
      PROVE  /\ Surfaced(mem, reason, flags) \in Object
             /\ SameBut(Surfaced(mem, reason, flags), mem)
             /\ Clean(Surfaced(mem, reason, flags).conds)
  <2>1. reason \in Reason \ {Ready} /\ flags \in SUBSET Flag
    BY Reasons
  <2>. QED BY <2>1, TypeFacts, SurfacedReason
<1>5. m \in Object /\ SameBut(m, mem) /\ m.conds.on = mem.conds.on \ {"ParameterDrift"}
  <2>1. mem.conds \in [ready : Reason, on : SUBSET Flag] /\ mem \in Object
    BY TypeFacts, ObjectFields
  <2>2. [mem.conds EXCEPT !.on = @ \ {"ParameterDrift"}]
          = [ready |-> mem.conds.ready, on |-> mem.conds.on \ {"ParameterDrift"}]
    BY <2>1
  <2>3. [ready |-> mem.conds.ready, on |-> mem.conds.on \ {"ParameterDrift"}]
          \in [ready : Reason, on : SUBSET Flag]
    BY <2>1
  <2>4. m = [mem EXCEPT !.conds = [ready |-> mem.conds.ready,
                                   on |-> mem.conds.on \ {"ParameterDrift"}]]
    BY <2>1, <2>2 DEF Object
  <2>. QED BY <2>1, <2>3, <2>4 DEF Object, SameBut
<1>. HIDE DEF m
<1>6. \/ pc' = "implicit" /\ mem' = m
      \/ pc' = "report" /\ mem' = Surfaced(mem, "ParameterDrift", {"ParameterDrift"})
      \/ pc' = "report" /\ mem' = Surfaced(mem, "Provisioning", {})
      \/ pc' = "report" /\ mem' = Surfaced(mem, "EnsureFailed", {})
  BY DEF Ensure, EnsureDrifts, EnsurePropagates, EnsureFails, Report, m
<1>7. pc' \in PC \ {"idle"} /\ mem' \in Object /\ SameBut(mem', mem)
  BY <1>4, <1>5, <1>6 DEF PC
<1>8. \/ pc' = "report" /\ Clean(mem'.conds)
      \/ pc' = "implicit" /\ mem'.conds.on = mem.conds.on \ {"ParameterDrift"}
  BY <1>4, <1>5, <1>6
<1>. QED BY TypeFacts, <1>1, <1>2, <1>3, <1>7, <1>8 DEF GoesOn

\* The implicit access comes and goes, the others stay.
LEMMA ImplicitIs ==
    ASSUME TypeInv, NEW c \in Buckety, DeleteImplicit(c) \/ CreateImplicit(c)
    PROVE  /\ \A b \in Buckety \ {c} : implicit'[b] = implicit[b]
           /\ DeleteImplicit(c) => (implicit'[c].phase # "none" => implicit[c].phase # "none")
<1>1. implicit \in [Buckety -> Implicit]
  BY TypeFacts
<1>2. NoImplicit.phase = "none"
  BY DEF NoImplicit
<1>3. \A b \in Buckety \ {c} : implicit'[b] = implicit[b]
  BY <1>1 DEF DeleteImplicit, CreateImplicit
<1>4. ASSUME DeleteImplicit(c), implicit'[c].phase # "none" PROVE implicit[c].phase # "none"
  BY <1>4 DEF DeleteImplicit
<1>. QED BY <1>3, <1>4

LEMMA ReconcileImplicitAccessIs ==
    ASSUME TypeInv, ReconcileImplicitAccess
    PROVE  /\ pc = "implicit" /\ cur \in Buckety /\ Elsewhere /\ UNCHANGED <<obj, res, delay>>
           /\ implicit' \in [Buckety -> Implicit]
           /\ \A b \in Buckety \ {cur} : implicit'[b] = implicit[b]
           /\ \/ Done
              \/ /\ GoesOn /\ UNCHANGED <<lock, prov>>
                 /\ pc' = "report" /\ mem'.conds.on = mem.conds.on
<1>1. /\ pc = "implicit" /\ cur \in Buckety /\ Elsewhere /\ UNCHANGED <<obj, res, delay>>
  BY TypeFacts DEF ReconcileImplicitAccess, Elsewhere
<1>2. /\ mem \in Object /\ mem.spec \in SpecValue /\ mem.gen \in 0..MaxGen
      /\ mem.conds \in [ready : Reason, on : SUBSET Flag]
  BY TypeFacts, ObjectFields
<1>3. mem.spec.want \in SecretName
  BY <1>2 DEF SpecValue, SecretName
<1>4. UNCHANGED implicit \/ DeleteImplicit(cur) \/ CreateImplicit(cur)
  BY DEF ReconcileImplicitAccess
<1>5. implicit' \in [Buckety -> Implicit]
  BY <1>1, <1>3, <1>4, TypeFacts, ImplicitSteps
<1>6. \A b \in Buckety \ {cur} : implicit'[b] = implicit[b]
  BY <1>1, <1>4, ImplicitIs
<1>7. Committed \in Object /\ SameBut(Committed, mem) /\ Committed.conds.on = mem.conds.on
  <2>1. [mem.conds EXCEPT !.ready = Ready] = [ready |-> Ready, on |-> mem.conds.on]
    BY <1>2
  <2>2. [ready |-> Ready, on |-> mem.conds.on] \in [ready : Reason, on : SUBSET Flag]
    BY <1>2, Reasons
  <2>3. Committed = [mem EXCEPT !.conds = [ready |-> Ready, on |-> mem.conds.on],
                                !.observed = mem.gen]
    BY <1>2, <2>1 DEF Committed, Object
  <2>. QED BY <1>2, <2>2, <2>3 DEF Object, SameBut
<1>8. \/ Done
      \/ pc' = "report" /\ mem' = Committed /\ UNCHANGED <<cur, base, lock, prov, pace>>
  BY DEF ReconcileImplicitAccess, Report
<1>9. "report" \in PC \ {"idle"}
  BY DEF PC
<1>. QED BY <1>1, <1>5, <1>6, <1>7, <1>8, <1>9, TypeFacts DEF GoesOn

\* The teardown goes on from the live list only when it shows no access.
LEMMA ListAccessesIs ==
    ASSUME TypeInv, ListAccesses
    PROVE  /\ pc = "list" /\ cur \in Buckety /\ Elsewhere /\ UNCHANGED <<obj, implicit, res, delay>>
           /\ \/ Done
              \/ /\ GoesOn /\ UNCHANGED <<lock, prov>>
                 /\ pc' \in {"report", "dropImplicit", "deleteBackend", "release"}
                 /\ pc' = "report" => \/ mem'.conds.ready # Ready
                                      \/ /\ mem'.conds.ready = mem.conds.ready
                                         /\ mem'.conds.on = mem.conds.on \cup {"BlockedByAccesses"}
                 /\ pc' # "report" => mem' = mem
                 /\ pc' \in Destroying => /\ References(cur, explicit) = {}
                                          /\ implicit[cur].phase = "none"
                 /\ pc' = "deleteBackend" => /\ Stamped(mem) /\ mem.driver = running.driver
                                             /\ mem.prov # "Adopted"
<1>. DEFINE s == Surface(mem, mem.conds.ready, {"BlockedByAccesses"})
            blocked == References(cur, explicit) # {}
            held == implicit[cur].phase # "none"
<1>1. /\ pc = "list" /\ cur \in Buckety /\ Elsewhere /\ UNCHANGED <<obj, implicit, res, delay>>
  BY TypeFacts DEF ListAccesses, Elsewhere, accesses
<1>2. /\ s.pc = "report" /\ s.mem \in Object /\ SameBut(s.mem, mem)
      /\ s.mem.conds.ready = mem.conds.ready
      /\ s.mem.conds.on = mem.conds.on \cup {"BlockedByAccesses"}
  <2>1. mem \in Object /\ mem.conds.ready \in Reason
    BY TypeFacts, ObjectFields
  <2>2. /\ Surfaced(mem, mem.conds.ready, {"BlockedByAccesses"}) \in Object
        /\ SameBut(Surfaced(mem, mem.conds.ready, {"BlockedByAccesses"}), mem)
        /\ Surfaced(mem, mem.conds.ready, {"BlockedByAccesses"}).conds
             = [ready |-> mem.conds.ready, on |-> mem.conds.on \cup {"BlockedByAccesses"}]
    BY <2>1, Reasons, SurfacedIs
  <2>3. s.pc = "report" /\ s.mem = Surfaced(mem, mem.conds.ready, {"BlockedByAccesses"})
    BY DEF Surface, Step
  <2>. QED BY <2>2, <2>3
<1>3. /\ Teardown(mem).mem \in Object /\ SameBut(Teardown(mem).mem, mem)
      /\ Teardown(mem).pc \in {"report", "deleteBackend", "release"}
      /\ Teardown(mem).pc = "report" => Teardown(mem).mem.conds.ready # Ready
      /\ Teardown(mem).pc \in {"deleteBackend", "release"} => Teardown(mem).mem = mem
      /\ Teardown(mem).pc = "deleteBackend" => /\ Stamped(mem) /\ mem.driver = running.driver
                                               /\ mem.prov # "Adopted"
  BY TypeFacts, TeardownIs
<1>4. SameBut(mem, mem) /\ mem \in Object
  BY TypeFacts DEF SameBut
<1>5. \/ Done
      \/ /\ UNCHANGED <<cur, base, lock, prov, pace>>
         /\ \/ blocked /\ pc' = s.pc /\ mem' = s.mem
            \/ ~blocked /\ held /\ pc' = "dropImplicit" /\ mem' = mem
            \/ ~blocked /\ ~held /\ pc' = Teardown(mem).pc /\ mem' = Teardown(mem).mem
  BY DEF ListAccesses, Step
<1>. HIDE DEF s, blocked, held
<1>6. CASE Done
  BY <1>1, <1>6
<1>7. CASE /\ UNCHANGED <<cur, base, lock, prov, pace>>
           /\ blocked /\ pc' = s.pc /\ mem' = s.mem
  BY <1>1, <1>2, <1>7, TypeFacts DEF GoesOn, PC, Destroying
<1>8. CASE /\ UNCHANGED <<cur, base, lock, prov, pace>>
           /\ ~blocked /\ held /\ pc' = "dropImplicit" /\ mem' = mem
  BY <1>1, <1>4, <1>8, TypeFacts DEF GoesOn, PC, Destroying
<1>9. CASE /\ UNCHANGED <<cur, base, lock, prov, pace>>
           /\ ~blocked /\ ~held /\ pc' = Teardown(mem).pc /\ mem' = Teardown(mem).mem
  BY <1>1, <1>3, <1>9, TypeFacts DEF GoesOn, PC, Destroying, blocked, held
<1>. QED BY <1>5, <1>6, <1>7, <1>8, <1>9

LEMMA DropImplicitIs ==
    ASSUME TypeInv, DropImplicit
    PROVE  /\ pc = "dropImplicit" /\ cur \in Buckety /\ Elsewhere /\ UNCHANGED <<obj, res, delay>>
           /\ implicit' \in [Buckety -> Implicit]
           /\ \A b \in Buckety : implicit'[b].phase # "none" => implicit[b].phase # "none"
           /\ \/ Done
              \/ GoesOn /\ UNCHANGED <<lock, prov>> /\ pc' = "report" /\ Clean(mem'.conds)
<1>1. /\ pc = "dropImplicit" /\ cur \in Buckety /\ Elsewhere /\ UNCHANGED <<obj, res, delay>>
  BY TypeFacts DEF DropImplicit, Elsewhere
<1>2. UNCHANGED implicit \/ DeleteImplicit(cur)
  BY DEF DropImplicit
<1>3. implicit' \in [Buckety -> Implicit]
  BY <1>1, <1>2, TypeFacts, ImplicitSteps
<1>4. \A b \in Buckety : implicit'[b].phase # "none" => implicit[b].phase # "none"
  <2>1. CASE DeleteImplicit(cur)
    BY <1>1, <2>1, ImplicitIs
  <2>. QED BY <1>2, <2>1
<1>5. /\ Surfaced(mem, "RevokingAccesses", {}) \in Object
      /\ SameBut(Surfaced(mem, "RevokingAccesses", {}), mem)
      /\ Clean(Surfaced(mem, "RevokingAccesses", {}).conds)
  BY TypeFacts, Reasons, SurfacedReason
<1>6. \/ Done
      \/ /\ pc' = "report" /\ mem' = Surfaced(mem, "RevokingAccesses", {})
         /\ UNCHANGED <<cur, base, lock, prov, pace>>
  BY DEF DropImplicit, Report
<1>7. "report" \in PC \ {"idle"}
  BY DEF PC
<1>. QED BY <1>1, <1>3, <1>4, <1>5, <1>6, <1>7, TypeFacts DEF GoesOn

\* What is left of a resource that a teardown slice has worked on.
Shrunk(n, o) ==
    \/ n = NoResource
    \/ n.exists = o.exists /\ n.origin = o.origin /\ n.content <= o.content

\* DeleteBuckety empties or deletes the resource of this Buckety only.
LEMMA DeleteBackendIs ==
    ASSUME TypeInv, DeleteBackend
    PROVE  /\ pc = "deleteBackend" /\ GoesOn /\ Elsewhere
           /\ UNCHANGED <<obj, implicit, delay, lock, prov>>
           /\ res' \in [Resource -> Res]
           /\ \A r \in Resource : Shrunk(res'[r], res[r])
           /\ \/ pc' = "report" /\ Clean(mem'.conds)
              \/ pc' = "release" /\ mem' = mem
<1>. DEFINE q == ResourceOf[cur]
<1>1. /\ pc = "deleteBackend" /\ cur \in Buckety /\ Elsewhere /\ q \in Resource
      /\ UNCHANGED <<obj, implicit, delay, lock, prov, cur, base>>
  BY TypeFacts DEF DeleteBackend, Elsewhere, accesses, DeleteSlice, SliceStalls, SliceReported,
     DeleteWhole, DeleteFails, Report, Goto
<1>2. /\ res \in [Resource -> Res] /\ res[q] \in Res /\ res[q].content \in 0..MaxContent
      /\ MaxContent \in Nat
  BY <1>1, TypeFacts, Bounds DEF Res
<1>. HIDE DEF q
<1>3. \/ UNCHANGED res
      \/ res[q].content > 0 /\ res' = [res EXCEPT ![q] = [res[q] EXCEPT !.content = @ - 1]]
      \/ res' = [res EXCEPT ![q] = [res[q] EXCEPT !.content = 0]]
      \/ res' = [res EXCEPT ![q] = NoResource]
  BY DEF DeleteBackend, DeleteSlice, SliceStalls, DeleteWhole, DeleteFails, q
<1>4. \E n \in Res : res' = [res EXCEPT ![q] = n] /\ Shrunk(n, res[q])
  <2>1. CASE UNCHANGED res
    BY <1>1, <1>2, <2>1 DEF Shrunk
  <2>2. CASE res[q].content > 0 /\ res' = [res EXCEPT ![q] = [res[q] EXCEPT !.content = @ - 1]]
    <3>1. res[q].content - 1 \in 0..MaxContent /\ res[q].content - 1 <= res[q].content
      BY <1>2, <2>2
    <3>. DEFINE n == [res[q] EXCEPT !.content = @ - 1]
    <3>2. n \in Res /\ n.exists = res[q].exists /\ n.origin = res[q].origin
          /\ n.content = res[q].content - 1
      BY <1>2, <3>1 DEF Res
    <3>. QED BY <2>2, <3>1, <3>2 DEF Shrunk
  <2>3. CASE res' = [res EXCEPT ![q] = [res[q] EXCEPT !.content = 0]]
    <3>1. 0 \in 0..MaxContent /\ 0 <= res[q].content
      BY <1>2
    <3>. DEFINE n == [res[q] EXCEPT !.content = 0]
    <3>2. n \in Res /\ n.exists = res[q].exists /\ n.origin = res[q].origin /\ n.content = 0
      BY <1>2, <3>1 DEF Res
    <3>. QED BY <2>3, <3>1, <3>2 DEF Shrunk
  <2>4. CASE res' = [res EXCEPT ![q] = NoResource]
    BY <1>1, <1>2, <2>4, ResourceUpdates DEF Shrunk
  <2>. QED BY <1>3, <2>1, <2>2, <2>3, <2>4
<1>5. res' \in [Resource -> Res]
  BY <1>2, <1>4
<1>6. \A r \in Resource : Shrunk(res'[r], res[r])
  <2>0. \A r \in Resource : res[r].content \in 0..MaxContent
    BY <1>2 DEF Res
  <2>1. \A r \in Resource : res[r].content \in Nat
    BY <1>2, <2>0
  <2>2. \A r \in Resource : Shrunk(res[r], res[r])
    BY <2>1 DEF Shrunk
  <2>. QED BY <1>2, <1>4, <2>2
<1>7. /\ Surfaced(mem, "DeletingContents", {}) \in Object
      /\ SameBut(Surfaced(mem, "DeletingContents", {}), mem)
      /\ Clean(Surfaced(mem, "DeletingContents", {}).conds)
      /\ Surfaced(mem, "DeleteFailed", {}) \in Object
      /\ SameBut(Surfaced(mem, "DeleteFailed", {}), mem)
      /\ Clean(Surfaced(mem, "DeleteFailed", {}).conds)
  BY TypeFacts, Reasons, SurfacedReason
<1>8. /\ pace' \in {pace, "progress", "stalled"}
      /\ \/ pc' = "report" /\ mem' \in {Surfaced(mem, "DeletingContents", {}),
                                        Surfaced(mem, "DeleteFailed", {})}
         \/ pc' = "release" /\ mem' = mem
  BY DEF DeleteBackend, DeleteSlice, SliceStalls, SliceReported, DeleteWhole, DeleteFails,
     Report, Goto
<1>9. {"report", "release"} \subseteq PC \ {"idle"} /\ SameBut(mem, mem)
  BY DEF PC, SameBut
<1>. QED BY TypeFacts, <1>1, <1>5, <1>6, <1>7, <1>8, <1>9 DEF GoesOn

\* The finalizer is removed from the very object the pass read.
LEMMA ReleaseFinalizerIs ==
    ASSUME TypeInv, ReleaseFinalizer
    PROVE  /\ pc = "release" /\ cur \in Buckety /\ Done /\ Elsewhere /\ UNCHANGED <<implicit, res>>
           /\ delay' \in [Buckety -> 0..DeletionRequeueCap]
           /\ \/ UNCHANGED obj
              \/ /\ obj[cur] = base /\ [obj[cur] EXCEPT !.phase = "gone", !.fin = FALSE] \in Object
                 /\ obj' = [obj EXCEPT ![cur] = [obj[cur] EXCEPT !.phase = "gone", !.fin = FALSE]]
<1>1. /\ pc = "release" /\ cur \in Buckety /\ Done /\ Elsewhere /\ UNCHANGED <<implicit, res>>
  BY TypeFacts DEF ReleaseFinalizer, Elsewhere, accesses
<1>2. 0 \in 0..DeletionRequeueCap
  BY Bounds
<1>3. delay' \in [Buckety -> 0..DeletionRequeueCap]
  BY <1>1, <1>2, TypeFacts DEF ReleaseFinalizer
<1>4. [obj[cur] EXCEPT !.phase = "gone", !.fin = FALSE] \in Object
  BY TypeFacts, <1>1 DEF Object
<1>5. \/ UNCHANGED obj
      \/ /\ obj[cur] = base
         /\ obj' = [obj EXCEPT ![cur] = [obj[cur] EXCEPT !.phase = "gone", !.fin = FALSE]]
  BY TypeFacts, <1>1 DEF ReleaseFinalizer
<1>. QED BY <1>1, <1>3, <1>4, <1>5

\* A pass begins on the cached object, or is deferred.
LEMMA BeginPassIs ==
    ASSUME TypeInv, NEW b \in Buckety, BeginPass(b)
    PROVE  /\ pc = "idle" /\ cache[b].phase \in {"live", "deleting"}
           /\ UNCHANGED <<obj, cache, implicit, explicit, listed, res, running, delay, lock,
                          prov, pace, bound>>
           /\ seen' \subseteq Buckety
           /\ \/ UNCHANGED <<pc, cur, base, mem>>
              \/ /\ cur' = b /\ base' = cache[b]
                 /\ pc' = FirstStep(cache[b]).pc /\ mem' = FirstStep(cache[b]).mem
<1>1. seen \subseteq Buckety
  BY DEF TypeInv, TypeOK
<1>. QED BY <1>1 DEF BeginPass, accesses

\* The calls of a pass keep the types.
LEMMA TypePassStep == TypeInv /\ PassStep /\ faults' \in 0..MaxFaults => TypeInv'
<1>. SUFFICES ASSUME TypeInv, PassStep, faults' \in 0..MaxFaults PROVE TypeInv'
  OBVIOUS
<1>t. /\ obj \in [Buckety -> Object] /\ lock \in Object /\ implicit \in [Buckety -> Implicit]
      /\ res \in [Resource -> Res] /\ delay \in [Buckety -> 0..DeletionRequeueCap]
      /\ base \in Object
  BY TypeFacts
<1>. DEFINE Typed == /\ pc' \in PC \ {"idle"} /\ cur' \in Buckety /\ base' \in Object
                      /\ mem' \in Object /\ lock' \in Object /\ prov' \in Provenance
                      /\ pace' \in {"", "progress", "stalled"}
<1>g. GoesOn /\ lock' \in Object => Typed
  BY <1>t DEF GoesOn
<1>1. /\ Elsewhere /\ (Done \/ Typed)
      /\ obj' \in [Buckety -> Object] /\ implicit' \in [Buckety -> Implicit]
      /\ res' \in [Resource -> Res] /\ delay' \in [Buckety -> 0..DeletionRequeueCap]
  <2>. HIDE DEF Typed
  <2>1. CASE ReportStatus
    BY <1>t, <2>1, ReportStatusIs
  <2>2. CASE AddFinalizer
    BY <1>t, <2>2, AddFinalizerIs
  <2>3. CASE Inspect
    BY <1>t, <1>g, <2>3, InspectIs
  <2>4. CASE Stamp
    <3>1. CASE Done /\ UNCHANGED obj
      BY <1>t, <2>4, <3>1, StampIs
    <3>2. CASE /\ obj[cur] = base /\ Stamping \in Object
               /\ obj' = [obj EXCEPT ![cur] = Stamping] /\ lock' = Stamping
               /\ UNCHANGED <<cur, base, prov, pace>>
               /\ mem' \in Object /\ pc' \in {"report", "ensure"}
      <4>1. cur \in Buckety /\ Elsewhere /\ UNCHANGED <<implicit, res, delay>>
        BY <2>4, StampIs
      <4>2. Typed
        BY <1>t, <3>2, <4>1, TypeFacts DEF Typed, PC
      <4>. QED BY <1>t, <3>2, <4>1, <4>2
    <3>. QED BY <2>4, <3>1, <3>2, StampIs
  <2>5. CASE Ensure
    BY <1>t, <1>g, <2>5, EnsureIs
  <2>6. CASE ReconcileImplicitAccess
    BY <1>t, <1>g, <2>6, ReconcileImplicitAccessIs
  <2>7. CASE ListAccesses
    BY <1>t, <1>g, <2>7, ListAccessesIs
  <2>8. CASE DropImplicit
    BY <1>t, <1>g, <2>8, DropImplicitIs
  <2>9. CASE DeleteBackend
    BY <1>t, <1>g, <2>9, DeleteBackendIs
  <2>10. CASE ReleaseFinalizer
    BY <1>t, <2>10, ReleaseFinalizerIs
  <2>. QED BY <2>1, <2>2, <2>3, <2>4, <2>5, <2>6, <2>7, <2>8, <2>9, <2>10 DEF PassStep
<1>2. /\ cache' \in [Buckety -> Object] /\ explicit' \subseteq Access
      /\ listed' \in [implicit : [Buckety -> Implicit], explicit : SUBSET Access]
      /\ running' \in Backends /\ seen' \subseteq Buckety /\ bound' \in [Buckety -> SUBSET Access]
  BY <1>1 DEF Elsewhere, TypeInv, TypeOK
<1>3. CASE Done
  BY <1>1, <1>2, <1>3, DoneIs DEF TypeInv, TypeOK, Res
<1>4. CASE Typed
  BY <1>1, <1>2, <1>4 DEF TypeInv, TypeOK, Res
<1>. QED BY <1>1, <1>3, <1>4

\* The environment keeps them too.
LEMMA TypeNext == TypeInv /\ [Next]_vars => TypeInv'
<1>. SUFFICES ASSUME TypeInv, [Next]_vars PROVE TypeInv'
  OBVIOUS
<1>0. faults' \in 0..MaxFaults
  BY FaultsStep
<1>t. /\ obj \in [Buckety -> Object] /\ implicit \in [Buckety -> Implicit]
      /\ res \in [Resource -> Res] /\ cache \in [Buckety -> Object]
  BY TypeFacts
<1>1. CASE PassStep
  BY <1>0, <1>1, TypePassStep
<1>2. ASSUME NEW b \in Buckety, BeginPass(b) PROVE TypeInv'
  <2>1. /\ FirstStep(cache[b]).mem \in Object
        /\ FirstStep(cache[b]).pc \in {"report", "addFinalizer", "inspect", "ensure", "list"}
    BY <1>t, TypeFacts, FirstStepIs
  <2>2. /\ UNCHANGED <<obj, cache, implicit, explicit, listed, res, running, delay, lock,
                       prov, pace, bound>>
        /\ seen' \subseteq Buckety
        /\ \/ UNCHANGED <<pc, cur, base, mem>>
           \/ /\ cur' = b /\ base' = cache[b]
              /\ pc' = FirstStep(cache[b]).pc /\ mem' = FirstStep(cache[b]).mem
    BY <1>2, BeginPassIs
  <2>3. CASE UNCHANGED <<pc, cur, base, mem>>
    BY <1>0, <2>2, <2>3 DEF TypeInv, TypeOK
  <2>4. CASE /\ cur' = b /\ base' = cache[b]
             /\ pc' = FirstStep(cache[b]).pc /\ mem' = FirstStep(cache[b]).mem
    <3>1. cur' \in Buckety /\ base' \in Object /\ pc' \in PC /\ mem' \in Object
      BY <1>t, <2>1, <2>4 DEF PC
    <3>. QED BY <1>0, <2>2, <3>1 DEF TypeInv, TypeOK
  <2>. QED BY <2>2, <2>3, <2>4
<1>3. ASSUME NEW b \in Buckety, ForgetPass(b) \/ SyncBuckety(b) PROVE TypeInv'
  BY <1>3 DEF ForgetPass, SyncBuckety, pass, accesses, TypeInv, TypeOK
<1>4. ASSUME NEW b \in Buckety, UserCreates(b) \/ UserEdits(b) \/ UserDeletes(b) PROVE TypeInv'
  <2>1. \E o \in Object : obj' = [obj EXCEPT ![b] = o]
    <3>1. CASE UserCreates(b)
      <4>1. PICK s \in Specs : obj' = [obj EXCEPT ![b] = [NoObj EXCEPT !.phase = "live", !.gen = 1,
                                                                       !.spec = s]]
        BY <3>1 DEF UserCreates
      <4>2. s \in SpecValue /\ NoObj \in Object
        BY ConstantRecords
      <4>3. 1 \in 0..MaxGen
        BY Bounds
      <4>4. [NoObj EXCEPT !.phase = "live", !.gen = 1, !.spec = s] \in Object
        BY <4>2, <4>3 DEF Object
      <4>. QED BY <4>1, <4>4
    <3>2. CASE UserEdits(b)
      <4>1. PICK s \in Specs :
              obj' = [obj EXCEPT ![b] = [obj[b] EXCEPT !.spec = s, !.gen = @ + 1]]
        BY <1>t, <3>2 DEF UserEdits
      <4>2. s \in SpecValue /\ obj[b] \in Object
        BY <1>t, ConstantRecords
      <4>3. obj[b].gen \in 0..MaxGen /\ obj[b].gen < MaxGen
        BY <3>2, <4>2, ObjectFields DEF UserEdits
      <4>4. obj[b].gen + 1 \in 0..MaxGen
        BY <4>3, Bounds
      <4>5. [obj[b] EXCEPT !.spec = s, !.gen = @ + 1] \in Object
        BY <4>2, <4>4 DEF Object
      <4>. QED BY <4>1, <4>5
    <3>3. CASE UserDeletes(b)
      <4>1. PICK p \in {"deleting", "gone"} : obj' = [obj EXCEPT ![b] = [obj[b] EXCEPT !.phase = p]]
        BY <1>t, <3>3 DEF UserDeletes
      <4>2. [obj[b] EXCEPT !.phase = p] \in Object
        BY <1>t DEF Object
      <4>. QED BY <4>1, <4>2
    <3>. QED BY <1>4, <3>1, <3>2, <3>3
  <2>2. obj' \in [Buckety -> Object]
    BY <1>t, <2>1
  <2>3. bound' \in [Buckety -> SUBSET Access]
    <3>1. bound \in [Buckety -> SUBSET Access] /\ explicit \subseteq Access
      BY DEF TypeInv, TypeOK
    <3>2. (IF obj[b].fin THEN References(b, explicit) ELSE {}) \in SUBSET Access
      BY <3>1 DEF References
    <3>3. \/ UNCHANGED bound
          \/ bound' = [bound EXCEPT ![b] = IF obj[b].fin THEN References(b, explicit) ELSE {}]
      BY <1>4 DEF UserCreates, UserEdits, UserDeletes
    <3>. QED BY <3>1, <3>2, <3>3
  <2>4. UNCHANGED <<cache, accesses, res, running, seen, delay, pass, faults>>
    BY <1>4 DEF UserCreates, UserEdits, UserDeletes
  <2>. QED BY <2>2, <2>3, <2>4 DEF pass, accesses, TypeInv, TypeOK
<1>5. ASSUME NEW b \in Buckety, ImplicitRevoked(b) PROVE TypeInv'
  <2>1. implicit' \in [Buckety -> Implicit]
    BY <1>t, <1>5, ConstantRecords DEF ImplicitRevoked
  <2>. QED BY <1>5, <2>1 DEF ImplicitRevoked, pass, TypeInv, TypeOK
<1>6. CASE SyncAccesses
  BY <1>6 DEF SyncAccesses, AccessList, pass, TypeInv, TypeOK
<1>7. ASSUME NEW a \in Access, AccessCreated(a) \/ AccessGone(a) PROVE TypeInv'
  <2>1. explicit' \subseteq Access
    BY <1>7 DEF AccessCreated, AccessGone, TypeInv, TypeOK
  <2>2. bound' \in [Buckety -> SUBSET Access]
    <3>1. bound \in [Buckety -> SUBSET Access]
      BY DEF TypeInv, TypeOK
    <3>2. UNCHANGED bound \/ bound' = [b \in Buckety |-> bound[b] \ {a}]
      BY <1>7 DEF AccessCreated, AccessGone
    <3>3. \A b \in Buckety : bound[b] \ {a} \in SUBSET Access
      BY <3>1
    <3>. QED BY <3>1, <3>2, <3>3
  <2>. QED BY <1>7, <2>1, <2>2 DEF AccessCreated, AccessGone, pass, TypeInv, TypeOK
<1>8. ASSUME NEW r \in Resource, ThirdPartyCreates(r) \/ ContentWritten(r) PROVE TypeInv'
  <2>1. res[r] \in Res /\ res[r].content \in 0..MaxContent
    BY <1>t DEF Res
  <2>2. /\ \A c \in 0..MaxContent :
              [exists |-> TRUE, content |-> c, origin |-> ThirdParty] \in Res
        /\ res[r].content < MaxContent => [res[r] EXCEPT !.content = @ + 1] \in Res
    <3>1. \A c \in 0..MaxContent :
              [exists |-> TRUE, content |-> c, origin |-> ThirdParty] \in Res
      BY DEF Res
    <3>2. res[r].content < MaxContent => res[r].content + 1 \in 0..MaxContent
      BY <2>1, Bounds
    <3>. QED BY <2>1, <3>1, <3>2 DEF Res
  <2>3. res' \in [Resource -> Res]
    BY <1>8, <1>t, <2>2 DEF ThirdPartyCreates, ContentWritten
  <2>4. UNCHANGED <<obj, cache, accesses, running, seen, delay, pass, bound>>
    BY <1>8 DEF ThirdPartyCreates, ContentWritten
  <2>. QED BY <1>0, <2>3, <2>4 DEF pass, accesses, TypeInv, TypeOK, Res
<1>9. CASE Restart
  <2>1. /\ Done /\ UNCHANGED <<obj, implicit, explicit, res, bound>> /\ running' \in Backends
        /\ cache' = obj /\ listed' = AccessList /\ seen' = {}
        /\ delay' = [b \in Buckety |-> 0]
    BY <1>9 DEF Restart
  <2>2. delay' \in [Buckety -> 0..DeletionRequeueCap]
    <3>1. 0 \in 0..DeletionRequeueCap
      BY Bounds
    <3>. QED BY <2>1, <3>1
  <2>. QED BY <1>0, <2>1, <2>2, DoneIs DEF TypeInv, TypeOK, AccessList
<1>10. CASE UNCHANGED vars
  BY <1>10 DEF vars, TypeInv, TypeOK
<1>. QED BY <1>1, <1>2, <1>3, <1>4, <1>5, <1>6, <1>7, <1>8, <1>9, <1>10 DEF Next

\* Every state of the model is well typed: in particular the deletion delay
\* stays between zero and its cap (deletebackoff.go) and the conditions a pass
\* writes are among the reasons the code has.
THEOREM TypeCorrect == Spec => []TypeOK
<1>1. TypeInv => TypeOK
  BY DEF TypeInv
<1>. QED BY TypeInit, TypeNext, <1>1, PTL DEF Spec

-----------------------------------------------------------------------------
(* What a step does to the objects, the cache and the pass. *)

\* From o to n in one step: phases only go forward, the stamp stays, the
\* finalizer goes only with the object, and Ready stays clean.
Moves(b, o, n) ==
    /\ n.phase = "none" => n = NoObj
    /\ Later(n, o)
    /\ SameStamp(n, o) \/ (pc = "stamp" /\ cur = b /\ ~Stamped(o) /\ n.prov = prov)
    /\ o.fin => n.fin \/ (n.phase = "gone" /\ pc = "release" /\ cur = b)
    /\ n.fin => n.phase \in {"live", "deleting"}
    /\ n.phase = "deleting" => n.fin
    /\ n.phase = "gone" => \/ o.phase = "gone" \/ (o.phase = "live" /\ ~o.fin)
                           \/ pc = "release" /\ cur = b
    /\ Clean(n.conds)

\* An object that is left alone has moved nowhere.
LEMMA StaysPut ==
    ASSUME Inv, NEW b \in Buckety
    PROVE  Moves(b, obj[b], obj[b])
<1>1. obj[b] \in Object /\ obj[b].phase \in {"none", "live", "deleting", "gone"}
  BY TypeFacts, ObjectFields DEF Inv
<1>. QED BY <1>1 DEF Inv, PhaseInv, FinInv, CleanInv, Moves, Later, SameStamp, Exists

\* The calls of a pass that write its Buckety.
LEMMA PassMovesObject ==
    ASSUME Inv, PassStep, NEW b \in Buckety
    PROVE  Moves(b, obj[b], obj'[b])
<1>. DEFINE M(n) == cur \in Buckety /\ obj' = [obj EXCEPT ![cur] = n]
<1>t. TypeInv /\ obj \in [Buckety -> Object]
  BY TypeFacts DEF Inv
<1>u. CASE UNCHANGED obj
  BY <1>u, StaysPut
<1>m. ASSUME NEW n, M(n), Moves(cur, obj[cur], n) PROVE Moves(b, obj[b], obj'[b])
  <2>1. CASE b = cur
    BY <1>t, <1>m, <2>1
  <2>2. CASE b # cur
    <3>1. obj'[b] = obj[b]
      BY <1>t, <1>m, <2>2
    <3>. QED BY <3>1, StaysPut
  <2>. QED BY <2>1, <2>2
<1>1. CASE ReportStatus
  <2>. DEFINE n == MergePatch(obj[cur], base, mem)
  <2>1. /\ pc = "report" /\ cur \in Buckety
        /\ UNCHANGED obj \/ (/\ Exists(cur) /\ (lock = NoObj \/ obj[cur] = lock)
                             /\ obj' = [obj EXCEPT ![cur] = n])
    BY <1>t, <1>1, ReportStatusIs
  <2>2. CASE /\ Exists(cur) /\ (lock = NoObj \/ obj[cur] = lock)
             /\ obj' = [obj EXCEPT ![cur] = n]
    <3>1. obj[cur] \in Object /\ base \in Object /\ mem \in Object
      BY <1>t, <2>1, TypeFacts
    <3>2. /\ n.phase = obj[cur].phase /\ n.fin = obj[cur].fin
          /\ n.driver = IF mem.driver # base.driver THEN mem.driver ELSE obj[cur].driver
          /\ n.major = IF mem.major # base.major THEN mem.major ELSE obj[cur].major
          /\ n.prov = IF mem.prov # base.prov THEN mem.prov ELSE obj[cur].prov
          /\ n.conds \in {mem.conds, obj[cur].conds}
      BY <3>1, MergePatchIs
    <3>. HIDE DEF n
    <3>3. SameStamp(mem, IF lock = NoObj THEN base ELSE lock)
      BY <2>1 DEF Inv, StampInv
    <3>4. SameStamp(n, obj[cur])
      BY <2>2, <3>2, <3>3 DEF SameStamp
    <3>5. Clean(n.conds)
      BY <2>1, <3>2 DEF Inv, CleanInv
    <3>6. Moves(cur, obj[cur], obj[cur])
      BY <2>1, StaysPut
    <3>7. Moves(cur, obj[cur], n)
      BY <2>2, <3>2, <3>4, <3>5, <3>6 DEF Moves, Later, SameStamp, Stamped, Exists
    <3>. QED BY <1>m, <2>1, <2>2, <3>7
  <2>. QED BY <1>u, <2>1, <2>2
<1>2. CASE AddFinalizer
  <2>. DEFINE n == [obj[cur] EXCEPT !.fin = TRUE]
  <2>1. /\ cur \in Buckety
        /\ UNCHANGED obj \/ (obj[cur].phase = "live" /\ obj' = [obj EXCEPT ![cur] = n])
    BY <1>t, <1>2, AddFinalizerIs
  <2>2. CASE obj[cur].phase = "live" /\ obj' = [obj EXCEPT ![cur] = n]
    <3>1. /\ n.phase = obj[cur].phase /\ n.fin = TRUE /\ SameStamp(n, obj[cur])
          /\ n.conds = obj[cur].conds
      BY <1>t, <2>1 DEF Object, SameStamp
    <3>. HIDE DEF n
    <3>2. Clean(n.conds)
      BY <2>1, <3>1 DEF Inv, CleanInv
    <3>3. Moves(cur, obj[cur], n)
      BY <2>2, <3>1, <3>2 DEF Moves, Later, SameStamp, Stamped
    <3>. QED BY <1>m, <2>1, <2>2, <3>3
  <2>. QED BY <1>u, <2>1, <2>2
<1>3. CASE Stamp
  <2>1. /\ cur \in Buckety /\ pc = "stamp"
        /\ UNCHANGED obj \/ (obj[cur] = base /\ obj' = [obj EXCEPT ![cur] = Stamping])
    BY <1>t, <1>3, StampIs
  <2>2. CASE obj[cur] = base /\ obj' = [obj EXCEPT ![cur] = Stamping]
    <3>1. mem = base /\ ~Stamped(base) /\ base.phase = "live" /\ base.fin
      BY <2>1 DEF Inv, PassInv, FirstPass, Serving
    <3>2. /\ Stamping.phase = mem.phase /\ Stamping.fin = mem.fin /\ Stamping.conds = mem.conds
          /\ Stamping.prov = prov
      BY <1>t, StampingIs
    <3>3. Clean(Stamping.conds)
      BY <2>1, <2>2, <3>1, <3>2 DEF Inv, CleanInv
    <3>4. Moves(cur, obj[cur], Stamping)
      BY <2>1, <2>2, <3>1, <3>2, <3>3 DEF Moves, Later
    <3>. QED BY <1>m, <2>1, <2>2, <3>4
  <2>. QED BY <1>u, <2>1, <2>2
<1>4. CASE ReleaseFinalizer
  <2>. DEFINE n == [obj[cur] EXCEPT !.phase = "gone", !.fin = FALSE]
  <2>1. /\ cur \in Buckety /\ pc = "release"
        /\ UNCHANGED obj \/ obj' = [obj EXCEPT ![cur] = n]
    BY <1>t, <1>4, ReleaseFinalizerIs
  <2>2. CASE obj' = [obj EXCEPT ![cur] = n]
    <3>1. /\ n.phase = "gone" /\ n.fin = FALSE /\ SameStamp(n, obj[cur])
          /\ n.conds = obj[cur].conds
      BY <1>t, <2>1 DEF Object, SameStamp
    <3>. HIDE DEF n
    <3>2. Clean(n.conds)
      BY <2>1, <3>1 DEF Inv, CleanInv
    <3>3. Moves(cur, obj[cur], n)
      BY <2>1, <3>1, <3>2 DEF Moves, Later, SameStamp, Stamped
    <3>. QED BY <1>m, <2>1, <2>2, <3>3
  <2>. QED BY <1>u, <2>1, <2>2
<1>5. CASE Inspect \/ Ensure \/ ReconcileImplicitAccess \/ ListAccesses \/ DropImplicit
              \/ DeleteBackend
  <2>1. UNCHANGED obj
    BY <1>t, <1>5, InspectIs, EnsureIs, ReconcileImplicitAccessIs, ListAccessesIs,
       DropImplicitIs, DeleteBackendIs
  <2>. QED BY <1>u, <2>1
<1>. QED BY <1>1, <1>2, <1>3, <1>4, <1>5 DEF PassStep

\* Every step.
LEMMA ObjectsMove ==
    ASSUME Inv, [Next]_vars, NEW b \in Buckety
    PROVE  Moves(b, obj[b], obj'[b])
<1>t. TypeInv /\ obj \in [Buckety -> Object]
  BY TypeFacts DEF Inv
<1>u. CASE UNCHANGED obj
  BY <1>u, StaysPut
<1>1. CASE PassStep
  BY <1>1, PassMovesObject
<1>2. ASSUME NEW c \in Buckety, UserCreates(c) \/ UserEdits(c) \/ UserDeletes(c)
      PROVE  Moves(b, obj[b], obj'[b])
  <2>1. CASE b # c
    <3>1. obj'[b] = obj[b]
      BY <1>2, <1>t, <2>1 DEF UserCreates, UserEdits, UserDeletes
    <3>. QED BY <3>1, StaysPut
  <2>2. CASE b = c /\ UserCreates(c)
    <3>1. obj[b] = NoObj
      BY <2>2 DEF UserCreates, Inv, PhaseInv
    <3>2. PICK s \in Specs : obj'[b] = [NoObj EXCEPT !.phase = "live", !.gen = 1, !.spec = s]
      BY <1>t, <2>2 DEF UserCreates
    <3>3. /\ obj'[b].phase = "live" /\ obj'[b].fin = FALSE /\ SameStamp(obj'[b], NoObj)
          /\ obj'[b].conds = NoObj.conds /\ NoObj.phase = "none" /\ NoObj.fin = FALSE
          /\ ~Stamped(obj'[b]) /\ ~Stamped(NoObj)
      BY <3>2 DEF NoObj, SameStamp, Stamped
    <3>4. Clean(obj'[b].conds)
      BY <3>1, <3>3 DEF Inv, CleanInv
    <3>. QED BY <3>1, <3>3, <3>4 DEF Moves, Later
  <2>3. CASE b = c /\ UserEdits(c)
    <3>1. PICK s \in Specs : obj'[b] = [obj[b] EXCEPT !.spec = s, !.gen = @ + 1]
      BY <1>t, <2>3 DEF UserEdits
    <3>2. /\ obj'[b].phase = obj[b].phase /\ obj'[b].fin = obj[b].fin
          /\ SameStamp(obj'[b], obj[b]) /\ obj'[b].conds = obj[b].conds
      BY <1>t, <3>1 DEF Object, SameStamp
    <3>3. obj[b].phase # "none"
      BY <2>3 DEF UserEdits, Exists
    <3>4. Moves(b, obj[b], obj[b])
      BY StaysPut
    <3>. QED BY <3>2, <3>3, <3>4 DEF Moves, Later, SameStamp, Stamped
  <2>4. CASE b = c /\ UserDeletes(c)
    <3>1. /\ obj[b].phase = "live"
          /\ obj'[b] = [obj[b] EXCEPT !.phase = IF obj[b].fin THEN "deleting" ELSE "gone"]
      BY <1>t, <2>4 DEF UserDeletes
    <3>2. /\ obj'[b].phase = IF obj[b].fin THEN "deleting" ELSE "gone"
          /\ obj'[b].fin = obj[b].fin
          /\ SameStamp(obj'[b], obj[b]) /\ obj'[b].conds = obj[b].conds
      BY <1>t, <3>1 DEF Object, SameStamp
    <3>3. Moves(b, obj[b], obj[b])
      BY StaysPut
    <3>. QED BY <3>1, <3>2, <3>3 DEF Moves, Later, SameStamp, Stamped
  <2>. QED BY <1>2, <2>1, <2>2, <2>3, <2>4
<1>3. ASSUME NEW c \in Buckety,
             BeginPass(c) \/ ForgetPass(c) \/ SyncBuckety(c) \/ ImplicitRevoked(c)
      PROVE  UNCHANGED obj
  BY <1>3 DEF BeginPass, ForgetPass, SyncBuckety, ImplicitRevoked
<1>4. ASSUME NEW a \in Access, AccessCreated(a) \/ AccessGone(a) PROVE UNCHANGED obj
  BY <1>4 DEF AccessCreated, AccessGone
<1>5. ASSUME NEW r \in Resource, ThirdPartyCreates(r) \/ ContentWritten(r) PROVE UNCHANGED obj
  BY <1>5 DEF ThirdPartyCreates, ContentWritten
<1>6. CASE SyncAccesses \/ Restart \/ UNCHANGED vars
  BY <1>6, <1>u DEF SyncAccesses, Restart, vars
<1>. QED BY <1>1, <1>2, <1>3, <1>4, <1>5, <1>6, <1>u DEF Next

\* The cache is what it was, or what the object is.
LEMMA CacheMoves ==
    ASSUME Inv, [Next]_vars, NEW b \in Buckety
    PROVE  \/ cache'[b] = cache[b] \/ (cache'[b] = obj[b] /\ obj'[b] = obj[b])
<1>t. cache \in [Buckety -> Object] /\ obj \in [Buckety -> Object] /\ TypeInv
  BY TypeFacts DEF Inv
<1>1. CASE PassStep
  <2>1. UNCHANGED cache
    BY <1>1 DEF PassStep, ReportStatus, AddFinalizer, Inspect, Stamp, Ensure,
       ReconcileImplicitAccess, ListAccesses, DropImplicit, DeleteBackend, ReleaseFinalizer
  <2>. QED BY <2>1
<1>2. ASSUME NEW c \in Buckety,
             \/ BeginPass(c) \/ ForgetPass(c) \/ UserCreates(c) \/ UserEdits(c)
             \/ UserDeletes(c) \/ ImplicitRevoked(c)
      PROVE  UNCHANGED cache
  BY <1>2 DEF BeginPass, ForgetPass, UserCreates, UserEdits, UserDeletes, ImplicitRevoked
<1>3. ASSUME NEW c \in Buckety, SyncBuckety(c)
      PROVE  \/ cache'[b] = cache[b] \/ (cache'[b] = obj[b] /\ obj'[b] = obj[b])
  BY <1>t, <1>3 DEF SyncBuckety
<1>4. ASSUME NEW a \in Access, AccessCreated(a) \/ AccessGone(a) PROVE UNCHANGED cache
  BY <1>4 DEF AccessCreated, AccessGone
<1>5. ASSUME NEW r \in Resource, ThirdPartyCreates(r) \/ ContentWritten(r) PROVE UNCHANGED cache
  BY <1>5 DEF ThirdPartyCreates, ContentWritten
<1>6. CASE Restart
  BY <1>6 DEF Restart
<1>7. CASE SyncAccesses \/ UNCHANGED vars
  BY <1>7 DEF SyncAccesses, vars
<1>. QED BY <1>1, <1>2, <1>3, <1>4, <1>5, <1>6, <1>7 DEF Next

\* A step that is not one of the pass leaves the pass alone, begins one on the
\* cached object, or loses it.
Begins(b) ==
    /\ pc = "idle" /\ b \in Buckety /\ cache[b].phase \in {"live", "deleting"}
    /\ cur' = b /\ base' = cache[b] /\ cache[b] \in Object
    /\ pc' = FirstStep(cache[b]).pc /\ mem' = FirstStep(cache[b]).mem
    /\ UNCHANGED <<obj, cache, implicit, explicit, res, running, lock, bound>>

LEMMA PassMoves ==
    ASSUME Inv, [Next]_vars, ~PassStep
    PROVE  \/ UNCHANGED <<pc, cur, base, mem, lock, prov, running>>
           \/ \E b \in Buckety : Begins(b)
           \/ pc' = "idle" /\ lock' = NoObj
<1>t. TypeInv /\ cache \in [Buckety -> Object]
  BY TypeFacts DEF Inv
<1>1. ASSUME NEW b \in Buckety, BeginPass(b)
      PROVE  UNCHANGED <<pc, cur, base, mem, lock, prov, running>> \/ Begins(b)
  BY <1>1, <1>t, BeginPassIs DEF Begins
<1>2. ASSUME NEW c \in Buckety,
             \/ ForgetPass(c) \/ SyncBuckety(c) \/ UserCreates(c) \/ UserEdits(c)
             \/ UserDeletes(c) \/ ImplicitRevoked(c)
      PROVE  UNCHANGED <<pc, cur, base, mem, lock, prov, running>>
  BY <1>2 DEF ForgetPass, SyncBuckety, UserCreates, UserEdits, UserDeletes, ImplicitRevoked, pass
<1>3. ASSUME NEW a \in Access, AccessCreated(a) \/ AccessGone(a)
      PROVE  UNCHANGED <<pc, cur, base, mem, lock, prov, running>>
  BY <1>3 DEF AccessCreated, AccessGone, pass
<1>4. ASSUME NEW r \in Resource, ThirdPartyCreates(r) \/ ContentWritten(r)
      PROVE  UNCHANGED <<pc, cur, base, mem, lock, prov, running>>
  BY <1>4 DEF ThirdPartyCreates, ContentWritten, pass
<1>5. CASE SyncAccesses \/ UNCHANGED vars
  BY <1>5 DEF SyncAccesses, vars, pass
<1>6. CASE Restart
  BY <1>6 DEF Restart, Done
<1>. QED BY <1>1, <1>2, <1>3, <1>4, <1>5, <1>6 DEF Next

\* A pass that has begun.
LEMMA BeginsIs ==
    ASSUME Inv, NEW b \in Buckety, Begins(b)
    PROVE  /\ lock' = NoObj /\ lock = NoObj
           /\ mem' \in Object /\ SameBut(mem', base')
           /\ pc' \in {"report", "addFinalizer", "inspect", "ensure", "list"}
           /\ pc' = "report" => Clean(mem'.conds)
           /\ pc' \in {"inspect", "list"} => mem' = base'
           /\ pc' = "list" => base'.phase = "deleting"
           /\ pc' \in {"inspect", "ensure"} => base'.phase = "live" /\ base'.fin
           /\ pc' = "inspect" => ~Stamped(base')
           /\ pc' = "ensure" => /\ Stamped(base') /\ base'.driver = running.driver
                                /\ base'.major = running.major
                                /\ mem'.conds.on \cap Paused = {}
<1>1. running \in Backends /\ cache[b] \in Object
  BY TypeFacts DEF Begins, Inv
<1>2. /\ FirstStep(cache[b]).mem \in Object /\ SameBut(FirstStep(cache[b]).mem, cache[b])
      /\ FirstStep(cache[b]).pc \in {"report", "addFinalizer", "inspect", "ensure", "list"}
      /\ FirstStep(cache[b]).pc = "report" => FirstStep(cache[b]).mem.conds.ready # Ready
      /\ FirstStep(cache[b]).pc \in {"inspect", "list"} => FirstStep(cache[b]).mem = cache[b]
      /\ FirstStep(cache[b]).pc = "list" => cache[b].phase = "deleting"
      /\ FirstStep(cache[b]).pc \in {"inspect", "ensure"} =>
            cache[b].phase # "deleting" /\ cache[b].fin
      /\ FirstStep(cache[b]).pc = "inspect" => ~Stamped(cache[b])
      /\ FirstStep(cache[b]).pc = "ensure" =>
            /\ Stamped(cache[b]) /\ cache[b].driver = running.driver
            /\ cache[b].major = running.major
            /\ FirstStep(cache[b]).mem.conds.on \cap Paused = {}
  BY <1>1, FirstStepIs
<1>3. lock = NoObj /\ lock' = NoObj
  BY DEF Begins, Inv, PassInv
<1>. QED BY <1>2, <1>3 DEF Begins, Clean

-----------------------------------------------------------------------------
(* The parts of the inductive invariant. *)

\* A call of a pass that goes on keeps what the pass has in hand.
LEMMA PassNext == Inv /\ [Next]_vars => PassInv'
<1>. SUFFICES ASSUME Inv, [Next]_vars PROVE PassInv'
  OBVIOUS
<1>t. TypeInv /\ PassInv
  BY DEF Inv
<1>d. CASE Done
  BY <1>d DEF Done, PassInv, FirstPass, Serving, Leaving
<1>1. CASE ~PassStep
  <2>1. CASE UNCHANGED <<pc, cur, base, mem, lock, prov, running>>
    BY <1>t, <2>1 DEF PassInv, Stamped
  <2>2. ASSUME NEW b \in Buckety, Begins(b) PROVE PassInv'
    <3>1. base'.phase \in {"live", "deleting"}
      BY <2>2 DEF Begins
    <3>2. mem'.phase = base'.phase
      BY <2>2, BeginsIs DEF SameBut
    <3>. QED BY <2>2, <3>1, <3>2, BeginsIs DEF PassInv, FirstPass, Serving, Leaving, Stamped
  <2>3. CASE pc' = "idle" /\ lock' = NoObj
    BY <2>3 DEF PassInv, FirstPass, Serving, Leaving
  <2>. QED BY <1>1, <2>1, <2>2, <2>3, PassMoves
<1>2. CASE ReportStatus \/ AddFinalizer \/ ReleaseFinalizer
  BY <1>2, <1>d DEF ReportStatus, AddFinalizer, ReleaseFinalizer
<1>3. CASE Inspect
  BY <1>t, <1>3, InspectIs DEF PassInv, GoesOn, SameBut, FirstPass, Serving, Leaving, Stamped
<1>4. CASE Stamp
  <2>1. /\ pc = "stamp"
        /\ \/ Done
           \/ /\ UNCHANGED base /\ SameBut(mem', Stamping) /\ pc' \in {"report", "ensure"}
    BY <1>t, <1>4, StampIs
  <2>2. Stamping.phase = mem.phase
    BY <1>t, StampingIs
  <2>3. CASE UNCHANGED base /\ SameBut(mem', Stamping) /\ pc' \in {"report", "ensure"}
    BY <1>t, <2>1, <2>2, <2>3 DEF PassInv, SameBut, FirstPass, Serving, Leaving
  <2>. QED BY <1>d, <2>1, <2>3
<1>5. CASE Ensure
  BY <1>t, <1>5, EnsureIs DEF PassInv, GoesOn, SameBut, FirstPass, Serving, Leaving
<1>6. CASE ReconcileImplicitAccess
  BY <1>t, <1>6, <1>d, ReconcileImplicitAccessIs DEF PassInv, GoesOn, SameBut, FirstPass, Serving,
     Leaving
<1>7. CASE ListAccesses
  BY <1>t, <1>7, <1>d, ListAccessesIs DEF PassInv, GoesOn, SameBut, FirstPass, Serving, Leaving
<1>8. CASE DropImplicit
  BY <1>t, <1>8, <1>d, DropImplicitIs DEF PassInv, GoesOn, SameBut, FirstPass, Serving, Leaving
<1>9. CASE DeleteBackend
  BY <1>t, <1>9, DeleteBackendIs DEF PassInv, GoesOn, SameBut, FirstPass, Serving, Leaving
<1>. QED BY <1>1, <1>2, <1>3, <1>4, <1>5, <1>6, <1>7, <1>8, <1>9 DEF PassStep

\* Where a pass that is in flight after a step was before it.
LEMMA PassFrom ==
    ASSUME Inv, [Next]_vars, pc' # "idle"
    PROVE  \/ /\ pc # "idle" /\ cur \in Buckety /\ cur' = cur /\ base' = base
              /\ pc' \in Serving => pc \in Serving
           \/ \E b \in Buckety : Begins(b)
<1>t. TypeInv /\ (pc # "idle" => cur \in Buckety)
  BY DEF Inv, TypeInv
<1>1. CASE ~PassStep
  BY <1>t, <1>1, PassMoves
<1>2. CASE PassStep
  <2>1. CASE ReportStatus \/ AddFinalizer \/ ReleaseFinalizer
    BY <2>1 DEF ReportStatus, AddFinalizer, ReleaseFinalizer, Done
  <2>2. CASE Inspect \/ Ensure \/ DeleteBackend
    BY <1>t, <2>2, InspectIs, EnsureIs, DeleteBackendIs DEF GoesOn, Serving
  <2>3. CASE Stamp
    BY <1>t, <2>3, StampIs DEF Done, Serving
  <2>4. CASE ReconcileImplicitAccess \/ ListAccesses \/ DropImplicit
    BY <1>t, <2>4, ReconcileImplicitAccessIs, ListAccessesIs, DropImplicitIs DEF Done, GoesOn, Serving
  <2>. QED BY <1>2, <2>1, <2>2, <2>3, <2>4 DEF PassStep
<1>. QED BY <1>1, <1>2

LEMMA PhaseNext == Inv /\ [Next]_vars => PhaseInv'
<1>. SUFFICES ASSUME Inv, [Next]_vars PROVE PhaseInv'
  OBVIOUS
<1>1. \A b \in Buckety : /\ obj'[b].phase = "none" => obj'[b] = NoObj
                         /\ Later(obj'[b], obj[b])
  BY ObjectsMove DEF Moves
<1>2. \A b \in Buckety : Later(obj[b], cache[b])
  BY DEF Inv, PhaseInv
<1>3. \A b \in Buckety : \/ cache'[b] = cache[b] \/ (cache'[b] = obj[b] /\ obj'[b] = obj[b])
  BY CacheMoves
<1>4. \A b \in Buckety : Later(obj'[b], cache'[b])
  BY <1>1, <1>2, <1>3 DEF Later
<1>5. ASSUME pc' # "idle" PROVE Later(obj'[cur'], base') /\ Later(cache'[cur'], base')
  <2>1. CASE pc # "idle" /\ cur \in Buckety /\ cur' = cur /\ base' = base
    <3>1. Later(obj[cur], base) /\ Later(cache[cur], base)
      BY <2>1 DEF Inv, PhaseInv
    <3>2. Later(obj'[cur], base)
      BY <1>1, <2>1, <3>1 DEF Later
    <3>3. Later(cache'[cur], base)
      BY <1>3, <2>1, <3>1
    <3>. QED BY <2>1, <3>2, <3>3
  <2>2. ASSUME NEW b \in Buckety, Begins(b)
        PROVE  Later(obj'[cur'], base') /\ Later(cache'[cur'], base')
    <3>1. cur' = b /\ base' = cache[b] /\ obj' = obj /\ cache' = cache
      BY <2>2 DEF Begins
    <3>2. Later(cache[b], cache[b])
      BY DEF Later
    <3>. QED BY <1>2, <3>1, <3>2
  <2>. QED BY <1>5, <2>1, <2>2, PassFrom
<1>. QED BY <1>1, <1>4, <1>5 DEF PhaseInv

LEMMA StampNext == Inv /\ [Next]_vars => StampInv'
<1>. SUFFICES ASSUME Inv, [Next]_vars PROVE StampInv'
  OBVIOUS
<1>t. TypeInv /\ PassInv /\ StampInv /\ cur \in Buckety \cup {""}
  BY DEF Inv, TypeInv, TypeOK
<1>1. \A b \in Buckety :
        SameStamp(obj'[b], obj[b]) \/ (pc = "stamp" /\ cur = b /\ ~Stamped(obj[b]))
  BY ObjectsMove DEF Moves
<1>2. \A b \in Buckety : \/ cache'[b] = cache[b] \/ (cache'[b] = obj[b] /\ obj'[b] = obj[b])
  BY CacheMoves
<1>3. \A b \in Buckety : Stamped(cache[b]) => SameStamp(obj[b], cache[b])
  BY <1>t DEF StampInv
<1>4. ASSUME NEW b \in Buckety, Stamped(cache'[b]) PROVE SameStamp(obj'[b], cache'[b])
  <2>1. CASE cache'[b] = cache[b]
    BY <1>1, <1>3, <1>4, <2>1 DEF SameStamp, Stamped
  <2>2. CASE cache'[b] = obj[b] /\ obj'[b] = obj[b]
    BY <2>2 DEF SameStamp
  <2>. QED BY <1>2, <2>1, <2>2
<1>5. ASSUME pc' # "idle", Stamped(base') PROVE SameStamp(obj'[cur'], base')
  <2>1. CASE pc # "idle" /\ cur \in Buckety /\ cur' = cur /\ base' = base
    <3>1. SameStamp(obj[cur], base)
      BY <1>5, <1>t, <2>1 DEF StampInv
    <3>. QED BY <1>1, <1>5, <2>1, <3>1 DEF SameStamp, Stamped
  <2>2. ASSUME NEW b \in Buckety, Begins(b) PROVE SameStamp(obj'[cur'], base')
    <3>1. cur' = b /\ base' = cache[b] /\ obj' = obj
      BY <2>2 DEF Begins
    <3>. QED BY <1>3, <1>5, <3>1
  <2>. QED BY <1>5, <2>1, <2>2, PassFrom
<1>6. /\ pc' # "idle" => SameStamp(mem', IF lock' = NoObj THEN base' ELSE lock')
      /\ lock' # NoObj => SameStamp(obj'[cur'], lock')
  <2>d. CASE pc' = "idle" /\ lock' = NoObj
    BY <2>d
  <2>s. CASE /\ pc # "idle" /\ cur \in Buckety /\ UNCHANGED <<lock, cur, base>>
             /\ SameBut(mem', mem) /\ (pc = "stamp" => lock = NoObj)
    <3>1. SameStamp(mem', IF lock' = NoObj THEN base' ELSE lock')
      BY <1>t, <2>s DEF StampInv, SameStamp, SameBut
    <3>2. lock' # NoObj => SameStamp(obj'[cur'], lock')
      BY <1>1, <1>t, <2>s DEF StampInv, SameStamp
    <3>. QED BY <3>1, <3>2
  <2>0. pc = "stamp" => lock = NoObj
    BY <1>t DEF PassInv, FirstPass
  <2>1. CASE ~PassStep
    <3>1. CASE UNCHANGED <<pc, cur, base, mem, lock, prov, running>> /\ pc # "idle"
      BY <1>t, <2>s, <2>0, <3>1 DEF SameBut, TypeInv
    <3>2. CASE UNCHANGED <<pc, cur, base, mem, lock, prov, running>> /\ pc = "idle"
      BY <1>t, <2>d, <3>2 DEF PassInv
    <3>3. ASSUME NEW b \in Buckety, Begins(b)
          PROVE  lock' = NoObj /\ SameStamp(mem', base')
      BY <3>3, BeginsIs DEF SameBut, SameStamp
    <3>. QED BY <2>1, <2>d, <3>1, <3>2, <3>3, PassMoves
  <2>2. CASE ReportStatus \/ AddFinalizer \/ ReleaseFinalizer
    BY <2>2, <2>d DEF ReportStatus, AddFinalizer, ReleaseFinalizer, Done
  <2>3. CASE Inspect \/ Ensure \/ DeleteBackend
    BY <1>t, <2>0, <2>3, <2>s, InspectIs, EnsureIs, DeleteBackendIs DEF GoesOn
  <2>4. CASE ReconcileImplicitAccess \/ ListAccesses \/ DropImplicit
    BY <1>t, <2>0, <2>4, <2>s, <2>d, ReconcileImplicitAccessIs, ListAccessesIs, DropImplicitIs
    DEF GoesOn, Done
  <2>5. CASE Stamp
    <3>1. pc = "stamp" /\ cur \in Buckety
      BY <1>t, <2>5, StampIs
    <3>2. CASE Done
      BY <2>d, <3>2 DEF Done
    <3>3. CASE ~Done
      <4>1. /\ obj' = [obj EXCEPT ![cur] = Stamping] /\ lock' = Stamping /\ cur' = cur
            /\ SameBut(mem', Stamping)
        BY <1>t, <2>5, <3>3, StampIs
      <4>2. obj'[cur'] = Stamping
        BY <1>t, <3>1, <4>1, TypeFacts
      <4>3. lock' # NoObj
        <5>1. Stamping.phase = mem.phase /\ mem.phase # "none" /\ NoObj.phase = "none"
          BY <1>t, <3>1, StampingIs DEF PassInv, NoObj
        <5>. QED BY <4>1, <5>1
      <4>. QED BY <4>1, <4>2, <4>3 DEF SameStamp, SameBut
    <3>. QED BY <3>2, <3>3
  <2>. QED BY <2>1, <2>2, <2>3, <2>4, <2>5 DEF PassStep
<1>. QED BY <1>4, <1>5, <1>6 DEF StampInv, SameStamp, Stamped

LEMMA DriverNext == Inv /\ [Next]_vars => DriverInv'
<1>. SUFFICES ASSUME Inv, [Next]_vars PROVE DriverInv'
  OBVIOUS
<1>t. TypeInv /\ PassInv /\ StampInv /\ DriverInv
  BY DEF Inv
<1>1. CASE ~PassStep
  <2>1. CASE UNCHANGED <<pc, cur, base, mem, lock, prov, running>>
    BY <1>t, <2>1 DEF DriverInv, Stamped
  <2>2. ASSUME NEW b \in Buckety, Begins(b) PROVE DriverInv'
    <3>1. running' = running
      BY <2>2 DEF Begins
    <3>. QED BY <2>2, <3>1, BeginsIs DEF DriverInv, SameBut, Stamped
  <2>3. CASE pc' = "idle"
    BY <2>3 DEF DriverInv
  <2>. QED BY <1>1, <2>1, <2>2, <2>3, PassMoves
<1>2. CASE ReportStatus \/ AddFinalizer \/ ReleaseFinalizer
  BY <1>2 DEF ReportStatus, AddFinalizer, ReleaseFinalizer, Done, DriverInv
<1>3. CASE Inspect \/ Ensure
  BY <1>t, <1>3, InspectIs, EnsureIs DEF DriverInv
<1>4. CASE Stamp
  <2>1. \/ pc' # "ensure" /\ pc' # "deleteBackend"
        \/ /\ pc' = "ensure" /\ SameBut(mem', Stamping) /\ lock' = Stamping
    BY <1>t, <1>4, StampIs DEF Done
  <2>2. /\ Stamping.driver = running.driver /\ Stamping.major = running.major
        /\ Stamping.phase = mem.phase
    BY <1>t, StampingIs
  <2>3. Stamping # NoObj /\ running' = running
    <3>1. pc = "stamp" /\ running' = running
      BY <1>t, <1>4, StampIs DEF Elsewhere
    <3>2. mem.phase # "none" /\ NoObj.phase = "none"
      BY <1>t, <3>1 DEF PassInv, NoObj
    <3>. QED BY <2>2, <3>1, <3>2
  <2>. QED BY <2>1, <2>2, <2>3 DEF DriverInv, SameBut
<1>5. CASE ReconcileImplicitAccess \/ DropImplicit \/ DeleteBackend
  BY <1>t, <1>5, ReconcileImplicitAccessIs, DropImplicitIs, DeleteBackendIs DEF DriverInv, Done
<1>6. CASE ListAccesses
  <2>1. /\ pc' # "ensure" /\ running' = running
        /\ pc' = "deleteBackend" => /\ mem' = mem /\ Stamped(mem) /\ mem.driver = running.driver
                                    /\ mem.prov # "Adopted"
    BY <1>t, <1>6, ListAccessesIs DEF Done, Elsewhere
  <2>. QED BY <2>1 DEF DriverInv, Stamped
<1>. QED BY <1>1, <1>2, <1>3, <1>4, <1>5, <1>6 DEF PassStep

LEMMA FinNext == Inv /\ [Next]_vars => FinInv'
<1>. SUFFICES ASSUME Inv, [Next]_vars PROVE FinInv'
  OBVIOUS
<1>t. PassInv /\ PhaseInv /\ FinInv
  BY DEF Inv
<1>1. \A b \in Buckety :
        /\ obj'[b].fin => obj'[b].phase \in {"live", "deleting"}
        /\ obj'[b].phase = "deleting" => obj'[b].fin
        /\ obj[b].fin => obj'[b].fin \/ (pc = "release" /\ cur = b)
  BY ObjectsMove DEF Moves
<1>2. \A b \in Buckety : \/ cache'[b] = cache[b] \/ (cache'[b] = obj[b] /\ obj'[b] = obj[b])
  BY CacheMoves
<1>3. ASSUME NEW b \in Buckety, cache'[b].fin, cache'[b].phase = "live" PROVE obj'[b].fin
  <2>1. CASE cache'[b] = cache[b]
    <3>1. obj[b].fin
      BY <1>3, <1>t, <2>1 DEF FinInv
    <3>2. ~(pc = "release" /\ cur = b)
      BY <1>3, <1>t, <2>1 DEF PassInv, PhaseInv, Later, Leaving
    <3>. QED BY <1>1, <3>1, <3>2
  <2>2. CASE cache'[b] = obj[b] /\ obj'[b] = obj[b]
    BY <1>3, <2>2
  <2>. QED BY <1>2, <2>1, <2>2
<1>4. ASSUME pc' \in Serving PROVE obj'[cur'].fin
  <2>0. pc' # "idle"
    BY <1>4 DEF Serving
  <2>1. CASE cur \in Buckety /\ cur' = cur /\ pc \in Serving
    <3>1. obj[cur].fin
      BY <1>t, <2>1 DEF FinInv
    <3>2. pc # "release"
      BY <2>1 DEF Serving
    <3>. QED BY <1>1, <2>1, <3>1, <3>2
  <2>2. ASSUME NEW b \in Buckety, Begins(b) PROVE obj'[cur'].fin
    <3>1. cur' = b /\ obj' = obj /\ base' = cache[b]
      BY <2>2 DEF Begins
    <3>2. base'.phase = "live" /\ base'.fin
      BY <1>4, <2>2, BeginsIs DEF Serving
    <3>. QED BY <1>t, <3>1, <3>2 DEF FinInv
  <2>. QED BY <1>4, <2>0, <2>1, <2>2, PassFrom
<1>. QED BY <1>1, <1>3, <1>4 DEF FinInv, Exists

\* An implicit access appears only in the pass of its Buckety.
LEMMA ImplicitMoves ==
    ASSUME Inv, [Next]_vars, NEW b \in Buckety, implicit'[b].phase # "none"
    PROVE  implicit[b].phase # "none" \/ (pc = "implicit" /\ cur = b)
<1>t. TypeInv /\ implicit \in [Buckety -> Implicit]
  BY TypeFacts DEF Inv
<1>1. CASE PassStep
  <2>1. CASE ReportStatus \/ AddFinalizer \/ Inspect \/ Stamp \/ Ensure \/ ListAccesses
                \/ DeleteBackend \/ ReleaseFinalizer
    <3>1. UNCHANGED implicit
      BY <2>1 DEF ReportStatus, AddFinalizer, Inspect, Stamp, Ensure, ListAccesses, DeleteBackend,
         ReleaseFinalizer, accesses
    <3>. QED BY <3>1
  <2>2. CASE ReconcileImplicitAccess
    BY <1>t, <2>2, ReconcileImplicitAccessIs
  <2>3. CASE DropImplicit
    BY <1>t, <2>3, DropImplicitIs
  <2>. QED BY <1>1, <2>1, <2>2, <2>3 DEF PassStep
<1>2. ASSUME NEW c \in Buckety, ImplicitRevoked(c) PROVE implicit[b].phase # "none"
  BY <1>2, <1>t DEF ImplicitRevoked, NoImplicit
<1>3. ASSUME NEW c \in Buckety,
             \/ BeginPass(c) \/ ForgetPass(c) \/ SyncBuckety(c) \/ UserCreates(c) \/ UserEdits(c)
             \/ UserDeletes(c)
      PROVE  UNCHANGED implicit
  BY <1>3 DEF BeginPass, ForgetPass, SyncBuckety, UserCreates, UserEdits, UserDeletes, accesses
<1>4. ASSUME NEW a \in Access, AccessCreated(a) \/ AccessGone(a) PROVE UNCHANGED implicit
  BY <1>4 DEF AccessCreated, AccessGone
<1>5. ASSUME NEW r \in Resource, ThirdPartyCreates(r) \/ ContentWritten(r)
      PROVE  UNCHANGED implicit
  BY <1>5 DEF ThirdPartyCreates, ContentWritten, accesses
<1>6. CASE SyncAccesses \/ Restart \/ UNCHANGED vars
  BY <1>6 DEF SyncAccesses, Restart, vars
<1>. QED BY <1>1, <1>2, <1>3, <1>4, <1>5, <1>6 DEF Next

\* The backend is torn down and the finalizer released by a pass that was
\* there already, or whose live list has just shown no access.
LEMMA DestroyingFrom ==
    ASSUME Inv, [Next]_vars, pc' \in Destroying
    PROVE  /\ cur \in Buckety /\ cur' = cur
           /\ \/ pc \in Destroying
              \/ /\ pc = "list" /\ References(cur, explicit) = {} /\ implicit[cur].phase = "none"
                 /\ UNCHANGED <<implicit, explicit, bound>>
<1>t. TypeInv /\ (pc # "idle" => cur \in Buckety) /\ pc' # "idle"
  BY DEF Inv, TypeInv, Destroying
<1>1. CASE ~PassStep
  <2>1. ASSUME NEW b \in Buckety, Begins(b) PROVE FALSE
    BY <2>1, BeginsIs DEF Destroying
  <2>. QED BY <1>1, <1>t, <2>1, PassMoves
<1>2. CASE ReportStatus \/ AddFinalizer \/ ReleaseFinalizer
  BY <1>2, <1>t DEF ReportStatus, AddFinalizer, ReleaseFinalizer, Done
<1>3. CASE Inspect \/ Stamp \/ Ensure
  <2>1. pc' \notin Destroying
    BY <1>t, <1>3, InspectIs, StampIs, EnsureIs DEF Destroying, Done
  <2>. QED BY <2>1
<1>4. CASE ReconcileImplicitAccess \/ DropImplicit
  <2>1. pc' \notin Destroying
    BY <1>t, <1>4, ReconcileImplicitAccessIs, DropImplicitIs DEF Destroying, Done
  <2>. QED BY <2>1
<1>5. CASE ListAccesses
  BY <1>t, <1>5, ListAccessesIs DEF Done, Elsewhere, GoesOn
<1>6. CASE DeleteBackend
  BY <1>t, <1>6, DeleteBackendIs DEF Destroying, GoesOn
<1>. QED BY <1>1, <1>2, <1>3, <1>4, <1>5, <1>6 DEF PassStep

LEMMA ImplicitNext == Inv /\ [Next]_vars => ImplicitInv'
<1>. SUFFICES ASSUME Inv, [Next]_vars PROVE ImplicitInv'
  OBVIOUS
<1>t. FinInv /\ ImplicitInv
  BY DEF Inv
<1>1. ASSUME NEW b \in Buckety, implicit'[b].phase # "none" PROVE obj'[b].fin
  <2>1. implicit[b].phase # "none" \/ (pc = "implicit" /\ cur = b)
    BY <1>1, ImplicitMoves
  <2>2. obj[b].fin
    BY <1>t, <2>1 DEF FinInv, ImplicitInv, Serving
  <2>3. ~(pc = "release" /\ cur = b)
    BY <1>t, <2>1 DEF ImplicitInv, Destroying
  <2>. QED BY <2>2, <2>3, ObjectsMove DEF Moves
<1>2. ASSUME pc' \in Destroying PROVE implicit'[cur'].phase = "none"
  <2>1. cur \in Buckety /\ cur' = cur
    BY <1>2, DestroyingFrom
  <2>2. implicit[cur].phase = "none" /\ pc # "implicit"
    BY <1>2, <1>t, DestroyingFrom DEF ImplicitInv, Destroying
  <2>. QED BY <2>1, <2>2, ImplicitMoves
<1>. QED BY <1>1, <1>2 DEF ImplicitInv

LEMMA BoundNext == Inv /\ [Next]_vars => BoundInv'
<1>. SUFFICES ASSUME Inv, [Next]_vars PROVE BoundInv'
  OBVIOUS
<1>t. TypeInv /\ PassInv /\ PhaseInv /\ BoundInv /\ obj \in [Buckety -> Object]
      /\ bound \in [Buckety -> SUBSET Access]
  BY DEF Inv, TypeInv, TypeOK
<1>1. ASSUME NEW b \in Buckety
      PROVE  /\ bound'[b] \subseteq References(b, explicit')
             /\ bound'[b] \subseteq bound[b] \/ (obj[b].phase = "live" /\ UserDeletes(b))
  <2>0. bound[b] \subseteq References(b, explicit)
    BY <1>t DEF BoundInv
  <2>u. CASE UNCHANGED <<bound, explicit>>
    BY <2>u, <2>0
  <2>1. CASE PassStep
    BY <2>1, <2>u DEF PassStep, ReportStatus, AddFinalizer, Inspect, Stamp, Ensure,
       ReconcileImplicitAccess, ListAccesses, DropImplicit, DeleteBackend, ReleaseFinalizer, accesses
  <2>2. ASSUME NEW c \in Buckety,
               \/ BeginPass(c) \/ ForgetPass(c) \/ SyncBuckety(c) \/ UserCreates(c) \/ UserEdits(c)
               \/ ImplicitRevoked(c)
        PROVE  UNCHANGED <<bound, explicit>>
    BY <2>2 DEF BeginPass, ForgetPass, SyncBuckety, UserCreates, UserEdits, ImplicitRevoked,
       accesses
  <2>3. ASSUME NEW c \in Buckety, UserDeletes(c)
        PROVE  /\ bound'[b] \subseteq References(b, explicit')
               /\ bound'[b] \subseteq bound[b] \/ (obj[b].phase = "live" /\ UserDeletes(b))
    <3>1. /\ explicit' = explicit
          /\ bound' = [bound EXCEPT ![c] = IF obj[c].fin THEN References(c, explicit) ELSE {}]
          /\ obj[c].phase = "live"
      BY <2>3 DEF UserDeletes, accesses
    <3>2. CASE b = c
      BY <1>t, <2>3, <3>1, <3>2
    <3>3. CASE b # c
      BY <1>t, <2>0, <3>1, <3>3
    <3>. QED BY <3>2, <3>3
  <2>4. ASSUME NEW a \in Access, AccessCreated(a) \/ AccessGone(a)
        PROVE  /\ bound'[b] \subseteq References(b, explicit')
               /\ bound'[b] \subseteq bound[b]
    <3>1. CASE AccessCreated(a)
      BY <2>0, <3>1 DEF AccessCreated, References
    <3>2. CASE AccessGone(a)
      BY <2>0, <3>2 DEF AccessGone, References
    <3>. QED BY <2>4, <3>1, <3>2
  <2>5. ASSUME NEW r \in Resource, ThirdPartyCreates(r) \/ ContentWritten(r)
        PROVE  UNCHANGED <<bound, explicit>>
    BY <2>5 DEF ThirdPartyCreates, ContentWritten, accesses
  <2>6. CASE SyncAccesses \/ Restart \/ UNCHANGED vars
    BY <2>6, <2>u DEF SyncAccesses, Restart, vars
  <2>. QED BY <2>1, <2>2, <2>3, <2>4, <2>5, <2>6, <2>u DEF Next
<1>2. ASSUME NEW b \in Buckety, obj'[b].phase # "deleting" PROVE bound'[b] = {}
  <2>1. CASE UserDeletes(b)
    <3>1. /\ obj' = [obj EXCEPT ![b] = [obj[b] EXCEPT !.phase =
                                           IF obj[b].fin THEN "deleting" ELSE "gone"]]
          /\ bound' = [bound EXCEPT ![b] = IF obj[b].fin THEN References(b, explicit) ELSE {}]
      BY <1>t, <2>1 DEF UserDeletes
    <3>2. obj'[b].phase = IF obj[b].fin THEN "deleting" ELSE "gone"
      BY <1>t, <3>1 DEF Object
    <3>. QED BY <1>2, <1>t, <3>1, <3>2
  <2>2. CASE bound'[b] \subseteq bound[b]
    <3>1. CASE obj[b].phase # "deleting"
      BY <1>t, <2>2, <3>1 DEF BoundInv
    <3>2. CASE obj[b].phase = "deleting"
      <4>1. Moves(b, obj[b], obj'[b])
        BY ObjectsMove
      <4>2. pc = "release" /\ cur = b
        BY <1>2, <3>2, <4>1 DEF Moves, Later
      <4>. QED BY <1>t, <2>2, <4>2 DEF BoundInv, Destroying
    <3>. QED BY <3>1, <3>2
  <2>. QED BY <1>1, <2>1, <2>2
<1>3. ASSUME pc' \in Destroying PROVE bound'[cur'] = {}
  <2>1. cur \in Buckety /\ cur' = cur
    BY <1>3, DestroyingFrom
  <2>2. CASE pc \in Destroying
    <3>1. bound[cur] = {}
      BY <1>t, <2>2 DEF BoundInv
    <3>2. obj[cur].phase # "live"
      BY <1>t, <2>2 DEF PassInv, PhaseInv, Later, Destroying, Leaving
    <3>. QED BY <1>1, <2>1, <3>1, <3>2
  <2>3. CASE References(cur, explicit) = {} /\ UNCHANGED <<explicit, bound>>
    BY <1>1, <2>1, <2>3
  <2>. QED BY <1>3, <2>2, <2>3, DestroyingFrom
<1>. QED BY <1>1, <1>2, <1>3 DEF BoundInv, References

LEMMA CleanNext == Inv /\ [Next]_vars => CleanInv'
<1>. SUFFICES ASSUME Inv, [Next]_vars PROVE CleanInv'
  OBVIOUS
<1>t. TypeInv /\ PassInv /\ CleanInv
  BY DEF Inv
<1>1. \A b \in Buckety : Clean(obj'[b].conds)
  BY ObjectsMove DEF Moves
<1>2. \A b \in Buckety : Clean(cache'[b].conds)
  BY <1>t, CacheMoves DEF CleanInv
<1>3. pc' # "idle" => Clean(base'.conds)
  <2>1. ASSUME NEW b \in Buckety, Begins(b) PROVE Clean(base'.conds)
    BY <1>t, <2>1 DEF Begins, CleanInv
  <2>2. CASE pc # "idle" /\ base' = base
    BY <1>t, <2>2 DEF CleanInv
  <2>. QED BY <2>1, <2>2, PassFrom
<1>4. /\ pc' = "report" => Clean(mem'.conds)
      /\ pc' = "ensure" => mem'.conds.on \cap Paused = {}
      /\ pc' = "implicit" => mem'.conds.on \subseteq {"BlockedByAccesses"}
  <2>1. CASE ~PassStep
    <3>1. CASE UNCHANGED <<pc, cur, base, mem, lock, prov, running>>
      BY <1>t, <3>1 DEF CleanInv, Clean
    <3>2. ASSUME NEW b \in Buckety, Begins(b)
          PROVE  /\ pc' = "report" => Clean(mem'.conds)
                 /\ pc' = "ensure" => mem'.conds.on \cap Paused = {}
                 /\ pc' # "implicit"
      BY <3>2, BeginsIs
    <3>. QED BY <2>1, <3>1, <3>2, PassMoves
  <2>2. CASE ReportStatus \/ AddFinalizer \/ ReleaseFinalizer
    BY <2>2 DEF ReportStatus, AddFinalizer, ReleaseFinalizer, Done
  <2>3. CASE Inspect \/ Stamp
    BY <1>t, <2>3, InspectIs, StampIs DEF Done
  <2>4. CASE Ensure
    <3>1. mem.conds.on \cap Paused = {}
      BY <1>t, <2>4 DEF CleanInv, Ensure
    <3>2. mem.conds.on \subseteq Flag
      BY <1>t, TypeFacts, ObjectFields
    <3>3. mem.conds.on \ {"ParameterDrift"} \subseteq {"BlockedByAccesses"}
      BY <3>1, <3>2 DEF Flag, Paused
    <3>. QED BY <1>t, <2>4, <3>3, EnsureIs
  <2>5. CASE ReconcileImplicitAccess
    <3>1. mem.conds.on \subseteq {"BlockedByAccesses"}
      BY <1>t, <2>5 DEF CleanInv, ReconcileImplicitAccess
    <3>. QED BY <1>t, <2>5, <3>1, ReconcileImplicitAccessIs DEF Clean, Done
  <2>6. CASE ListAccesses
    <3>1. Clean(mem.conds)
      BY <1>t, <2>6 DEF CleanInv, PassInv, Leaving, ListAccesses
    <3>. QED BY <1>t, <2>6, <3>1, ListAccessesIs DEF Clean, Done
  <2>7. CASE DropImplicit \/ DeleteBackend
    BY <1>t, <2>7, DropImplicitIs, DeleteBackendIs DEF Done
  <2>. QED BY <2>1, <2>2, <2>3, <2>4, <2>5, <2>6, <2>7 DEF PassStep
<1>. QED BY <1>1, <1>2, <1>3, <1>4 DEF CleanInv, Clean

\* What a step does to the backend resources: one that is not there is nobody's,
\* and a third party makes one only before a Buckety has claimed its name.
LEMMA ResourcesMove ==
    ASSUME Inv, [Next]_vars, NEW r \in Resource
    PROVE  /\ ~res'[r].exists => res'[r] = NoResource
           /\ res'[r].exists => \/ res'[r].origin = ThirdParty
                                \/ res'[r].origin \in Buckety /\ ResourceOf[res'[r].origin] = r
           /\ res'[r].origin = ThirdParty => \/ res[r].origin = ThirdParty
                                             \/ ~Claimed(r) /\ UNCHANGED <<pc, cur, prov, obj>>
<1>t. TypeInv /\ res \in [Resource -> Res] /\ ResourceInv
  BY TypeFacts DEF Inv
<1>c. ThirdParty \notin Buckety /\ ThirdParty # ""
  BY ConstantsAssumption, Zenon DEF ThirdParty
<1>u. CASE res'[r] = res[r]
  BY <1>t, <1>u DEF ResourceInv
<1>n. NoResource.exists = FALSE /\ NoResource.origin = "" /\ NoResource.content = 0
  BY DEF NoResource
<1>1. CASE Ensure
  <2>1. /\ pc = "ensure" /\ cur \in Buckety /\ ResourceOf[cur] \in Resource
        /\ \/ UNCHANGED res
           \/ res' = [res EXCEPT ![ResourceOf[cur]] = Ensured(res[ResourceOf[cur]], cur)]
    BY <1>t, <1>1, EnsureIs, TypeFacts
  <2>2. CASE r = ResourceOf[cur] /\ ~res[r].exists /\ res'[r] = Ensured(res[r], cur)
    <3>1. res'[r] = [exists |-> TRUE, content |-> 0, origin |-> cur]
      BY <2>2 DEF Ensured
    <3>2. res'[r].exists = TRUE /\ res'[r].origin = cur
      BY <3>1
    <3>. QED BY <1>c, <2>1, <2>2, <3>2
  <2>3. res'[r] = res[r] \/ (r = ResourceOf[cur] /\ ~res[r].exists /\ res'[r] = Ensured(res[r], cur))
    <3>1. CASE UNCHANGED res
      BY <3>1
    <3>2. CASE r # ResourceOf[cur]
      BY <1>t, <2>1, <3>2
    <3>3. CASE r = ResourceOf[cur] /\ res' = [res EXCEPT ![r] = Ensured(res[r], cur)]
      BY <1>t, <3>3 DEF Ensured
    <3>. QED BY <2>1, <3>1, <3>2, <3>3
  <2>. QED BY <1>u, <2>2, <2>3
<1>2. CASE DeleteBackend
  <2>1. res'[r] \in Res /\ Shrunk(res'[r], res[r])
    BY <1>t, <1>2, DeleteBackendIs
  <2>2. CASE res'[r] = NoResource
    BY <1>c, <1>n, <2>2
  <2>3. CASE /\ res'[r].exists = res[r].exists /\ res'[r].origin = res[r].origin
             /\ res'[r].content <= res[r].content
    <3>1. ASSUME ~res[r].exists PROVE res'[r] = NoResource
      <4>1. res[r] = NoResource
        BY <1>t, <3>1 DEF ResourceInv
      <4>2. res'[r].content \in 0..MaxContent /\ res'[r].content <= 0
        BY <1>n, <2>1, <2>3, <4>1 DEF Res
      <4>3. res'[r].content = 0
        BY <4>2, Bounds
      <4>4. res'[r].exists = FALSE /\ res'[r].origin = ""
        BY <1>n, <2>3, <4>1
      <4>. QED BY <2>1, <4>3, <4>4 DEF Res, NoResource
    <3>2. /\ res[r].exists => \/ res[r].origin = ThirdParty
                              \/ res[r].origin \in Buckety /\ ResourceOf[res[r].origin] = r
      BY <1>t DEF ResourceInv
    <3>. QED BY <2>3, <3>1, <3>2
  <2>. QED BY <2>1, <2>2, <2>3 DEF Shrunk
<1>3. ASSUME NEW q \in Resource, ThirdPartyCreates(q)
      PROVE  /\ ~res'[r].exists => res'[r] = NoResource
             /\ res'[r].exists => \/ res'[r].origin = ThirdParty
                                  \/ res'[r].origin \in Buckety /\ ResourceOf[res'[r].origin] = r
             /\ res'[r].origin = ThirdParty => \/ res[r].origin = ThirdParty
                                               \/ ~Claimed(r) /\ UNCHANGED <<pc, cur, prov, obj>>
  <2>1. PICK c \in 0..MaxContent :
          res' = [res EXCEPT ![q] = [exists |-> TRUE, content |-> c, origin |-> ThirdParty]]
    BY <1>3 DEF ThirdPartyCreates
  <2>2. CASE r # q
    BY <1>t, <1>u, <2>1, <2>2
  <2>3. CASE r = q
    <3>1. res'[r] = [exists |-> TRUE, content |-> c, origin |-> ThirdParty]
      BY <1>t, <2>1, <2>3
    <3>2. res'[r].exists = TRUE /\ res'[r].origin = ThirdParty
      BY <3>1
    <3>3. ~Claimed(r) /\ UNCHANGED <<pc, cur, prov, obj>>
      BY <1>3, <2>3 DEF ThirdPartyCreates, pass
    <3>. QED BY <3>2, <3>3
  <2>. QED BY <2>2, <2>3
<1>4. ASSUME NEW q \in Resource, ContentWritten(q)
      PROVE  /\ ~res'[r].exists => res'[r] = NoResource
             /\ res'[r].exists => \/ res'[r].origin = ThirdParty
                                  \/ res'[r].origin \in Buckety /\ ResourceOf[res'[r].origin] = r
             /\ res'[r].origin = ThirdParty => res[r].origin = ThirdParty
  <2>1. res[q].exists /\ res' = [res EXCEPT ![q] = [res[q] EXCEPT !.content = @ + 1]]
    BY <1>t, <1>4 DEF ContentWritten
  <2>2. res[r] \in Res /\ res[q] \in Res
    BY <1>t
  <2>3. res'[r].exists = res[r].exists /\ res'[r].origin = res[r].origin
    BY <1>t, <2>1, <2>2 DEF Res
  <2>4. ~res'[r].exists => res'[r] = res[r]
    BY <1>t, <2>1, <2>3
  <2>. QED BY <1>t, <2>3, <2>4 DEF ResourceInv
<1>5. CASE PassStep /\ ~Ensure /\ ~DeleteBackend
  <2>1. UNCHANGED res
    BY <1>5 DEF PassStep, ReportStatus, AddFinalizer, Inspect, Stamp, ReconcileImplicitAccess,
       ListAccesses, DropImplicit, ReleaseFinalizer
  <2>. QED BY <1>u, <2>1
<1>6. ASSUME NEW c \in Buckety,
             \/ BeginPass(c) \/ ForgetPass(c) \/ SyncBuckety(c) \/ UserCreates(c) \/ UserEdits(c)
             \/ UserDeletes(c) \/ ImplicitRevoked(c)
      PROVE  res'[r] = res[r]
  BY <1>6 DEF BeginPass, ForgetPass, SyncBuckety, UserCreates, UserEdits, UserDeletes,
     ImplicitRevoked
<1>7. ASSUME NEW a \in Access, AccessCreated(a) \/ AccessGone(a) PROVE res'[r] = res[r]
  BY <1>7 DEF AccessCreated, AccessGone
<1>8. CASE SyncAccesses \/ Restart \/ UNCHANGED vars
  <2>1. UNCHANGED res
    BY <1>8 DEF SyncAccesses, Restart, vars
  <2>. QED BY <1>u, <2>1
<1>. QED BY <1>1, <1>2, <1>3, <1>4, <1>5, <1>6, <1>7, <1>8, <1>u DEF Next

LEMMA ResourceNext == Inv /\ [Next]_vars => ResourceInv'
<1>. SUFFICES ASSUME Inv, [Next]_vars PROVE ResourceInv'
  OBVIOUS
<1>t. TypeInv /\ PassInv /\ ResourceInv /\ ResourceOf \in [Buckety -> Resource]
  BY ConstantsAssumption, Zenon DEF Inv
<1>1. \A r \in Resource : ~res'[r].exists => res'[r] = NoResource
  BY ResourcesMove
<1>2. \A r \in Resource : res'[r].exists =>
            \/ res'[r].origin = ThirdParty
            \/ res'[r].origin \in Buckety /\ ResourceOf[res'[r].origin] = r
  BY ResourcesMove
<1>3. ASSUME NEW b \in Buckety
      PROVE  \/ SameStamp(obj'[b], obj[b])
             \/ pc = "stamp" /\ cur = b /\ ~Stamped(obj[b]) /\ obj'[b].prov = prov
  BY ObjectsMove DEF Moves
<1>4. ASSUME NEW b \in Buckety, Stamped(obj'[b]) PROVE obj'[b].prov # ""
  BY <1>3, <1>4, <1>t DEF SameStamp, Stamped, ResourceInv, PassInv
<1>5. ASSUME NEW b \in Buckety, Stamped(obj'[b]), obj'[b].prov = "Created"
      PROVE  res'[ResourceOf[b]].origin # ThirdParty
  <2>1. ResourceOf[b] \in Resource
    BY <1>t
  <2>2. res[ResourceOf[b]].origin # ThirdParty
    BY <1>3, <1>5, <1>t DEF SameStamp, Stamped, ResourceInv
  <2>3. ~(~Claimed(ResourceOf[b]) /\ UNCHANGED <<pc, cur, prov, obj>>)
    BY <1>5 DEF Claimed, Stamped
  <2>. QED BY <2>1, <2>2, <2>3, ResourcesMove
<1>6. ASSUME pc' = "stamp", prov' = "Created" PROVE res'[ResourceOf[cur']].origin # ThirdParty
  <2>1. CASE ~PassStep
    <3>1. ASSUME NEW b \in Buckety, Begins(b) PROVE FALSE
      BY <1>6, <3>1, BeginsIs
    <3>2. UNCHANGED <<pc, cur, prov>>
      BY <1>6, <2>1, <3>1, PassMoves
    <3>3. cur \in Buckety /\ ResourceOf[cur] \in Resource
      BY <1>6, <1>t, <3>2, TypeFacts
    <3>4. res[ResourceOf[cur]].origin # ThirdParty
      BY <1>6, <1>t, <3>2 DEF ResourceInv
    <3>5. Claimed(ResourceOf[cur])
      BY <3>3 DEF Claimed
    <3>. QED BY <3>2, <3>3, <3>4, <3>5, ResourcesMove
  <2>2. CASE Inspect
    <3>1. /\ cur' = cur /\ res' = res /\ ~res[ResourceOf[cur]].exists
          /\ ResourceOf[cur] \in Resource
      BY <1>6, <1>t, <2>2, InspectIs, TypeFacts DEF GoesOn
    <3>2. NoResource.origin # ThirdParty
      BY DEF NoResource, ThirdParty
    <3>. QED BY <1>t, <3>1, <3>2 DEF ResourceInv
  <2>3. CASE ReportStatus \/ AddFinalizer \/ ReleaseFinalizer
    BY <1>6, <2>3 DEF ReportStatus, AddFinalizer, ReleaseFinalizer, Done
  <2>4. CASE Stamp \/ Ensure \/ DeleteBackend
    BY <1>6, <1>t, <2>4, StampIs, EnsureIs, DeleteBackendIs DEF Done
  <2>5. CASE ReconcileImplicitAccess \/ ListAccesses \/ DropImplicit
    BY <1>6, <1>t, <2>5, ReconcileImplicitAccessIs, ListAccessesIs, DropImplicitIs DEF Done
  <2>. QED BY <2>1, <2>2, <2>3, <2>4, <2>5 DEF PassStep
<1>. QED BY <1>1, <1>2, <1>4, <1>5, <1>6 DEF ResourceInv, Stamped

-----------------------------------------------------------------------------
(* The theorems. *)

LEMMA InvInit == Init => Inv
<1>. SUFFICES ASSUME Init PROVE Inv
  OBVIOUS
<1>1. TypeInv
  BY TypeInit
<1>2. /\ NoObj.phase = "none" /\ NoObj.fin = FALSE /\ ~Stamped(NoObj) /\ Clean(NoObj.conds)
  BY DEF NoObj, Stamped, Clean, Ready
<1>3. /\ NoImplicit.phase = "none" /\ NoResource.exists = FALSE
      /\ NoResource.origin # ThirdParty
  BY DEF NoImplicit, NoResource, ThirdParty
<1>4. /\ \A b \in Buckety : obj[b] = NoObj /\ cache[b] = NoObj /\ implicit[b] = NoImplicit
                            /\ bound[b] = {}
      /\ \A r \in Resource : res[r] = NoResource
      /\ pc = "idle" /\ lock = NoObj
  BY DEF Init
<1>5. PassInv /\ DriverInv
  BY <1>4 DEF PassInv, DriverInv, FirstPass, Serving, Leaving
<1>6. PhaseInv /\ StampInv
  BY <1>2, <1>4 DEF PhaseInv, StampInv, Later
<1>7. FinInv /\ ImplicitInv /\ BoundInv
  BY <1>2, <1>3, <1>4 DEF FinInv, ImplicitInv, BoundInv, Serving, Destroying
<1>8. CleanInv /\ ResourceInv
  BY <1>2, <1>3, <1>4 DEF CleanInv, ResourceInv
<1>. QED BY <1>1, <1>5, <1>6, <1>7, <1>8 DEF Inv

LEMMA InvNext == Inv /\ [Next]_vars => Inv'
<1>. SUFFICES ASSUME Inv, [Next]_vars PROVE Inv'
  OBVIOUS
<1>1. TypeInv'
  BY TypeNext DEF Inv
<1>. QED BY <1>1, PassNext, PhaseNext, StampNext, DriverNext, FinNext, ImplicitNext, BoundNext,
            CleanNext, ResourceNext DEF Inv

\* What every reachable state of the reconciler satisfies.
THEOREM Invariance == Spec => []Inv
BY InvInit, InvNext, PTL DEF Spec

\* The sticky stamp of api/v1alpha1 (status.driver, driverVersion's major and
\* provenance) is written once, by Status().Update under the resourceVersion
\* the gate decided on: no status patch from a stale cache, and no re-run of the
\* adoption gate, changes it.
THEOREM StampIsSticky == Spec => StickyStamp
<1>1. Inv /\ [Next]_vars =>
        [\A b \in Buckety : Stamped(obj[b]) =>
            /\ obj'[b].driver = obj[b].driver
            /\ obj'[b].major = obj[b].major
            /\ obj'[b].prov = obj[b].prov]_vars
  BY ObjectsMove DEF Moves, SameStamp
<1>. QED BY <1>1, Invariance, PTL DEF Spec, StickyStamp

\* EnsureBuckety and DeleteBuckety run only through the driver, and EnsureBuckety
\* only in the major, that the object in the API server is stamped with, though
\* the pass decides on its cached copy.
THEOREM ClaimedDriverOnly == Spec => RightDriver
<1>1. Inv /\ [Next]_vars =>
        [/\ Ensure \/ DeleteBackend => running.driver = obj[cur].driver
         /\ Ensure => running.major = obj[cur].major]_vars
  <2>. SUFFICES ASSUME Inv, Ensure \/ DeleteBackend
                PROVE  /\ running.driver = obj[cur].driver
                       /\ Ensure => running.major = obj[cur].major
    OBVIOUS
  <2>1. PassInv /\ StampInv /\ DriverInv
    BY DEF Inv
  <2>2. CASE Ensure
    <3>1. pc = "ensure"
      BY <2>2 DEF Ensure
    <3>2. CASE lock = NoObj
      <4>1. SameStamp(mem, base) /\ Stamped(mem)
        BY <2>1, <3>1, <3>2 DEF StampInv, DriverInv
      <4>2. SameStamp(obj[cur], base)
        BY <2>1, <3>1, <4>1 DEF StampInv, SameStamp, Stamped
      <4>. QED BY <2>1, <3>1, <4>1, <4>2 DEF DriverInv, SameStamp
    <3>3. CASE lock # NoObj
      BY <2>1, <3>1, <3>3 DEF StampInv, DriverInv, SameStamp
    <3>. QED BY <3>2, <3>3
  <2>3. CASE DeleteBackend
    <3>1. pc = "deleteBackend"
      BY <2>3 DEF DeleteBackend
    <3>2. mem = base /\ Stamped(mem) /\ mem.driver = running.driver
      BY <2>1, <3>1 DEF PassInv, DriverInv, Leaving
    <3>3. SameStamp(obj[cur], base)
      BY <2>1, <3>1, <3>2 DEF StampInv
    <3>4. ~Ensure
      BY <3>1 DEF Ensure
    <3>. QED BY <3>2, <3>3, <3>4 DEF SameStamp
  <2>. QED BY <2>2, <2>3
<1>. QED BY <1>1, Invariance, PTL DEF Spec, RightDriver

\* Ready=True never stands next to a condition that says the Buckety is paused,
\* however the status patches of passes on stale caches interleave.
THEOREM ReadyStaysClean == Spec => []ReadyIsClean
<1>1. Inv => ReadyIsClean
  BY DEF Inv, CleanInv, Clean, ReadyIsClean
<1>. QED BY <1>1, Invariance, PTL

\* reconcileDelete's live list: an explicit access from before the deletion
\* keeps the backend and the finalizer.
THEOREM AccessesBlockTeardown == Spec => []AccessBlocksTeardown
<1>1. Inv => AccessBlocksTeardown
  BY DEF Inv, BoundInv, Destroying, AccessBlocksTeardown
<1>. QED BY <1>1, Invariance, PTL

\* The implicit access has gone, its credential revoked, before the backend is
\* torn down or the Buckety's finalizer removed, and none appears afterwards.
THEOREM ImplicitAccessGoesFirst == Spec => []ImplicitGoneFirst
<1>1. Inv => ImplicitGoneFirst
  BY DEF Inv, FinInv, ImplicitInv, Destroying, ImplicitGoneFirst, Exists
<1>. QED BY <1>1, Invariance, PTL

\* Names that no two Bucketys share.
DistinctNames == \A b, c \in Buckety : ResourceOf[b] = ResourceOf[c] => b = c

\* What a teardown that changes the backend finds there: a resource that some
\* Buckety of this name made.
LEMMA DestroysNoForeign ==
    ASSUME Inv, DeleteBackend, res' # res
    PROVE  /\ cur \in Buckety /\ res[ResourceOf[cur]].origin \in Buckety
           /\ ResourceOf[res[ResourceOf[cur]].origin] = ResourceOf[cur]
<1>. DEFINE q == ResourceOf[cur]
<1>t. TypeInv /\ PassInv /\ StampInv /\ DriverInv /\ ResourceInv
  BY DEF Inv
<1>1. pc = "deleteBackend" /\ cur \in Buckety /\ q \in Resource /\ res \in [Resource -> Res]
  BY <1>t, DeleteBackendIs, TypeFacts DEF GoesOn
<1>. HIDE DEF q
<1>2. mem = base /\ Stamped(mem) /\ mem.prov # "Adopted"
  BY <1>t, <1>1 DEF PassInv, DriverInv, Leaving
<1>3. SameStamp(obj[cur], base)
  BY <1>t, <1>1, <1>2 DEF StampInv
<1>4. obj[cur].prov = "Created"
  <2>1. obj[cur].prov \in Provenance
    BY <1>t, <1>1, TypeFacts, ObjectFields
  <2>2. Stamped(obj[cur]) /\ obj[cur].prov # "Adopted"
    BY <1>2, <1>3 DEF SameStamp, Stamped
  <2>3. obj[cur].prov # ""
    BY <1>t, <1>1, <2>2 DEF ResourceInv
  <2>. QED BY <2>1, <2>2, <2>3 DEF Provenance
<1>5. res[q].origin # ThirdParty
  BY <1>t, <1>1, <1>2, <1>3, <1>4 DEF ResourceInv, SameStamp, Stamped, q
<1>6. res[q].exists
  <2>1. \/ UNCHANGED res
        \/ res[q].content > 0
        \/ res' = [res EXCEPT ![q] = [res[q] EXCEPT !.content = 0]]
        \/ res' = [res EXCEPT ![q] = NoResource]
    BY DEF DeleteBackend, DeleteSlice, SliceStalls, DeleteWhole, DeleteFails, q
  <2>2. ASSUME ~res[q].exists PROVE FALSE
    <3>1. res[q] = NoResource
      BY <1>t, <1>1, <2>2 DEF ResourceInv
    <3>2. [NoResource EXCEPT !.content = 0] = NoResource
      <4>. DEFINE n == [NoResource EXCEPT !.content = 0]
      <4>1. NoResource \in Res /\ n \in Res
        BY <1>1, <3>1, ResourceUpdates
      <4>2. n.exists = FALSE /\ n.content = 0 /\ n.origin = ""
        BY <4>1 DEF NoResource, Res
      <4>. HIDE DEF n
      <4>3. n = NoResource
        BY <4>1, <4>2 DEF NoResource, Res
      <4>. QED BY <4>3 DEF n
    <3>4. NoResource.content = 0 /\ ~(0 > 0)
      BY DEF NoResource
    <3>3. [res EXCEPT ![q] = NoResource] = res
      BY <1>1, <3>1
    <3>. QED BY <2>1, <3>1, <3>2, <3>3, <3>4
  <2>. QED BY <2>2
<1>7. res[q].origin \in Buckety /\ ResourceOf[res[q].origin] = q
  BY <1>t, <1>1, <1>5, <1>6 DEF ResourceInv
<1>. QED BY <1>1, <1>7 DEF q

\* DeleteBuckety empties and deletes only what this Buckety's own EnsureBuckety
\* made, never a resource that was there before the claim, when no two
\* Bucketys resolve to one name.
THEOREM TeardownDestroysOnlyOwn ==
    ASSUME DistinctNames
    PROVE  Spec => DestroysOnlyOwn
<1>1. Inv /\ [Next]_vars => [DeleteBackend /\ res' # res => res[ResourceOf[cur]].origin = cur]_vars
  BY DestroysNoForeign DEF DistinctNames
<1>. QED BY <1>1, Invariance, PTL DEF Spec, DestroysOnlyOwn
=============================================================================
