----------------------------- MODULE ObjectStore -----------------------------
(***************************************************************************)
(* The bucket side of the gcs and s3 drivers (pkg/drivers/gcs/driver.go,   *)
(* pkg/drivers/s3/driver.go): InspectBuckety, EnsureBuckety with its       *)
(* managed knobs, and DeleteBuckety, which empties a bucket slice by slice *)
(* while the data plane goes on writing, deleting and holding objects.     *)
(*                                                                         *)
(* A pass of the reconciler is cut at every backend call (the read and the *)
(* write of one s3 knob are one step); one pass runs at a time.  The       *)
(* flavour says how the backend behaves: gcs, gcs without                  *)
(* storage.objects.list, the fake-gcs emulator (tombstones stay listed,    *)
(* an update resets the fields it does not carry), s3, s3 without          *)
(* versioning, and s3 with credentials that may not list objects, or       *)
(* versions.  A foreign bucket is one this backend's credentials cannot    *)
(* reach.  Versioning and lifecycle stand for the mutable parameters, the  *)
(* location for the immutable ones; "" in a parameter means unmanaged.     *)
(* The adoption mode is AdoptEmpty (BucketyReconciler has the others).     *)
(* A call that fails may have taken effect: its answer was lost.           *)
(***************************************************************************)
EXTENDS Naturals, FiniteSets

CONSTANTS
    Flavours,     \* the backends to consider
    ParamSets,    \* what users write: location, versioning, lifecycle
    Locations,    \* where the backend may place a bucket; "" is not one
    Rules,        \* lifecycle documents a bucket may carry, "none" included
    Keys,         \* object names, ordered as numbers
    PageSize,     \* emptyDeleteSliceSize, and the page of an s3 listing; room for
                  \* a delete marker and the version it hides
    MaxWrites,    \* bound: generations the data plane writes
    MaxEdits,     \* bound: other steps of users and of the data plane
    MaxMoves,     \* bound: both together
    MaxFaults     \* bound: failed calls

Flavour == {"gcs", "gcs-nolist", "fake-gcs", "s3", "s3-plain", "s3-nolist", "s3-noversions"}
ParamSet == [location : Locations \cup {""}, versioning : {"", "on", "off"},
             lifecycle : Rules \cup {""}]
Reason == {"", "InspectFailed", "BackendResourceExists", "ParameterDrift", "EnsureFailed",
           "EnsuredOnBackend", "DeletingContents", "DeleteFailed"}
PC == {"idle", "inspect", "probe", "probeVersions", "head", "create", "recheck", "update",
       "versioning", "lifecycle", "list", "listVersions", "rmObjects", "rmVersions",
       "rmBucket"}

ASSUME ConstantsAssumption ==
    /\ Flavours \subseteq Flavour /\ Flavours # {}
    /\ ParamSets \subseteq ParamSet /\ ParamSets # {}
    /\ "" \notin Locations /\ Locations # {} /\ "" \notin Rules /\ "none" \in Rules
    /\ Keys \subseteq Nat
    /\ PageSize \in Nat \ {0, 1}
    /\ {MaxWrites, MaxEdits, MaxMoves, MaxFaults} \subseteq Nat

VARIABLES
    flavour,   \* how this backend behaves
    bky,       \* the Buckety: phase, parameters, provenance, reason on Ready
    bucket,    \* the bucket under its name
    gens,      \* its generations, versions, delete markers and tombstones
    written,   \* generations written so far
    pc,        \* the pass in flight: next backend call
    want,      \* ... the parameters it read
    seen,      \* ... the attributes it read
    targets,   \* ... the slice it listed
    removed,   \* history: this pass, or the last one that ended, removed something
    stalled,   \* that pass reported a stalled teardown
    edits, faults

bounds == <<written, edits, faults>>
world == <<flavour, bky, bucket, gens>>
vars == <<flavour, bky, bucket, gens, written, pc, want, seen, targets, removed, stalled,
          edits, faults>>

NoParams == [location |-> "", versioning |-> "", lifecycle |-> ""]
NoBucket == [exists |-> FALSE, ours |-> FALSE, location |-> "", versioning |-> "never",
             lifecycle |-> "none"]
Bucket == [exists : BOOLEAN, ours : BOOLEAN, location : Locations \cup {""},
           versioning : {"never", "on", "off"}, lifecycle : Rules]
Generation == [key : Keys, id : 1..MaxWrites, kind : {"live", "archived", "marker", "tomb"},
               plain : BOOLEAN, held : BOOLEAN]
               \* plain: s3 wrote it without a version id

TypeOK ==
    /\ flavour \in Flavours
    /\ bky \in [phase : {"live", "deleting", "gone"}, params : ParamSets,
                prov : {"", "Created", "Adopted"}, ready : Reason]
    /\ bucket \in Bucket
    /\ gens \subseteq Generation
    /\ \A g, h \in gens : (g.kind = "live" /\ h.kind = "live" /\ g.key = h.key) => g = h
    /\ written \in 0..MaxWrites
    /\ pc \in PC
    /\ want \in ParamSets \cup {NoParams}
    /\ seen \in Bucket
    /\ targets \subseteq Generation
    /\ removed \in BOOLEAN
    /\ stalled \in BOOLEAN
    /\ edits \in 0..MaxEdits /\ faults \in 0..MaxFaults

Gcs == flavour \in {"gcs", "gcs-nolist", "fake-gcs"}
Denied == flavour \in {"gcs-nolist", "s3-nolist"}
Fault == faults < MaxFaults /\ faults' = faults + 1 /\ UNCHANGED <<written, edits>>
NoFault == UNCHANGED bounds
Reachable == bucket.exists /\ bucket.ours

-----------------------------------------------------------------------------
(* The backend. *)

Live == {g \in gens : g.kind = "live"}

\* Listings are ordered by name, newest generation first.
Before(g, h) == g.key < h.key \/ (g.key = h.key /\ (g.id > h.id \/ (g.id = h.id /\ g.kind = "marker")))
Page(S, size) == {g \in S : Cardinality({h \in S \ {g} : Before(h, g)}) < size}

\* On s3 the newest entry of a name is its current object, unless it is a
\* delete marker: of the names K in G.  Deleting a marker brings the version
\* it hid back.
Settle(G, K) ==
    {IF g.key \in K /\ g.kind # "marker"
     THEN [g EXCEPT !.kind = IF \E h \in G : h.key = g.key /\ Before(h, g) THEN "archived" ELSE "live"]
     ELSE g : g \in G}

\* What a new current entry of the name k destroys: nothing while versions
\* are kept; on s3 whatever has no version id.
Replaced(k) ==
    IF bucket.versioning = "on" THEN {}
    ELSE {g \in gens : g.key = k /\ IF Gcs THEN g.kind = "live" ELSE g.plain}
Put(new) ==
    LET K == {n.key : n \in new}
    IN  Settle((gens \ UNION {Replaced(k) : k \in K}) \cup new, K)

\* s3 deletes current objects by name: a marker hides them, or they are gone
\* from a bucket that was never versioned.  (A second marker on a name that
\* has lost its object since is not told apart from the first.)
Marker(g) == [g EXCEPT !.kind = "marker", !.plain = bucket.versioning # "on", !.held = FALSE]
DeleteNamed(S) == IF bucket.versioning = "never" THEN gens \ S ELSE Put({Marker(g) : g \in S})

\* The entries that deleting the listed T hits.  s3 deletes current objects
\* by name, whatever is current by then; versions, and gcs generations, are
\* deleted by id, whatever has become of them.  One that is gone is a success.
ByName == ~Gcs /\ pc = "rmObjects"
Same(g, h) == g.key = h.key /\ g.id = h.id /\ ((g.kind = "marker") <=> (h.kind = "marker"))
Hit(T) ==
    {h \in gens : \E g \in T : IF ByName THEN h.kind = "live" /\ h.key = g.key ELSE Same(g, h)}
Refused(T) ==
    {h \in Hit(T) : IF ByName THEN \E r \in Replaced(h.key) : r.held ELSE h.held}
Delete(T) ==
    LET S == Hit(T) \ Refused(T)
    IN  CASE ByName -> DeleteNamed(S)
          [] ~Gcs /\ ~ByName -> Settle(gens \ S, {g.key : g \in S})
          [] flavour = "fake-gcs" -> (gens \ S) \cup {[g EXCEPT !.kind = "tomb"] : g \in S}
          [] OTHER -> gens \ S

\* What keeps a bucket from being deleted.
Blocking == IF flavour = "fake-gcs" THEN Live ELSE gens

-----------------------------------------------------------------------------
(* Moving the pass along. *)

Goto(step) == pc' = step /\ UNCHANGED <<want, seen, targets>>
EndPass == pc' = "idle" /\ want' = NoParams /\ seen' = NoBucket /\ targets' = {}
Finish(reason) == bky' = [bky EXCEPT !.ready = reason] /\ EndPass
Failing(reason) == (Fault \/ (~Reachable /\ NoFault)) /\ Finish(reason)
\* What a failed call that makes the bucket b leaves behind.
Lost(b) == bucket' = bucket \/ (Reachable /\ bucket' = b)

Stamp(prov) == bky' = [bky EXCEPT !.prov = prov] /\ Goto("head")

-----------------------------------------------------------------------------
(* Reconcile and InspectBuckety. *)

Reconcile ==
    /\ pc = "idle" /\ bky.phase # "gone"
    /\ \/ /\ bky.phase = "live"
          /\ pc' = IF bky.prov = "" THEN "inspect" ELSE "head"
          /\ want' = bky.params /\ UNCHANGED <<bky, seen, targets>>
       \/ /\ bky.phase = "deleting" /\ bky.prov = "Created" /\ Goto("list") /\ UNCHANGED bky
       \/ /\ bky.phase = "deleting" /\ bky.prov # "Created"
          /\ bky' = [bky EXCEPT !.phase = "gone"] /\ UNCHANGED <<pc, want, seen, targets>>
    /\ removed' = FALSE /\ stalled' = FALSE
    /\ UNCHANGED <<flavour, bucket, gens, bounds>>

InspectStep == UNCHANGED <<flavour, bucket, gens, removed, stalled>>

\* Attrs, HeadBucket.
Inspect ==
    /\ pc = "inspect" /\ InspectStep
    /\ \/ NoFault /\ ~bucket.exists /\ Stamp("Created")
       \/ NoFault /\ Reachable /\ Goto("probe") /\ UNCHANGED bky
       \/ (Fault \/ (bucket.exists /\ ~bucket.ours /\ NoFault)) /\ Finish("InspectFailed")

\* The first page of current objects.  A refused listing counts as content.
Probe ==
    /\ pc = "probe" /\ InspectStep
    /\ \/ /\ Reachable /\ NoFault
          /\ \/ (Denied \/ Live # {}) /\ Finish("BackendResourceExists")
             \/ ~Denied /\ Live = {} /\ Gcs /\ Stamp("Adopted")
             \/ ~Denied /\ Live = {} /\ ~Gcs /\ Goto("probeVersions") /\ UNCHANGED bky
       \/ Failing("InspectFailed")

\* s3 also asks for one entry of the version listing; a delete marker there
\* is not content, a refusal is.
ProbeVersions ==
    /\ pc = "probeVersions" /\ InspectStep
    /\ \/ /\ Reachable /\ NoFault
          /\ IF \/ flavour = "s3-noversions"
                \/ flavour # "s3-plain" /\ \E g \in Page(gens, 1) : g.kind # "marker"
             THEN Finish("BackendResourceExists")
             ELSE Stamp("Adopted")
       \/ Failing("InspectFailed")

-----------------------------------------------------------------------------
(* EnsureBuckety. *)

EnsureStep == UNCHANGED <<flavour, gens, removed, stalled>>

\* Versioning as the parameter asks for it; s3 leaves a never versioned
\* bucket alone when asked to switch it off.
Versioned(p, now) ==
    CASE p = "on" -> "on"
      [] p = "off" -> IF Gcs THEN "never" ELSE IF now = "on" THEN "off" ELSE now
      [] OTHER -> now
HasKnobs(b, p) ==
    /\ p.versioning # "" => Versioned(p.versioning, b.versioning) = b.versioning
    /\ p.lifecycle # "" => p.lifecycle = b.lifecycle

\* The bucket after an update of the knobs in set; the emulator resets the
\* ones the payload does not carry.
Updated(b, p, set) ==
    LET base == IF flavour = "fake-gcs" THEN [b EXCEPT !.versioning = "never", !.lifecycle = "none"]
                ELSE b
    IN  [base EXCEPT
           !.versioning = IF "versioning" \in set THEN Versioned(p.versioning, b.versioning) ELSE @,
           !.lifecycle = IF "lifecycle" \in set THEN p.lifecycle ELSE @]
Managed(p) == {k \in {"versioning", "lifecycle"} : p[k] # ""}

\* The payload of updateForDrift: every managed knob, drifted or not.
\* (Mutant: only the drifted knobs.)
PayloadOfDrift(p, b) ==
    {k \in Managed(p) : IF k = "lifecycle" THEN p[k] # b[k]
                        ELSE Versioned(p[k], b[k]) # b[k]}
Payload(p, b) == Managed(p)

\* reconcileExisting up to the update, with the attributes just read.
ReconcileExisting(b) ==
    \/ /\ want.location \notin {"", b.location} /\ Finish("ParameterDrift")
    \/ /\ want.location \in {"", b.location} /\ HasKnobs(b, want) /\ Finish("EnsuredOnBackend")
    \/ /\ want.location \in {"", b.location} /\ ~HasKnobs(b, want)
       /\ pc' = "update" /\ seen' = b /\ UNCHANGED <<bky, want, targets>>

\* What follows the s3 bucket check: the parameters that are managed.
ReconcileKnobs ==
    \/ Managed(want) = {} /\ Finish("EnsuredOnBackend")
    \/ "versioning" \in Managed(want) /\ Goto("versioning") /\ UNCHANGED bky
    \/ Managed(want) = {"lifecycle"} /\ Goto("lifecycle") /\ UNCHANGED bky

\* ensureBucket's Attrs, EnsureBuckety's HeadBucket.  s3 goes on to
\* CreateBucket whatever the answer; gcs only if the bucket is not there.
Head ==
    /\ pc = "head" /\ EnsureStep /\ UNCHANGED bucket
    /\ \/ Reachable /\ NoFault /\ Gcs /\ ReconcileExisting(bucket)
       \/ Reachable /\ NoFault /\ ~Gcs /\ ReconcileKnobs
       \/ ~bucket.exists /\ NoFault /\ Goto("create") /\ UNCHANGED bky
       \/ ~Gcs /\ (Fault \/ (bucket.exists /\ ~bucket.ours /\ NoFault))
          /\ Goto("create") /\ UNCHANGED bky
       \/ Gcs /\ (Fault \/ (bucket.exists /\ ~bucket.ours /\ NoFault)) /\ Finish("EnsureFailed")

\* Whether a name that is taken is checked for access.
\* (Mutant: BucketAlreadyExists counts as ours.)
TakenIsOurs == ReconcileKnobs
TakenIsChecked == Goto("recheck") /\ UNCHANGED bky

\* attrsForCreate and Create; createBucket.  CreateBucketConfiguration has
\* no knobs, they follow; BucketAlreadyOwnedByYou needs no second look.
New(p) ==
    LET at(l) == [NoBucket EXCEPT !.exists = TRUE, !.ours = TRUE, !.location = l]
    IN  {IF Gcs THEN Updated(at(l), p, Managed(p)) ELSE at(l) :
            l \in IF p.location = "" THEN Locations ELSE {p.location}}
Create ==
    /\ pc = "create" /\ EnsureStep
    /\ \/ /\ ~bucket.exists /\ NoFault /\ bucket' \in New(want)
          /\ IF Gcs THEN Finish("EnsuredOnBackend") ELSE ReconcileKnobs
       \/ /\ bucket.exists /\ NoFault /\ UNCHANGED bucket
          /\ TakenIsChecked \/ (~Gcs /\ bucket.ours /\ ReconcileKnobs)
       \/ /\ Fault /\ Finish("EnsureFailed")
          /\ UNCHANGED bucket \/ (~bucket.exists /\ bucket' \in New(want))

\* The name is taken: Attrs or HeadBucket decides whether by us.
Recheck ==
    /\ pc = "recheck" /\ EnsureStep /\ UNCHANGED bucket
    /\ \/ Reachable /\ NoFault /\ IF Gcs THEN ReconcileExisting(bucket) ELSE ReconcileKnobs
       \/ Failing("EnsureFailed")

\* The update is computed from the attributes read before.
Update ==
    /\ pc = "update" /\ EnsureStep
    /\ \/ /\ Reachable /\ NoFault /\ Finish("EnsuredOnBackend")
          /\ bucket' = Updated(bucket, want, Payload(want, seen))
       \/ Failing("EnsureFailed") /\ Lost(Updated(bucket, want, Payload(want, seen)))

\* reconcileVersioning.  A backend without the capability is skipped.
SetVersioning ==
    /\ pc = "versioning" /\ EnsureStep
    /\ \/ /\ Reachable /\ NoFault
          /\ bucket' = IF flavour = "s3-plain" THEN bucket ELSE Updated(bucket, want, {"versioning"})
          /\ IF "lifecycle" \in Managed(want) THEN Goto("lifecycle") /\ UNCHANGED bky
             ELSE Finish("EnsuredOnBackend")
       \/ /\ Failing("EnsureFailed")
          /\ Lost(IF flavour = "s3-plain" THEN bucket ELSE Updated(bucket, want, {"versioning"}))

\* reconcileLifecycle.
SetLifecycle ==
    /\ pc = "lifecycle" /\ EnsureStep
    /\ \/ /\ Reachable /\ NoFault /\ Finish("EnsuredOnBackend")
          /\ bucket' = Updated(bucket, want, {"lifecycle"})
       \/ Failing("EnsureFailed") /\ Lost(Updated(bucket, want, {"lifecycle"}))

-----------------------------------------------------------------------------
(* DeleteBuckety. *)

Gone == bky' = [bky EXCEPT !.phase = "gone"] /\ EndPass
Slice(step, T) == pc' = step /\ targets' = T /\ UNCHANGED <<bky, want, seen>>

\* The first listing of emptyBucketSlice: every generation (gcs), or the
\* current objects (s3).  A missing bucket is a success.
List ==
    /\ pc = "list" /\ UNCHANGED <<flavour, bucket, gens, removed, stalled>>
    /\ \/ ~bucket.exists /\ NoFault /\ Gone
       \/ /\ Gcs /\ bucket.exists /\ NoFault
          /\ IF flavour = "gcs-nolist" \/ ~bucket.ours \/ gens = {} THEN Slice("rmBucket", {})
             ELSE Slice("rmObjects", Page(gens, PageSize))
       \/ /\ ~Gcs /\ ~Denied /\ Reachable /\ NoFault
          /\ IF Live = {} THEN Slice("listVersions", {}) ELSE Slice("rmObjects", Page(Live, PageSize))
       \/ /\ Fault \/ (~Gcs /\ bucket.exists /\ (Denied \/ ~bucket.ours) /\ NoFault)
          /\ Finish("DeleteFailed")

\* listVersionsPage: versions and delete markers.
ListVersions ==
    /\ pc = "listVersions" /\ UNCHANGED <<flavour, bucket, gens, removed, stalled>>
    /\ \/ ~bucket.exists /\ NoFault /\ Gone
       \/ /\ Reachable /\ flavour # "s3-noversions" /\ NoFault
          /\ IF flavour = "s3-plain" \/ gens = {} THEN Slice("rmBucket", {})
             ELSE Slice("rmVersions", Page(gens, PageSize))
       \/ /\ Fault \/ (bucket.exists /\ (flavour = "s3-noversions" \/ ~bucket.ours) /\ NoFault)
          /\ Finish("DeleteFailed")

\* Whether a deleted slice leaves more to do: gcs counts live generations
\* only, s3 whatever it deleted.
\* (Mutant: gcs counts archived generations and tombstones too.)
CountListed(T) == T # {}
RemainingWork(T) == IF Gcs THEN \E g \in T : g.kind = "live" ELSE T # {}

\* The deletes of one slice.  A refused one fails the pass; of the others any
\* number is through by then.
RemoveObjects ==
    /\ pc \in {"rmObjects", "rmVersions"} /\ UNCHANGED <<flavour, bucket>>
    /\ \/ /\ Refused(targets) = {} /\ NoFault
          /\ Reachable \/ (Gcs /\ ~bucket.exists)
          /\ gens' = Delete(targets)
          /\ removed' = (gens' # gens)
          /\ IF RemainingWork(targets) THEN Finish("DeletingContents")
             ELSE Goto("rmBucket") /\ UNCHANGED bky
          /\ UNCHANGED stalled
       \/ ~Gcs /\ ~bucket.exists /\ NoFault /\ Gone /\ UNCHANGED <<gens, removed, stalled>>
       \/ /\ \/ Fault
             \/ NoFault /\ (Refused(targets) # {} \/ (bucket.exists /\ ~bucket.ours))
          /\ Finish("DeleteFailed")
          /\ \E T \in SUBSET targets : gens' = Delete(T)
          /\ removed' = (gens' # gens)
          /\ UNCHANGED stalled

\* The pace of the next pass when the bucket turned out not to be empty.
\* (Mutant: gcs reports a stall when it deleted no live generation.)
StallsOnNoLive == Gcs => \A g \in targets : g.kind # "live"
Stalls == Gcs => targets = {}

RemoveBucket ==
    /\ pc = "rmBucket" /\ UNCHANGED <<flavour, removed>>
    /\ \/ ~bucket.exists /\ NoFault /\ Gone /\ UNCHANGED <<bucket, gens, stalled>>
       \/ /\ Reachable /\ Blocking = {} /\ NoFault /\ Gone
          /\ bucket' = NoBucket /\ gens' = {} /\ UNCHANGED stalled
       \/ /\ Reachable /\ Blocking # {} /\ NoFault /\ UNCHANGED <<bucket, gens>>
          /\ IF flavour = "gcs-nolist" THEN Finish("DeleteFailed") /\ UNCHANGED stalled
             ELSE Finish("DeletingContents") /\ stalled' = Stalls
       \/ /\ Fault \/ (bucket.exists /\ ~bucket.ours /\ NoFault)
          /\ Finish("DeleteFailed") /\ UNCHANGED stalled
          /\ \/ UNCHANGED <<bucket, gens>>
             \/ Reachable /\ Blocking = {} /\ bucket' = NoBucket /\ gens' = {}

Driver ==
    \/ Reconcile \/ Inspect \/ Probe \/ ProbeVersions
    \/ Head \/ Create \/ Recheck \/ Update \/ SetVersioning \/ SetLifecycle
    \/ List \/ ListVersions \/ RemoveObjects \/ RemoveBucket

-----------------------------------------------------------------------------
(* Users of the Buckety, the data plane, and other owners. *)

MayMove == written + edits < MaxMoves
Edit == MayMove /\ edits < MaxEdits /\ edits' = edits + 1 /\ UNCHANGED <<written, faults>>
Pass == <<pc, want, seen, targets, removed, stalled>>

\* ValidateUpdateParameters: the location is immutable.
UserEdits(p) ==
    /\ Edit /\ bky.phase = "live" /\ p # bky.params /\ p.location = bky.params.location
    /\ bky' = [bky EXCEPT !.params = p]
    /\ UNCHANGED <<flavour, bucket, gens, Pass>>
UserDeletes ==
    /\ bky.phase = "live"
    /\ bky' = [bky EXCEPT !.phase = "deleting"]
    /\ UNCHANGED <<flavour, bucket, gens, Pass, bounds>>

\* Overwriting keeps the previous generation on a versioned bucket.  The
\* emulator is assumed to hold no more tombstones than a slice.
Write(k) ==
    /\ Reachable /\ MayMove /\ written < MaxWrites /\ written' = written + 1
    /\ flavour = "fake-gcs" => written < PageSize
    /\ \A g \in Replaced(k) : ~g.held
    /\ LET new == [key |-> k, id |-> written', kind |-> "live", held |-> FALSE,
                   plain |-> ~Gcs /\ bucket.versioning # "on"]
           old == {g \in Live : g.key = k}
       IN  gens' = IF ~Gcs THEN Put({new})
                   ELSE (gens \ old) \cup {[g EXCEPT !.kind = "archived"] : g \in old \ Replaced(k)}
                        \cup {new}
    /\ UNCHANGED <<flavour, bky, bucket, Pass, edits, faults>>
Erase(g) ==
    /\ Edit /\ g.kind = "live" /\ \A h \in {g} \cup Replaced(g.key) : ~h.held
    /\ gens' = CASE ~Gcs -> DeleteNamed({g})
                 [] flavour = "fake-gcs" -> (gens \ {g}) \cup {[g EXCEPT !.kind = "tomb"]}
                 [] OTHER -> (gens \ {g}) \cup {[h EXCEPT !.kind = "archived"] : h \in {g} \ Replaced(g.key)}
    /\ UNCHANGED <<flavour, bky, bucket, Pass>>
Hold(g) ==
    /\ Edit /\ g.kind \in {"live", "archived"}
    /\ gens' = (gens \ {g}) \cup {[g EXCEPT !.held = ~@]}
    /\ UNCHANGED <<flavour, bky, bucket, Pass>>

\* Somebody with the same credentials, or another owner of a global name.
OutsiderCreates(ours) ==
    /\ Edit /\ ~bucket.exists
    /\ \E l \in Locations :
         bucket' = [NoBucket EXCEPT !.exists = TRUE, !.ours = ours, !.location = l]
    /\ UNCHANGED <<flavour, bky, gens, Pass>>
OutsiderRemoves ==
    /\ Edit /\ bucket.exists /\ gens = {}
    /\ bucket' = NoBucket
    /\ UNCHANGED <<flavour, bky, gens, Pass>>
OutsiderSets(v, r) ==
    /\ Edit /\ Reachable /\ flavour # "s3-plain"
    /\ bucket.versioning # "never" => v # "never" \/ Gcs
    /\ bucket' = [bucket EXCEPT !.versioning = v, !.lifecycle = r] /\ bucket' # bucket
    /\ UNCHANGED <<flavour, bky, gens, Pass>>

Environment ==
    \/ \E p \in ParamSets : UserEdits(p)
    \/ UserDeletes
    \/ \E k \in Keys : Write(k)
    \/ \E g \in gens : Erase(g) \/ Hold(g)
    \/ \E ours \in BOOLEAN : OutsiderCreates(ours)
    \/ OutsiderRemoves
    \/ \E v \in {"never", "on", "off"}, r \in Rules : OutsiderSets(v, r)

Init ==
    /\ flavour \in Flavours
    /\ \E p \in ParamSets : bky = [phase |-> "live", params |-> p, prov |-> "", ready |-> ""]
    /\ bucket = NoBucket /\ gens = {} /\ written = 0
    /\ pc = "idle" /\ want = NoParams /\ seen = NoBucket /\ targets = {}
    /\ removed = FALSE /\ stalled = FALSE
    /\ edits = 0 /\ faults = 0

Next == Driver \/ Environment

Spec == Init /\ [][Next]_vars

\* The worker goes on and the object comes back: requeued by an error, a slice
\* or the recheck, and after ParameterDrift, which requeues nothing, by an
\* edit, a restart or the informer's resync.
FairSpec == Spec /\ WF_vars(Driver)

-----------------------------------------------------------------------------
(* Properties. *)

\* A teardown pass that reports a stall, which slows the next one down,
\* removed nothing (registry.ErrDeletionInProgress).
StalledHonest == stalled => ~removed

\* A pass that ends Ready has just found a bucket of this backend under the
\* name, or made it: a name somebody else holds never passes for ours.
ReadyOverOwn ==
    [][(pc # "idle" /\ pc' = "idle" /\ bky'.ready = "EnsuredOnBackend" /\ bky.phase = "live")
         => Reachable \/ (bucket'.exists /\ bucket'.ours)]_vars

\* A Buckety that is being deleted goes away, unless its bucket holds
\* protected objects, the credentials cannot list the contents, or the name
\* is somebody else's: the slices end, also where tombstones stay listed.
TeardownCompletes ==
    <>[](bky.phase = "deleting" =>
            \/ \E g \in gens : g.held
            \/ flavour = "gcs-nolist" /\ gens # {}
            \/ flavour \in {"s3-nolist", "s3-noversions"} /\ bucket.exists
            \/ bucket.exists /\ ~bucket.ours)

\* Once nobody interferes, a Ready bucket has the managed knobs, whatever
\* the backend resets on an update; a backend without versioning is exempt.
KnobsConverge ==
    <>[]((bky.phase = "live" /\ bky.prov # "" /\ Reachable) =>
            \/ bky.ready = "ParameterDrift" /\ bky.params.location # bucket.location
            \/ /\ bky.ready = "EnsuredOnBackend"
               /\ HasKnobs(bucket, IF flavour = "s3-plain" THEN [bky.params EXCEPT !.versioning = ""]
                                   ELSE bky.params))
=============================================================================
