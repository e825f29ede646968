-------------------------- MODULE ObjectStoreProofs --------------------------
(***************************************************************************)
(* What the bucket side of the gcs and s3 drivers promises, for every      *)
(* backend flavour, any set of names, any page size and any number of      *)
(* writes, edits and faults.                                               *)
(***************************************************************************)
EXTENDS ObjectStore, TLAPS

BkyType == [phase : {"live", "deleting", "gone"}, params : ParamSets,
            prov : {"", "Created", "Adopted"}, ready : Reason]

\* At most one generation of a name is current.
OneLive(G) == \A g, h \in G : (g.kind = "live" /\ h.kind = "live" /\ g.key = h.key) => g = h

\* An id names one object of a name (its delete marker shares it).
UniqueIds(G) ==
    \A g, h \in G : (/\ g.kind # "marker" /\ h.kind # "marker"
                     /\ g.key = h.key /\ g.id = h.id) => g = h

\* The entries of a bucket after n writes.
Sound(G, n) ==
    /\ OneLive(G) /\ UniqueIds(G)
    /\ \A g \in G : g.id <= n /\ (g.kind = "marker" => ~Gcs)

TeardownPC == {"list", "listVersions", "rmObjects", "rmVersions", "rmBucket"}

\* Only a Buckety that is being deleted is torn down.
TeardownInv == pc \in TeardownPC => bky.phase = "deleting"

\* A stall is reported at the end of a pass, by one that has got to the
\* bucket without deleting a slice.
StallInv ==
    /\ stalled => ~removed
    /\ pc # "idle" => ~stalled
    /\ pc \in {"list", "listVersions"} => ~removed
    /\ pc = "rmBucket" /\ (Gcs => targets = {}) => ~removed

\* The lifecycle call is made for a document only.
KnobInv == pc = "lifecycle" => "lifecycle" \in Managed(want)

Inv == TypeOK /\ Sound(gens, written) /\ TeardownInv /\ KnobInv /\ StallInv

-----------------------------------------------------------------------------
(* Types. *)

LEMMA TypeIs ==
    TypeOK <=>
        /\ flavour \in Flavours /\ bky \in BkyType /\ bucket \in Bucket
        /\ gens \subseteq Generation /\ OneLive(gens)
        /\ written \in 0..MaxWrites /\ pc \in PC /\ want \in ParamSets \cup {NoParams}
        /\ seen \in Bucket /\ targets \subseteq Generation
        /\ removed \in BOOLEAN /\ stalled \in BOOLEAN
        /\ edits \in 0..MaxEdits /\ faults \in 0..MaxFaults
BY DEF TypeOK, BkyType, OneLive

LEMMA Bounds ==
    /\ MaxWrites \in Nat /\ MaxEdits \in Nat /\ MaxFaults \in Nat
    /\ "none" \in Rules /\ ParamSets \subseteq ParamSet
BY ConstantsAssumption

LEMMA NoBucketIs == NoBucket \in Bucket
BY Bounds DEF NoBucket, Bucket

LEMMA WantIs ==
    ASSUME NEW w \in ParamSets \cup {NoParams}
    PROVE  /\ w \in [location : Locations \cup {""}, versioning : {"", "on", "off"},
                     lifecycle : Rules \cup {""}]
<1>1. CASE w \in ParamSets
  BY <1>1, Bounds DEF ParamSet
<1>2. CASE w = NoParams
  BY <1>2 DEF NoParams
<1>. QED BY <1>1, <1>2

\* What a step of the pass leaves typed.
PassTyped == /\ bky' \in BkyType /\ pc' \in PC /\ want' \in ParamSets \cup {NoParams}
             /\ seen' \in Bucket /\ targets' \subseteq Generation

LEMMA FinishMoves ==
    ASSUME TypeOK, NEW reason \in Reason, Finish(reason)
    PROVE  PassTyped /\ pc' = "idle" /\ bky'.phase = bky.phase /\ bky'.ready = reason
<1>1. bky \in BkyType
  BY TypeIs
<1>2. bky' \in BkyType /\ bky'.phase = bky.phase /\ bky'.ready = reason
  BY <1>1 DEF Finish, BkyType
<1>. QED BY <1>2, NoBucketIs DEF Finish, EndPass, PassTyped, PC

LEMMA GoneMoves ==
    ASSUME TypeOK, Gone
    PROVE  PassTyped /\ pc' = "idle"
<1>1. bky \in BkyType
  BY TypeIs
<1>2. bky' \in BkyType
  BY <1>1 DEF Gone, BkyType
<1>. QED BY <1>2, NoBucketIs DEF Gone, EndPass, PassTyped, PC

LEMMA GotoMoves ==
    ASSUME TypeOK, NEW step \in PC, Goto(step), UNCHANGED bky
    PROVE  PassTyped /\ pc' = step
BY TypeIs DEF Goto, PassTyped

LEMMA StampMoves ==
    ASSUME TypeOK, NEW prov \in {"Created", "Adopted"}, Stamp(prov)
    PROVE  PassTyped /\ pc' = "head"
<1>1. bky' \in BkyType
  BY TypeIs DEF Stamp, BkyType
<1>. QED BY <1>1, TypeIs DEF Stamp, Goto, PassTyped, PC

LEMMA ReconcileExistingMoves ==
    ASSUME TypeOK, ReconcileExisting(bucket)
    PROVE  PassTyped /\ pc' \in {"idle", "update"} /\ bky'.phase = bky.phase
<1>1. CASE Finish("ParameterDrift") \/ Finish("EnsuredOnBackend")
  BY <1>1, FinishMoves DEF Reason
<1>2. CASE pc' = "update" /\ seen' = bucket /\ UNCHANGED <<bky, want, targets>>
  BY <1>2, TypeIs DEF PassTyped, PC
<1>. QED BY <1>1, <1>2 DEF ReconcileExisting

LEMMA ReconcileKnobsMoves ==
    ASSUME TypeOK, ReconcileKnobs
    PROVE  /\ PassTyped /\ pc' \in {"idle", "versioning", "lifecycle"} /\ bky'.phase = bky.phase
           /\ pc' = "lifecycle" => "lifecycle" \in Managed(want) /\ UNCHANGED want
<1>1. CASE Finish("EnsuredOnBackend")
  BY <1>1, FinishMoves DEF Reason
<1>2. CASE Goto("versioning") /\ UNCHANGED bky
  BY <1>2, GotoMoves DEF PC
<1>3. CASE Managed(want) = {"lifecycle"} /\ Goto("lifecycle") /\ UNCHANGED bky
  BY <1>3, GotoMoves DEF PC, Goto
<1>. QED BY <1>1, <1>2, <1>3 DEF ReconcileKnobs

LEMMA UpdatedIs ==
    ASSUME TypeOK, NEW b \in Bucket, NEW w \in ParamSets \cup {NoParams}, NEW set,
           "lifecycle" \in set => "lifecycle" \in Managed(w)
    PROVE  Updated(b, w, set) \in Bucket /\ Updated(b, w, set).exists = b.exists
           /\ Updated(b, w, set).ours = b.ours
<1>. DEFINE base == IF flavour = "fake-gcs"
                    THEN [b EXCEPT !.versioning = "never", !.lifecycle = "none"] ELSE b
            v == IF "versioning" \in set THEN Versioned(w.versioning, b.versioning)
                 ELSE base.versioning
            r == IF "lifecycle" \in set THEN w.lifecycle ELSE base.lifecycle
<1>1. base \in Bucket /\ base.exists = b.exists /\ base.ours = b.ours
  BY Bounds DEF Bucket
<1>2. w.versioning \in {"", "on", "off"} /\ w.lifecycle \in Rules \cup {""}
  BY WantIs
<1>3. b.versioning \in {"never", "on", "off"} /\ base.versioning \in {"never", "on", "off"}
      /\ base.lifecycle \in Rules
  BY <1>1 DEF Bucket
<1>4. Versioned(w.versioning, b.versioning) \in {"never", "on", "off"}
  <2>1. CASE w.versioning = "on"
    BY <2>1 DEF Versioned
  <2>2. CASE w.versioning = "off"
    BY <1>3, <2>2 DEF Versioned
  <2>3. CASE w.versioning \notin {"on", "off"}
    BY <1>3, <2>3 DEF Versioned
  <2>. QED BY <2>1, <2>2, <2>3
<1>5. "lifecycle" \in set => w.lifecycle \in Rules
  <2>1. "lifecycle" \in set => w.lifecycle # ""
    BY DEF Managed
  <2>. QED BY <1>2, <2>1
<1>. HIDE DEF base
<1>6. v \in {"never", "on", "off"} /\ r \in Rules
  BY <1>3, <1>4, <1>5
<1>7. Updated(b, w, set) = [base EXCEPT !.versioning = v, !.lifecycle = r]
  BY DEF Updated, base
<1>. HIDE DEF v, r
<1>. QED BY <1>1, <1>6, <1>7 DEF Bucket

\* The bucket that Create makes.
LEMMA NewBucketIs ==
    ASSUME TypeOK, NEW b \in New(want)
    PROVE  b \in Bucket /\ b.exists /\ b.ours
<1>. DEFINE at(l) == [NoBucket EXCEPT !.exists = TRUE, !.ours = TRUE, !.location = l]
<1>1. PICK l \in IF want.location = "" THEN Locations ELSE {want.location} :
         b = IF Gcs THEN Updated(at(l), want, Managed(want)) ELSE at(l)
  BY DEF New
<1>2. want \in ParamSets \cup {NoParams}
  BY TypeIs
<1>3. want.location \in Locations \cup {""}
  BY <1>2, WantIs
<1>4. at(l) \in Bucket /\ at(l).exists = TRUE /\ at(l).ours = TRUE
  BY <1>1, <1>3, Bounds DEF NoBucket, Bucket
<1>. HIDE DEF at
<1>. QED BY <1>1, <1>2, <1>4, UpdatedIs

LEMMA FaultIs ==
    ASSUME TypeOK, Fault \/ NoFault
    PROVE  written' \in 0..MaxWrites /\ edits' \in 0..MaxEdits /\ faults' \in 0..MaxFaults
BY Bounds, TypeIs DEF Fault, NoFault, bounds

-----------------------------------------------------------------------------
(* What each call of a pass does, but for what it removes. *)

\* The parts of the invariant that are about the pass.
CallMoves ==
    /\ PassTyped /\ TeardownInv' /\ KnobInv'
    /\ Fault \/ NoFault
    /\ UNCHANGED flavour

KnobsAfter == pc' = "lifecycle" => "lifecycle" \in Managed(want')
TeardownAfter == pc' \in TeardownPC => bky'.phase = "deleting"

LEMMA AfterIs == (KnobInv' <=> KnobsAfter) /\ (TeardownInv' <=> TeardownAfter)
BY DEF KnobInv, KnobsAfter, TeardownInv, TeardownAfter, Managed

LEMMA InspectMoves ==
    ASSUME TypeOK, Inspect \/ Probe \/ ProbeVersions
    PROVE  /\ CallMoves /\ UNCHANGED <<bucket, gens, removed, stalled>>
           /\ pc' \in {"idle", "probe", "probeVersions", "head"}
           /\ pc' = "idle" => bky'.ready # "EnsuredOnBackend"
<1>s. Fault \/ NoFault
  BY DEF Inspect, Probe, ProbeVersions, Failing
<1>u. UNCHANGED <<flavour, bucket, gens, removed, stalled>>
  BY DEF Inspect, Probe, ProbeVersions, InspectStep
<1>1. \/ Finish("InspectFailed") \/ Finish("BackendResourceExists")
      \/ Stamp("Created") \/ Stamp("Adopted")
      \/ UNCHANGED bky /\ (Goto("probe") \/ Goto("probeVersions"))
  BY DEF Inspect, Probe, ProbeVersions, Failing
<1>2. /\ PassTyped /\ pc' \in {"idle", "probe", "probeVersions", "head"}
      /\ pc' = "idle" => bky'.ready # "EnsuredOnBackend"
  <2>1. CASE Finish("InspectFailed") \/ Finish("BackendResourceExists")
    BY <2>1, FinishMoves DEF Reason
  <2>2. CASE Stamp("Created") \/ Stamp("Adopted")
    BY <2>2, StampMoves
  <2>3. CASE UNCHANGED bky /\ (Goto("probe") \/ Goto("probeVersions"))
    BY <2>3, GotoMoves DEF PC
  <2>. QED BY <1>1, <2>1, <2>2, <2>3
<1>3. KnobsAfter /\ TeardownAfter
  BY <1>2 DEF KnobsAfter, TeardownAfter, TeardownPC
<1>. QED BY <1>s, <1>u, <1>2, <1>3, AfterIs DEF CallMoves

LEMMA EnsureMoves ==
    ASSUME TypeOK, KnobInv, Head \/ Create \/ Recheck \/ Update \/ SetVersioning \/ SetLifecycle
    PROVE  /\ CallMoves /\ UNCHANGED <<gens, removed, stalled>> /\ bucket' \in Bucket
           /\ pc' \in {"idle", "create", "recheck", "update", "versioning", "lifecycle"}
           /\ pc' = "idle" /\ bky'.ready = "EnsuredOnBackend" =>
                 Reachable \/ (bucket'.exists /\ bucket'.ours)
<1>t. bky \in BkyType /\ bucket \in Bucket /\ want \in ParamSets \cup {NoParams} /\ seen \in Bucket
  BY TypeIs
<1>s. Fault \/ NoFault
  BY DEF Head, Create, Recheck, Update, SetVersioning, SetLifecycle, Failing
<1>u. UNCHANGED <<flavour, gens, removed, stalled>>
  BY DEF Head, Create, Recheck, Update, SetVersioning, SetLifecycle, EnsureStep
<1>b. bucket' \in Bucket
  <2>1. CASE Create
    <3>1. CASE UNCHANGED bucket
      BY <1>t, <3>1
    <3>2. CASE bucket' \in New(want)
      BY <3>2, NewBucketIs
    <3>. QED BY <2>1, <3>1, <3>2 DEF Create
  <2>2. CASE Head \/ Recheck
    BY <1>t, <2>2 DEF Head, Recheck
  <2>3. CASE Update
    <3>1. UNCHANGED bucket \/ (Reachable /\ bucket' = Updated(bucket, want, Managed(want)))
      BY <2>3 DEF Update, Payload, Lost
    <3>. QED BY <1>t, <3>1, UpdatedIs DEF Reachable
  <2>4. CASE SetVersioning
    <3>1. UNCHANGED bucket \/ (Reachable /\ bucket' = Updated(bucket, want, {"versioning"}))
      BY <2>4 DEF SetVersioning, Lost
    <3>. QED BY <1>t, <3>1, UpdatedIs DEF Reachable
  <2>5. CASE SetLifecycle
    <3>1. UNCHANGED bucket \/ (Reachable /\ bucket' = Updated(bucket, want, {"lifecycle"}))
      BY <2>5 DEF SetLifecycle, Lost
    <3>2. "lifecycle" \in Managed(want)
      BY <2>5 DEF SetLifecycle, KnobInv
    <3>. QED BY <1>t, <3>1, <3>2, UpdatedIs DEF Reachable
  <2>. QED BY <2>1, <2>2, <2>3, <2>4, <2>5
<1>1. /\ PassTyped
      /\ pc' \in {"idle", "create", "recheck", "update", "versioning", "lifecycle"}
      /\ KnobsAfter
  <2>f. Finish("EnsureFailed") \/ Finish("EnsuredOnBackend") => PassTyped /\ pc' = "idle"
    BY FinishMoves DEF Reason
  <2>g. ASSUME UNCHANGED bky, Goto("create") \/ Goto("recheck")
        PROVE  PassTyped /\ pc' \in {"create", "recheck"}
    BY <2>g, GotoMoves DEF PC
  <2>l. ASSUME UNCHANGED bky, Goto("lifecycle"), "lifecycle" \in Managed(want)
        PROVE  PassTyped /\ pc' = "lifecycle" /\ KnobsAfter
    BY <2>l, GotoMoves DEF PC, Goto, KnobsAfter
  <2>k. ReconcileKnobs => PassTyped /\ pc' \in {"idle", "versioning", "lifecycle"} /\ KnobsAfter
    BY ReconcileKnobsMoves DEF KnobsAfter
  <2>e. ReconcileExisting(bucket) => PassTyped /\ pc' \in {"idle", "update"}
    BY ReconcileExistingMoves
  <2>1. \/ Finish("EnsureFailed") \/ Finish("EnsuredOnBackend")
        \/ UNCHANGED bky /\ (Goto("create") \/ Goto("recheck"))
        \/ UNCHANGED bky /\ Goto("lifecycle") /\ "lifecycle" \in Managed(want)
        \/ ReconcileKnobs \/ ReconcileExisting(bucket)
    BY DEF Head, Create, TakenIsChecked, Recheck, Update, SetVersioning, SetLifecycle, Failing
  <2>. QED BY <2>1, <2>f, <2>g, <2>l, <2>k, <2>e DEF KnobsAfter
<1>2. TeardownAfter
  BY <1>1 DEF TeardownAfter, TeardownPC
<1>3. ASSUME pc' = "idle", bky'.ready = "EnsuredOnBackend"
      PROVE  Reachable \/ (bucket'.exists /\ bucket'.ours)
  <2>1. ~Finish("EnsureFailed")
    BY <1>3, FinishMoves DEF Reason
  <2>2. CASE Create
    <3>1. ~Goto("recheck")
      BY <1>3 DEF Goto
    <3>2. CASE bucket.exists /\ bucket.ours
      BY <3>2 DEF Reachable
    <3>3. CASE ~bucket.exists
      <4>1. bucket' \in New(want)
        BY <2>1, <2>2, <3>3 DEF Create
      <4>. QED BY <4>1, NewBucketIs
    <3>. QED BY <2>1, <2>2, <3>1, <3>2, <3>3 DEF Create, TakenIsChecked
  <2>3. CASE Head
    <3>1. ~Goto("create")
      BY <1>3 DEF Goto
    <3>. QED BY <2>1, <2>3, <3>1 DEF Head
  <2>4. CASE Recheck \/ Update \/ SetVersioning \/ SetLifecycle
    BY <2>1, <2>4 DEF Recheck, Update, SetVersioning, SetLifecycle, Failing
  <2>. QED BY <2>2, <2>3, <2>4
<1>. QED BY <1>s, <1>u, <1>b, <1>1, <1>2, <1>3, AfterIs DEF CallMoves

-----------------------------------------------------------------------------
(* Generations. *)

\* Entries may go.
LEMMA ThinnedIs ==
    ASSUME NEW n, NEW G \in SUBSET Generation, Sound(G, n), NEW A \in SUBSET G
    PROVE  A \in SUBSET Generation /\ Sound(A, n)
BY DEF Sound, OneLive, UniqueIds

\* Objects may cease to be current.
LEMMA RetiredIs ==
    ASSUME NEW n, NEW G \in SUBSET Generation, Sound(G, n), Gcs, NEW S \in SUBSET G,
           NEW R \in SUBSET S, NEW c \in {"archived", "tomb"}
    PROVE  LET B == (G \ S) \cup {[g EXCEPT !.kind = c] : g \in R}
           IN  B \in SUBSET Generation /\ Sound(B, n)
<1>. DEFINE turn(g) == [g EXCEPT !.kind = c]
            A == G \ S
            B == A \cup {turn(g) : g \in R}
<1>1. \A g \in R : /\ g \in G /\ g \notin A /\ g.kind # "marker" /\ g.id <= n
                   /\ turn(g) \in Generation /\ turn(g).kind = c
                   /\ turn(g).key = g.key /\ turn(g).id = g.id
  BY DEF Sound, Generation
<1>2. A \in SUBSET Generation /\ Sound(A, n)
  BY ThinnedIs
<1>3. \A b \in B : b \in A \/ \E g \in R : b = turn(g)
  OBVIOUS
<1>4. \A g, h \in G : g.kind # "marker" /\ h.kind # "marker" /\ g.key = h.key /\ g.id = h.id => g = h
  BY DEF Sound, UniqueIds
<1>. HIDE DEF turn, A
<1>a. A \subseteq G
  BY DEF A
<1>5. OneLive(B)
  BY <1>1, <1>2, <1>3 DEF Sound, OneLive
<1>6. UniqueIds(B)
  <2>. SUFFICES ASSUME NEW b \in B, NEW d \in B, b.kind # "marker", d.kind # "marker",
                       b.key = d.key, b.id = d.id
                PROVE  b = d
    BY DEF UniqueIds
  <2>1. CASE b \in A /\ d \in A
    BY <1>a, <1>4, <2>1
  <2>2. CASE b \in A /\ d \notin A
    <3>1. PICK g \in R : d = turn(g)
      BY <1>3, <2>2
    <3>2. b = g
      BY <1>a, <1>1, <1>4, <2>2, <3>1
    <3>. QED BY <1>1, <2>2, <3>2
  <2>3. CASE b \notin A /\ d \in A
    <3>1. PICK g \in R : b = turn(g)
      BY <1>3, <2>3
    <3>2. d = g
      BY <1>a, <1>1, <1>4, <2>3, <3>1
    <3>. QED BY <1>1, <2>3, <3>2
  <2>4. CASE b \notin A /\ d \notin A
    <3>1. PICK g \in R : b = turn(g)
      BY <1>3, <2>4
    <3>2. PICK h \in R : d = turn(h)
      BY <1>3, <2>4
    <3>3. g = h
      BY <1>1, <1>4, <3>1, <3>2
    <3>. QED BY <3>1, <3>2, <3>3
  <2>. QED BY <2>1, <2>2, <2>3, <2>4
<1>7. \A b \in B : b \in Generation /\ b.id <= n /\ (b.kind = "marker" => ~Gcs)
  BY <1>1, <1>2, <1>3 DEF Sound
<1>8. B \in SUBSET Generation /\ Sound(B, n)
  BY <1>5, <1>6, <1>7 DEF Sound
<1>. QED BY <1>8 DEF turn, A

\* The newest entry of a name is the only one that can be current.
LEMMA SettleIs ==
    ASSUME ~Gcs, NEW n, NEW G \in SUBSET Generation, NEW K, UniqueIds(G),
           \A g, h \in G : (g.kind = "live" /\ h.kind = "live" /\ g.key = h.key /\ g.key \notin K) => g = h,
           \A g \in G : g.id <= n
    PROVE  Settle(G, K) \in SUBSET Generation /\ Sound(Settle(G, K), n)
<1>. DEFINE late(g) == \E h \in G : h.key = g.key /\ Before(h, g)
            turn(g) == IF g.key \in K /\ g.kind # "marker"
                       THEN [g EXCEPT !.kind = IF late(g) THEN "archived" ELSE "live"] ELSE g
            B == {turn(g) : g \in G}
<1>1. Settle(G, K) = B
  BY DEF Settle
<1>2. \A g \in G : /\ turn(g) \in Generation /\ turn(g).key = g.key /\ turn(g).id = g.id
                   /\ (turn(g).kind = "marker" <=> g.kind = "marker")
                   /\ (turn(g).kind = "live" /\ g.key \in K => ~late(g))
                   /\ (g.key \notin K => turn(g) = g)
  BY DEF Generation
<1>3. \A g, h \in G : (~late(g) /\ ~late(h) /\ g.key = h.key) => g.id = h.id
  <2>1. \A g \in G : g.id \in Nat
    BY DEF Generation
  <2>. QED BY <2>1 DEF Before
<1>4. \A b \in B : \E g \in G : b = turn(g)
  OBVIOUS
<1>. HIDE DEF turn, late
<1>5. UniqueIds(B)
  BY <1>2, <1>4 DEF UniqueIds
<1>6. OneLive(B)
  <2>. SUFFICES ASSUME NEW b \in B, NEW d \in B, b.kind = "live", d.kind = "live", b.key = d.key
                PROVE  b = d
    BY DEF OneLive
  <2>1. PICK g \in G : b = turn(g)
    BY <1>4
  <2>2. PICK h \in G : d = turn(h)
    BY <1>4
  <2>3. CASE g.key \in K
    <3>1. g.kind # "marker" /\ h.kind # "marker" /\ g.key = h.key
      BY <1>2, <2>1, <2>2
    <3>2. g.id = h.id
      BY <1>2, <1>3, <2>1, <2>2, <2>3
    <3>3. g = h
      BY <3>1, <3>2 DEF UniqueIds
    <3>. QED BY <2>1, <2>2, <3>3
  <2>4. CASE g.key \notin K
    BY <1>2, <2>1, <2>2, <2>4
  <2>. QED BY <2>3, <2>4
<1>7. \A b \in B : b \in Generation /\ b.id <= n
  BY <1>2, <1>4
<1>. HIDE DEF B
<1>8. Sound(B, n)
  BY <1>5, <1>6, <1>7 DEF Sound
<1>. QED BY <1>1, <1>7, <1>8

LEMMA PutIs ==
    ASSUME ~Gcs, NEW n, gens \in SUBSET Generation, Sound(gens, n),
           NEW new \in SUBSET Generation, UniqueIds(gens \cup new), NEW m,
           \A g \in gens \cup new : g.id <= m
    PROVE  Put(new) \in SUBSET Generation /\ Sound(Put(new), m)
<1>. DEFINE K == {x.key : x \in new}
            G == (gens \ UNION {Replaced(k) : k \in K}) \cup new
<1>1. G \subseteq gens \cup new /\ G \in SUBSET Generation
  OBVIOUS
<1>2. UniqueIds(G) /\ \A g \in G : g.id <= m
  BY <1>1 DEF UniqueIds
<1>3. \A g \in G : g.key \notin K => g \in gens
  OBVIOUS
<1>4. Put(new) = Settle(G, K)
  BY DEF Put
<1>. HIDE DEF G, K
<1>5. \A g, h \in G : (g.kind = "live" /\ h.kind = "live" /\ g.key = h.key /\ g.key \notin K) => g = h
  BY <1>3 DEF Sound, OneLive
<1>. QED BY <1>1, <1>2, <1>4, <1>5, SettleIs

LEMMA MarkerIs ==
    ASSUME NEW g \in Generation
    PROVE  Marker(g) \in Generation /\ Marker(g).kind = "marker" /\ Marker(g).id = g.id
<1>. DEFINE p == bucket.versioning # "on"
<1>1. p \in BOOLEAN
  OBVIOUS
<1>2. Marker(g) = [g EXCEPT !.kind = "marker", !.plain = p, !.held = FALSE]
  BY DEF Marker
<1>. HIDE DEF p
<1>. QED BY <1>1, <1>2 DEF Generation

LEMMA DeleteNamedIs ==
    ASSUME ~Gcs, NEW n, gens \in SUBSET Generation, Sound(gens, n), NEW S \in SUBSET gens
    PROVE  DeleteNamed(S) \in SUBSET Generation /\ Sound(DeleteNamed(S), n)
<1>. DEFINE new == {Marker(g) : g \in S}
<1>1. \A x \in new : x \in Generation /\ x.kind = "marker" /\ x.id <= n
  BY MarkerIs DEF Sound
<1>2. \A x \in gens : x.id <= n
  BY DEF Sound
<1>3. UniqueIds(gens \cup new)
  BY <1>1 DEF UniqueIds, Sound
<1>4. DeleteNamed(S) = gens \ S \/ DeleteNamed(S) = Put(new)
  BY DEF DeleteNamed
<1>. HIDE DEF new
<1>5. Put(new) \in SUBSET Generation /\ Sound(Put(new), n)
  BY <1>1, <1>2, <1>3, PutIs
<1>6. gens \ S \in SUBSET Generation /\ Sound(gens \ S, n)
  BY ThinnedIs
<1>. QED BY <1>4, <1>5, <1>6

LEMMA DeleteIs ==
    ASSUME TypeOK, Sound(gens, written), NEW T
    PROVE  Delete(T) \in SUBSET Generation /\ Sound(Delete(T), written)
<1>. DEFINE S == Hit(T) \ Refused(T)
            K == {g.key : g \in S}
<1>t. gens \in SUBSET Generation
  BY TypeIs
<1>1. S \in SUBSET gens
  BY DEF Hit
<1>2. Delete(T) = CASE ByName -> DeleteNamed(S)
          [] ~Gcs /\ ~ByName -> Settle(gens \ S, K)
          [] flavour = "fake-gcs" -> (gens \ S) \cup {[g EXCEPT !.kind = "tomb"] : g \in S}
          [] OTHER -> gens \ S
  BY DEF Delete
<1>. HIDE DEF S, K
<1>3. gens \ S \in SUBSET Generation /\ Sound(gens \ S, written)
  BY <1>t, ThinnedIs
<1>4. CASE ByName
  <2>1. ~Gcs /\ flavour # "fake-gcs"
    BY <1>4 DEF ByName, Gcs
  <2>2. Delete(T) = DeleteNamed(S)
    BY <1>2, <1>4, <2>1
  <2>. QED BY <1>t, <1>1, <2>1, <2>2, DeleteNamedIs
<1>5. CASE ~ByName /\ ~Gcs
  <2>1. Delete(T) = Settle(gens \ S, K)
    BY <1>2, <1>5 DEF Gcs
  <2>2. /\ UniqueIds(gens \ S) /\ \A g \in gens \ S : g.id <= written
        /\ \A g, h \in gens \ S : g.kind = "live" /\ h.kind = "live" /\ g.key = h.key => g = h
    BY <1>3 DEF Sound, OneLive
  <2>. QED BY <1>3, <1>5, <2>1, <2>2, SettleIs
<1>6. CASE Gcs /\ flavour = "fake-gcs"
  <2>1. Delete(T) = (gens \ S) \cup {[g EXCEPT !.kind = "tomb"] : g \in S}
    BY <1>2, <1>6 DEF ByName
  <2>2. Gcs /\ S \in SUBSET S /\ "tomb" \in {"archived", "tomb"}
    BY <1>6
  <2>3. /\ (gens \ S) \cup {[g EXCEPT !.kind = "tomb"] : g \in S} \in SUBSET Generation
        /\ Sound((gens \ S) \cup {[g EXCEPT !.kind = "tomb"] : g \in S}, written)
    BY <1>t, <1>1, <2>2, RetiredIs, Zenon
  <2>. QED BY <2>1, <2>3
<1>7. CASE Gcs /\ flavour # "fake-gcs"
  <2>1. Delete(T) = gens \ S
    BY <1>2, <1>7 DEF ByName
  <2>. QED BY <1>3, <2>1
<1>. QED BY <1>4, <1>5, <1>6, <1>7

\* An empty slice leaves the bucket as it is.
LEMMA DeleteNothing == Delete({}) = gens
<1>1. Hit({}) \ Refused({}) = {}
  BY DEF Hit
<1>2. \A c : {[g EXCEPT !.kind = c] : g \in {}} = {}
  OBVIOUS
<1>3. {g.key : g \in {}} = {} /\ {Marker(g) : g \in {}} = {} /\ UNION {Replaced(k) : k \in {}} = {}
  OBVIOUS
<1>4. Settle(gens, {}) = gens
  BY DEF Settle
<1>5. DeleteNamed({}) = gens
  BY <1>3, <1>4 DEF DeleteNamed, Put
<1>6. Delete({}) = CASE ByName -> DeleteNamed({})
                     [] ~Gcs /\ ~ByName -> Settle(gens, {})
                     [] flavour = "fake-gcs" -> gens \cup {}
                     [] OTHER -> gens
  BY <1>1, <1>2, <1>3 DEF Delete
<1>. QED BY <1>4, <1>5, <1>6

LEMMA TeardownMoves ==
    ASSUME Inv, List \/ ListVersions \/ RemoveObjects \/ RemoveBucket
    PROVE  /\ CallMoves /\ bucket' \in Bucket /\ gens' \subseteq Generation
           /\ Sound(gens', written') /\ removed' \in BOOLEAN /\ stalled' \in BOOLEAN /\ StallInv'
<1>t. /\ TypeOK /\ bky \in BkyType /\ bucket \in Bucket /\ gens \subseteq Generation
      /\ Sound(gens, written) /\ removed \in BOOLEAN /\ stalled \in BOOLEAN /\ targets \subseteq Generation
      /\ want \in ParamSets \cup {NoParams} /\ seen \in Bucket
  BY TypeIs DEF Inv
<1>d. pc \in TeardownPC /\ bky.phase = "deleting" /\ ~stalled
  BY DEF Inv, TeardownInv, StallInv, TeardownPC, List, ListVersions, RemoveObjects, RemoveBucket
<1>s. (Fault \/ NoFault) /\ written' = written
  BY DEF List, ListVersions, RemoveObjects, RemoveBucket, Fault, NoFault, bounds
<1>u. UNCHANGED flavour
  BY DEF List, ListVersions, RemoveObjects, RemoveBucket
<1>f. ASSUME NEW reason \in Reason, Finish(reason) PROVE PassTyped /\ pc' = "idle"
  BY <1>f, <1>t, FinishMoves
<1>g. Gone => PassTyped /\ pc' = "idle"
  BY <1>t, GoneMoves
<1>l. ASSUME NEW step \in {"rmBucket", "rmObjects", "rmVersions", "listVersions"}, NEW T \in SUBSET Generation,
             Slice(step, T)
      PROVE  PassTyped /\ pc' = step /\ UNCHANGED bky /\ targets' = T
  BY <1>l, <1>t DEF Slice, PassTyped, PC
<1>i. ASSUME PassTyped, pc' = "idle" \/ UNCHANGED bky, pc' # "lifecycle" PROVE CallMoves
  BY <1>d, <1>s, <1>u, <1>i, AfterIs DEF CallMoves, KnobsAfter, TeardownAfter, TeardownPC
<1>p. \A n : Page(gens, n) \in SUBSET Generation /\ Page(Live, n) \in SUBSET Generation
  BY <1>t DEF Page, Live
<1>1. CASE List \/ ListVersions
  <2>1. UNCHANGED <<bucket, gens, removed, stalled>> /\ ~removed
    BY <1>1 DEF List, ListVersions, Inv, StallInv
  <2>2. \/ Gone \/ Finish("DeleteFailed") \/ Slice("rmBucket", {}) \/ Slice("listVersions", {})
        \/ Slice("rmObjects", Page(gens, PageSize)) \/ Slice("rmObjects", Page(Live, PageSize))
        \/ Slice("rmVersions", Page(gens, PageSize))
    BY <1>1 DEF List, ListVersions
  <2>3. PassTyped /\ (pc' = "idle" \/ UNCHANGED bky) /\ pc' # "lifecycle"
    <3>1. CASE Gone \/ Finish("DeleteFailed")
      BY <3>1, <1>f, <1>g DEF Reason
    <3>2. CASE Slice("rmBucket", {}) \/ Slice("listVersions", {})
      BY <3>2, <1>l
    <3>3. CASE \/ Slice("rmObjects", Page(gens, PageSize)) \/ Slice("rmObjects", Page(Live, PageSize))
               \/ Slice("rmVersions", Page(gens, PageSize))
      BY <3>3, <1>l, <1>p
    <3>. QED BY <2>2, <3>1, <3>2, <3>3
  <2>. QED BY <1>t, <1>d, <1>i, <1>s, <2>1, <2>3 DEF StallInv
<1>2. CASE RemoveObjects
  <2>1. UNCHANGED <<bucket, stalled>>
    BY <1>2 DEF RemoveObjects
  <2>2. /\ gens' = gens \/ \E T : gens' = Delete(T)
        /\ UNCHANGED removed \/ removed' = (gens' # gens)
    BY <1>2 DEF RemoveObjects
  <2>3. gens' \subseteq Generation /\ Sound(gens', written') /\ removed' \in BOOLEAN
    BY <1>t, <1>s, <1>u, <2>2, DeleteIs
  <2>4. CASE pc' = "rmBucket"
    <3>1. ~Gone /\ ~Finish("DeleteFailed") /\ ~Finish("DeletingContents")
      BY <2>4 DEF Gone, Finish, EndPass
    <3>2. /\ gens' = Delete(targets) /\ removed' = (gens' # gens) /\ ~RemainingWork(targets)
          /\ Goto("rmBucket") /\ UNCHANGED bky
      BY <1>2, <3>1 DEF RemoveObjects
    <3>3. UNCHANGED targets
      BY <3>2 DEF Goto
    <3>4. (Gcs => targets = {}) => targets = {}
      BY <3>2 DEF RemainingWork
    <3>5. targets = {} => ~removed'
      BY <3>2, DeleteNothing
    <3>6. ((Gcs => targets = {}) => ~removed)'
      BY <1>u, <3>3, <3>4, <3>5 DEF Gcs
    <3>7. StallInv'
      BY <1>d, <2>1, <2>4, <3>6 DEF StallInv
    <3>8. PassTyped
      BY <1>t, <3>2, GotoMoves DEF PC
    <3>. QED BY <1>t, <1>i, <2>1, <2>3, <2>4, <3>2, <3>7, <3>8
  <2>5. CASE pc' # "rmBucket"
    <3>1. Gone \/ Finish("DeleteFailed") \/ Finish("DeletingContents")
      BY <1>2, <2>5 DEF RemoveObjects, Goto
    <3>2. PassTyped /\ pc' = "idle"
      BY <3>1, <1>f, <1>g DEF Reason
    <3>3. StallInv'
      BY <1>d, <2>1, <3>2 DEF StallInv
    <3>. QED BY <1>t, <1>i, <2>1, <2>3, <3>2, <3>3
  <2>. QED BY <2>4, <2>5
<1>3. CASE RemoveBucket
  <2>1. UNCHANGED removed /\ (Gone \/ Finish("DeleteFailed") \/ Finish("DeletingContents"))
    BY <1>3 DEF RemoveBucket
  <2>2. PassTyped /\ pc' = "idle"
    BY <2>1, <1>f, <1>g DEF Reason
  <2>3. bucket' \in Bucket /\ gens' \subseteq Generation /\ Sound(gens', written')
    <3>1. bucket' \in Bucket /\ gens' \in {gens, {}}
      BY <1>t, <1>3, NoBucketIs DEF RemoveBucket
    <3>2. Sound({}, written)
      BY DEF Sound, OneLive, UniqueIds
    <3>. QED BY <1>t, <1>s, <1>u, <3>1, <3>2
  <2>4. UNCHANGED stalled \/ stalled' = Stalls
    BY <1>3 DEF RemoveBucket
  <2>5. Stalls \in BOOLEAN
    BY DEF Stalls
  <2>6. Stalls => ~removed
    BY <1>3 DEF RemoveBucket, Stalls, Inv, StallInv
  <2>7. StallInv'
    BY <1>d, <2>1, <2>2, <2>4, <2>6 DEF StallInv
  <2>. QED BY <1>t, <1>i, <2>1, <2>2, <2>3, <2>4, <2>5, <2>7
<1>. QED BY <1>1, <1>2, <1>3

-----------------------------------------------------------------------------
(* Users, the data plane and other owners. *)

LEMMA WriteIs ==
    ASSUME TypeOK, Sound(gens, written), NEW k \in Keys, Write(k)
    PROVE  gens' \in SUBSET Generation /\ Sound(gens', written') /\ written' \in 0..MaxWrites
<1>. DEFINE p == ~Gcs /\ bucket.versioning # "on"
            new == [key |-> k, id |-> written', kind |-> "live", held |-> FALSE, plain |-> p]
            old == {g \in Live : g.key = k}
            kept == old \ Replaced(k)
            thin == (gens \ old) \cup {[g EXCEPT !.kind = "archived"] : g \in kept}
<1>t. gens \in SUBSET Generation /\ written \in 0..MaxWrites
  BY TypeIs
<1>1. /\ written' = written + 1 /\ written < MaxWrites
      /\ gens' = IF ~Gcs THEN Put({new}) ELSE thin \cup {new}
  BY DEF Write
<1>2. written' \in 1..MaxWrites /\ written' \in 0..MaxWrites /\ written < written'
  BY <1>t, <1>1, Bounds
<1>3. old \in SUBSET gens /\ kept \in SUBSET old
  BY DEF Live
<1>4. \A g \in gens \ old : g.kind = "live" => g.key # k
  BY DEF Live
<1>p. p \in BOOLEAN
  OBVIOUS
<1>. HIDE DEF p
<1>5. new \in Generation /\ new.key = k /\ new.id = written' /\ new.kind = "live"
  BY <1>2, <1>p DEF Generation
<1>6. \A g \in gens : g.id <= written /\ g.id \in Nat
  BY <1>t DEF Sound, Generation
<1>. HIDE DEF old, kept, new
<1>7. CASE ~Gcs
  <2>1. UniqueIds(gens \cup {new})
    BY <1>2, <1>5, <1>6, <1>t DEF UniqueIds, Sound
  <2>2. \A g \in gens \cup {new} : g.id <= written'
    BY <1>2, <1>5, <1>6, <1>t
  <2>3. {new} \in SUBSET Generation
    BY <1>5
  <2>. QED BY <1>t, <1>1, <1>2, <1>7, <2>1, <2>2, <2>3, PutIs
<1>8. CASE Gcs
  <2>1. thin \in SUBSET Generation /\ Sound(thin, written)
    BY <1>t, <1>3, <1>8, RetiredIs
  <2>2. \A g \in {[x EXCEPT !.kind = "archived"] : x \in kept} : g.kind = "archived"
    BY <1>3, <1>t DEF Generation
  <2>3. \A g \in thin : g.kind = "live" => g.key # k
    BY <1>4, <2>2
  <2>4. gens' = thin \cup {new}
    BY <1>1, <1>8
  <2>. HIDE DEF thin
  <2>5. \A g \in thin : g.id <= written /\ g.id \in Nat /\ g.kind # "marker"
    BY <1>8, <2>1 DEF Sound, Generation
  <2>6. OneLive(thin \cup {new})
    BY <1>5, <2>1, <2>3 DEF OneLive, Sound
  <2>7. UniqueIds(thin \cup {new})
    BY <1>2, <1>5, <1>t, <2>1, <2>5 DEF UniqueIds, Sound
  <2>8. \A g \in thin \cup {new} : g.id <= written' /\ g.kind # "marker"
    BY <1>2, <1>5, <1>t, <2>5
  <2>. QED BY <1>2, <1>5, <2>1, <2>4, <2>6, <2>7, <2>8 DEF Sound
<1>. QED BY <1>7, <1>8

LEMMA EraseIs ==
    ASSUME TypeOK, Sound(gens, written), NEW g \in gens, Erase(g) \/ Hold(g)
    PROVE  gens' \in SUBSET Generation /\ Sound(gens', written)
<1>t. gens \in SUBSET Generation /\ g \in Generation
  BY TypeIs
<1>1. CASE Erase(g)
  <2>. DEFINE kept == {g} \ Replaced(g.key)
  <2>1. gens' = CASE ~Gcs -> DeleteNamed({g})
                 [] flavour = "fake-gcs" -> (gens \ {g}) \cup {[h EXCEPT !.kind = "tomb"] : h \in {g}}
                 [] OTHER -> (gens \ {g}) \cup {[h EXCEPT !.kind = "archived"] : h \in kept}
    BY <1>1 DEF Erase
  <2>2. {g} \in SUBSET gens /\ kept \in SUBSET {g} /\ {g} \in SUBSET {g}
    OBVIOUS
  <2>. HIDE DEF kept
  <2>3. CASE ~Gcs
    <3>1. gens' = DeleteNamed({g})
      BY <2>1, <2>3 DEF Gcs
    <3>. QED BY <1>t, <2>2, <2>3, <3>1, DeleteNamedIs
  <2>4. CASE Gcs /\ flavour = "fake-gcs"
    <3>1. gens' = (gens \ {g}) \cup {[h EXCEPT !.kind = "tomb"] : h \in {g}}
      BY <2>1, <2>4
    <3>. QED BY <1>t, <2>2, <2>4, <3>1, RetiredIs
  <2>5. CASE Gcs /\ flavour # "fake-gcs"
    <3>1. gens' = (gens \ {g}) \cup {[h EXCEPT !.kind = "archived"] : h \in kept}
      BY <2>1, <2>5
    <3>. QED BY <1>t, <2>2, <2>5, <3>1, RetiredIs
  <2>. QED BY <2>3, <2>4, <2>5
<1>2. CASE Hold(g)
  <2>. DEFINE new == [g EXCEPT !.held = ~@]
  <2>1. new \in Generation /\ new.key = g.key /\ new.kind = g.kind /\ new.id = g.id
    BY <1>t DEF Generation
  <2>2. gens' = (gens \ {g}) \cup {new}
    BY <1>2 DEF Hold
  <2>. HIDE DEF new
  <2>3. /\ \A h \in gens \ {g} : ~(h.kind = "live" /\ g.kind = "live" /\ h.key = g.key)
        /\ g.kind # "marker"
    BY <1>2, <1>t DEF OneLive, Sound, Hold
  <2>4. OneLive((gens \ {g}) \cup {new})
    BY <1>t, <2>1, <2>3 DEF OneLive, Sound
  <2>5. \A h \in gens \ {g} : h.kind # "marker" => ~(h.key = g.key /\ h.id = g.id)
    BY <1>t, <2>3 DEF Sound, UniqueIds
  <2>6. UniqueIds((gens \ {g}) \cup {new})
    BY <1>t, <2>1, <2>5 DEF UniqueIds, Sound
  <2>. QED BY <1>t, <2>1, <2>2, <2>4, <2>6 DEF Sound
<1>. QED BY <1>1, <1>2

LEMMA EnvironmentMoves ==
    ASSUME TypeOK, Sound(gens, written), Environment
    PROVE  /\ UNCHANGED <<flavour, pc, want, seen, targets, removed, stalled>>
           /\ bky' \in BkyType /\ bucket' \in Bucket /\ gens' \subseteq Generation
           /\ Sound(gens', written')
           /\ bky.phase # "live" => bky'.phase = bky.phase
           /\ written' \in 0..MaxWrites /\ edits' \in 0..MaxEdits /\ faults' \in 0..MaxFaults
<1>t. /\ bky \in BkyType /\ bucket \in Bucket /\ gens \subseteq Generation /\ Sound(gens, written)
      /\ written \in 0..MaxWrites /\ edits \in 0..MaxEdits /\ faults \in 0..MaxFaults
  BY TypeIs
<1>u. UNCHANGED <<flavour, pc, want, seen, targets, removed, stalled>>
  BY DEF Environment, UserEdits, UserDeletes, Write, Erase, Hold, OutsiderCreates, OutsiderRemoves,
     OutsiderSets, Pass
<1>e. Edit => /\ written' = written /\ written' \in 0..MaxWrites /\ edits' \in 0..MaxEdits /\ faults' \in 0..MaxFaults
  BY <1>t, Bounds DEF Edit
<1>1. ASSUME NEW p \in ParamSets, UserEdits(p)
      PROVE  bky' \in BkyType /\ (bky.phase # "live" => bky'.phase = bky.phase) /\ Edit
             /\ UNCHANGED <<bucket, gens>>
  BY <1>1, <1>t DEF UserEdits, BkyType
<1>2. CASE UserDeletes
  <2>1. bky' \in BkyType /\ bky.phase = "live" /\ UNCHANGED <<bucket, gens, written, edits, faults>>
    BY <1>2, <1>t DEF UserDeletes, BkyType, bounds
  <2>. QED BY <1>t, <1>u, <2>1
<1>3. ASSUME NEW k \in Keys, Write(k)
      PROVE  /\ UNCHANGED <<bky, bucket, edits, faults>> /\ gens' \subseteq Generation
             /\ Sound(gens', written') /\ written' \in 0..MaxWrites
  BY <1>3, WriteIs DEF Write
<1>4. ASSUME NEW g \in gens, Erase(g) \/ Hold(g)
      PROVE  UNCHANGED <<bky, bucket>> /\ gens' \subseteq Generation /\ Sound(gens', written) /\ Edit
  BY <1>4, EraseIs DEF Erase, Hold
<1>5. ASSUME NEW ours \in BOOLEAN, OutsiderCreates(ours)
      PROVE  UNCHANGED <<bky, gens>> /\ bucket' \in Bucket /\ Edit
  BY <1>5, NoBucketIs, Bounds DEF OutsiderCreates, NoBucket, Bucket
<1>6. ASSUME OutsiderRemoves PROVE UNCHANGED <<bky, gens>> /\ bucket' \in Bucket /\ Edit
  BY <1>6, NoBucketIs DEF OutsiderRemoves
<1>7. ASSUME NEW v \in {"never", "on", "off"}, NEW r \in Rules, OutsiderSets(v, r)
      PROVE  UNCHANGED <<bky, gens>> /\ bucket' \in Bucket /\ Edit
  BY <1>7, <1>t DEF OutsiderSets, Bucket
<1>8. CASE \E p \in ParamSets : UserEdits(p)
  BY <1>t, <1>u, <1>e, <1>1, <1>8
<1>9. CASE \E k \in Keys : Write(k)
  BY <1>t, <1>u, <1>3, <1>9
<1>10. CASE \E g \in gens : Erase(g) \/ Hold(g)
  BY <1>t, <1>u, <1>e, <1>4, <1>10
<1>11. CASE \/ \E ours \in BOOLEAN : OutsiderCreates(ours)
            \/ OutsiderRemoves
            \/ \E v \in {"never", "on", "off"}, r \in Rules : OutsiderSets(v, r)
  BY <1>t, <1>u, <1>e, <1>5, <1>6, <1>7, <1>11
<1>. QED BY <1>2, <1>8, <1>9, <1>10, <1>11 DEF Environment

LEMMA ReconcileMoves ==
    ASSUME TypeOK, Reconcile
    PROVE  /\ CallMoves /\ UNCHANGED <<bucket, gens>> /\ removed' = FALSE /\ stalled' = FALSE
<1>t. /\ bky \in BkyType /\ bky.params \in ParamSets /\ seen \in Bucket
      /\ targets \subseteq Generation /\ want \in ParamSets \cup {NoParams}
  BY TypeIs DEF BkyType
<1>u. /\ UNCHANGED <<flavour, bucket, gens>> /\ removed' = FALSE /\ stalled' = FALSE /\ NoFault
      /\ pc = "idle"
  BY DEF Reconcile, NoFault
<1>1. PassTyped /\ TeardownAfter /\ KnobsAfter
  <2>1. CASE /\ bky.phase = "live" /\ pc' = IF bky.prov = "" THEN "inspect" ELSE "head"
             /\ want' = bky.params /\ UNCHANGED <<bky, seen, targets>>
    <3>1. pc' \in {"inspect", "head"}
      BY <2>1
    <3>. QED BY <1>t, <2>1, <3>1 DEF PassTyped, TeardownAfter, KnobsAfter, PC, TeardownPC
  <2>2. CASE bky.phase = "deleting" /\ Goto("list") /\ UNCHANGED bky
    BY <2>2, GotoMoves DEF PC, TeardownAfter, KnobsAfter
  <2>3. CASE bky' = [bky EXCEPT !.phase = "gone"] /\ UNCHANGED <<pc, want, seen, targets>>
    <3>1. bky' \in BkyType
      BY <1>t, <2>3 DEF BkyType
    <3>. QED BY <1>t, <1>u, <2>3, <3>1 DEF PassTyped, TeardownAfter, KnobsAfter, PC, TeardownPC
  <2>. QED BY <2>1, <2>2, <2>3 DEF Reconcile
<1>. QED BY <1>u, <1>1, AfterIs DEF CallMoves

-----------------------------------------------------------------------------
(* The invariant and what it implies. *)

LEMMA InvInit == Init => Inv
<1>. SUFFICES ASSUME Init PROVE Inv
  OBVIOUS
<1>1. PICK p \in ParamSets : bky = [phase |-> "live", params |-> p, prov |-> "", ready |-> ""]
  BY DEF Init
<1>2. bky \in BkyType
  BY <1>1 DEF BkyType, Reason
<1>3. /\ flavour \in Flavours /\ bucket = NoBucket /\ gens = {} /\ pc = "idle" /\ want = NoParams
      /\ seen = NoBucket /\ targets = {} /\ removed = FALSE /\ stalled = FALSE
      /\ written = 0 /\ edits = 0 /\ faults = 0
  BY DEF Init
<1>4. written \in 0..MaxWrites /\ edits \in 0..MaxEdits /\ faults \in 0..MaxFaults
  BY <1>3, Bounds
<1>5. pc \in PC /\ OneLive(gens) /\ Sound(gens, written)
  BY <1>3 DEF PC, OneLive, Sound, UniqueIds
<1>6. TypeOK
  BY <1>2, <1>3, <1>4, <1>5, NoBucketIs, TypeIs
<1>. QED BY <1>3, <1>5, <1>6 DEF Inv, TeardownInv, TeardownPC, KnobInv, StallInv

\* A call that removes nothing and reports no stall.
LEMMA StallKept ==
    ASSUME StallInv, UNCHANGED <<removed, stalled>>, pc # "idle", pc' \notin TeardownPC
    PROVE  StallInv'
BY DEF StallInv, TeardownPC

LEMMA SoundNext ==
    ASSUME Sound(gens', written'), UNCHANGED flavour
    PROVE  Sound(gens, written)'
BY DEF Sound, OneLive, UniqueIds, Gcs

LEMMA InvNext == Inv /\ [Next]_vars => Inv'
<1>. SUFFICES ASSUME Inv, [Next]_vars PROVE Inv'
  OBVIOUS
<1>0. TypeOK /\ Sound(gens, written) /\ TeardownInv /\ KnobInv /\ StallInv
  BY DEF Inv
<1>t. /\ flavour \in Flavours /\ bucket \in Bucket /\ gens \subseteq Generation /\ Sound(gens, written)
      /\ removed \in BOOLEAN /\ stalled \in BOOLEAN
  BY <1>0, TypeIs
<1>c. ASSUME CallMoves, bucket' \in Bucket, gens' \subseteq Generation, Sound(gens', written'),
             removed' \in BOOLEAN, stalled' \in BOOLEAN, StallInv'
      PROVE  Inv'
  <2>1. written' \in 0..MaxWrites /\ edits' \in 0..MaxEdits /\ faults' \in 0..MaxFaults
    BY <1>0, <1>c, FaultIs DEF CallMoves
  <2>2. TypeOK'
    BY <1>t, <1>c, <2>1 DEF CallMoves, PassTyped, TypeOK, BkyType, OneLive, Sound
  <2>3. Sound(gens, written)'
    BY <1>c, SoundNext DEF CallMoves
  <2>. QED BY <1>c, <2>2, <2>3 DEF CallMoves, Inv
<1>k. ASSUME CallMoves, UNCHANGED gens PROVE Sound(gens', written')
  BY <1>t, <1>k DEF CallMoves, Fault, NoFault, bounds
<1>1. CASE Reconcile
  <2>1. StallInv'
    BY <1>0, <1>1, ReconcileMoves DEF StallInv
  <2>. QED BY <1>0, <1>t, <1>c, <1>k, <1>1, <2>1, ReconcileMoves
<1>2. CASE Inspect \/ Probe \/ ProbeVersions
  <2>1. pc # "idle"
    BY <1>2 DEF Inspect, Probe, ProbeVersions
  <2>2. /\ CallMoves /\ UNCHANGED <<bucket, gens, removed, stalled>>
        /\ pc' \in {"idle", "probe", "probeVersions", "head"}
    BY <1>0, <1>2, InspectMoves
  <2>3. StallInv'
    BY <1>0, <2>1, <2>2, StallKept DEF TeardownPC
  <2>. QED BY <1>t, <1>c, <1>k, <2>2, <2>3
<1>3. CASE Head \/ Create \/ Recheck \/ Update \/ SetVersioning \/ SetLifecycle
  <2>1. pc # "idle"
    BY <1>3 DEF Head, Create, Recheck, Update, SetVersioning, SetLifecycle
  <2>2. /\ CallMoves /\ UNCHANGED <<gens, removed, stalled>> /\ bucket' \in Bucket
        /\ pc' \in {"idle", "create", "recheck", "update", "versioning", "lifecycle"}
    BY <1>0, <1>3, EnsureMoves
  <2>3. StallInv'
    BY <1>0, <2>1, <2>2, StallKept DEF TeardownPC
  <2>. QED BY <1>t, <1>c, <1>k, <2>2, <2>3
<1>4. CASE List \/ ListVersions \/ RemoveObjects \/ RemoveBucket
  BY <1>c, <1>4, TeardownMoves
<1>5. CASE Environment
  <2>1. /\ UNCHANGED <<flavour, pc, want, seen, targets, removed, stalled>>
        /\ bky' \in BkyType /\ bucket' \in Bucket /\ gens' \subseteq Generation
        /\ Sound(gens', written')
        /\ bky.phase # "live" => bky'.phase = bky.phase
        /\ written' \in 0..MaxWrites /\ edits' \in 0..MaxEdits /\ faults' \in 0..MaxFaults
    BY <1>0, <1>5, EnvironmentMoves
  <2>2. TypeOK'
    BY <1>0, <2>1, TypeIs DEF TypeOK, BkyType, OneLive, Sound
  <2>3. TeardownInv'
    BY <1>0, <2>1 DEF TeardownInv, TeardownPC
  <2>4. KnobInv'
    BY <1>0, <2>1 DEF KnobInv, Managed
  <2>5. StallInv'
    BY <1>0, <2>1 DEF StallInv, Gcs
  <2>6. Sound(gens, written)'
    BY <2>1, SoundNext
  <2>. QED BY <2>2, <2>3, <2>4, <2>5, <2>6 DEF Inv
<1>6. CASE UNCHANGED vars
  BY <1>6 DEF vars, Inv, TypeOK, TeardownInv, KnobInv, Managed, StallInv, Gcs, Sound, OneLive,
     UniqueIds
<1>. QED BY <1>1, <1>2, <1>3, <1>4, <1>5, <1>6 DEF Next, Driver

\* The inductive invariant holds in every reachable state: what a pass has
\* read (attributes, listing, slice) is related to the bucket as it is by now
\* in the way EnsureBuckety and DeleteBuckety rely on.
THEOREM Invariance == Spec => []Inv
BY InvInit, InvNext, PTL DEF Spec

\* The variables keep their types, and a name has at most one current
\* generation however the driver's slices and the data plane interleave.
THEOREM TypeCorrect == Spec => []TypeOK
<1>1. Inv => TypeOK
  BY DEF Inv
<1>. QED BY <1>1, Invariance, PTL

\* ErrDeletionInProgress reports a stalled teardown, which the reconciler
\* answers by waiting longer, only for a pass whose deletes removed nothing.
THEOREM StallIsHonest == Spec => []StalledHonest
<1>1. Inv => StalledHonest
  BY DEF Inv, StallInv, StalledHonest
<1>. QED BY <1>1, Invariance, PTL

\* EnsureBuckety succeeds over a bucket these credentials reach or have just
\* made, whoever takes the name between the head, the create and the second
\* look at a name that turned out to be taken.
THEOREM ReadyIsOwn == Spec => ReadyOverOwn
<1>. DEFINE own == (pc # "idle" /\ pc' = "idle" /\ bky'.ready = "EnsuredOnBackend"
                       /\ bky.phase = "live")
                    => Reachable \/ (bucket'.exists /\ bucket'.ours)
<1>1. ASSUME Inv, Next PROVE own
  <2>. SUFFICES ASSUME pc # "idle", pc' = "idle", bky'.ready = "EnsuredOnBackend",
                       bky.phase = "live"
                PROVE  Reachable \/ (bucket'.exists /\ bucket'.ours)
    OBVIOUS
  <2>0. TypeOK /\ Sound(gens, written) /\ KnobInv /\ pc \notin TeardownPC
    BY <1>1 DEF Inv, TeardownInv
  <2>1. ~(Reconcile \/ List \/ ListVersions \/ RemoveObjects \/ RemoveBucket)
    BY <2>0 DEF Reconcile, List, ListVersions, RemoveObjects, RemoveBucket, TeardownPC
  <2>2. ~(Inspect \/ Probe \/ ProbeVersions)
    BY <2>0, InspectMoves
  <2>3. ~Environment
    BY <2>0, EnvironmentMoves
  <2>4. Head \/ Create \/ Recheck \/ Update \/ SetVersioning \/ SetLifecycle
    BY <1>1, <2>1, <2>2, <2>3 DEF Next, Driver
  <2>. QED BY <2>0, <2>4, EnsureMoves
<1>2. Inv /\ [Next]_vars => [own]_vars
  BY <1>1
<1>. QED BY <1>2, Invariance, PTL DEF Spec, ReadyOverOwn
==============================================================================
