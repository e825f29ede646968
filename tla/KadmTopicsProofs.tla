--------------------------- MODULE KadmTopicsProofs ---------------------------
(***************************************************************************)
(* What the kadm driver's process memory promises, for every set of        *)
(* topics, keys and specs and every number of edits and faults.            *)
(***************************************************************************)
EXTENDS KadmTopics, TLAPS

RecordType == [topic : Topic \cup {Unset}, source : [Key -> Source \cup {Unset}],
               policy : Value \cup {Unset}]
SeriesType == [topic : Topic, key : Key, source : Source, value : Value]

\* Topics are recreated by edits only.
TypeInv == TypeOK /\ \A t \in Topic : broker[t].id <= edits

\* The record and the series agree, key by key, values of the policy gauge
\* included: setPolicy deletes its old series by value.
Matches(r, S) ==
    /\ \A s \in S : /\ s.topic = r.topic
                    /\ r.source[s.key] = s.source
                    /\ s.key = PolicyKey => s.value = r.policy
    /\ \A k \in Key : r.source[k] # Unset => \E s \in S : s.key = k
    /\ \A s1, s2 \in S : s1.key = s2.key => s1 = s2
SeriesInv == Matches(record, series)

\* Without an object there is no pass, and what is exported is about to go.
ForgetInv == obj.phase = "none" => pc = "idle" /\ (queued \/ (series = {} /\ counters = {}))

\* A topic about to be created is not remembered.
CreateInv == pc = "create" => accepted[obj.topic] = Nothing

\* The start offsets listed are at most those the same topic has later.
OffsetInv ==
    /\ \A t \in Topic : broker[t].start <= broker[t].end
    /\ pc = "ends" => /\ view.id <= broker[obj.topic].id
                      /\ view.id = broker[obj.topic].id => view.offset <= broker[obj.topic].start

Inv == TypeInv /\ SeriesInv /\ ForgetInv /\ CreateInv /\ OffsetInv /\ MemoryHonest

-----------------------------------------------------------------------------
(* effective.go: what Entry, Drop and Put make of a record and its series. *)

Constants ==
    /\ PolicyKey \in Key /\ EffectiveKey \subseteq Key /\ Numeric \subseteq Value
    /\ Unset \notin Value
LEMMA ConstantFacts == Constants
BY ConstantsAssumption DEF Constants

LEMMA SourcesAreSet == Unset \notin Source
BY DEF Unset, Source

\* The series that a record names for a key are the ones it has.
LEMMA NamedIs ==
    ASSUME NEW r \in RecordType, NEW S \in SUBSET SeriesType, Matches(r, S), NEW s \in S,
           NEW k \in Key
    PROVE  s \in Named(r, k) <=> s.key = k
<1>1. s.topic = r.topic /\ r.source[s.key] = s.source /\ (s.key = PolicyKey => s.value = r.policy)
  BY DEF Matches
<1>2. s \in SeriesType
  OBVIOUS
<1>3. s.source \in Source /\ s.value \in Value
  BY <1>2 DEF SeriesType
<1>4. ASSUME s.key = k PROVE s \in Named(r, k)
  <2>1. s.source \in {r.source[k]} \cap Source
    BY <1>1, <1>3, <1>4
  <2>2. s \in [topic : {r.topic}, key : {k}, source : {r.source[k]} \cap Source, value : Value]
    BY <1>1, <1>2, <1>3, <1>4, <2>1 DEF SeriesType
  <2>. QED BY <1>1, <1>4, <2>2 DEF Named
<1>5. ASSUME s \in Named(r, k) PROVE s.key = k
  BY <1>5 DEF Named
<1>. QED BY <1>4, <1>5

LEMMA UnnamedIs ==
    ASSUME NEW r \in RecordType, NEW S \in SUBSET SeriesType, Matches(r, S), NEW keys \in SUBSET Key
    PROVE  S \ UNION {Named(r, k) : k \in keys} = {s \in S : s.key \notin keys}
<1>1. ASSUME NEW s \in S
      PROVE  s \in UNION {Named(r, k) : k \in keys} <=> s.key \in keys
  <2>1. \A k \in keys : s \in Named(r, k) <=> s.key = k
    BY NamedIs
  <2>2. s \in UNION {Named(r, k) : k \in keys} <=> \E k \in keys : s \in Named(r, k)
    OBVIOUS
  <2>. QED BY <2>1, <2>2
<1>. QED BY <1>1

Exported(x) ==
    /\ x.record \in RecordType /\ x.series \in SUBSET SeriesType /\ Matches(x.record, x.series)

LEMMA EntryExports ==
    ASSUME record \in RecordType, series \subseteq SeriesType, Matches(record, series),
           NEW t \in Topic
    PROVE  Exported(Entry(t)) /\ Entry(t).record.topic = t
<1>1. CASE record.topic = t
  <2>1. Entry(t) = [record |-> record, series |-> series]
    BY <1>1 DEF Entry, Export
  <2>2. Entry(t).record = record /\ Entry(t).series = series
    BY <2>1
  <2>. QED BY <1>1, <2>2 DEF Exported
<1>2. CASE record.topic # t
  <2>. DEFINE r == [NoRecord EXCEPT !.topic = t]
  <2>1. {s \in series : s.topic # record.topic} = {}
    BY DEF Matches
  <2>2. Entry(t) = [record |-> r, series |-> {}]
    BY <1>2, <2>1 DEF Entry, Export
  <2>3. Entry(t).record = r /\ Entry(t).series = {}
    BY <2>2
  <2>4. r = [topic |-> t, source |-> Nothing, policy |-> Unset]
    BY DEF NoRecord
  <2>5. Nothing \in [Key -> Source \cup {Unset}] /\ \A k \in Key : Nothing[k] = Unset
    BY DEF Nothing
  <2>6. r \in RecordType /\ r.topic = t /\ \A k \in Key : r.source[k] = Unset
    BY <2>4, <2>5 DEF RecordType
  <2>7. Matches(r, {})
    BY <2>6 DEF Matches
  <2>. QED BY <2>3, <2>6, <2>7 DEF Exported
<1>. QED BY <1>1, <1>2

LEMMA DropExports ==
    ASSUME NEW x, Exported(x), NEW keys \in SUBSET Key
    PROVE  Exported(Drop(x, keys)) /\ Drop(x, keys).record.topic = x.record.topic
<1>. DEFINE r == x.record
            S == x.series
            q == [r EXCEPT !.source = [k \in Key |-> IF k \in keys THEN Unset ELSE @[k]],
                           !.policy = IF PolicyKey \in keys THEN Unset ELSE @]
            T == {s \in S : s.key \notin keys}
<1>0. r \in RecordType /\ S \in SUBSET SeriesType /\ Matches(r, S)
  BY DEF Exported
<1>1. Drop(x, keys) = [record |-> q, series |-> T]
  BY <1>0, UnnamedIs DEF Drop, Export
<1>2. Drop(x, keys).record = q /\ Drop(x, keys).series = T
  BY <1>1
<1>3. /\ r \in [topic : Topic \cup {Unset}, source : [Key -> Source \cup {Unset}],
                policy : Value \cup {Unset}]
  BY <1>0 DEF RecordType
<1>4. /\ q \in RecordType /\ q.topic = r.topic
      /\ q.source = [k \in Key |-> IF k \in keys THEN Unset ELSE r.source[k]]
      /\ q.policy = IF PolicyKey \in keys THEN Unset ELSE r.policy
  BY <1>3 DEF RecordType
<1>5. \A s \in S : s.key \in Key
  BY <1>0 DEF SeriesType
<1>. HIDE DEF q, T
<1>6. /\ \A s \in T : s \in S /\ s.key \in Key /\ s.key \notin keys
      /\ \A s \in S : s.key \notin keys => s \in T
  BY <1>5 DEF T
<1>7. \A s \in T : /\ s.topic = q.topic
                   /\ q.source[s.key] = s.source
                   /\ s.key = PolicyKey => s.value = q.policy
  BY <1>0, <1>4, <1>6 DEF Matches
<1>8. \A k \in Key : q.source[k] # Unset => \E s \in T : s.key = k
  BY <1>0, <1>4, <1>6 DEF Matches
<1>9. \A s1, s2 \in T : s1.key = s2.key => s1 = s2
  BY <1>0, <1>6 DEF Matches
<1>10. Matches(q, T) /\ T \in SUBSET SeriesType
  BY <1>0, <1>6, <1>7, <1>8, <1>9 DEF Matches
<1>. QED BY <1>2, <1>4, <1>10 DEF Exported

LEMMA PutExports ==
    ASSUME NEW x, Exported(x), x.record.topic \in Topic, NEW D \in SUBSET Key,
           NEW put \in [D -> Value], NEW source \in [D -> Source]
    PROVE  Exported(Put(x, put, source))
<1>. DEFINE r == x.record
            S == x.series
            q == [r EXCEPT !.source = [k \in Key |-> IF k \in D THEN source[k] ELSE @[k]],
                           !.policy = IF PolicyKey \in D THEN put[PolicyKey] ELSE @]
            new(k) == [topic |-> r.topic, key |-> k, source |-> source[k], value |-> put[k]]
            T == {s \in S : s.key \notin D} \cup {new(k) : k \in D}
<1>0. r \in RecordType /\ S \in SUBSET SeriesType /\ Matches(r, S) /\ DOMAIN put = D
  BY DEF Exported
<1>1. S \ UNION {Named(r, k) : k \in D} = {s \in S : s.key \notin D}
  BY <1>0, UnnamedIs
<1>2. {s \in {s \in S : s.key \notin D} :
          ~\E k \in D \ {PolicyKey} : s.topic = r.topic /\ s.key = k /\ s.source = source[k]}
        = {s \in S : s.key \notin D}
  OBVIOUS
<1>3. Put(x, put, source) = [record |-> q, series |-> T]
  BY <1>0, <1>1, <1>2 DEF Put, Export
<1>4. Put(x, put, source).record = q /\ Put(x, put, source).series = T
  BY <1>3
<1>5. r \in [topic : Topic \cup {Unset}, source : [Key -> Source \cup {Unset}],
             policy : Value \cup {Unset}]
  BY <1>0 DEF RecordType
<1>6. /\ q \in RecordType /\ q.topic = r.topic
      /\ q.source = [k \in Key |-> IF k \in D THEN source[k] ELSE r.source[k]]
      /\ q.policy = IF PolicyKey \in D THEN put[PolicyKey] ELSE r.policy
  BY <1>5 DEF RecordType
<1>7. \A k \in D : /\ new(k) \in SeriesType /\ new(k).key = k /\ new(k).topic = r.topic
                   /\ new(k).source = source[k] /\ new(k).value = put[k]
  BY DEF SeriesType
<1>8. \A s \in S : s.key \in Key /\ s \in SeriesType
  BY <1>0 DEF SeriesType
<1>9. /\ \A s \in T : \/ s \in S /\ s.key \notin D
                      \/ s.key \in D /\ s = new(s.key)
      /\ \A s \in S : s.key \notin D => s \in T
      /\ \A k \in D : new(k) \in T
  BY <1>7
<1>. HIDE DEF q, T, new
<1>10. \A s \in T : /\ s.topic = q.topic /\ s \in SeriesType
                    /\ q.source[s.key] = s.source
                    /\ s.key = PolicyKey => s.value = q.policy
  <2>. SUFFICES ASSUME NEW s \in T
                PROVE  /\ s.topic = q.topic /\ s \in SeriesType
                       /\ q.source[s.key] = s.source
                       /\ s.key = PolicyKey => s.value = q.policy
    OBVIOUS
  <2>1. CASE s \in S /\ s.key \notin D
    BY <1>0, <1>6, <1>8, <2>1 DEF Matches
  <2>2. CASE s.key \in D /\ s = new(s.key)
    BY <1>6, <1>7, <2>2
  <2>. QED BY <1>9, <2>1, <2>2
<1>11. ASSUME NEW k \in Key, q.source[k] # Unset PROVE \E s \in T : s.key = k
  <2>1. CASE k \in D
    BY <1>7, <1>9, <2>1
  <2>2. CASE k \notin D
    <3>1. r.source[k] # Unset
      BY <1>6, <1>11, <2>2
    <3>2. PICK s \in S : s.key = k
      BY <1>0, <3>1 DEF Matches
    <3>. QED BY <1>9, <2>2, <3>2
  <2>. QED BY <2>1, <2>2
<1>12. \A s1, s2 \in T : s1.key = s2.key => s1 = s2
  BY <1>0, <1>9 DEF Matches
<1>13. Matches(q, T) /\ T \in SUBSET SeriesType
  BY <1>10, <1>11, <1>12 DEF Matches
<1>. QED BY <1>4, <1>6, <1>13 DEF Exported

LEMMA RecordEffectiveExports ==
    ASSUME record \in RecordType, series \subseteq SeriesType, Matches(record, series),
           level \in {"broker", "default"}, NEW t \in Topic, NEW cfg \in Setting
    PROVE  /\ Exported(RecordEffective(t, cfg)) /\ Exported(RecordAltered(t, cfg))
<1>. DEFINE shown == Exportable(cfg)
            gone == (EffectiveKey \cup {PolicyKey}) \ shown
            source == [k \in shown |-> SourceOf(t, k)]
            topics == [k \in shown |-> "topic"]
            put == Restricted(cfg, shown)
<1>1. shown \in SUBSET Key /\ gone \in SUBSET Key
  BY ConstantFacts DEF Constants, Exportable
<1>2. \A k \in shown : cfg[k] \in Value
  BY <1>1, ConstantFacts DEF Constants, Exportable, Setting
<1>3. put \in [shown -> Value]
  BY <1>2 DEF Restricted
<1>4. source \in [shown -> Source] /\ topics \in [shown -> Source]
  BY DEF SourceOf, Source
<1>5. Exported(Entry(t)) /\ Entry(t).record.topic = t
  BY EntryExports
<1>6. Exported(Drop(Entry(t), gone)) /\ Drop(Entry(t), gone).record.topic = t
  BY <1>1, <1>5, DropExports
<1>7. RecordEffective(t, cfg) = Put(Drop(Entry(t), gone), put, source)
  BY DEF RecordEffective
<1>8. RecordAltered(t, cfg) = Put(Entry(t), put, topics)
  BY DEF RecordAltered
<1>. HIDE DEF shown, gone, source, topics, put
<1>9. Exported(Put(Drop(Entry(t), gone), put, source))
  BY <1>1, <1>3, <1>4, <1>6, PutExports
<1>10. Exported(Put(Entry(t), put, topics))
  BY <1>1, <1>3, <1>4, <1>5, PutExports
<1>. QED BY <1>7, <1>8, <1>9, <1>10

-----------------------------------------------------------------------------
(* Types. *)

ObjType == [phase : {"none", "live", "deleting"}, topic : Topic, spec : Specs \cup {NoWant},
            prov : {"", "Created", "Adopted"}, ready : Reason]
TopicType == [exists : BOOLEAN, id : 0..MaxEdits, parts : PartCount, rf : ReplicaCount,
              cfg : Setting, start : 0..MaxRecords, end : 0..MaxRecords]
MetaType == [exists : BOOLEAN, parts : PartCount, rf : ReplicaCount]
ViewType == [id : 0..MaxEdits, parts : PartCount, rf : ReplicaCount, cfg : Setting,
             offset : 0..MaxRecords]
WantType == [parts : Nat, rf : Nat, cfg : Setting, adoption : Adoption, policy : Policy]
CounterType == Topic \X (Key \cup {"partitions"})

LEMMA TypeIs ==
    TypeOK <=>
        /\ obj \in ObjType /\ queued \in BOOLEAN /\ broker \in [Topic -> TopicType]
        /\ level \in {"broker", "default"} /\ meta \in [Topic -> MetaType]
        /\ accepted \in [Topic -> Setting] /\ record \in RecordType /\ series \subseteq SeriesType
        /\ counters \subseteq CounterType /\ pc \in PC /\ want \in Specs \cup {NoWant}
        /\ view \in ViewType /\ alters \subseteq Key /\ touched \subseteq (Topic \X Key)
        /\ edits \in 0..MaxEdits /\ faults \in 0..MaxFaults
BY DEF TypeOK, ObjType, TopicType, MetaType, ViewType, RecordType, SeriesType, CounterType

LEMMA Bounds ==
    /\ MaxParts \in Nat /\ MaxRecords \in Nat /\ MaxEdits \in Nat /\ MaxFaults \in Nat
    /\ DefaultParts \in Nat /\ DefaultRF \in Nat
    /\ Specs \subseteq WantType
BY ConstantsAssumption DEF WantType

LEMMA NothingIs == Nothing \in Setting /\ \A k \in Key : Nothing[k] = Unset
BY DEF Nothing, Setting

LEMMA Zeroes ==
    /\ 0 \in PartCount /\ 0 \in ReplicaCount /\ DefaultParts \in PartCount
    /\ DefaultRF \in ReplicaCount /\ 0 \in 0..MaxEdits /\ 0 \in 0..MaxRecords
    /\ PartCount \subseteq Nat
BY Bounds DEF PartCount, ReplicaCount, WantType

LEMMA WantIs ==
    ASSUME NEW w \in Specs \cup {NoWant}
    PROVE  /\ w \in WantType /\ w.cfg \in Setting
           /\ w.parts \in PartCount /\ w.rf \in ReplicaCount
<1>1. NoWant \in WantType /\ NoWant.parts = 0 /\ NoWant.rf = 0
  BY NothingIs DEF NoWant, WantType, Adoption, Policy
<1>2. CASE w \in Specs
  BY <1>2, Bounds DEF WantType, PartCount, ReplicaCount
<1>3. CASE w = NoWant
  BY <1>1, <1>3, Zeroes DEF WantType
<1>. QED BY <1>2, <1>3

LEMMA ConstantRecords ==
    /\ NoWant \in Specs \cup {NoWant} /\ NoView \in ViewType /\ NoTopic \in TopicType
    /\ NoMeta \in MetaType /\ NoRecord \in RecordType
    /\ NoView.cfg = Nothing /\ NoRecord.source = Nothing
<1>1. NoView \in ViewType
  BY Zeroes, NothingIs DEF NoView, ViewType
<1>2. NoTopic \in TopicType
  BY Zeroes, NothingIs DEF NoTopic, TopicType
<1>3. NoMeta \in MetaType
  BY Zeroes DEF NoMeta, MetaType
<1>4. NoRecord \in RecordType /\ NoRecord.source = Nothing
  BY DEF NoRecord, RecordType, Nothing
<1>. QED BY <1>1, <1>2, <1>3, <1>4 DEF NoView

LEMMA NoObjIs ==
    ASSUME Topic # {}
    PROVE  NoObj \in ObjType /\ NoObj.phase = "none" /\ NoObj.prov = ""
<1>1. (CHOOSE t \in Topic : TRUE) \in Topic
  OBVIOUS
<1>. QED BY <1>1 DEF NoObj, ObjType, Reason

LEMMA NewTopicIs ==
    ASSUME NEW w \in Specs \cup {NoWant}, NEW id \in 0..MaxEdits
    PROVE  LET n == NewTopic(w.parts, w.rf, w.cfg, id) IN
           n \in TopicType /\ n.id = id /\ n.cfg = w.cfg /\ n.start = 0 /\ n.end = 0
BY WantIs, Zeroes DEF NewTopic, TopicType

LEMMA ReportedIs ==
    ASSUME TypeOK, NEW t \in Topic
    PROVE  Reported(t) \in Setting
<1>1. broker[t].cfg \in Setting /\ level \in {"broker", "default"}
  BY TypeIs DEF TopicType
<1>2. Inherited[level] \in [Key -> Value]
  BY <1>1, ConstantsAssumption
<1>. QED BY <1>1, <1>2 DEF Reported, Setting

-----------------------------------------------------------------------------
(* How the driver moves the object and the pass. *)

PassTyped == /\ obj' \in ObjType /\ pc' \in PC /\ want' \in Specs \cup {NoWant}
             /\ view' \in ViewType /\ alters' \subseteq Key
Kept == obj'.phase = obj.phase /\ obj'.topic = obj.topic

LEMMA FinishMoves ==
    ASSUME NEW o \in ObjType, NEW reason \in Reason, Finish(o, reason)
    PROVE  /\ PassTyped /\ pc' = "idle"
           /\ obj'.phase = o.phase /\ obj'.topic = o.topic /\ obj'.prov = o.prov
<1>1. /\ obj' \in ObjType
      /\ obj'.phase = o.phase /\ obj'.topic = o.topic /\ obj'.prov = o.prov
  BY DEF Finish, ObjType
<1>. QED BY <1>1, ConstantRecords DEF Finish, EndPass, PassTyped, PC

LEMMA BeginEnsureMoves ==
    ASSUME TypeOK, NEW o \in ObjType, NEW s \in Specs \cup {NoWant}, BeginEnsure(o, s)
    PROVE  /\ PassTyped /\ obj' = o /\ pc' \in {"describe", "create"}
           /\ UNCHANGED accepted \/ ForgetAccepted(o.topic)
           /\ pc' = "create" => ForgetAccepted(o.topic)
<1>0. o.topic \in Topic
  BY DEF ObjType
<1>1. meta[o.topic] \in MetaType
  BY <1>0, TypeIs
<1>2. [NoView EXCEPT !.parts = meta[o.topic].parts, !.rf = meta[o.topic].rf] \in ViewType
  BY <1>1, Zeroes, NothingIs DEF NoView, ViewType, MetaType
<1>. QED BY <1>2 DEF BeginEnsure, Goto, PassTyped, PC

LEMMA AlignMoves ==
    ASSUME TypeOK, NEW v \in ViewType, AlignConfigs(v)
    PROVE  PassTyped /\ Kept /\ obj'.prov = obj.prov /\ pc' \in {"idle", "alter"}
<1>0. obj \in ObjType /\ want \in Specs \cup {NoWant}
  BY TypeIs
<1>1. CASE Finish(obj, "ParameterDrift") \/ Finish(obj, "EnsuredOnBackend")
  BY <1>0, <1>1, FinishMoves DEF Kept, Reason
<1>2. CASE /\ Goto("alter") /\ alters' = Delta(obj.topic, v.cfg) /\ view' = v
           /\ UNCHANGED <<obj, want>>
  BY <1>0, <1>2 DEF Delta, Goto, PassTyped, Kept, PC
<1>. QED BY <1>1, <1>2 DEF AlignConfigs

\* A pass stays with its object and its topic until the object goes.
DriverMoves ==
    /\ PassTyped
    /\ \/ Kept /\ (obj.phase = "none" => pc' = "idle")
       \/ obj' = NoObj /\ pc' = "idle" /\ queued' = TRUE
    /\ UNCHANGED accepted \/ ForgetAccepted(obj.topic) \/ Alter
    /\ pc' = "create" => ForgetAccepted(obj.topic)
    /\ pc' = "ends" => InspectStarts
    /\ obj'.prov # "" => obj'.prov = obj.prov \/ InspectExists \/ InspectEnds

LEMMA ReconcileMoves ==
    ASSUME TypeOK, Reconcile
    PROVE  DriverMoves
<1>0. obj \in ObjType /\ want \in Specs \cup {NoWant} /\ view \in ViewType /\ alters \subseteq Key
  BY TypeIs
<1>n. Topic # {} /\ obj.spec \in Specs \cup {NoWant} /\ pc = "idle"
  BY <1>0 DEF ObjType, Reconcile
<1>1. CASE obj.phase = "none" /\ UNCHANGED <<obj, accepted, pc, want, view, alters>>
  BY <1>0, <1>n, <1>1 DEF DriverMoves, PassTyped, Kept, PC
<1>2. CASE /\ obj.phase = "live" /\ Goto("exists") /\ want' = obj.spec
           /\ UNCHANGED <<obj, accepted, view, alters>>
  BY <1>0, <1>n, <1>2 DEF DriverMoves, PassTyped, Kept, Goto, PC
<1>3. CASE obj.phase = "live" /\ BeginEnsure(obj, obj.spec)
  BY <1>0, <1>n, <1>3, BeginEnsureMoves DEF DriverMoves, Kept
<1>4. CASE /\ obj.phase = "deleting" /\ Goto("delete") /\ UNCHANGED obj
           /\ UNCHANGED <<accepted, want, view, alters>>
  BY <1>0, <1>4 DEF DriverMoves, PassTyped, Kept, Goto, PC
<1>5. CASE /\ obj.phase = "deleting" /\ obj' = NoObj /\ UNCHANGED pc /\ queued' = TRUE
           /\ UNCHANGED <<accepted, want, view, alters>>
  BY <1>0, <1>n, <1>5, NoObjIs DEF DriverMoves, PassTyped, PC
<1>. QED BY <1>1, <1>2, <1>3, <1>4, <1>5 DEF Reconcile

LEMMA InspectMoves ==
    ASSUME TypeOK, obj.phase # "none", InspectExists \/ InspectStarts \/ InspectEnds
    PROVE  DriverMoves
<1>0. obj \in ObjType /\ want \in Specs \cup {NoWant} /\ view \in ViewType /\ alters \subseteq Key
  BY TypeIs
<1>f. ASSUME NEW reason \in Reason, Finish(obj, reason), UNCHANGED accepted PROVE DriverMoves
  BY <1>0, <1>f, FinishMoves DEF DriverMoves, Kept
<1>1. CASE InspectExists
  <2>1. [obj EXCEPT !.prov = "Created"] \in ObjType /\ [obj EXCEPT !.prov = "Created"].topic = obj.topic
        /\ [obj EXCEPT !.prov = "Created"].phase = obj.phase
    BY <1>0 DEF ObjType
  <2>2. CASE BeginEnsure([obj EXCEPT !.prov = "Created"], want)
    BY <1>0, <1>1, <2>1, <2>2, BeginEnsureMoves DEF DriverMoves, Kept
  <2>3. CASE Goto("starts") /\ UNCHANGED <<obj, accepted, want, view, alters>>
    BY <1>0, <2>3 DEF DriverMoves, PassTyped, Kept, Goto, PC
  <2>. QED BY <1>1, <1>f, <2>2, <2>3 DEF InspectExists, Reason
<1>2. CASE InspectStarts
  <2>1. broker[obj.topic] \in TopicType
    BY <1>0, TypeIs DEF ObjType
  <2>2. CASE /\ Goto("ends") /\ UNCHANGED <<obj, want, alters>>
             /\ view' = [NoView EXCEPT !.id = broker[obj.topic].id, !.parts = broker[obj.topic].parts,
                                       !.offset = broker[obj.topic][Listing[1]]]
    <3>1. Listing[1] = "start"
      BY DEF Listing
    <3>2. broker[obj.topic][Listing[1]] = broker[obj.topic].start
      BY <3>1
    <3>3. view' \in ViewType
      BY <2>1, <2>2, <3>2, Zeroes, NothingIs DEF NoView, ViewType, TopicType
    <3>. QED BY <1>0, <1>2, <2>2, <3>3 DEF InspectStarts, DriverMoves, PassTyped, Kept, Goto, PC, memory
  <2>. QED BY <1>2, <1>f, <2>2 DEF InspectStarts, Reason, memory
<1>3. CASE InspectEnds
  <2>1. [obj EXCEPT !.prov = "Adopted"] \in ObjType /\ [obj EXCEPT !.prov = "Adopted"].topic = obj.topic
        /\ [obj EXCEPT !.prov = "Adopted"].phase = obj.phase
    BY <1>0 DEF ObjType
  <2>2. CASE BeginEnsure([obj EXCEPT !.prov = "Adopted"], want)
    BY <1>0, <1>3, <2>1, <2>2, BeginEnsureMoves DEF DriverMoves, Kept
  <2>. QED BY <1>3, <1>f, <2>2 DEF InspectEnds, Reason
<1>. QED BY <1>1, <1>2, <1>3

LEMMA EnsureMoves ==
    ASSUME TypeOK, obj.phase # "none", CreateTopic \/ Describe \/ Grow \/ Alter \/ DeleteTopic
    PROVE  DriverMoves
<1>0. obj \in ObjType /\ want \in Specs \cup {NoWant} /\ view \in ViewType /\ alters \subseteq Key
  BY TypeIs
<1>n. Topic # {} /\ obj.topic \in Topic
  BY <1>0 DEF ObjType
<1>f. ASSUME NEW reason \in Reason, Finish(obj, reason),
             UNCHANGED accepted \/ ForgetAccepted(obj.topic) \/ Alter
      PROVE  DriverMoves
  BY <1>0, <1>f, FinishMoves DEF DriverMoves, Kept
<1>a. ASSUME NEW v \in ViewType, AlignConfigs(v), UNCHANGED accepted PROVE DriverMoves
  BY <1>a, AlignMoves DEF DriverMoves
<1>1. CASE CreateTopic
  BY <1>1, <1>f DEF CreateTopic, Reason, memory
<1>2. CASE Describe
  <2>1. [view EXCEPT !.cfg = Reported(obj.topic)] \in ViewType
    BY <1>0, <1>n, ReportedIs DEF ViewType
  <2>2. UNCHANGED accepted
    BY <1>2 DEF Describe
  <2>3. CASE /\ Goto("grow") /\ view' = [view EXCEPT !.cfg = Reported(obj.topic)]
             /\ UNCHANGED <<obj, want, alters>>
    BY <1>0, <2>1, <2>2, <2>3 DEF DriverMoves, PassTyped, Kept, Goto, PC
  <2>4. CASE AlignConfigs([view EXCEPT !.cfg = Reported(obj.topic)])
    BY <1>a, <2>1, <2>2, <2>4
  <2>5. CASE Finish(obj, "ParameterDrift") \/ Finish(obj, "EnsureFailed")
    BY <1>f, <2>2, <2>5 DEF Reason
  <2>. QED BY <1>2, <2>3, <2>4, <2>5 DEF Describe
<1>3. CASE Grow
  <2>1. UNCHANGED accepted
    BY <1>3 DEF Grow, memory
  <2>2. AlignConfigs(view) \/ Finish(obj, "EnsureFailed")
    BY <1>3 DEF Grow
  <2>. QED BY <1>0, <1>a, <1>f, <2>1, <2>2 DEF Reason
<1>4. CASE Alter
  <2>1. Finish(obj, "EnsureFailed") \/ Finish(obj, "EnsuredOnBackend")
    BY <1>4 DEF Alter, AlterTopic
  <2>. QED BY <1>4, <1>f, <2>1 DEF Reason
<1>5. CASE DeleteTopic
  <2>1. ForgetAccepted(obj.topic)
    BY <1>5 DEF DeleteTopic
  <2>2. CASE Finish(obj, "DeleteFailed")
    BY <1>f, <2>1, <2>2 DEF Reason
  <2>3. CASE obj' = NoObj /\ EndPass /\ queued' = TRUE
    BY <1>n, <2>1, <2>3, NoObjIs, ConstantRecords DEF DriverMoves, EndPass, PassTyped, PC
  <2>. QED BY <1>5, <2>2, <2>3 DEF DeleteTopic
<1>. QED BY <1>1, <1>2, <1>3, <1>4, <1>5

LEMMA DriverStep ==
    ASSUME TypeOK, ForgetInv, Driver
    PROVE  DriverMoves
<1>1. CASE Reconcile
  BY <1>1, ReconcileMoves
<1>2. CASE InspectExists \/ InspectStarts \/ InspectEnds
  <2>1. obj.phase # "none"
    BY <1>2 DEF InspectExists, InspectStarts, InspectEnds, ForgetInv
  <2>. QED BY <1>2, <2>1, InspectMoves
<1>3. CASE CreateTopic \/ Describe \/ Grow \/ Alter \/ DeleteTopic
  <2>1. obj.phase # "none"
    BY <1>3 DEF CreateTopic, Describe, Grow, Alter, DeleteTopic, ForgetInv
  <2>. QED BY <1>3, <2>1, EnsureMoves
<1>. QED BY <1>1, <1>2, <1>3 DEF Driver

-----------------------------------------------------------------------------
(* What a step does to a topic. *)

\* The topic stays well formed, and outside of the driver's own create and
\* delete calls the same topic's start offset only grows.
TopicMoves(t) ==
    /\ broker'[t] \in TopicType /\ broker'[t].id <= edits' /\ broker'[t].start <= broker'[t].end
    /\ pc \notin {"create", "delete"} =>
          /\ broker[t].id <= broker'[t].id
          /\ broker'[t].id = broker[t].id => broker[t].start <= broker'[t].start
BrokerMoves == broker' \in [Topic -> TopicType] /\ \A t \in Topic : TopicMoves(t)

LEMMA TopicIs ==
    ASSUME TypeInv, OffsetInv, NEW t \in Topic
    PROVE  /\ broker[t] \in TopicType /\ broker[t].id \in 0..MaxEdits /\ broker[t].id <= edits
           /\ broker[t].id \in Nat /\ edits \in Nat /\ broker[t].start <= broker[t].end
           /\ broker[t].start \in 0..MaxRecords /\ broker[t].end \in 0..MaxRecords
           /\ broker[t].start \in Nat /\ broker[t].end \in Nat
           /\ broker[t].parts \in PartCount /\ broker[t].rf \in ReplicaCount
           /\ broker[t].cfg \in Setting
<1>1. /\ broker[t] \in TopicType /\ broker[t].id <= edits /\ broker[t].start <= broker[t].end
      /\ edits \in 0..MaxEdits
  BY TypeIs DEF TypeInv, OffsetInv
<1>2. /\ broker[t].id \in 0..MaxEdits /\ broker[t].start \in 0..MaxRecords
      /\ broker[t].end \in 0..MaxRecords /\ broker[t].parts \in PartCount
      /\ broker[t].rf \in ReplicaCount /\ broker[t].cfg \in Setting
  BY <1>1 DEF TopicType
<1>3. broker[t].id \in Nat /\ edits \in Nat /\ broker[t].start \in Nat /\ broker[t].end \in Nat
  BY <1>1, <1>2, Bounds
<1>. QED BY <1>1, <1>2, <1>3

LEMMA BrokerStays ==
    ASSUME TypeInv, OffsetInv, UNCHANGED broker, edits' = edits \/ edits' = edits + 1
    PROVE  BrokerMoves
<1>1. ASSUME NEW t \in Topic PROVE TopicMoves(t)
  BY TopicIs DEF TopicMoves
<1>. QED BY <1>1, TypeIs DEF TypeInv, BrokerMoves

\* One topic changes.
LEMMA OneTopicMoves ==
    ASSUME TypeInv, OffsetInv, NEW t \in Topic, NEW new, broker' = [broker EXCEPT ![t] = new],
           edits' = edits \/ edits' = edits + 1, new \in TopicType, new.id <= edits',
           new.start <= new.end,
           pc \in {"create", "delete"}
             \/ (broker[t].id <= new.id /\ (new.id = broker[t].id => broker[t].start <= new.start))
    PROVE  BrokerMoves
<1>1. broker' \in [Topic -> TopicType]
  BY TypeIs DEF TypeInv
<1>2. ASSUME NEW u \in Topic PROVE TopicMoves(u)
  <2>1. CASE u = t
    <3>1. broker'[u] = new
      BY <2>1, TypeIs DEF TypeInv
    <3>. QED BY <2>1, <3>1 DEF TopicMoves
  <2>2. CASE u # t
    <3>1. broker'[u] = broker[u]
      BY <2>2, TypeIs DEF TypeInv
    <3>. QED BY <3>1, TopicIs DEF TopicMoves
  <2>. QED BY <2>1, <2>2
<1>. QED BY <1>1, <1>2 DEF BrokerMoves

LEMMA OutsideMoves ==
    ASSUME TypeInv, OffsetInv, NEW t \in Topic,
           \/ OutsiderCreates(t) \/ OutsiderDeletes(t) \/ OutsiderGrows(t)
           \/ Produce(t) \/ Expire(t)
           \/ \E k \in Key : \E v \in ValidFor[k] \cup {Unset} : OutsiderAlters(t, k, v)
    PROVE  BrokerMoves
<1>t. /\ broker[t] \in TopicType /\ broker[t].id \in 0..MaxEdits /\ broker[t].id <= edits
      /\ broker[t].id \in Nat /\ edits \in Nat /\ broker[t].start <= broker[t].end
      /\ broker[t].start \in 0..MaxRecords /\ broker[t].end \in 0..MaxRecords
      /\ broker[t].start \in Nat /\ broker[t].end \in Nat
      /\ broker[t].parts \in PartCount /\ broker[t].rf \in ReplicaCount
      /\ broker[t].cfg \in Setting
  BY TopicIs
<1>o. ASSUME NEW new, NEW keys, Outside(t, new, keys), new \in TopicType, new.id <= edits + 1,
             new.start <= new.end, broker[t].id <= new.id,
             new.id = broker[t].id => broker[t].start <= new.start
      PROVE  BrokerMoves
  BY <1>o, OneTopicMoves DEF Outside, Edit
<1>e. ASSUME NEW new, NEW keys, Outside(t, new, keys) PROVE broker[t].id + 1 \in 0..MaxEdits
  <2>1. edits < MaxEdits
    BY <1>e DEF Outside, Edit
  <2>. QED BY <1>t, <2>1, Bounds
<1>1. CASE OutsiderCreates(t)
  <2>. DEFINE new == NewTopic(0, 0, Nothing, broker[t].id + 1)
  <2>1. broker[t].id + 1 \in 0..MaxEdits /\ Outside(t, new, Key)
    BY <1>1, <1>e DEF OutsiderCreates
  <2>2. NoWant.parts = 0 /\ NoWant.rf = 0 /\ NoWant.cfg = Nothing
    BY DEF NoWant
  <2>3. new \in TopicType /\ new.id = broker[t].id + 1 /\ new.start = 0 /\ new.end = 0
    BY <2>1, <2>2, NewTopicIs
  <2>. HIDE DEF new
  <2>. QED BY <1>t, <1>o, <2>1, <2>3
<1>2. CASE OutsiderDeletes(t)
  <2>. DEFINE new == [NoTopic EXCEPT !.id = broker[t].id + 1]
  <2>1. broker[t].id + 1 \in 0..MaxEdits /\ Outside(t, new, Key)
    BY <1>2, <1>e DEF OutsiderDeletes
  <2>2. new \in TopicType /\ new.id = broker[t].id + 1 /\ new.start = 0 /\ new.end = 0
    BY <2>1, ConstantRecords DEF NoTopic, TopicType
  <2>. HIDE DEF new
  <2>. QED BY <1>t, <1>o, <2>1, <2>2
<1>3. CASE OutsiderGrows(t)
  <2>. DEFINE new == [broker[t] EXCEPT !.parts = @ + 1]
  <2>1. broker[t].parts < MaxParts /\ Outside(t, new, {})
    BY <1>3 DEF OutsiderGrows
  <2>2. broker[t].parts + 1 \in PartCount
    BY <1>t, <2>1, Zeroes, Bounds DEF PartCount
  <2>3. new \in TopicType /\ new.id = broker[t].id /\ new.start = broker[t].start
        /\ new.end = broker[t].end
    BY <1>t, <2>2 DEF TopicType
  <2>. HIDE DEF new
  <2>. QED BY <1>t, <1>o, <2>1, <2>3
<1>4. CASE Produce(t)
  <2>. DEFINE new == [broker[t] EXCEPT !.end = @ + 1]
  <2>1. broker[t].end < MaxRecords /\ Outside(t, new, {})
    BY <1>4 DEF Produce
  <2>2. broker[t].end + 1 \in 0..MaxRecords
    BY <1>t, <2>1, Bounds
  <2>3. new \in TopicType /\ new.id = broker[t].id /\ new.start = broker[t].start
        /\ new.end = broker[t].end + 1
    BY <1>t, <2>2 DEF TopicType
  <2>. HIDE DEF new
  <2>. QED BY <1>t, <1>o, <2>1, <2>3
<1>5. CASE Expire(t)
  <2>. DEFINE new == [broker[t] EXCEPT !.start = @ + 1]
  <2>1. broker[t].start < broker[t].end /\ Outside(t, new, {})
    BY <1>5 DEF Expire
  <2>2. broker[t].start + 1 \in 0..MaxRecords
    BY <1>t, <2>1, Bounds
  <2>3. new \in TopicType /\ new.id = broker[t].id /\ new.start = broker[t].start + 1
        /\ new.end = broker[t].end
    BY <1>t, <2>2 DEF TopicType
  <2>. HIDE DEF new
  <2>. QED BY <1>t, <1>o, <2>1, <2>3
<1>6. ASSUME NEW k \in Key, NEW v \in ValidFor[k] \cup {Unset}, OutsiderAlters(t, k, v)
      PROVE  BrokerMoves
  <2>. DEFINE cfg == [broker[t].cfg EXCEPT ![k] = v]
              new == [broker[t] EXCEPT !.cfg = cfg]
  <2>1. Outside(t, new, {k})
    BY <1>6 DEF OutsiderAlters
  <2>2. v \in Value \cup {Unset}
    BY ConstantsAssumption
  <2>3. cfg \in Setting
    BY <1>t, <2>2 DEF Setting
  <2>. HIDE DEF cfg
  <2>4. new \in TopicType /\ new.id = broker[t].id /\ new.start = broker[t].start
        /\ new.end = broker[t].end
    BY <1>t, <2>3 DEF TopicType
  <2>. HIDE DEF new
  <2>. QED BY <1>t, <1>o, <2>1, <2>4
<1>. QED BY <1>1, <1>2, <1>3, <1>4, <1>5, <1>6

LEMMA DriverBroker ==
    ASSUME TypeInv, OffsetInv, Driver
    PROVE  BrokerMoves
<1>e. UNCHANGED edits
  BY DEF Driver, Reconcile, InspectExists, InspectStarts, InspectEnds, CreateTopic, Describe, Grow,
     Alter, DeleteTopic
<1>u. UNCHANGED broker => BrokerMoves
  BY <1>e, BrokerStays
<1>t. obj.topic \in Topic /\ want \in Specs \cup {NoWant} /\ alters \subseteq Key
  BY TypeIs DEF TypeInv, ObjType
<1>i. /\ broker[obj.topic] \in TopicType /\ broker[obj.topic].id \in 0..MaxEdits
      /\ broker[obj.topic].id <= edits /\ broker[obj.topic].cfg \in Setting
      /\ broker[obj.topic].start <= broker[obj.topic].end
      /\ broker[obj.topic].start \in Nat /\ broker[obj.topic].id \in Nat
  BY <1>t, TopicIs
<1>w. want.cfg \in Setting /\ want.parts \in PartCount
  BY <1>t, WantIs
<1>1. CASE CreateTopic
  <2>. DEFINE new == NewTopic(want.parts, want.rf, want.cfg, broker[obj.topic].id)
  <2>1. new \in TopicType /\ new.id = broker[obj.topic].id /\ new.start = 0 /\ new.end = 0
    BY <1>t, <1>i, NewTopicIs
  <2>2. pc = "create" /\ (UNCHANGED broker \/ broker' = [broker EXCEPT ![obj.topic] = new])
    <3>1. CASE broker[obj.topic].exists
      <4>1. [broker EXCEPT ![obj.topic] = IF @.exists THEN @ ELSE new] = broker
        BY <3>1, <1>t, TypeIs DEF TypeInv
      <4>. QED BY <1>1, <3>1, <4>1 DEF CreateTopic
    <3>2. CASE ~broker[obj.topic].exists
      BY <1>1, <3>2 DEF CreateTopic
    <3>. QED BY <3>1, <3>2
  <2>. HIDE DEF new
  <2>. QED BY <1>e, <1>u, <1>t, <1>i, <2>1, <2>2, OneTopicMoves
<1>2. CASE Grow
  <2>. DEFINE new == [broker[obj.topic] EXCEPT !.parts = want.parts]
  <2>1. UNCHANGED broker \/ broker' = [broker EXCEPT ![obj.topic] = new]
    BY <1>2 DEF Grow
  <2>2. /\ new \in TopicType /\ new.id = broker[obj.topic].id
        /\ new.start = broker[obj.topic].start /\ new.end = broker[obj.topic].end
    BY <1>i, <1>w DEF TopicType
  <2>. HIDE DEF new
  <2>. QED BY <1>e, <1>u, <1>t, <1>i, <2>1, <2>2, OneTopicMoves
<1>3. CASE Alter
  <2>. DEFINE cfg == [k \in Key |-> IF k \in alters THEN want.cfg[k] ELSE broker[obj.topic].cfg[k]]
              new == [broker[obj.topic] EXCEPT !.cfg = cfg]
  <2>1. UNCHANGED broker \/ broker' = [broker EXCEPT ![obj.topic] = new]
    BY <1>3 DEF Alter, AlterTopic
  <2>2. cfg \in Setting
    BY <1>i, <1>w DEF Setting
  <2>. HIDE DEF cfg
  <2>3. /\ new \in TopicType /\ new.id = broker[obj.topic].id
        /\ new.start = broker[obj.topic].start /\ new.end = broker[obj.topic].end
    BY <1>i, <2>2 DEF TopicType
  <2>. HIDE DEF new
  <2>. QED BY <1>e, <1>u, <1>t, <1>i, <2>1, <2>3, OneTopicMoves
<1>4. CASE DeleteTopic
  <2>. DEFINE new == [NoTopic EXCEPT !.id = broker[obj.topic].id]
  <2>1. pc = "delete" /\ (UNCHANGED broker \/ broker' = [broker EXCEPT ![obj.topic] = new])
    BY <1>4 DEF DeleteTopic, Without
  <2>2. new \in TopicType /\ new.id = broker[obj.topic].id /\ new.start = 0 /\ new.end = 0
    BY <1>i, ConstantRecords DEF NoTopic, TopicType
  <2>. HIDE DEF new
  <2>. QED BY <1>e, <1>u, <1>t, <1>i, <2>1, <2>2, OneTopicMoves
<1>5. CASE Reconcile \/ InspectExists \/ InspectStarts \/ InspectEnds \/ Describe
  BY <1>5, <1>u DEF Reconcile, InspectExists, InspectStarts, InspectEnds, Describe
<1>. QED BY <1>1, <1>2, <1>3, <1>4, <1>5 DEF Driver

LEMMA EditIs ==
    ASSUME TypeOK
    PROVE  /\ Edit => edits' \in 0..MaxEdits /\ faults' \in 0..MaxFaults /\ edits' = edits + 1
           /\ Fault \/ NoFault => faults' \in 0..MaxFaults
BY Bounds, TypeIs DEF Edit, Fault, NoFault

\* The steps of users, of the client's metadata cache and of the process.
Quiet == \/ \E t \in Topic : RefreshMetadata(t)
         \/ Restart \/ SetBrokerConfig \/ UNCHANGED vars
User == \/ \E t \in Topic, s \in Specs : UserCreates(t, s)
        \/ \E s \in Specs : UserEdits(s)
        \/ UserDeletes
Tenant == \E t \in Topic : \/ OutsiderCreates(t) \/ OutsiderDeletes(t) \/ OutsiderGrows(t)
                           \/ Produce(t) \/ Expire(t)
                           \/ \E k \in Key : \E v \in ValidFor[k] \cup {Unset} : OutsiderAlters(t, k, v)

LEMMA NextCases == [Next]_vars => Driver \/ Quiet \/ User \/ Tenant
<1>1. Contested \subseteq Topic
  BY ConstantsAssumption
<1>. QED BY <1>1 DEF Next, Environment, Quiet, User, Tenant

LEMMA BrokerStep ==
    ASSUME TypeInv, OffsetInv, [Next]_vars
    PROVE  BrokerMoves
<1>1. CASE Driver
  BY <1>1, DriverBroker
<1>2. CASE Tenant
  BY <1>2, OutsideMoves DEF Tenant
<1>3. CASE Quiet \/ User
  <2>1. UNCHANGED broker
    BY <1>3 DEF Quiet, User, RefreshMetadata, Restart, SetBrokerConfig, vars, world, UserCreates,
       UserEdits, UserDeletes
  <2>2. edits' = edits \/ edits' = edits + 1
    BY <1>3 DEF Quiet, User, RefreshMetadata, Restart, SetBrokerConfig, vars, world, UserCreates,
       UserEdits, UserDeletes, Edit
  <2>. QED BY <2>1, <2>2, BrokerStays
<1>. QED BY <1>1, <1>2, <1>3, NextCases

UserMoves ==
    /\ UNCHANGED <<broker, level, touched, meta, accepted, record, series, counters, pc, want, view,
                   alters>>
    /\ queued' = TRUE /\ Edit
    /\ obj' \in ObjType /\ obj'.phase # "none"
    /\ IF obj.phase = "none" THEN obj'.prov = "" ELSE obj'.topic = obj.topic /\ obj'.prov = obj.prov

LEMMA UserStep ==
    ASSUME TypeOK, User
    PROVE  UserMoves
<1>t. obj \in ObjType
  BY TypeIs
<1>1. ASSUME NEW t \in Topic, NEW s \in Specs, UserCreates(t, s) PROVE UserMoves
  <2>1. NoObj \in ObjType /\ NoObj.prov = ""
    BY <1>1, NoObjIs
  <2>2. obj' \in ObjType /\ obj'.phase = "live" /\ obj'.prov = ""
    BY <1>1, <2>1 DEF UserCreates, ObjType
  <2>. QED BY <1>1, <2>2 DEF UserCreates, UserMoves, memory, pass
<1>2. ASSUME NEW s \in Specs, UserEdits(s) PROVE UserMoves
  <2>1. obj.phase = "live" /\ obj' = [obj EXCEPT !.spec = s]
    BY <1>2 DEF UserEdits
  <2>2. /\ obj' \in ObjType /\ obj'.phase = obj.phase /\ obj'.topic = obj.topic
        /\ obj'.prov = obj.prov
    BY <1>t, <2>1 DEF ObjType
  <2>. QED BY <1>2, <2>1, <2>2 DEF UserEdits, UserMoves, memory, pass
<1>3. CASE UserDeletes
  <2>1. obj.phase = "live" /\ obj' = [obj EXCEPT !.phase = "deleting"]
    BY <1>3 DEF UserDeletes
  <2>2. /\ obj' \in ObjType /\ obj'.phase = "deleting" /\ obj'.topic = obj.topic
        /\ obj'.prov = obj.prov
    BY <1>t, <2>1 DEF ObjType
  <2>. QED BY <1>3, <2>1, <2>2 DEF UserDeletes, UserMoves, memory, pass
<1>. QED BY <1>1, <1>2, <1>3 DEF User

LEMMA TenantStep ==
    ASSUME Tenant
    PROVE  /\ UNCHANGED <<obj, queued, level, meta, accepted, record, series, counters, pc, want,
                          view, alters>>
           /\ Edit
           /\ \E t \in Topic : \E new : \E keys \in SUBSET Key : Outside(t, new, keys)
<1>1. PICK t \in Topic : \/ OutsiderCreates(t) \/ OutsiderDeletes(t) \/ OutsiderGrows(t)
                         \/ Produce(t) \/ Expire(t)
                         \/ \E k \in Key : \E v \in ValidFor[k] \cup {Unset} : OutsiderAlters(t, k, v)
  BY DEF Tenant
<1>2. \E new : \E keys \in SUBSET Key : Outside(t, new, keys)
  <2>1. Key \in SUBSET Key /\ {} \in SUBSET Key /\ \A k \in Key : {k} \in SUBSET Key
    OBVIOUS
  <2>2. CASE OutsiderCreates(t) \/ OutsiderDeletes(t)
    BY <2>1, <2>2 DEF OutsiderCreates, OutsiderDeletes
  <2>3. CASE OutsiderGrows(t) \/ Produce(t) \/ Expire(t)
    BY <2>1, <2>3 DEF OutsiderGrows, Produce, Expire
  <2>4. ASSUME NEW k \in Key, NEW v \in ValidFor[k] \cup {Unset}, OutsiderAlters(t, k, v)
        PROVE  \E new : \E keys \in SUBSET Key : Outside(t, new, keys)
    BY <2>1, <2>4 DEF OutsiderAlters
  <2>. QED BY <1>1, <2>2, <2>3, <2>4
<1>. QED BY <1>2 DEF Outside, memory, pass

\* The record and the series move together, or not at all.
LEMMA ExportStep ==
    ASSUME TypeOK, SeriesInv, [Next]_vars
    PROVE  record' \in RecordType /\ series' \subseteq SeriesType /\ Matches(record', series')
<1>t. /\ record \in RecordType /\ series \subseteq SeriesType /\ Matches(record, series)
      /\ level \in {"broker", "default"} /\ obj.topic \in Topic /\ want \in Specs \cup {NoWant}
      /\ alters \subseteq Key /\ view \in ViewType
  BY TypeIs DEF SeriesInv, ObjType
<1>u. CASE UNCHANGED <<record, series>>
  BY <1>t, <1>u
<1>n. CASE record' = NoRecord /\ series' = {}
  <2>1. Matches(NoRecord, {})
    BY ConstantRecords, NothingIs DEF Matches
  <2>. QED BY <1>n, <2>1, ConstantRecords
<1>x. ASSUME NEW x, Exported(x), SetExport(x)
      PROVE  record' \in RecordType /\ series' \subseteq SeriesType /\ Matches(record', series')
  BY <1>x DEF SetExport, Exported
<1>1. CASE Describe
  <2>1. [view EXCEPT !.cfg = Reported(obj.topic)].cfg = Reported(obj.topic)
    BY <1>t DEF ViewType
  <2>2. Reported(obj.topic) \in Setting
    BY <1>t, ReportedIs
  <2>3. Exported(RecordEffective(obj.topic, Reported(obj.topic)))
    BY <1>t, <2>2, RecordEffectiveExports
  <2>. QED BY <1>1, <1>u, <1>x, <2>1, <2>3 DEF Describe
<1>2. CASE Alter
  <2>. DEFINE cfg == [k \in Key |-> IF k \in alters THEN want.cfg[k] ELSE Unset]
  <2>1. cfg \in Setting
    BY <1>t, WantIs DEF Setting
  <2>2. Exported(RecordAltered(obj.topic, cfg))
    BY <1>t, <2>1, RecordEffectiveExports
  <2>3. UNCHANGED <<record, series>> \/ SetExport(RecordAltered(obj.topic, cfg))
    BY <1>2 DEF Alter, AlterTopic
  <2>. QED BY <1>u, <1>x, <2>2, <2>3
<1>3. CASE Reconcile
  BY <1>3, <1>u, <1>n DEF Reconcile, ForgetBuckety
<1>4. CASE InspectExists \/ InspectStarts \/ InspectEnds \/ CreateTopic \/ Grow \/ DeleteTopic
  BY <1>4, <1>u DEF InspectExists, InspectStarts, InspectEnds, CreateTopic, Grow, DeleteTopic, memory
<1>5. CASE Quiet
  BY <1>5, <1>u, <1>n DEF Quiet, RefreshMetadata, Restart, SetBrokerConfig, vars, memory
<1>6. CASE User
  BY <1>6, <1>u, UserStep DEF UserMoves
<1>7. CASE Tenant
  BY <1>7, <1>u, TenantStep
<1>. QED BY <1>1, <1>2, <1>3, <1>4, <1>5, <1>6, <1>7, NextCases DEF Driver

LEMMA MetadataIs ==
    ASSUME TypeOK, NEW t \in Topic
    PROVE  Metadata(t) \in MetaType
BY TypeIs DEF Metadata, MetaType, TopicType

LEMMA AcceptedStep ==
    ASSUME TypeOK, ForgetInv, [Next]_vars
    PROVE  accepted' \in [Topic -> Setting]
<1>t. /\ accepted \in [Topic -> Setting] /\ obj.topic \in Topic /\ want \in Specs \cup {NoWant}
      /\ want.cfg \in Setting /\ alters \subseteq Key
  BY TypeIs, WantIs DEF ObjType
<1>f. ForgetAccepted(obj.topic) => accepted' \in [Topic -> Setting]
  BY <1>t, NothingIs DEF ForgetAccepted
<1>1. CASE Driver
  <2>1. CASE Alter
    <3>. DEFINE new == [k \in Key |-> IF k \in alters THEN want.cfg[k] ELSE accepted[obj.topic][k]]
    <3>1. new \in Setting
      BY <1>t DEF Setting
    <3>2. UNCHANGED accepted \/ accepted' = [accepted EXCEPT ![obj.topic] = new]
      BY <2>1 DEF Alter, AlterTopic, RememberAccepted
    <3>. HIDE DEF new
    <3>. QED BY <1>t, <3>1, <3>2
  <2>. QED BY <1>t, <1>f, <1>1, <2>1, DriverStep DEF DriverMoves
<1>2. CASE Quiet
  <2>1. UNCHANGED accepted \/ accepted' = [t \in Topic |-> Nothing]
    BY <1>2 DEF Quiet, RefreshMetadata, Restart, SetBrokerConfig, vars, memory
  <2>. QED BY <1>t, <2>1, NothingIs
<1>3. CASE User \/ Tenant
  BY <1>3, <1>t, UserStep, TenantStep DEF UserMoves
<1>. QED BY <1>1, <1>2, <1>3, NextCases

-----------------------------------------------------------------------------
(* The parts of the invariant. *)

LEMMA TypeNext ==
    ASSUME TypeInv, SeriesInv, ForgetInv, OffsetInv, [Next]_vars
    PROVE  TypeInv'
<1>t. /\ TypeOK /\ obj \in ObjType /\ queued \in BOOLEAN /\ level \in {"broker", "default"}
      /\ meta \in [Topic -> MetaType] /\ counters \subseteq CounterType /\ pc \in PC
      /\ want \in Specs \cup {NoWant} /\ view \in ViewType /\ alters \subseteq Key
      /\ touched \subseteq (Topic \X Key) /\ edits \in 0..MaxEdits /\ faults \in 0..MaxFaults
      /\ obj.topic \in Topic
  BY TypeIs DEF TypeInv, ObjType
<1>a. /\ accepted' \in [Topic -> Setting] /\ record' \in RecordType /\ series' \subseteq SeriesType
      /\ broker' \in [Topic -> TopicType] /\ \A t \in Topic : broker'[t].id <= edits'
  BY <1>t, AcceptedStep, ExportStep, BrokerStep DEF BrokerMoves, TopicMoves
<1>. SUFFICES /\ obj' \in ObjType /\ queued' \in BOOLEAN /\ level' \in {"broker", "default"}
              /\ meta' \in [Topic -> MetaType] /\ counters' \subseteq CounterType /\ pc' \in PC
              /\ want' \in Specs \cup {NoWant} /\ view' \in ViewType /\ alters' \subseteq Key
              /\ touched' \subseteq (Topic \X Key) /\ edits' \in 0..MaxEdits
              /\ faults' \in 0..MaxFaults
  BY <1>a DEF TypeInv, TypeOK, ObjType, TopicType, MetaType, ViewType, RecordType, SeriesType,
     CounterType
<1>1. CASE Driver
  <2>1. PassTyped
    BY <1>1, <1>t, DriverStep DEF DriverMoves
  <2>2. UNCHANGED <<level, meta, edits>>
    BY <1>1 DEF Driver, Reconcile, InspectExists, InspectStarts, InspectEnds, CreateTopic, Describe,
       Grow, Alter, DeleteTopic, memory
  <2>3. queued' \in BOOLEAN
    BY <1>1, <1>t DEF Driver, Reconcile, InspectExists, InspectStarts, InspectEnds, CreateTopic,
       Describe, Grow, Alter, DeleteTopic
  <2>4. faults' \in 0..MaxFaults
    <3>1. Fault \/ NoFault \/ UNCHANGED faults
      BY <1>1 DEF Driver, Reconcile, InspectExists, InspectStarts, InspectEnds, CreateTopic,
         Describe, Grow, Alter, AlterTopic, DeleteTopic
    <3>. QED BY <1>t, <3>1, EditIs
  <2>5. counters' \subseteq CounterType
    <3>1. CASE Describe
      <4>1. ({obj.topic} \X ({"partitions"} \cup {k \in Key : want.cfg[k] # Unset})) \subseteq CounterType
        BY <1>t DEF CounterType
      <4>. QED BY <1>t, <3>1, <4>1 DEF Describe
    <3>2. CASE Driver /\ ~Describe
      BY <1>t, <3>2 DEF Driver, Reconcile, ForgetBuckety, InspectExists, InspectStarts, InspectEnds,
         CreateTopic, Grow, Alter, DeleteTopic, memory
    <3>. QED BY <1>1, <3>1, <3>2
  <2>6. touched' \subseteq (Topic \X Key)
    <3>1. ({obj.topic} \X alters) \subseteq (Topic \X Key)
      BY <1>t
    <3>2. \/ touched' \subseteq touched \/ touched' = touched \cup ({obj.topic} \X alters)
      BY <1>1 DEF Driver, Reconcile, InspectExists, InspectStarts, InspectEnds, CreateTopic,
         Describe, Grow, Alter, AlterTopic, DeleteTopic
    <3>. QED BY <1>t, <3>1, <3>2
  <2>. QED BY <1>t, <2>1, <2>2, <2>3, <2>4, <2>5, <2>6 DEF PassTyped
<1>2. CASE Quiet
  <2>1. ASSUME NEW t \in Topic, RefreshMetadata(t) PROVE meta' \in [Topic -> MetaType]
    BY <1>t, <2>1, MetadataIs DEF RefreshMetadata
  <2>2. meta' \in [Topic -> MetaType]
    <3>1. /\ [t \in Topic |-> NoMeta] \in [Topic -> MetaType]
          /\ [t \in Topic |-> Metadata(t)] \in [Topic -> MetaType]
      BY <1>t, MetadataIs, ConstantRecords
    <3>. QED BY <1>2, <1>t, <2>1, <3>1 DEF Quiet, Restart, SetBrokerConfig, vars, memory
  <2>3. /\ UNCHANGED <<obj, touched>> /\ queued' \in BOOLEAN /\ level' \in {"broker", "default"}
        /\ counters' \subseteq CounterType
    BY <1>2, <1>t DEF Quiet, RefreshMetadata, Restart, SetBrokerConfig, vars, memory, world
  <2>4. UNCHANGED <<pc, want, view, alters>> \/ EndPass
    BY <1>2 DEF Quiet, RefreshMetadata, Restart, SetBrokerConfig, vars, pass
  <2>5. /\ pc' \in PC /\ want' \in Specs \cup {NoWant} /\ view' \in ViewType /\ alters' \subseteq Key
    BY <1>t, <2>4, ConstantRecords DEF EndPass, PC
  <2>6. edits' \in 0..MaxEdits /\ faults' \in 0..MaxFaults
    BY <1>2, <1>t, EditIs DEF Quiet, RefreshMetadata, Restart, SetBrokerConfig, vars
  <2>. QED BY <1>t, <2>2, <2>3, <2>5, <2>6
<1>3. CASE User
  <2>1. UserMoves
    BY <1>3, <1>t, UserStep
  <2>. QED BY <1>t, <2>1, EditIs DEF UserMoves
<1>4. CASE Tenant
  <2>1. touched' \subseteq (Topic \X Key)
    <3>1. PICK t \in Topic : \E new : \E keys \in SUBSET Key : Outside(t, new, keys)
      BY <1>4, TenantStep
    <3>2. PICK keys \in SUBSET Key : \E new : Outside(t, new, keys)
      BY <3>1
    <3>3. ({t} \X keys) \subseteq (Topic \X Key)
      OBVIOUS
    <3>4. touched' = touched \cup ({t} \X keys)
      BY <3>2 DEF Outside
    <3>. QED BY <1>t, <3>3, <3>4
  <2>. QED BY <1>4, <1>t, <2>1, TenantStep, EditIs
<1>. QED BY <1>1, <1>2, <1>3, <1>4, NextCases

LEMMA ForgetNext ==
    ASSUME TypeInv, ForgetInv, [Next]_vars
    PROVE  ForgetInv'
<1>t. TypeOK /\ obj.phase \in {"none", "live", "deleting"} /\ obj \in ObjType /\ Topic # {}
  BY TypeIs DEF TypeInv, ObjType
<1>1. CASE Driver
  <2>1. CASE obj.phase = "none"
    <3>1. Reconcile
      BY <1>1, <2>1 DEF Driver, InspectExists, InspectStarts, InspectEnds, CreateTopic, Describe,
         Grow, Alter, DeleteTopic, ForgetInv
    <3>2. ForgetBuckety /\ UNCHANGED pc /\ pc = "idle"
      BY <2>1, <3>1 DEF Reconcile
    <3>. QED BY <3>2 DEF ForgetBuckety, ForgetInv
  <2>2. CASE obj.phase # "none"
    <3>1. DriverMoves
      BY <1>t, <1>1, DriverStep
    <3>. QED BY <2>2, <3>1 DEF DriverMoves, Kept, ForgetInv
  <2>. QED BY <2>1, <2>2
<1>2. CASE Quiet
  <2>1. UNCHANGED obj
    BY <1>2 DEF Quiet, RefreshMetadata, Restart, SetBrokerConfig, vars, world
  <2>2. \/ UNCHANGED <<pc, queued, series, counters>>
        \/ pc' = "idle" /\ series' = {} /\ counters' = {}
    BY <1>2 DEF Quiet, RefreshMetadata, Restart, SetBrokerConfig, vars, memory, pass, EndPass
  <2>. QED BY <2>1, <2>2 DEF ForgetInv
<1>3. CASE User
  BY <1>t, <1>3, UserStep DEF UserMoves, ForgetInv
<1>4. CASE Tenant
  BY <1>4, TenantStep DEF ForgetInv
<1>. QED BY <1>1, <1>2, <1>3, <1>4, NextCases

LEMMA CreateNext ==
    ASSUME TypeInv, ForgetInv, CreateInv, [Next]_vars
    PROVE  CreateInv'
<1>t. TypeOK /\ obj.topic \in Topic /\ accepted \in [Topic -> Setting]
  BY TypeIs DEF TypeInv, ObjType
<1>. SUFFICES ASSUME pc' = "create" PROVE accepted'[obj'.topic] = Nothing
  BY DEF CreateInv
<1>1. CASE Driver
  <2>1. ForgetAccepted(obj.topic) /\ Kept
    BY <1>1, <1>t, DriverStep DEF DriverMoves
  <2>. QED BY <1>t, <2>1 DEF ForgetAccepted, Kept
<1>2. CASE Quiet
  <2>1. UNCHANGED <<obj, pc, accepted>>
    BY <1>2 DEF Quiet, RefreshMetadata, Restart, SetBrokerConfig, vars, memory, pass, world, EndPass
  <2>. QED BY <2>1 DEF CreateInv
<1>3. CASE User
  <2>1. UserMoves
    BY <1>3, <1>t, UserStep
  <2>2. pc = "create" /\ obj.phase # "none" /\ obj'.topic = obj.topic /\ UNCHANGED accepted
    BY <2>1 DEF UserMoves, ForgetInv
  <2>. QED BY <2>2 DEF CreateInv
<1>4. CASE Tenant
  BY <1>4, TenantStep DEF CreateInv
<1>. QED BY <1>1, <1>2, <1>3, <1>4, NextCases

LEMMA OffsetNext ==
    ASSUME TypeInv, ForgetInv, OffsetInv, [Next]_vars
    PROVE  OffsetInv'
<1>t. TypeOK /\ obj.topic \in Topic /\ view \in ViewType
  BY TypeIs DEF TypeInv, ObjType
<1>b. BrokerMoves
  BY BrokerStep
<1>1. \A t \in Topic : broker'[t].start <= broker'[t].end
  BY <1>b DEF BrokerMoves, TopicMoves
<1>2. ASSUME pc' = "ends"
      PROVE  /\ view'.id <= broker'[obj'.topic].id
             /\ view'.id = broker'[obj'.topic].id => view'.offset <= broker'[obj'.topic].start
  <2>b. /\ broker[obj.topic] \in TopicType /\ broker'[obj.topic] \in TopicType
        /\ broker[obj.topic].id \in Nat /\ broker[obj.topic].start \in Nat
    BY <1>t, <1>b, TopicIs DEF BrokerMoves, TopicMoves
  <2>c. /\ broker'[obj.topic].id \in 0..MaxEdits /\ broker'[obj.topic].start \in 0..MaxRecords
    BY <2>b DEF TopicType
  <2>d. /\ broker'[obj.topic].id \in Nat /\ broker'[obj.topic].start \in Nat
    BY <2>c, Bounds
  <2>1. CASE InspectStarts
    <3>1. /\ UNCHANGED <<obj, broker>>
          /\ view' = [NoView EXCEPT !.id = broker[obj.topic].id, !.parts = broker[obj.topic].parts,
                                    !.offset = broker[obj.topic][Listing[1]]]
      BY <1>2, <2>1 DEF InspectStarts, Finish, EndPass
    <3>2. Listing[1] = "start"
      BY DEF Listing
    <3>3. view'.id = broker[obj.topic].id /\ view'.offset = broker[obj.topic].start
      BY <3>1, <3>2 DEF NoView
    <3>. QED BY <2>b, <3>1, <3>3
  <2>2. CASE pc = "ends" /\ UNCHANGED view /\ obj'.topic = obj.topic
    <3>1. /\ broker[obj.topic].id <= broker'[obj.topic].id
          /\ broker'[obj.topic].id = broker[obj.topic].id =>
                broker[obj.topic].start <= broker'[obj.topic].start
      BY <1>t, <1>b, <2>2 DEF BrokerMoves, TopicMoves
    <3>2. /\ view.id <= broker[obj.topic].id
          /\ view.id = broker[obj.topic].id => view.offset <= broker[obj.topic].start
      BY <2>2 DEF OffsetInv
    <3>3. view.id \in 0..MaxEdits /\ view.offset \in 0..MaxRecords
      BY <1>t DEF ViewType
    <3>4. view.id \in Nat /\ view.offset \in Nat
      BY <3>3, Bounds
    <3>5. /\ view.id <= broker'[obj.topic].id
          /\ view.id = broker'[obj.topic].id => view.offset <= broker'[obj.topic].start
      BY <2>b, <2>d, <3>1, <3>2, <3>4
    <3>. QED BY <2>2, <3>5
  <2>3. CASE Driver
    BY <1>2, <1>t, <2>1, <2>3, DriverStep DEF DriverMoves
  <2>4. CASE Quiet
    <3>1. UNCHANGED <<obj, pc, view>>
      BY <1>2, <2>4 DEF Quiet, RefreshMetadata, Restart, SetBrokerConfig, vars, pass, world, EndPass
    <3>. QED BY <1>2, <2>2, <3>1
  <2>5. CASE User
    <3>1. UserMoves
      BY <1>t, <2>5, UserStep
    <3>2. pc = "ends" /\ obj.phase # "none" /\ obj'.topic = obj.topic /\ UNCHANGED view
      BY <1>2, <3>1 DEF UserMoves, ForgetInv
    <3>. QED BY <2>2, <3>2
  <2>6. CASE Tenant
    BY <1>2, <2>2, <2>6, TenantStep
  <2>. QED BY <2>3, <2>4, <2>5, <2>6, NextCases
<1>. QED BY <1>1, <1>2 DEF OffsetInv

\* What a step may do to a key for the memory to stay honest.
Remembered(t, k) ==
    \/ accepted'[t][k] = Unset
    \/ <<t, k>> \in touched'
    \/ broker'[t].cfg[k] = accepted'[t][k]
    \/ /\ accepted'[t][k] = accepted[t][k] /\ broker'[t].cfg[k] = broker[t].cfg[k]
       /\ <<t, k>> \in touched => <<t, k>> \in touched'

LEMMA DriverRemembers ==
    ASSUME TypeInv, OffsetInv, CreateInv, ForgetInv, Driver, NEW t \in Topic, NEW k \in Key
    PROVE  Remembered(t, k)
<1>t. /\ TypeOK /\ obj.topic \in Topic /\ accepted \in [Topic -> Setting]
      /\ broker \in [Topic -> TopicType] /\ alters \subseteq Key
  BY TypeIs DEF TypeInv, ObjType
<1>o. broker[obj.topic] \in TopicType /\ broker[obj.topic].cfg \in Setting
  BY <1>t, TopicIs
<1>f. ASSUME UNCHANGED accepted \/ ForgetAccepted(obj.topic), UNCHANGED <<broker, touched>>
      PROVE  Remembered(t, k)
  BY <1>t, <1>f, NothingIs DEF ForgetAccepted, Remembered
<1>1. CASE CreateTopic
  <2>1. UNCHANGED accepted /\ accepted[obj.topic] = Nothing
    BY <1>1 DEF CreateTopic, CreateInv, memory
  <2>2. CASE t = obj.topic
    BY <2>1, <2>2, NothingIs DEF Remembered
  <2>3. CASE t # obj.topic
    <3>1. broker'[t] = broker[t]
      BY <1>1, <1>t, <2>3 DEF CreateTopic
    <3>2. <<t, k>> \in touched => <<t, k>> \in touched'
      BY <1>1, <2>3 DEF CreateTopic
    <3>. QED BY <2>1, <3>1, <3>2 DEF Remembered
  <2>. QED BY <2>2, <2>3
<1>2. CASE Grow
  <2>. DEFINE new == [broker[obj.topic] EXCEPT !.parts = want.parts]
  <2>1. UNCHANGED <<accepted, touched>>
    BY <1>2 DEF Grow, memory
  <2>2. UNCHANGED broker \/ broker' = [broker EXCEPT ![obj.topic] = new]
    BY <1>2 DEF Grow
  <2>3. new.cfg = broker[obj.topic].cfg
    BY <1>o DEF TopicType
  <2>. HIDE DEF new
  <2>4. broker'[t].cfg = broker[t].cfg
    BY <1>t, <2>2, <2>3
  <2>. QED BY <2>1, <2>4 DEF Remembered
<1>3. CASE Alter
  <2>. DEFINE cfg == [x \in Key |-> IF x \in alters THEN want.cfg[x] ELSE broker[obj.topic].cfg[x]]
              new == [broker[obj.topic] EXCEPT !.cfg = cfg]
              kept == [x \in Key |-> IF x \in alters THEN want.cfg[x] ELSE accepted[obj.topic][x]]
  <2>1. \/ /\ broker' = [broker EXCEPT ![obj.topic] = new]
           /\ accepted' = [accepted EXCEPT ![obj.topic] = kept]
           /\ touched' = touched \ ({obj.topic} \X alters)
        \/ /\ broker' = [broker EXCEPT ![obj.topic] = new] /\ UNCHANGED accepted
           /\ touched' = touched \cup ({obj.topic} \X alters)
        \/ UNCHANGED <<broker, accepted, touched>>
    BY <1>3 DEF Alter, AlterTopic, RememberAccepted
  <2>2. new.cfg = cfg
    BY <1>o DEF TopicType
  <2>3. /\ cfg[k] = IF k \in alters THEN want.cfg[k] ELSE broker[obj.topic].cfg[k]
        /\ kept[k] = IF k \in alters THEN want.cfg[k] ELSE accepted[obj.topic][k]
    OBVIOUS
  <2>. HIDE DEF cfg, new, kept
  <2>4. CASE UNCHANGED <<broker, accepted, touched>>
    BY <1>f, <2>4
  <2>5. CASE /\ broker' = [broker EXCEPT ![obj.topic] = new]
             /\ accepted' = [accepted EXCEPT ![obj.topic] = kept]
             /\ touched' = touched \ ({obj.topic} \X alters)
    BY <1>t, <2>2, <2>3, <2>5 DEF Remembered
  <2>6. CASE /\ broker' = [broker EXCEPT ![obj.topic] = new] /\ UNCHANGED accepted
             /\ touched' = touched \cup ({obj.topic} \X alters)
    BY <1>t, <2>2, <2>3, <2>6 DEF Remembered
  <2>. QED BY <2>1, <2>4, <2>5, <2>6
<1>4. CASE DeleteTopic
  <2>1. ForgetAccepted(obj.topic) /\ UNCHANGED touched
    BY <1>4 DEF DeleteTopic
  <2>2. t # obj.topic => broker'[t] = broker[t]
    BY <1>4, <1>t DEF DeleteTopic, Without
  <2>. QED BY <1>t, <2>1, <2>2, NothingIs DEF ForgetAccepted, Remembered
<1>5. CASE Reconcile \/ InspectExists \/ InspectStarts \/ InspectEnds \/ Describe
  <2>1. UNCHANGED <<broker, touched>>
    BY <1>5 DEF Reconcile, InspectExists, InspectStarts, InspectEnds, Describe
  <2>2. UNCHANGED accepted \/ ForgetAccepted(obj.topic)
    <3>1. ~Alter
      BY <1>5 DEF Reconcile, InspectExists, InspectStarts, InspectEnds, Describe, Alter
    <3>. QED BY <1>t, <1>5, <3>1, DriverStep DEF DriverMoves
  <2>. QED BY <1>f, <2>1, <2>2
<1>. QED BY <1>1, <1>2, <1>3, <1>4, <1>5 DEF Driver

LEMMA TenantRemembers ==
    ASSUME TypeInv, OffsetInv, Tenant, NEW t \in Topic, NEW k \in Key
    PROVE  Remembered(t, k)
<1>t. broker \in [Topic -> TopicType]
  BY TypeIs DEF TypeInv
<1>u. UNCHANGED accepted
  BY TenantStep
<1>1. PICK u \in Topic : \/ OutsiderCreates(u) \/ OutsiderDeletes(u) \/ OutsiderGrows(u)
                         \/ Produce(u) \/ Expire(u)
                         \/ \E x \in Key : \E v \in ValidFor[x] \cup {Unset} : OutsiderAlters(u, x, v)
  BY DEF Tenant
<1>o. broker[u] \in TopicType /\ broker[u].cfg \in Setting
  BY <1>t, TopicIs
<1>2. ASSUME NEW new, NEW keys \in SUBSET Key, Outside(u, new, keys),
             k \in keys \/ new.cfg[k] = broker[u].cfg[k]
      PROVE  Remembered(t, k)
  BY <1>2, <1>t, <1>u DEF Outside, Remembered
<1>3. CASE OutsiderCreates(u) \/ OutsiderDeletes(u)
  BY <1>2, <1>3 DEF OutsiderCreates, OutsiderDeletes
<1>4. CASE OutsiderGrows(u)
  <2>. DEFINE new == [broker[u] EXCEPT !.parts = @ + 1]
  <2>1. Outside(u, new, {}) /\ new.cfg = broker[u].cfg
    BY <1>4, <1>o DEF OutsiderGrows, TopicType
  <2>. HIDE DEF new
  <2>. QED BY <1>2, <2>1
<1>5. CASE Produce(u)
  <2>. DEFINE new == [broker[u] EXCEPT !.end = @ + 1]
  <2>1. Outside(u, new, {}) /\ new.cfg = broker[u].cfg
    BY <1>5, <1>o DEF Produce, TopicType
  <2>. HIDE DEF new
  <2>. QED BY <1>2, <2>1
<1>6. CASE Expire(u)
  <2>. DEFINE new == [broker[u] EXCEPT !.start = @ + 1]
  <2>1. Outside(u, new, {}) /\ new.cfg = broker[u].cfg
    BY <1>6, <1>o DEF Expire, TopicType
  <2>. HIDE DEF new
  <2>. QED BY <1>2, <2>1
<1>7. ASSUME NEW x \in Key, NEW v \in ValidFor[x] \cup {Unset}, OutsiderAlters(u, x, v)
      PROVE  Remembered(t, k)
  <2>. DEFINE new == [broker[u] EXCEPT !.cfg[x] = v]
  <2>1. Outside(u, new, {x})
    BY <1>7 DEF OutsiderAlters
  <2>2. new.cfg = [broker[u].cfg EXCEPT ![x] = v]
    BY <1>o DEF TopicType
  <2>3. k \in {x} \/ new.cfg[k] = broker[u].cfg[k]
    BY <1>o, <2>2 DEF Setting
  <2>. HIDE DEF new
  <2>4. {x} \in SUBSET Key
    OBVIOUS
  <2>. QED BY <1>2, <2>1, <2>3, <2>4
<1>. QED BY <1>1, <1>3, <1>4, <1>5, <1>6, <1>7

LEMMA MemoryNext ==
    ASSUME TypeInv, OffsetInv, CreateInv, ForgetInv, MemoryHonest, [Next]_vars
    PROVE  MemoryHonest'
<1>1. ASSUME NEW t \in Topic, NEW k \in Key PROVE Remembered(t, k)
  <2>1. CASE Driver
    BY <2>1, DriverRemembers
  <2>2. CASE Tenant
    BY <2>2, TenantRemembers
  <2>3. CASE Quiet
    <3>1. UNCHANGED <<broker, touched>>
      BY <2>3 DEF Quiet, RefreshMetadata, Restart, SetBrokerConfig, vars, world
    <3>2. UNCHANGED accepted \/ accepted' = [u \in Topic |-> Nothing]
      BY <2>3 DEF Quiet, RefreshMetadata, Restart, SetBrokerConfig, vars, memory
    <3>. QED BY <3>1, <3>2, NothingIs DEF Remembered
  <2>4. CASE User
    <3>1. UNCHANGED <<broker, touched, accepted>>
      BY <2>4, UserStep DEF TypeInv, UserMoves
    <3>. QED BY <3>1 DEF Remembered
  <2>. QED BY <2>1, <2>2, <2>3, <2>4, NextCases
<1>. QED BY <1>1 DEF MemoryHonest, Remembered

-----------------------------------------------------------------------------
(* The invariant and what it implies. *)

LEMMA InvInit == Init => Inv
<1>. SUFFICES ASSUME Init PROVE Inv
  OBVIOUS
<1>1. PICK t \in Topic, s \in Specs : obj = [NoObj EXCEPT !.phase = "live", !.topic = t, !.spec = s]
  BY DEF Init
<1>2. NoObj \in ObjType
  BY <1>1, NoObjIs
<1>3. obj \in ObjType /\ obj.phase = "live"
  BY <1>1, <1>2 DEF ObjType
<1>4. NewTopic(0, 0, Nothing, 0) \in TopicType /\ NewTopic(0, 0, Nothing, 0).id = 0
      /\ NewTopic(0, 0, Nothing, 0).start = 0 /\ NewTopic(0, 0, Nothing, 0).end = 0
  <2>1. NoWant.parts = 0 /\ NoWant.rf = 0 /\ NoWant.cfg = Nothing
    BY DEF NoWant
  <2>. QED BY <2>1, Zeroes, NewTopicIs
<1>5. NoTopic \in TopicType /\ NoTopic.id = 0 /\ NoTopic.start = 0 /\ NoTopic.end = 0
  BY ConstantRecords DEF NoTopic
<1>6. PICK there \in SUBSET Contested :
         broker = [u \in Topic |-> IF u \in there THEN NewTopic(0, 0, Nothing, 0) ELSE NoTopic]
  BY DEF Init
<1>7. /\ broker \in [Topic -> TopicType]
      /\ \A u \in Topic : broker[u].id = 0 /\ broker[u].start = 0 /\ broker[u].end = 0
  BY <1>4, <1>5, <1>6
<1>8. meta \in [Topic -> MetaType]
  <2>1. \A u \in Topic : Metadata(u) \in MetaType
    BY <1>7 DEF Metadata, MetaType, TopicType
  <2>. QED BY <2>1, ConstantRecords DEF Init
<1>9. TypeOK
  <2>1. /\ queued \in BOOLEAN /\ level \in {"broker", "default"}
        /\ accepted \in [Topic -> Setting] /\ record \in RecordType /\ series \subseteq SeriesType
        /\ counters \subseteq CounterType /\ pc \in PC /\ want \in Specs \cup {NoWant}
        /\ view \in ViewType /\ alters \subseteq Key /\ touched \subseteq (Topic \X Key)
    BY ConstantRecords, NothingIs DEF Init, PC
  <2>2. edits \in 0..MaxEdits /\ faults \in 0..MaxFaults
    BY Bounds DEF Init
  <2>. QED BY <1>3, <1>7, <1>8, <2>1, <2>2, TypeIs
<1>10. TypeInv
  BY <1>7, <1>9 DEF TypeInv, Init
<1>11. SeriesInv
  BY ConstantRecords, NothingIs DEF Init, SeriesInv, Matches
<1>12. ForgetInv
  BY <1>3 DEF ForgetInv
<1>13. CreateInv
  BY DEF Init, CreateInv
<1>14. OffsetInv
  BY <1>7 DEF Init, OffsetInv
<1>15. MemoryHonest
  BY NothingIs DEF Init, MemoryHonest
<1>. QED BY <1>10, <1>11, <1>12, <1>13, <1>14, <1>15 DEF Inv

LEMMA InvNext == Inv /\ [Next]_vars => Inv'
<1>. SUFFICES ASSUME Inv, [Next]_vars PROVE Inv'
  OBVIOUS
<1>0. TypeInv /\ SeriesInv /\ ForgetInv /\ CreateInv /\ OffsetInv /\ MemoryHonest /\ TypeOK
  BY DEF Inv, TypeInv
<1>1. SeriesInv'
  BY <1>0, ExportStep DEF SeriesInv
<1>. QED BY <1>0, <1>1, TypeNext, ForgetNext, CreateNext, OffsetNext, MemoryNext DEF Inv

\* The inductive invariant holds in every reachable state: whatever broker call
\* a pass, another client or a restart comes between, memory, export record,
\* series and the facts a verdict of InspectBuckety adds up stay in step.
THEOREM Invariance == Spec => []Inv
BY InvInit, InvNext, PTL DEF Spec

\* The variables keep their types: offsets and topic ids within their bounds,
\* and everything exported under a topic, a key, a source and a value.
THEOREM TypeCorrect == Spec => []TypeOK
<1>1. Inv => TypeOK
  BY DEF Inv, TypeInv
<1>. QED BY <1>1, Invariance, PTL

\* entry, setConfig, setPolicy and the removals of recordEffective keep the
\* export record and the gauges in step, whatever order passes, renamed
\* topics, broker-side reconfigurations and restarts come in.
THEOREM GaugesMatchRecord == Spec => []SeriesMatchRecord
<1>1. Inv => SeriesMatchRecord
  <2>. SUFFICES ASSUME Inv PROVE SeriesMatchRecord
    OBVIOUS
  <2>1. record \in RecordType /\ series \subseteq SeriesType /\ Matches(record, series)
    BY TypeIs DEF Inv, TypeInv, SeriesInv
  <2>. DEFINE shown == {<<s.topic, s.key, s.source>> : s \in series}
              keys == {x \in Key : record.source[x] # Unset}
              named == {<<record.topic, k, record.source[k]>> : k \in keys}
  <2>2. ASSUME NEW s \in series PROVE <<s.topic, s.key, s.source>> \in named
    <3>1. s \in SeriesType
      BY <2>1
    <3>2. s.key \in Key /\ s.source \in Source
      BY <3>1 DEF SeriesType
    <3>3. s.topic = record.topic /\ s.source = record.source[s.key]
      BY <2>1 DEF Matches
    <3>. QED BY <3>2, <3>3, SourcesAreSet
  <2>3. ASSUME NEW k \in keys PROVE <<record.topic, k, record.source[k]>> \in shown
    <3>1. PICK s \in series : s.key = k
      BY <2>1 DEF Matches
    <3>2. s.topic = record.topic /\ s.source = record.source[k]
      BY <2>1, <3>1 DEF Matches
    <3>. QED BY <3>1, <3>2
  <2>4. shown = named
    BY <2>2, <2>3
  <2>. QED BY <2>1, <2>4 DEF SeriesMatchRecord, Matches
<1>. QED BY <1>1, Invariance, PTL

\* ForgetBuckety reaches every Buckety that goes: its key is queued when the
\* finalizer leaves, and only the pass that finds no object clears the queue.
THEOREM GoneIsForgotten == Spec => []NoSeriesLeft
<1>1. Inv => NoSeriesLeft
  BY DEF Inv, ForgetInv, NoSeriesLeft
<1>. QED BY <1>1, Invariance, PTL

\* rememberAccepted runs after the broker's acknowledgement only, and
\* createTopic and DeleteBuckety forget first, so that acceptedUnreported never
\* vouches for a value that a call of this driver replaced.
THEOREM RememberedIsApplied == Spec => []MemoryHonest
<1>1. Inv => MemoryHonest
  BY DEF Inv
<1>. QED BY <1>1, Invariance, PTL

\* Start offsets listed first bound the end offsets listed after them.
LEMMA EmptyIs ==
    ASSUME TypeInv, OffsetInv, InspectEnds, Empty(broker[obj.topic]),
           broker[obj.topic].id = view.id
    PROVE  broker[obj.topic].start = broker[obj.topic].end
<1>. DEFINE b == broker[obj.topic]
            listed == [o \in {"start", "end"} |-> IF o = Listing[1] THEN view.offset ELSE b[o]]
<1>t. obj.topic \in Topic /\ view \in ViewType
  BY TypeIs DEF TypeInv, ObjType
<1>1. b.start \in Nat /\ b.end \in Nat /\ b.start <= b.end
  BY <1>t, TopicIs
<1>2. view.offset \in 0..MaxRecords
  BY <1>t DEF ViewType
<1>3. view.offset \in Nat
  BY <1>2, Bounds
<1>4. view.offset <= b.start
  BY DEF InspectEnds, OffsetInv
<1>5. Listing[1] = "start"
  BY DEF Listing
<1>6. listed["start"] = view.offset /\ listed["end"] = b["end"]
  BY <1>5
<1>7. b.end <= view.offset
  BY <1>6 DEF Empty
<1>. QED BY <1>1, <1>3, <1>4, <1>7

\* InspectBuckety lists the start offsets before the end offsets, so that a
\* topic it calls empty had nothing to read when the last call answered.
THEOREM VerdictHolds == Spec => VerdictTrue
<1>. DEFINE b == broker[obj.topic]
            verdict == (obj.prov = "" /\ obj'.prov # "" /\ obj.phase # "none") =>
                          IF obj'.prov = "Created" THEN ~b.exists
                          ELSE want.adoption = "Adopt" \/ b.id # view.id \/ b.start = b.end
<1>1. ASSUME Inv, [Next]_vars PROVE verdict
  <2>. SUFFICES ASSUME obj.prov = "", obj'.prov # "", obj.phase # "none"
                PROVE  IF obj'.prov = "Created" THEN ~b.exists
                       ELSE want.adoption = "Adopt" \/ b.id # view.id \/ b.start = b.end
    OBVIOUS
  <2>0. TypeInv /\ TypeOK /\ ForgetInv /\ OffsetInv
    BY <1>1 DEF Inv, TypeInv
  <2>t. obj \in ObjType /\ obj.topic \in Topic /\ view \in ViewType
    BY <2>0, TypeIs DEF ObjType
  <2>1. ~(Quiet \/ User \/ Tenant)
    <3>1. Quiet => UNCHANGED obj
      BY DEF Quiet, RefreshMetadata, Restart, SetBrokerConfig, vars, world
    <3>. QED BY <2>0, <3>1, UserStep, TenantStep DEF UserMoves
  <2>2. Driver
    BY <1>1, <2>1, NextCases
  <2>3. InspectExists \/ InspectEnds
    BY <2>0, <2>2, DriverStep DEF DriverMoves
  <2>f. ASSUME NEW reason, Finish(obj, reason) PROVE FALSE
    BY <2>f, <2>t DEF Finish, ObjType
  <2>4. CASE InspectExists
    <3>1. ~b.exists /\ BeginEnsure([obj EXCEPT !.prov = "Created"], want)
      BY <2>4, <2>f DEF InspectExists, TopicExists
    <3>2. obj'.prov = "Created"
      BY <2>t, <3>1 DEF BeginEnsure, ObjType
    <3>. QED BY <3>1, <3>2
  <2>5. CASE InspectEnds
    <3>0. Empty(b) \in BOOLEAN
      BY DEF Empty
    <3>1. /\ Empty(b) \/ want.adoption = "Adopt"
          /\ BeginEnsure([obj EXCEPT !.prov = "Adopted"], want)
      <4>1. IF Empty(b) \/ want.adoption = "Adopt"
            THEN BeginEnsure([obj EXCEPT !.prov = "Adopted"], want)
            ELSE Finish(obj, "BackendResourceExists") /\ UNCHANGED accepted
        BY <2>5, <2>f DEF InspectEnds
      <4>. QED BY <2>f, <4>1
    <3>2. obj'.prov = "Adopted"
      BY <2>t, <3>1 DEF BeginEnsure, ObjType
    <3>3. Empty(b) /\ b.id = view.id => b.start = b.end
      BY <2>0, <2>5, EmptyIs
    <3>. QED BY <3>1, <3>2, <3>3
  <2>. QED BY <2>3, <2>4, <2>5
<1>2. Inv /\ [Next]_vars => [verdict]_vars
  BY <1>1
<1>. QED BY <1>2, Invariance, PTL DEF Spec, VerdictTrue
==============================================================================
