----------------------------- MODULE KadmTopics -----------------------------
(***************************************************************************)
(* The kadm driver (pkg/drivers/kadm): the topic of one Buckety is         *)
(* inspected, created, aligned and deleted on a Kafka-protocol broker,     *)
(* while other clients of the cluster edit, recreate and write to it.      *)
(*                                                                         *)
(* Three pieces of process memory can go wrong across passes: the client's *)
(* metadata cache, the values the broker acknowledged for keys it never    *)
(* reports back (Driver.accepted), and the export record that says which   *)
(* series the registry of metrics holds (effectiveExport).                 *)
(*                                                                         *)
(* A pass is cut at every broker call; one pass runs at a time.  The       *)
(* reconciler around it is reduced to the order of its calls               *)
(* (BucketyReconciler has the rest), and a Buckety of the same name may    *)
(* follow a deleted one.  One partition's offsets stand for all.  Keys     *)
(* have the values the broker would report; values in Numeric parse as     *)
(* numbers.  Counters are the set of series that exist, not their values.  *)
(***************************************************************************)
EXTENDS Naturals, FiniteSets

CONSTANTS
    Topic,
    Contested,    \* the topics other clients of the cluster use too
    Key,          \* topic configuration keys a Buckety manages
    PolicyKey,    \* cleanup.policy
    EffectiveKey, \* effectiveKeys: the keys with a numeric gauge
    Hidden,       \* keys the broker accepts and does not report
    Value,
    Numeric,      \* the values strconv.ParseFloat reads
    ValidFor,     \* the values the broker accepts for each key
    Inherited,    \* value of each key at the "broker" and "default" level
    Specs,        \* what users write: parts, rf, cfg, adoption, policy
    DefaultParts, \* num.partitions of the broker
    DefaultRF,    \* default.replication.factor of the broker
    MaxParts,     \* bound: partitions another client grows a topic to
    MaxRecords,   \* bound: end offset
    MaxEdits,     \* bound: steps of users and of other clients
    MaxFaults     \* bound: failed calls, refusals and restarts

Unset == "unset"
Source == {"topic", "broker", "default"}
Setting == [Key -> Value \cup {Unset}]
Adoption == {"AdoptEmpty", "Adopt"}
Policy == {"Retain", "Delete"}
Reason == {"", "InspectFailed", "BackendResourceExists", "ParameterDrift",
           "EnsureFailed", "DeleteFailed", "EnsuredOnBackend"}
PC == {"idle", "exists", "starts", "ends", "describe", "grow", "alter", "create", "delete"}

ASSUME ConstantsAssumption ==
    /\ Contested \subseteq Topic
    /\ PolicyKey \in Key /\ EffectiveKey \subseteq Key \ {PolicyKey} /\ Hidden \subseteq Key
    /\ Numeric \subseteq Value /\ Unset \notin Value
    /\ ValidFor \in [Key -> SUBSET Value]
    /\ Inherited \in [{"broker", "default"} -> [Key -> Value]]
    /\ Specs \subseteq [parts : Nat, rf : Nat, cfg : Setting, adoption : Adoption,
                        policy : Policy]
    /\ Specs # {}
    /\ {DefaultParts, DefaultRF} \subseteq Nat \ {0}
    /\ {MaxParts, MaxRecords, MaxEdits, MaxFaults} \subseteq Nat

VARIABLES
    obj,       \* the Buckety
    queued,    \* its key is in the work queue
    broker,    \* the topics
    level,     \* where inherited values come from
    meta,      \* the client's metadata cache
    accepted,  \* Driver.accepted
    record,    \* effectiveExport: the entry of the Buckety
    series,    \* the gauge series the metrics registry holds for it
    counters,  \* the counter series the metrics registry holds for it
    pc,        \* the pass in flight: next broker call
    want,      \* ... the spec it read
    view,      \* ... topicView, or the start offsets while inspecting
    alters,    \* ... the config delta it is about to send
    touched,   \* history: <<topic, key>> changed since the last acknowledged alter, by
               \* another client or by an alter whose answer was lost
    edits, faults

memory == <<meta, accepted, record, series, counters>>
pass == <<pc, want, view, alters>>
world == <<obj, broker, level>>
vars == <<obj, queued, broker, level, meta, accepted, record, series, counters,
          pc, want, view, alters, touched, edits, faults>>

Nothing == [k \in Key |-> Unset]
NoWant == [parts |-> 0, rf |-> 0, cfg |-> Nothing, adoption |-> "AdoptEmpty", policy |-> "Retain"]
NoObj == [phase |-> "none", topic |-> CHOOSE t \in Topic : TRUE, spec |-> NoWant,
          prov |-> "", ready |-> ""]
NoTopic == [exists |-> FALSE, id |-> 0, parts |-> 0, rf |-> 0, cfg |-> Nothing,
            start |-> 0, end |-> 0]
NoMeta == [exists |-> FALSE, parts |-> 0, rf |-> 0]
NoRecord == [topic |-> Unset, source |-> Nothing, policy |-> Unset]
NoView == [id |-> 0, parts |-> 0, rf |-> 0, cfg |-> Nothing, offset |-> 0]

PartCount == 0..MaxParts \cup {s.parts : s \in Specs} \cup {DefaultParts}
ReplicaCount == {0, DefaultRF} \cup {s.rf : s \in Specs}

TypeOK ==
    /\ obj \in [phase : {"none", "live", "deleting"}, topic : Topic, spec : Specs \cup {NoWant},
                prov : {"", "Created", "Adopted"}, ready : Reason]
    /\ queued \in BOOLEAN
    /\ broker \in [Topic -> [exists : BOOLEAN, id : 0..MaxEdits, parts : PartCount,
                             rf : ReplicaCount, cfg : Setting,
                             start : 0..MaxRecords, end : 0..MaxRecords]]
    /\ level \in {"broker", "default"}
    /\ meta \in [Topic -> [exists : BOOLEAN, parts : PartCount, rf : ReplicaCount]]
    /\ accepted \in [Topic -> Setting]
    /\ record \in [topic : Topic \cup {Unset}, source : [Key -> Source \cup {Unset}],
                   policy : Value \cup {Unset}]
    /\ series \subseteq [topic : Topic, key : Key, source : Source, value : Value]
    /\ counters \subseteq (Topic \X (Key \cup {"partitions"}))
    /\ pc \in PC
    /\ want \in Specs \cup {NoWant}
    /\ view \in [id : 0..MaxEdits, parts : PartCount, rf : ReplicaCount, cfg : Setting,
                 offset : 0..MaxRecords]
    /\ alters \subseteq Key
    /\ touched \subseteq (Topic \X Key)
    /\ edits \in 0..MaxEdits /\ faults \in 0..MaxFaults

Edit == edits < MaxEdits /\ edits' = edits + 1 /\ UNCHANGED faults
Fault == faults < MaxFaults /\ faults' = faults + 1
NoFault == UNCHANGED faults

-----------------------------------------------------------------------------
(* The broker. *)

\* DescribeConfigs: value and source of every key the broker reports.
Reported(t) == [k \in Key |-> IF k \in Hidden THEN Unset
                              ELSE IF broker[t].cfg[k] # Unset THEN broker[t].cfg[k]
                              ELSE Inherited[level][k]]
SourceOf(t, k) == IF broker[t].cfg[k] # Unset THEN "topic" ELSE level

NewTopic(parts, rf, cfg, id) ==
    [exists |-> TRUE, id |-> id, parts |-> IF parts = 0 THEN DefaultParts ELSE parts,
     rf |-> IF rf = 0 THEN DefaultRF ELSE rf, cfg |-> cfg, start |-> 0, end |-> 0]

Metadata(t) == [exists |-> broker[t].exists, parts |-> broker[t].parts, rf |-> broker[t].rf]

-----------------------------------------------------------------------------
(* effective.go: the export record and the series, both under one mutex. *)

\* The record and the series of one Buckety together.
Export(e, s) == [record |-> e, series |-> s]

\* effectiveExport.entry.
Entry(t) ==
    IF record.topic = t THEN Export(record, series)
    ELSE Export([NoRecord EXCEPT !.topic = t], {s \in series : s.topic # record.topic})

\* The series of k that the record names.
Named(e, k) ==
    {s \in [topic : {e.topic}, key : {k}, source : {e.source[k]} \cap Source, value : Value] :
        k = PolicyKey => s.value = e.policy}

\* setConfig and setPolicy for every key of put, from the given sources.
\* (Mutant: the series of the old source stays behind.)
PutKeepsOld(x, put, source) ==
    Export([x.record EXCEPT
              !.source = [k \in Key |-> IF k \in DOMAIN put THEN source[k] ELSE @[k]],
              !.policy = IF PolicyKey \in DOMAIN put THEN put[PolicyKey] ELSE @],
           {s \in x.series : ~\E k \in DOMAIN put : s.key = k /\ s.source = source[k]}
           \cup {[topic |-> x.record.topic, key |-> k, source |-> source[k], value |-> put[k]] :
                    k \in DOMAIN put})
Put(x, put, source) ==
    Export([x.record EXCEPT
              !.source = [k \in Key |-> IF k \in DOMAIN put THEN source[k] ELSE @[k]],
              !.policy = IF PolicyKey \in DOMAIN put THEN put[PolicyKey] ELSE @],
           {s \in x.series \ UNION {Named(x.record, k) : k \in DOMAIN put} :
               ~\E k \in DOMAIN put \ {PolicyKey} :
                    s.topic = x.record.topic /\ s.key = k /\ s.source = source[k]}
           \cup {[topic |-> x.record.topic, key |-> k, source |-> source[k], value |-> put[k]] :
                    k \in DOMAIN put})

\* (Mutant: a key the broker stops reporting keeps its series.)
DropNothing(x, keys) == x
Drop(x, keys) ==
    Export([x.record EXCEPT !.source = [k \in Key |-> IF k \in keys THEN Unset ELSE @[k]],
                            !.policy = IF PolicyKey \in keys THEN Unset ELSE @],
           x.series \ UNION {Named(x.record, k) : k \in keys})

Restricted(cfg, keys) == [k \in keys |-> cfg[k]]
\* The keys with a series: reported, and a number where the gauge is one.
Exportable(cfg) ==
    {k \in EffectiveKey : cfg[k] \in Numeric} \cup {k \in {PolicyKey} : cfg[k] # Unset}

\* recordEffective.
RecordEffective(t, cfg) ==
    LET shown == Exportable(cfg)
    IN  Put(Drop(Entry(t), (EffectiveKey \cup {PolicyKey}) \ shown),
            Restricted(cfg, shown), [k \in shown |-> SourceOf(t, k)])

\* recordAltered: acknowledged values are now topic overrides.
RecordAltered(t, cfg) ==
    LET shown == Exportable(cfg) IN Put(Entry(t), Restricted(cfg, shown), [k \in shown |-> "topic"])

SetExport(x) == record' = x.record /\ series' = x.series

\* ForgetBuckety.
\* (Mutant: the change counters stay behind.)
ForgetGaugesOnly == record' = NoRecord /\ series' = {} /\ UNCHANGED counters
ForgetBuckety == record' = NoRecord /\ series' = {} /\ counters' = {}

-----------------------------------------------------------------------------
(* Driver.accepted. *)

\* (Mutant: an unreported key is never taken as applied.)
NeverAccepted(t, k, v) == FALSE
AcceptedUnreported(t, k, v) == accepted[t][k] = v

RememberAccepted(t, cfg, keys) ==
    accepted' = [accepted EXCEPT ![t] = [k \in Key |-> IF k \in keys THEN cfg[k] ELSE @[k]]]
ForgetAccepted(t) == accepted' = [accepted EXCEPT ![t] = Nothing]

-----------------------------------------------------------------------------
(* Moving the pass along. *)

Goto(step) == pc' = step
EndPass == pc' = "idle" /\ want' = NoWant /\ view' = NoView /\ alters' = {}
\* The pass ends with Ready under a reason; an error or a change requeues.
Finish(o, reason) == obj' = [o EXCEPT !.ready = reason] /\ EndPass

\* describeTopic up to DescribeConfigs: ListTopics answers from the cache.
\* The accepted values are forgotten when the topic is about to be created.
BeginEnsure(o, s) ==
    LET m == meta[o.topic] IN
    /\ obj' = o /\ want' = s /\ alters' = {}
    /\ view' = [NoView EXCEPT !.parts = m.parts, !.rf = m.rf]
    /\ IF m.exists THEN Goto("describe") /\ UNCHANGED accepted
                   ELSE Goto("create") /\ ForgetAccepted(o.topic)

\* The config delta of alignTopic.
Delta(t, cfg) ==
    {k \in Key : /\ want.cfg[k] # Unset
                 /\ cfg[k] # want.cfg[k]
                 /\ ~(cfg[k] = Unset /\ AcceptedUnreported(t, k, want.cfg[k]))}

\* alignTopic after the partitions: replication factor, then the delta.
AlignConfigs(v) ==
    LET delta == Delta(obj.topic, v.cfg)
        drift == want.rf > 0 /\ v.rf # 0 /\ v.rf # want.rf
    IN  \/ /\ drift /\ Finish(obj, "ParameterDrift")
        \/ /\ ~drift /\ delta = {} /\ Finish(obj, "EnsuredOnBackend")
        \/ /\ ~drift /\ delta # {} /\ Goto("alter") /\ alters' = delta /\ view' = v
           /\ UNCHANGED <<obj, want>>

-----------------------------------------------------------------------------
(* The pass. *)

\* Reconcile from its read of the Buckety to the first broker call.  A pass
\* starts from the work queue or from the periodic re-check.
Reconcile ==
    /\ pc = "idle" /\ (queued \/ obj.phase # "none")
    /\ queued' = (obj.phase = "deleting" /\ ~(obj.prov = "Created" /\ obj.spec.policy = "Delete"))
    /\ \/ /\ obj.phase = "none" /\ ForgetBuckety
          /\ UNCHANGED <<obj, accepted, pc, want, view, alters>>
       \/ /\ obj.phase = "live" /\ obj.prov = "" /\ Goto("exists")
          /\ want' = obj.spec
          /\ UNCHANGED <<obj, accepted, record, series, counters, view, alters>>
       \/ /\ obj.phase = "live" /\ obj.prov # "" /\ BeginEnsure(obj, obj.spec)
          /\ UNCHANGED <<record, series, counters>>
       \/ /\ obj.phase = "deleting"
          /\ IF obj.prov = "Created" /\ obj.spec.policy = "Delete"
             THEN Goto("delete") /\ UNCHANGED obj
             ELSE obj' = NoObj /\ UNCHANGED pc
          /\ UNCHANGED <<accepted, record, series, counters, want, view, alters>>
    /\ UNCHANGED <<broker, level, meta, touched, edits, faults>>

\* topicExists: a metadata request the cache does not answer.
TopicExists(t) == broker[t].exists
InspectExists ==
    /\ pc = "exists"
    /\ \/ /\ Fault /\ Finish(obj, "InspectFailed") /\ UNCHANGED accepted
       \/ /\ NoFault /\ ~TopicExists(obj.topic)
          /\ BeginEnsure([obj EXCEPT !.prov = "Created"], want)
       \/ /\ NoFault /\ TopicExists(obj.topic) /\ Goto("starts")
          /\ UNCHANGED <<obj, accepted, want, view, alters>>
    /\ UNCHANGED <<queued, broker, level, meta, record, series, counters, touched, edits>>

\* The order in which InspectBuckety lists the offsets.
\* (Mutant: the ends first.)
EndsFirst == <<"end", "start">>
Listing == <<"start", "end">>

InspectStarts ==
    /\ pc = "starts"
    /\ LET b == broker[obj.topic] IN
       \/ /\ b.exists /\ NoFault /\ Goto("ends")
          /\ view' = [NoView EXCEPT !.id = b.id, !.parts = b.parts, !.offset = b[Listing[1]]]
          /\ UNCHANGED <<obj, want, alters>>
       \/ /\ (Fault \/ (~b.exists /\ NoFault)) /\ Finish(obj, "InspectFailed")
    /\ UNCHANGED <<queued, broker, level, touched, edits, memory>>

\* A partition without a listed start counts as holding records.
Empty(b) ==
    LET listed == [o \in {"start", "end"} |-> IF o = Listing[1] THEN view.offset ELSE b[o]]
    IN  b.parts <= view.parts /\ listed["end"] <= listed["start"]

InspectEnds ==
    /\ pc = "ends"
    /\ LET b == broker[obj.topic] IN
       \/ /\ b.exists /\ NoFault
          /\ IF Empty(b) \/ want.adoption = "Adopt"
             THEN BeginEnsure([obj EXCEPT !.prov = "Adopted"], want)
             ELSE Finish(obj, "BackendResourceExists") /\ UNCHANGED accepted
       \/ /\ (Fault \/ (~b.exists /\ NoFault)) /\ Finish(obj, "InspectFailed")
          /\ UNCHANGED accepted
    /\ UNCHANGED <<queued, broker, level, meta, record, series, counters, touched, edits>>

\* createTopic.  A topic that exists after all is a success, not aligned.
CreateTopic ==
    /\ pc = "create"
    /\ \/ /\ NoFault /\ ~broker[obj.topic].exists
          /\ broker' = [broker EXCEPT ![obj.topic] = NewTopic(want.parts, want.rf, want.cfg, @.id)]
          /\ touched' = touched \ ({obj.topic} \X Key)
          /\ Finish(obj, "EnsuredOnBackend")
       \/ /\ NoFault /\ broker[obj.topic].exists /\ Finish(obj, "EnsuredOnBackend")
          /\ UNCHANGED <<broker, touched>>
       \/ /\ Fault /\ Finish(obj, "EnsureFailed")
          /\ broker' \in {broker, [broker EXCEPT ![obj.topic] =
                                     IF @.exists THEN @
                                     ELSE NewTopic(want.parts, want.rf, want.cfg, @.id)]}
          /\ UNCHANGED touched
    /\ UNCHANGED <<queued, level, edits, memory>>

\* DescribeConfigs, recordEffective and alignTopic up to its next call.
Describe ==
    /\ pc = "describe"
    /\ LET t == obj.topic
           v == [view EXCEPT !.cfg = Reported(t)]
       IN  \/ /\ broker[t].exists /\ NoFault
              /\ SetExport(RecordEffective(t, v.cfg))
              /\ counters' = counters \cup
                     ({t} \X ({"partitions"} \cup {k \in Key : want.cfg[k] # Unset}))
              /\ \/ /\ 0 < want.parts /\ want.parts < v.parts
                    /\ Finish(obj, "ParameterDrift")
                 \/ /\ v.parts < want.parts /\ Goto("grow") /\ view' = v
                    /\ UNCHANGED <<obj, want, alters>>
                 \/ /\ want.parts \in {0, v.parts} /\ AlignConfigs(v)
           \/ /\ (Fault \/ (~broker[t].exists /\ NoFault)) /\ Finish(obj, "EnsureFailed")
              /\ UNCHANGED <<record, series, counters>>
    /\ UNCHANGED <<queued, broker, level, meta, accepted, touched, edits>>

\* UpdatePartitions.  The broker refuses a count the topic already has, a
\* topic it does not know, and whatever its policy forbids; the pass goes on.
Grow ==
    /\ pc = "grow"
    /\ LET t == obj.topic IN
       \/ /\ broker[t].exists /\ broker[t].parts < want.parts /\ NoFault
          /\ broker' = [broker EXCEPT ![t].parts = want.parts]
          /\ AlignConfigs(view)
       \/ /\ (Fault \/ (NoFault /\ ~(broker[t].exists /\ broker[t].parts < want.parts)))
          /\ AlignConfigs(view) /\ UNCHANGED broker
       \/ /\ Fault /\ Finish(obj, "EnsureFailed") /\ UNCHANGED broker
    /\ UNCHANGED <<queued, level, touched, edits, memory>>

\* (Mutant: the values are remembered whatever the broker answers.)
AlterRemembersAlways(t) ==
    /\ RememberAccepted(t, want.cfg, alters)
    /\ \/ /\ broker[t].exists /\ NoFault
          /\ broker' = [broker EXCEPT ![t].cfg =
                           [k \in Key |-> IF k \in alters THEN want.cfg[k] ELSE @[k]]]
          /\ touched' = touched \ ({t} \X alters)
          /\ SetExport(RecordAltered(t, [k \in Key |-> IF k \in alters THEN want.cfg[k] ELSE Unset]))
          /\ Finish(obj, "EnsuredOnBackend")
       \/ /\ (Fault \/ (~broker[t].exists /\ NoFault)) /\ Finish(obj, "EnsureFailed")
          /\ UNCHANGED <<broker, touched, record, series>>

\* AlterTopicConfigs: all keys or none.  The answer may be lost.
AlterTopic(t) ==
    LET Apply == /\ broker[t].exists
                 /\ broker' = [broker EXCEPT ![t].cfg =
                                  [k \in Key |-> IF k \in alters THEN want.cfg[k] ELSE @[k]]]
    IN  \/ /\ NoFault /\ Apply
           /\ RememberAccepted(t, want.cfg, alters)
           /\ touched' = touched \ ({t} \X alters)
           /\ SetExport(RecordAltered(t, [k \in Key |-> IF k \in alters THEN want.cfg[k] ELSE Unset]))
           /\ Finish(obj, "EnsuredOnBackend")
        \/ /\ Fault /\ Apply /\ Finish(obj, "EnsureFailed")
           /\ touched' = touched \cup ({t} \X alters)
           /\ UNCHANGED <<accepted, record, series>>
        \/ /\ (Fault \/ (~broker[t].exists /\ NoFault)) /\ Finish(obj, "EnsureFailed")
           /\ UNCHANGED <<broker, accepted, touched, record, series>>
Alter ==
    /\ pc = "alter" /\ AlterTopic(obj.topic)
    /\ UNCHANGED <<queued, level, meta, counters, edits>>

Without(t) == [broker EXCEPT ![t] = [NoTopic EXCEPT !.id = broker[t].id]]

\* DeleteBuckety, then the finalizer: the object goes and its key is queued.
DeleteTopic ==
    /\ pc = "delete" /\ ForgetAccepted(obj.topic)
    /\ \/ /\ NoFault /\ obj' = NoObj /\ EndPass /\ queued' = TRUE
          /\ broker' = Without(obj.topic)
       \/ /\ Fault /\ Finish(obj, "DeleteFailed") /\ UNCHANGED queued
          /\ broker' \in {broker, Without(obj.topic)}
    /\ UNCHANGED <<level, meta, record, series, counters, touched, edits>>

RefreshMetadata(t) ==
    /\ meta[t] # Metadata(t)
    /\ meta' = [meta EXCEPT ![t] = Metadata(t)]
    /\ UNCHANGED <<queued, accepted, record, series, counters, touched, edits, faults, world, pass>>

Restart ==
    /\ Fault /\ EndPass /\ queued' = (obj.phase # "none")
    /\ meta' \in {[t \in Topic |-> NoMeta], [t \in Topic |-> Metadata(t)]}
    /\ accepted' = [t \in Topic |-> Nothing]
    /\ record' = NoRecord /\ series' = {} /\ counters' = {}
    /\ UNCHANGED <<touched, edits, world>>

Driver ==
    \/ Reconcile \/ InspectExists \/ InspectStarts \/ InspectEnds
    \/ CreateTopic \/ Describe \/ Grow \/ Alter \/ DeleteTopic

-----------------------------------------------------------------------------
(* Users of the Buckety, and other clients of the cluster. *)

UserCreates(t, s) ==
    /\ Edit /\ obj.phase = "none"
    /\ obj' = [NoObj EXCEPT !.phase = "live", !.topic = t, !.spec = s]
    /\ queued' = TRUE
    /\ UNCHANGED <<broker, level, touched, memory, pass>>

\* ValidateUpdateParameters refuses another replication factor.
UserEdits(s) ==
    /\ Edit /\ obj.phase = "live" /\ s # obj.spec /\ s.rf = obj.spec.rf
    /\ obj' = [obj EXCEPT !.spec = s]
    /\ queued' = TRUE
    /\ UNCHANGED <<broker, level, touched, memory, pass>>

UserDeletes ==
    /\ Edit /\ obj.phase = "live"
    /\ obj' = [obj EXCEPT !.phase = "deleting"]
    /\ queued' = TRUE
    /\ UNCHANGED <<broker, level, touched, memory, pass>>

Outside(t, new, keys) ==
    /\ Edit
    /\ broker' = [broker EXCEPT ![t] = new]
    /\ touched' = touched \cup ({t} \X keys)
    /\ UNCHANGED <<obj, queued, level, memory, pass>>

OutsiderCreates(t) ==
    ~broker[t].exists /\ Outside(t, NewTopic(0, 0, Nothing, broker[t].id + 1), Key)
OutsiderDeletes(t) ==
    broker[t].exists /\ Outside(t, [NoTopic EXCEPT !.id = broker[t].id + 1], Key)
OutsiderAlters(t, k, v) ==
    /\ broker[t].exists /\ broker[t].cfg[k] # v
    /\ Outside(t, [broker[t] EXCEPT !.cfg[k] = v], {k})
OutsiderGrows(t) ==
    broker[t].exists /\ broker[t].parts < MaxParts
    /\ Outside(t, [broker[t] EXCEPT !.parts = @ + 1], {})
Produce(t) ==
    broker[t].exists /\ broker[t].end < MaxRecords
    /\ Outside(t, [broker[t] EXCEPT !.end = @ + 1], {})
Expire(t) ==
    broker[t].exists /\ broker[t].start < broker[t].end
    /\ Outside(t, [broker[t] EXCEPT !.start = @ + 1], {})

SetBrokerConfig ==
    /\ Edit /\ level' = IF level = "broker" THEN "default" ELSE "broker"
    /\ UNCHANGED <<obj, queued, broker, touched, memory, pass>>

Environment ==
    \/ \E t \in Topic, s \in Specs : UserCreates(t, s)
    \/ \E s \in Specs : UserEdits(s)
    \/ UserDeletes
    \/ \E t \in Contested : \/ OutsiderCreates(t) \/ OutsiderDeletes(t) \/ OutsiderGrows(t)
                            \/ Produce(t) \/ Expire(t)
    \/ \E t \in Contested, k \in Key : \E v \in ValidFor[k] \cup {Unset} : OutsiderAlters(t, k, v)
    \/ SetBrokerConfig

Init ==
    /\ \E t \in Topic, s \in Specs :
          obj = [NoObj EXCEPT !.phase = "live", !.topic = t, !.spec = s]
    /\ queued = TRUE
    /\ \E there \in SUBSET Contested :
          broker = [t \in Topic |-> IF t \in there THEN NewTopic(0, 0, Nothing, 0) ELSE NoTopic]
    /\ level = "default"
    /\ meta \in {[t \in Topic |-> NoMeta], [t \in Topic |-> Metadata(t)]}
    /\ accepted = [t \in Topic |-> Nothing]
    /\ record = NoRecord /\ series = {} /\ counters = {}
    /\ pc = "idle" /\ want = NoWant /\ view = NoView /\ alters = {}
    /\ touched = {} /\ edits = 0 /\ faults = 0

Next == Driver \/ (\E t \in Topic : RefreshMetadata(t)) \/ Restart \/ Environment

Spec == Init /\ [][Next]_vars

\* The worker goes on and the object comes back: requeued by an error or the
\* recheck, and after ParameterDrift, which requeues nothing, by an edit, a
\* restart or the informer's resync.  The metadata cache is refreshed.
FairSpec ==
    /\ Spec /\ WF_vars(Driver)
    /\ \A t \in Topic : WF_vars(RefreshMetadata(t))

-----------------------------------------------------------------------------
(* Properties. *)

\* The gauges of a Buckety are the ones its export record names, one per key:
\* a value whose source or topic changed replaces its old series
\* (effective.go, exported).
SeriesMatchRecord ==
    /\ {<<s.topic, s.key, s.source>> : s \in series}
         = {<<record.topic, k, record.source[k]>> : k \in {x \in Key : record.source[x] # Unset}}
    /\ \A s1, s2 \in series : s1.key = s2.key => s1 = s2

\* Once the Buckety is gone and its key has been handled, no gauge and no
\* counter is left for it, although ForgetBuckety runs only in a pass that
\* finds no object and a successor may take the name first.
NoSeriesLeft ==
    (obj.phase = "none" /\ ~queued /\ pc = "idle") => (series = {} /\ counters = {})

\* What acceptedUnreported relies on: a remembered value is the one the topic
\* has, unless something the driver could not see changed it since.
MemoryHonest ==
    \A t \in Topic, k \in Key :
        (accepted[t][k] # Unset /\ <<t, k>> \notin touched) => broker[t].cfg[k] = accepted[t][k]

\* The adoption verdict holds when it is taken, whatever the metadata cache
\* says and whoever writes between the calls: Created only if the topic is
\* not there, Adopted as empty only if the topic inspected has no readable
\* record.
VerdictTrue ==
    [][(obj.prov = "" /\ obj'.prov # "" /\ obj.phase # "none") =>
        LET b == broker[obj.topic] IN
        IF obj'.prov = "Created" THEN ~b.exists
        ELSE want.adoption = "Adopt" \/ b.id # view.id \/ b.start = b.end]_vars

\* The topic the spec asks for.
Drifted(b, s) == (0 < s.parts /\ s.parts < b.parts) \/ (0 < s.rf /\ s.rf # b.rf)
Aligned(t, s) ==
    /\ broker[t].exists
    /\ s.parts \in {0, broker[t].parts}
    /\ \A k \in Key : s.cfg[k] # Unset =>
          IF k \in Hidden THEN broker[t].cfg[k] = s.cfg[k] \/ <<t, k>> \in touched
          ELSE Reported(t)[k] = s.cfg[k]

Served == obj.phase = "live" /\ obj.prov # ""

\* Once nobody interferes, a served Buckety is Ready with its topic as
\* requested, or says ParameterDrift and the topic has drifted: stale
\* metadata, refused increases and creations that found the topic there are
\* made good by later passes.  And then the driver stops changing the broker,
\* keys the broker never reports included.
Converges ==
    /\ <>[](Served => IF obj.ready = "ParameterDrift" THEN Drifted(broker[obj.topic], obj.spec)
                      ELSE obj.ready = "EnsuredOnBackend" /\ Aligned(obj.topic, obj.spec))
    /\ <>[](pc \notin {"create", "grow", "alter"})

\* Once nobody interferes the gauges show what the broker reports, with the
\* source it reports, and nothing for keys it does not report.
GaugesCatchUp ==
    <>[](Served =>
         LET t == obj.topic IN
         series = {[topic |-> t, key |-> k, source |-> SourceOf(t, k), value |-> Reported(t)[k]] :
                      k \in Exportable(Reported(t))})
=============================================================================
