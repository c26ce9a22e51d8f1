------------------------ MODULE SpanProducer_proofs ------------------------
(***************************************************************************)
(* Proofs about SpanProducer, for any regions, bridges and bounds: type    *)
(* correctness, with the facts about tasks and events the other proofs     *)
(* use, registration, and what reaches a live stream.                      *)
(***************************************************************************)
EXTENDS SpanProducer, FiniteSetTheorems, TLAPS


StoreTypes ==
    /\ version \in [Region -> Nat] /\ pdVersion \in [Region -> Nat]
    /\ tso \in 0..MaxTs /\ inflight \subseteq Ts
    /\ log \in Seq([ts : Ts, region : Region])
    /\ observed \in [Region -> Nat]
    /\ captures \subseteq [region : Region, id : Nat, version : Nat]

EndpointTypes ==
    /\ dele \in [Region -> [id : Nat, sink : Sink \cup {None}]]
    /\ feed \in [Region -> BOOLEAN]
    /\ registry \in Sink \cup {None}
    /\ nextId \in 1..(MaxObserveId + 1) /\ resolved \in 0..MaxTs

BridgeTypes ==
    /\ pc \in [Bridge -> {"idle", "resolve", "known", "loop", "send"}]
    /\ startTs \in [Bridge -> 0..MaxTs]
    /\ known \in [Bridge -> SUBSET Region]
    /\ gen \in [Bridge -> {0, 1}] /\ ticks \in [Bridge -> 0..MaxTicks]
    /\ cpTs \in [Bridge -> 0..MaxTs]
    /\ scan \in [Bridge -> [Region -> {"none", "spawned", "taken", "done"}]]
    /\ snap \in [Bridge -> [Region -> SUBSET Ts]]

StreamTypes ==
    /\ sinkQ \in [Sink -> Seq(Event)] /\ relay \in [Sink -> BOOLEAN]
    /\ merge \in [Bridge -> Seq(Event)] /\ writer \in [Bridge -> BOOLEAN]
    /\ broken \in [Bridge -> BOOLEAN]
    /\ delivered \in [Bridge -> Seq(Event)]
    /\ handed \in [Bridge -> SUBSET Ts]

LEMMA TypeGroups ==
    /\ TypeOK <=> StoreTypes /\ EndpointTypes /\ BridgeTypes /\ StreamTypes
                    /\ tasks \in Seq(Task)
    /\ TypeOK' <=> StoreTypes' /\ EndpointTypes' /\ BridgeTypes' /\ StreamTypes'
                    /\ tasks' \in Seq(Task)
BY Zenon DEF TypeOK, StoreTypes, EndpointTypes, BridgeTypes, StreamTypes

-----------------------------------------------------------------------------
(* Tasks *)

LEMMA SeqElement ==
    ASSUME NEW S, NEW q \in Seq(S), NEW i \in DOMAIN q
    PROVE  q[i] \in S
OBVIOUS

LEMMA AppendType ==
    ASSUME NEW S, NEW q \in Seq(S), NEW e \in S
    PROVE  Append(q, e) \in Seq(S)
OBVIOUS

LEMMA HeadTailType ==
    ASSUME NEW S, NEW q \in Seq(S), q # <<>>
    PROVE  Head(q) \in S /\ Tail(q) \in Seq(S)
OBVIOUS

LEMMA SinkPair ==
    ASSUME NEW s \in Sink
    PROVE  s[1] \in Bridge /\ (s = <<s[1], 0>> \/ s = <<s[1], 1>>)
BY DEF Sink

LEMMA BridgeSinks ==
    ASSUME NEW b \in Bridge
    PROVE  <<b, 0>> \in Sink /\ <<b, 1>> \in Sink
BY DEF Sink

StartTask == [op : {"start"}, region : Region]

\* There is a sequence with one start task per region.
LEMMA StartTasksType ==
    ASSUME NEW rs \in SUBSET Region
    PROVE  StartTasks(rs) \in Seq(StartTask) /\ StartTasks(rs) \in Seq(Task)
<1>1. Cardinality(rs) \in Nat /\ ExistsBijection(1..Cardinality(rs), rs)
  BY FS_Subset, FS_CardinalityType, ProducerAssumption
<1>2. PICK f \in [1..Cardinality(rs) -> rs] : \A r \in rs : \E i \in 1..Cardinality(rs) : f[i] = r
  BY <1>1 DEF ExistsBijection, Bijection, Surjection
<1> DEFINE g == [i \in 1..Cardinality(rs) |-> [op |-> "start", region |-> f[i]]]
<1>3. /\ g \in [1..Cardinality(rs) -> [op : {"start"}, region : rs]]
      /\ \A r \in rs : \E i \in DOMAIN g : g[i].region = r
  BY <1>2
<1> HIDE DEF g
<1>4. StartTasks(rs) \in [1..Cardinality(rs) -> [op : {"start"}, region : rs]]
  BY Zenon, <1>3 DEF StartTasks
<1>5. [op : {"start"}, region : rs] \subseteq StartTask /\ StartTask \subseteq Task
  BY DEF StartTask, Task
<1>6. StartTasks(rs) \in [1..Cardinality(rs) -> StartTask]
  BY <1>4, <1>5
<1>7. StartTasks(rs) \in Seq(StartTask)
  BY <1>1, <1>6
<1> QED
  BY <1>5, <1>7

LEMMA ScheduleType ==
    ASSUME tasks \in Seq(Task), NEW ts \in Seq(Task), Schedule(ts)
    PROVE  tasks' \in Seq(Task)
BY DEF Schedule

LEMMA TakeTaskType ==
    ASSUME tasks \in Seq(Task), NEW op, TakeTask(op)
    PROVE  /\ tasks' \in Seq(Task) /\ Head(tasks) \in Task
           /\ op = "register" => Head(tasks).sink \in Sink
           /\ op = "start" => Head(tasks).region \in Region
           /\ op = "batch" => /\ Head(tasks).region \in Region /\ Head(tasks).id \in Nat
                              /\ Head(tasks).ts \in Ts \cup {0}
           /\ op = "min_ts" => Head(tasks).ts \in Ts \cup {0}
<1>1. tasks' \in Seq(Task) /\ Head(tasks) \in Task /\ Head(tasks).op = op
  BY DEF TakeTask
<1> QED
  BY <1>1 DEF Task

LEMMA ResolvedType ==
    ASSUME NEW ok
    PROVE  Resolved(ok) \in SUBSET Region
BY DEF Resolved

-----------------------------------------------------------------------------
(* Types *)

LEMMA EventTypes ==
    /\ \A kvs \in SUBSET Ts : Data(kvs) \in Event
    /\ \A ts \in Ts \cup {0}, rs \in SUBSET Region : Checkpoint(ts, rs) \in Event
    /\ SplitEvent \in Event
BY DEF Data, Checkpoint, SplitEvent, Event

LEMMA SendType ==
    ASSUME NEW b \in Bridge, NEW e \in Event, merge \in [Bridge -> Seq(Event)],
           Send(b, e)
    PROVE  merge' \in [Bridge -> Seq(Event)]
<1>1. Append(merge[b], e) \in Seq(Event)
  <2>1. merge[b] \in Seq(Event)
    OBVIOUS
  <2> QED  BY <2>1, AppendType
<1> QED  BY Zenon, <1>1 DEF Send

LEMMA EmitType ==
    ASSUME StreamTypes, NEW s \in Sink \cup {None}, NEW e \in Event, EmitPcrEvent(s, e)
    PROVE  sinkQ' \in [Sink -> Seq(Event)] /\ handed' \in [Bridge -> SUBSET Ts]
<1>1. CASE s # None /\ relay[s]
  <2>1. s \in Sink /\ s[1] \in Bridge
    BY <1>1, SinkPair
  <2>2. sinkQ[s] \in Seq(Event) /\ handed[s[1]] \subseteq Ts
    BY <2>1 DEF StreamTypes
  <2>3. Append(sinkQ[s], e) \in Seq(Event)
    BY <2>2, AppendType
  <2>4. handed[s[1]] \cup e.kvs \in SUBSET Ts
    BY <2>2 DEF Event
  <2> QED
    BY Zenon, <1>1, <2>1, <2>3, <2>4 DEF EmitPcrEvent, StreamTypes
<1>2. CASE ~(s # None /\ relay[s])
  BY <1>2 DEF EmitPcrEvent, StreamTypes
<1> QED  BY <1>1, <1>2

LEMMA TsNat == Ts \subseteq Nat /\ Ts \cup {0} = 0..MaxTs
BY ProducerAssumption DEF Ts

LEMMA SpawnType ==
    ASSUME BridgeTypes, NEW b \in Bridge, NEW rs, Spawn(b, rs)
    PROVE  scan' \in [Bridge -> [Region -> {"none", "spawned", "taken", "done"}]]
BY DEF BridgeTypes, Spawn

\* The store and PD.
LEMMA StoreTypesStep ==
    ASSUME TypeOK, StoreStep
    PROVE  TypeOK'
<1> USE ProducerAssumption
<1>1. CASE TakeCommitTs
  <2>1. tso + 1 \in Ts /\ tso' \in 0..MaxTs /\ inflight' \subseteq Ts
    BY <1>1 DEF TakeCommitTs, TypeOK, Ts
  <2> QED
    BY <1>1, <2>1 DEF TakeCommitTs, TypeOK, endpointVars, bridgeVars, streamVars
<1>2. ASSUME NEW ts \in Ts \cup {0}, NEW r \in Region, TypeOK, Observe(r, ts)
      PROVE  tasks' \in Seq(Task)
  <2>1. <<[op |-> "batch", region |-> r, id |-> observed[r], ts |-> ts]>> \in Seq(Task)
    BY <1>2 DEF TypeOK, Task
  <2> QED  BY Zenon, <1>2, <2>1, ScheduleType DEF Observe, TypeOK
<1>3. ASSUME NEW ts \in Ts, NEW r \in Region, ApplyCommit(ts, r)
      PROVE  TypeOK'
  <2>1. tasks' \in Seq(Task)
    BY <1>2, <1>3 DEF ApplyCommit
  <2>2. log' \in Seq([ts : Ts, region : Region]) /\ inflight' \subseteq Ts
    BY <1>3 DEF ApplyCommit, TypeOK
  <2> QED
    BY <1>3, <2>1, <2>2 DEF ApplyCommit, TypeOK, bridgeVars, streamVars
<1>4. ASSUME NEW r \in Region, NEW c \in Region, ApplySplit(r, c)
      PROVE  TypeOK'
  <2>1. tasks' \in Seq(Task)
    BY <1>2, <1>4 DEF ApplySplit
  <2>2. version' \in [Region -> Nat]
    <3>1. version \in [Region -> Nat] /\ version[r] + 1 \in Nat
      BY DEF TypeOK
    <3>2. version' = [[version EXCEPT ![r] = version[r] + 1] EXCEPT ![c] = version[r] + 1]
      BY <1>4, <3>1 DEF ApplySplit
    <3> QED  BY <3>1, <3>2
  <2> QED
    BY Zenon, <1>4, <2>1, <2>2 DEF ApplySplit, TypeOK, bridgeVars, streamVars
<1>5. ASSUME NEW r \in Region, Heartbeat(r)
      PROVE  TypeOK'
  <2>1. pdVersion' \in [Region -> Nat]
    BY <1>5 DEF Heartbeat, TypeOK
  <2> QED
    BY <1>5, <2>1 DEF Heartbeat, TypeOK, endpointVars, bridgeVars, streamVars
<1>6. ASSUME NEW c \in captures, ApplyCapture(c)
      PROVE  TypeOK'
  <2>1. captures' \subseteq captures /\ observed' \in [Region -> Nat]
    BY <1>6 DEF ApplyCapture, TypeOK
  <2> QED
    BY Zenon, <1>6, <2>1 DEF ApplyCapture, TypeOK, endpointVars, bridgeVars, streamVars
<1> QED
  BY <1>1, <1>3, <1>4, <1>5, <1>6 DEF StoreStep

Delegate == [id : Nat, sink : Sink \cup {None}]

LEMMA DelegateTypes ==
    /\ NoDelegate \in Delegate
    /\ \A n \in Nat, s \in Sink \cup {None} : [id |-> n, sink |-> s] \in Delegate
BY DEF Delegate, NoDelegate

LEMMA DelegateUpdate ==
    ASSUME NEW d \in Delegate, NEW s \in Sink \cup {None}
    PROVE  [d EXCEPT !.sink = s] \in Delegate
BY DEF Delegate

\* The endpoint, the timestamps and other changefeeds.
LEMMA EndpointTypesStep ==
    ASSUME TypeOK,
           \/ EndpointStep \/ ScheduleMinTs
           \/ \E r \in Region : OnRegister(r) \/ OnDeregister(r)
    PROVE  TypeOK'
<1> USE ProducerAssumption
<1>0. dele \in [Region -> Delegate] /\ feed \in [Region -> BOOLEAN]
  BY DEF TypeOK, Delegate
<1>1. CASE OnRegisterSpan
  <2>1. tasks' \in Seq(Task) /\ registry' \in Sink
    BY <1>1, TakeTaskType DEF OnRegisterSpan, TypeOK
  <2>2. dele' \in [Region -> Delegate]
    <3>1. ASSUME NEW r \in Region
          PROVE  dele[r] \in Delegate /\ [dele[r] EXCEPT !.sink = registry'] \in Delegate
      <4>1. dele[r] \in Delegate /\ registry' \in Sink \cup {None}
        BY <1>0, <2>1
      <4> QED  BY <4>1, DelegateUpdate
    <3> QED  BY <1>1, <3>1 DEF OnRegisterSpan
  <2> QED
    BY Zenon, <1>1, <2>1, <2>2 DEF OnRegisterSpan, TypeOK, Delegate, storeVars, bridgeVars, streamVars
<1>2. CASE OnStartPcrStream
  <2> DEFINE r == Head(tasks).region
             id == IF dele[r].id # 0 THEN dele[r].id ELSE nextId
  <2>1. tasks' \in Seq(Task) /\ r \in Region
    BY Zenon, <1>2, TakeTaskType DEF OnStartPcrStream, TypeOK
  <2>2. id \in Nat /\ id <= MaxObserveId
    <3>1. id <= MaxObserveId
      BY Zenon, <1>2 DEF OnStartPcrStream
    <3>2. nextId \in 1..(MaxObserveId + 1) /\ dele[r] \in Delegate
      BY Zenon, <1>0, <2>1 DEF TypeOK
    <3> HIDE DEF r
    <3> QED  BY <3>1, <3>2 DEF Delegate
  <2>3. nextId' \in 1..(MaxObserveId + 1)
    <3>1. nextId \in 1..(MaxObserveId + 1) /\ (dele[r].id = 0 => nextId <= MaxObserveId)
      BY <2>2 DEF TypeOK
    <3>2. nextId' = IF dele[r].id # 0 THEN nextId ELSE nextId + 1
      BY <1>2 DEF OnStartPcrStream
    <3> HIDE DEF r
    <3> QED  BY <3>1, <3>2
  <2>4. dele' \in [Region -> Delegate]
    <3>1. [id |-> id, sink |-> registry] \in Delegate
      BY Zenon, <2>2, DelegateTypes DEF TypeOK
    <3> HIDE DEF r, id
    <3>2. dele' = [dele EXCEPT ![r] = [id |-> id, sink |-> registry]]
      BY <1>2 DEF OnStartPcrStream, r, id
    <3> QED  BY <1>0, <2>1, <3>1, <3>2
  <2>5. captures' \subseteq [region : Region, id : Nat, version : Nat]
    <3>1. pdVersion[r] \in Nat
      BY <2>1 DEF TypeOK
    <3>2. PICK v \in Nat : captures' = captures \cup {[region |-> r, id |-> id, version |-> v]}
      BY <1>2, <3>1 DEF OnStartPcrStream
    <3>3. captures \subseteq [region : Region, id : Nat, version : Nat]
      BY DEF TypeOK
    <3>4. [region |-> r, id |-> id, version |-> v] \in [region : Region, id : Nat, version : Nat]
      BY <2>1, <2>2, <3>2
    <3> HIDE DEF r, id
    <3> QED  BY Zenon, <3>2, <3>3, <3>4
  <2> QED
    BY Zenon, <1>2, <2>1, <2>3, <2>4, <2>5 DEF OnStartPcrStream, TypeOK, Delegate, bridgeVars, streamVars
<1>3. CASE OnMultiBatch
  <2> DEFINE r == Head(tasks).region
  <2>1. tasks' \in Seq(Task) /\ r \in Region /\ Head(tasks).ts \in Ts \cup {0}
    BY <1>3, TakeTaskType DEF OnMultiBatch, TypeOK
  <2>2. /\ UNCHANGED <<storeVars, registry, nextId, resolved, bridgeVars, relay, merge,
                       writer, broken, delivered>>
        /\ UNCHANGED <<dele, feed>>
           \/ /\ dele' = [dele EXCEPT ![r] = NoDelegate]
              /\ feed' = [feed EXCEPT ![r] = FALSE]
    BY Zenon, <1>3 DEF OnMultiBatch
  <2>3. dele' \in [Region -> Delegate] /\ feed' \in [Region -> BOOLEAN]
    <3>1. NoDelegate \in Delegate
      BY DelegateTypes
    <3> HIDE DEF r
    <3> QED  BY Zenon, <1>0, <2>1, <2>2, <3>1
  <2>4. sinkQ' \in [Sink -> Seq(Event)] /\ handed' \in [Bridge -> SUBSET Ts]
    <3>1. StreamTypes /\ dele[r].sink \in Sink \cup {None}
      BY Zenon, <2>1 DEF TypeOK, StreamTypes
    <3>2. CASE UNCHANGED <<sinkQ, handed>>
      BY <3>1, <3>2 DEF StreamTypes
    <3>3. CASE \E e \in Event : EmitPcrEvent(dele[r].sink, e)
      BY <3>1, <3>3, EmitType
    <3>4. Head(tasks).ts # 0 => Data({Head(tasks).ts}) \in Event
      BY <2>1, EventTypes
    <3> QED  BY <1>3, <3>2, <3>3, <3>4, EventTypes DEF OnMultiBatch
  <2> QED
    BY Zenon, <2>1, <2>2, <2>3, <2>4 DEF TypeOK, Delegate, storeVars, bridgeVars
<1>4. CASE OnMinTs
  BY <1>4, TakeTaskType, TsNat DEF OnMinTs, TypeOK, storeVars, bridgeVars, streamVars
<1>5. CASE ScheduleMinTs
  <2>1. PICK ts \in Ts \cup {0} : Schedule(<<[op |-> "min_ts", ts |-> ts]>>)
    BY Zenon, <1>5, TsNat DEF ScheduleMinTs, TypeOK
  <2>2. <<[op |-> "min_ts", ts |-> ts]>> \in Seq(Task)
    BY DEF Task
  <2>3. tasks' \in Seq(Task)
    BY Zenon, <2>1, <2>2, ScheduleType DEF TypeOK
  <2> QED
    BY Zenon, <1>5, <2>3 DEF ScheduleMinTs, TypeOK, storeVars, bridgeVars, streamVars
<1>6. ASSUME NEW r \in Region, OnRegister(r)
      PROVE  TypeOK'
  <2>1. UNCHANGED <<version, pdVersion, tso, inflight, log, observed, tasks, registry,
                    resolved, bridgeVars, streamVars>>
    BY <1>6 DEF OnRegister
  <2>2. CASE registry # None
    <3>1. /\ dele' = [dele EXCEPT ![r].sink = registry]
          /\ UNCHANGED <<feed, nextId, captures>>
      BY <1>6, <2>2 DEF OnRegister
    <3>2. [dele[r] EXCEPT !.sink = registry] \in Delegate
      <4>1. dele[r] \in Delegate /\ registry \in Sink \cup {None}
        BY <1>0 DEF TypeOK
      <4> QED  BY <4>1, DelegateUpdate
    <3>3. dele' = [dele EXCEPT ![r] = [dele[r] EXCEPT !.sink = registry]]
      BY <1>0, <3>1
    <3>4. dele' \in [Region -> Delegate]
      BY <1>0, <3>2, <3>3
    <3> QED
      BY Zenon, <2>1, <3>1, <3>4 DEF TypeOK, Delegate, bridgeVars, streamVars
  <2>3. CASE registry = None
    <3>1. /\ nextId <= MaxObserveId /\ nextId' = nextId + 1
          /\ dele' = [dele EXCEPT ![r] = [id |-> nextId, sink |-> None]]
          /\ feed' = [feed EXCEPT ![r] = TRUE]
          /\ captures' = captures \cup {[region |-> r, id |-> nextId, version |-> version[r]]}
      BY <1>6, <2>3 DEF OnRegister
    <3>2. nextId \in Nat /\ nextId' \in 1..(MaxObserveId + 1) /\ version[r] \in Nat
      BY <3>1 DEF TypeOK
    <3>3. dele' \in [Region -> Delegate] /\ feed' \in [Region -> BOOLEAN]
      <4>1. [id |-> nextId, sink |-> None] \in Delegate
        BY <3>2, DelegateTypes
      <4> QED  BY <1>0, <3>1, <4>1
    <3>4. captures' \subseteq [region : Region, id : Nat, version : Nat]
      BY <3>1, <3>2 DEF TypeOK
    <3> QED
      BY Zenon, <2>1, <3>2, <3>3, <3>4 DEF TypeOK, Delegate, bridgeVars, streamVars
  <2> QED  BY <2>2, <2>3
<1>7. ASSUME NEW r \in Region, OnDeregister(r)
      PROVE  TypeOK'
  <2>1. dele' \in [Region -> Delegate] /\ feed' \in [Region -> BOOLEAN]
    BY <1>0, <1>7, DelegateTypes DEF OnDeregister
  <2> QED
    BY Zenon, <1>7, <2>1 DEF OnDeregister, TypeOK, Delegate, storeVars, bridgeVars, streamVars
<1> QED
  BY <1>1, <1>2, <1>3, <1>4, <1>5, <1>6, <1>7 DEF EndpointStep

\* The bridge and its tasks.
LEMMA BridgeTypesStep ==
    ASSUME TypeOK, NEW b \in Bridge, BridgeStep(b)
    PROVE  TypeOK'
<1> USE ProducerAssumption
<1>0. BridgeTypes /\ StreamTypes /\ <<b, 0>> \in Sink /\ <<b, 1>> \in Sink
  BY TypeGroups, BridgeSinks
<1>1. CASE Subscribe(b)
  <2>1. <<RegisterTask(<<b, 0>>)>> \in Seq(Task)
    BY <1>0 DEF RegisterTask, Task
  <2>2. tasks' \in Seq(Task)
    BY Zenon, <1>1, <2>1, ScheduleType DEF Subscribe, TypeOK
  <2>3. startTs' \in [Bridge -> 0..MaxTs]
    <3>1. \A a \in Bridge : \A i \in DOMAIN delivered[a] : delivered[a][i].ts \in Ts \cup {0}
      <4>1. ASSUME NEW a \in Bridge, NEW i \in DOMAIN delivered[a]
            PROVE  delivered[a][i] \in Event
        <5>1. delivered[a] \in Seq(Event)
          BY DEF TypeOK
        <5> QED  BY <5>1
      <4> QED  BY <4>1 DEF Event
    <3>2. PICK ts \in {0} \cup UNION {{delivered[a][i].ts : i \in DOMAIN delivered[a]} :
                                           a \in Bridge} :
              startTs' = [startTs EXCEPT ![b] = ts]
      BY Zenon, <1>1 DEF Subscribe
    <3>3. ts \in 0..MaxTs
      <4>1. CASE ts = 0
        BY <4>1, TsNat
      <4>2. CASE ts # 0
        <5>1. PICK a \in Bridge : ts \in {delivered[a][i].ts : i \in DOMAIN delivered[a]}
          BY <4>2
        <5> QED  BY <5>1, <3>1, TsNat
      <4> QED  BY <4>1, <4>2
    <3> QED  BY <3>2, <3>3 DEF TypeOK
  <2>4. /\ relay' \in [Sink -> BOOLEAN] /\ writer' \in [Bridge -> BOOLEAN]
        /\ pc' \in [Bridge -> {"idle", "resolve", "known", "loop", "send"}]
    BY Zenon, <1>0, <1>1 DEF Subscribe, TypeOK
  <2> QED
    BY Zenon, <1>1, <2>2, <2>3, <2>4 DEF Subscribe, TypeOK, storeVars
<1>2. CASE StartRegions(b)
  <2>1. PICK ok \in PdOutcome :
            Schedule(StartTasks(Resolved(ok))) /\ Spawn(b, Resolved(ok))
    BY <1>2 DEF StartRegions
  <2>2. tasks' \in Seq(Task)
    BY <2>1, ResolvedType, StartTasksType, ScheduleType DEF TypeOK
  <2>3. scan' \in [Bridge -> [Region -> {"none", "spawned", "taken", "done"}]]
    BY <1>0, <2>1, SpawnType
  <2>4. pc' \in [Bridge -> {"idle", "resolve", "known", "loop", "send"}]
    BY <1>2 DEF StartRegions, TypeOK
  <2> QED
    BY Zenon, <1>2, <2>2, <2>3, <2>4 DEF StartRegions, TypeOK, storeVars, streamVars
<1>3. CASE KnowRegions(b)
  <2>1. known' \in [Bridge -> SUBSET Region]
    <3>1. PICK ok \in PdOutcome : known' = [known EXCEPT ![b] = Resolved(ok)]
      BY Zenon, <1>3 DEF KnowRegions
    <3>2. known \in [Bridge -> SUBSET Region]
      BY Zenon DEF TypeOK
    <3> QED  BY <3>1, <3>2, ResolvedType
  <2>2. pc' \in [Bridge -> {"idle", "resolve", "known", "loop", "send"}]
    BY <1>3 DEF KnowRegions, TypeOK
  <2> QED
    BY Zenon, <1>3, <2>1, <2>2 DEF KnowRegions, TypeOK, storeVars, endpointVars, streamVars
<1>4. CASE CheckpointTick(b)
  <2>1. /\ ticks[b] < MaxTicks
        /\ ticks' = [ticks EXCEPT ![b] = ticks[b] + 1]
        /\ cpTs' = [cpTs EXCEPT ![b] = resolved]
    BY Zenon, <1>4 DEF CheckpointTick
  <2>2. /\ ticks \in [Bridge -> 0..MaxTicks] /\ cpTs \in [Bridge -> 0..MaxTs]
        /\ resolved \in 0..MaxTs
    BY Zenon DEF TypeOK
  <2>3. ticks[b] + 1 \in 0..MaxTicks
    BY <2>1, <2>2, ProducerAssumption
  <2>4. ticks' \in [Bridge -> 0..MaxTicks] /\ cpTs' \in [Bridge -> 0..MaxTs]
    BY <2>1, <2>2, <2>3
  <2>5. pc' \in [Bridge -> {"idle", "resolve", "known", "loop", "send"}]
    BY <1>4 DEF CheckpointTick, TypeOK
  <2> QED
    BY <1>4, <2>4, <2>5 DEF CheckpointTick, TypeOK, storeVars, endpointVars, streamVars
<1>5. CASE CheckpointSend(b)
  <2>1. Checkpoint(cpTs[b], known[b]) \in Event
    BY Zenon, EventTypes, TsNat DEF TypeOK
  <2>2. merge' \in [Bridge -> Seq(Event)]
    BY <1>5, <2>1, SendType DEF CheckpointSend, TypeOK
  <2>3. cpTs' \in [Bridge -> 0..MaxTs]
    BY <1>5 DEF CheckpointSend, TypeOK
  <2>4. pc' \in [Bridge -> {"idle", "resolve", "known", "loop", "send"}]
    BY <1>5 DEF CheckpointSend, TypeOK
  <2> QED
    BY <1>5, <2>2, <2>3, <2>4 DEF CheckpointSend, TypeOK, storeVars, endpointVars
<1>6. CASE Rediscover(b)
  <2> DEFINE new == <<b, 1 - gen[b]>>
  <2>0. new \in Sink /\ 1 - gen[b] \in {0, 1}
    <3>1. gen[b] \in {0, 1}
      BY DEF TypeOK
    <3>2. 1 - gen[b] = 0 \/ 1 - gen[b] = 1
      BY <3>1
    <3> QED  BY <1>0, <3>2
  <2>1. PICK ok \in PdOutcome :
            /\ known' = [known EXCEPT ![b] = @ \cup (Resolved(ok) \ known[b])]
            /\ Spawn(b, Resolved(ok) \ known[b])
            /\ Schedule(Append(StartTasks(Resolved(ok) \ known[b]), RegisterTask(new)))
    BY Zenon, <1>6 DEF Rediscover
  <2>2. tasks' \in Seq(Task)
    <3>1. StartTasks(Resolved(ok) \ known[b]) \in Seq(Task)
      BY ResolvedType, StartTasksType
    <3>2. RegisterTask(new) \in Task
      BY <2>0 DEF RegisterTask, Task
    <3>3. Append(StartTasks(Resolved(ok) \ known[b]), RegisterTask(new)) \in Seq(Task)
      BY <3>1, <3>2, AppendType
    <3> QED  BY Zenon, <2>1, <3>3, ScheduleType DEF TypeOK
  <2>3. known' \in [Bridge -> SUBSET Region]
    BY <2>1, ResolvedType DEF TypeOK
  <2>4. scan' \in [Bridge -> [Region -> {"none", "spawned", "taken", "done"}]]
    BY <1>0, <2>1, SpawnType
  <2>5. gen' \in [Bridge -> {0, 1}]
    BY Zenon, <1>6, <2>0 DEF Rediscover, TypeOK
  <2>6. relay' \in [Sink -> BOOLEAN]
    <3>1. relay' = [relay EXCEPT ![new] = TRUE]
      BY <1>6 DEF Rediscover
    <3> HIDE DEF new
    <3> QED  BY <2>0, <3>1 DEF TypeOK
  <2> QED
    BY Zenon, <1>6, <2>2, <2>3, <2>4, <2>5, <2>6 DEF Rediscover, TypeOK, storeVars
<1>7. ASSUME NEW r \in Region, ScanSnapshot(b, r)
      PROVE  TypeOK'
  <2>1. Written \subseteq Ts
    <3>1. \A i \in DOMAIN log : log[i] \in [ts : Ts, region : Region]
      BY Zenon, SeqElement DEF TypeOK
    <3> QED  BY Zenon, <3>1 DEF Written
  <2>2. snap' \in [Bridge -> [Region -> SUBSET Ts]]
    BY <1>7, <2>1 DEF ScanSnapshot, TypeOK
  <2>3. scan' \in [Bridge -> [Region -> {"none", "spawned", "taken", "done"}]]
    BY <1>7 DEF ScanSnapshot, TypeOK
  <2> QED
    BY Zenon, <1>7, <2>2, <2>3 DEF ScanSnapshot, TypeOK, storeVars, endpointVars, streamVars
<1>8. ASSUME NEW r \in Region, ScanSend(b, r)
      PROVE  TypeOK'
  <2>1. Data(snap[b][r]) \in Event
    BY EventTypes DEF TypeOK
  <2>2. merge' \in [Bridge -> Seq(Event)]
    BY Zenon, <1>8, <2>1, SendType DEF ScanSend, TypeOK
  <2>3. scan' \in [Bridge -> [Region -> {"none", "spawned", "taken", "done"}]]
    BY <1>8 DEF ScanSend, TypeOK
  <2> QED
    BY Zenon, <1>8, <2>2, <2>3 DEF ScanSend, TypeOK, storeVars, endpointVars
<1>9. CASE WriterSend(b)
  <2>1. merge[b] \in Seq(Event) /\ delivered[b] \in Seq(Event)
    BY DEF TypeOK
  <2>2. Head(merge[b]) \in Event /\ Tail(merge[b]) \in Seq(Event)
    BY Zenon, <1>9, <2>1, HeadTailType DEF WriterSend
  <2>3. Append(delivered[b], Head(merge[b])) \in Seq(Event) /\ <<>> \in Seq(Event)
    BY <2>1, <2>2, AppendType
  <2>4. /\ writer' \in [Bridge -> BOOLEAN] /\ merge' \in [Bridge -> Seq(Event)]
        /\ delivered' \in [Bridge -> Seq(Event)]
    <3>1. CASE broken[b]
      <4>1. /\ writer' = [writer EXCEPT ![b] = FALSE] /\ merge' = [merge EXCEPT ![b] = <<>>]
            /\ UNCHANGED delivered
        BY Zenon, <1>9, <3>1 DEF WriterSend
      <4>2. /\ writer \in [Bridge -> BOOLEAN] /\ merge \in [Bridge -> Seq(Event)]
            /\ delivered \in [Bridge -> Seq(Event)]
        BY Zenon DEF TypeOK
      <4> QED  BY Zenon, <2>3, <4>1, <4>2
    <3>2. CASE ~broken[b]
      <4>1. /\ delivered' = [delivered EXCEPT ![b] = Append(delivered[b], Head(merge[b]))]
            /\ merge' = [merge EXCEPT ![b] = Tail(merge[b])] /\ UNCHANGED writer
        BY Zenon, <1>9, <3>2 DEF WriterSend
      <4> QED  BY <2>2, <2>3, <4>1 DEF TypeOK
    <3> QED  BY <3>1, <3>2
  <2> QED
    BY Zenon, <1>9, <2>4 DEF WriterSend, TypeOK, storeVars, endpointVars, bridgeVars
<1>10. CASE StreamBreak(b)
  BY <1>10 DEF StreamBreak, TypeOK, storeVars, endpointVars, bridgeVars
<1> QED
  BY <1>1, <1>2, <1>3, <1>4, <1>5, <1>6, <1>7, <1>8, <1>9, <1>10 DEF BridgeStep

LEMMA RelayTypesStep ==
    ASSUME TypeOK, NEW s \in Sink, Relay(s)
    PROVE  TypeOK'
<1>1. s[1] \in Bridge
  BY SinkPair
<1>2. sinkQ[s] \in Seq(Event)
  BY DEF TypeOK
<1>3. Head(sinkQ[s]) \in Event /\ Tail(sinkQ[s]) \in Seq(Event) /\ <<>> \in Seq(Event)
  <2>1. sinkQ[s] # <<>>
    BY DEF Relay
  <2>2. <<>> \in Seq(Event)
    OBVIOUS
  <2> QED  BY Zenon, <1>2, <2>1, <2>2, HeadTailType
<1>4. merge' \in [Bridge -> Seq(Event)]
  BY Zenon, <1>1, <1>3, SendType DEF Relay, TypeOK
<1>5. sinkQ' \in [Sink -> Seq(Event)] /\ relay' \in [Sink -> BOOLEAN]
  <2>1. sinkQ \in [Sink -> Seq(Event)] /\ relay \in [Sink -> BOOLEAN]
    BY Zenon DEF TypeOK
  <2>2. PICK q \in Seq(Event) : sinkQ' = [sinkQ EXCEPT ![s] = q]
    BY Zenon, <1>3 DEF Relay
  <2>3. relay' = relay \/ relay' = [relay EXCEPT ![s] = FALSE]
    BY Zenon DEF Relay
  <2>4. sinkQ' \in [Sink -> Seq(Event)]
    BY Zenon, <2>1, <2>2
  <2>5. relay' \in [Sink -> BOOLEAN]
    BY Zenon, <2>1, <2>3
  <2> QED  BY <2>4, <2>5
<1> QED
  BY Zenon, <1>4, <1>5 DEF Relay, TypeOK, storeVars, endpointVars, bridgeVars

\* Types are kept: no task, event or delegate has another shape, and no timestamp
\* passes the last one PD gave.
THEOREM TypeCorrect == Spec => []TypeOK
<1>1. Init => TypeOK
  <2> SUFFICES ASSUME Init PROVE TypeOK
    OBVIOUS
  <2>1. StoreTypes
    BY ProducerAssumption DEF Init, StoreTypes
  <2>2. EndpointTypes
    BY ProducerAssumption, DelegateTypes DEF Init, EndpointTypes, Delegate
  <2>3. BridgeTypes
    BY ProducerAssumption DEF Init, BridgeTypes
  <2>4. StreamTypes
    BY DEF Init, StreamTypes
  <2>5. tasks \in Seq(Task)
    BY DEF Init
  <2> QED
    BY <2>1, <2>2, <2>3, <2>4, <2>5, TypeGroups
<1>2. TypeOK /\ [Next]_vars => TypeOK'
  <2> SUFFICES ASSUME TypeOK, [Next]_vars PROVE TypeOK'
    OBVIOUS
  <2>1. CASE UNCHANGED vars
    BY <2>1 DEF TypeOK, vars, storeVars, endpointVars, bridgeVars, streamVars
  <2>2. CASE Next
    BY <2>2, StoreTypesStep, EndpointTypesStep, BridgeTypesStep, RelayTypesStep DEF Next
  <2> QED  BY <2>1, <2>2
<1> QED  BY <1>1, <1>2, PTL DEF Spec


(***************************************************************************)
(* Registration.  RegistryAgreement is not inductive: a registration gives *)
(* its sink to the existing delegates only if another one came before it,  *)
(* so the first must not find a delegate of a bridge.  It cannot, because  *)
(* every start task has a register task before it in the endpoint's queue. *)
(***************************************************************************)

Registering == \E j \in DOMAIN tasks : tasks[j].op = "register"

StartsFollow ==
    \A i \in DOMAIN tasks : tasks[i].op = "start" =>
        \E j \in 1..(i - 1) : tasks[j].op = "register"

RInv ==
    /\ RegistryAgreement
    /\ registry = None =>
          /\ \A r \in Region : dele[r].id # 0 => feed[r]
          /\ StartsFollow
          /\ \A b \in Bridge : pc[b] # "idle" => Registering

LEMMA ScheduleKeeps ==
    ASSUME tasks \in Seq(Task), NEW ts \in Seq(Task), Schedule(ts)
    PROVE  /\ Registering => Registering'
           /\ (\E i \in DOMAIN ts : ts[i].op = "register") => Registering'
           /\ StartsFollow /\ (Registering \/ \A i \in DOMAIN ts : ts[i].op # "start")
                => StartsFollow'
<1>1. /\ Len(tasks) \in Nat /\ Len(ts) \in Nat
      /\ DOMAIN tasks = 1..Len(tasks) /\ DOMAIN ts = 1..Len(ts)
      /\ DOMAIN tasks' = 1..(Len(tasks) + Len(ts))
      /\ \A i \in 1..Len(tasks) : tasks'[i] = tasks[i]
      /\ \A i \in 1..(Len(tasks) + Len(ts)) : i > Len(tasks) =>
            i - Len(tasks) \in 1..Len(ts) /\ tasks'[i] = ts[i - Len(tasks)]
  BY DEF Schedule
<1>2. Registering => Registering'
  BY <1>1 DEF Registering
<1>3. ASSUME NEW k \in DOMAIN ts, ts[k].op = "register" PROVE Registering'
  <2>1. Len(tasks) + k \in DOMAIN tasks' /\ tasks'[Len(tasks) + k] = ts[k]
    BY <1>1
  <2> QED  BY <1>3, <2>1 DEF Registering
<1>4. ASSUME StartsFollow, Registering \/ \A i \in DOMAIN ts : ts[i].op # "start"
      PROVE  StartsFollow'
  <2> SUFFICES ASSUME NEW i \in DOMAIN tasks', tasks'[i].op = "start"
               PROVE  \E j \in 1..(i - 1) : tasks'[j].op = "register"
    BY DEF StartsFollow
  <2>1. CASE i <= Len(tasks)
    BY <1>1, <1>4, <2>1 DEF StartsFollow
  <2>2. CASE i > Len(tasks)
    <3>1. PICK j \in DOMAIN tasks : tasks[j].op = "register"
      BY <1>1, <1>4, <2>2 DEF Registering
    <3> QED  BY <1>1, <2>2, <3>1
  <2> QED  BY <1>1, <2>1, <2>2
<1> QED  BY <1>2, <1>3, <1>4

LEMMA TakeKeeps ==
    ASSUME tasks \in Seq(Task), NEW op, TakeTask(op), op # "register"
    PROVE  /\ Registering => Registering'
           /\ StartsFollow => StartsFollow' /\ op # "start"
<1>1. /\ Len(tasks) \in Nat /\ Len(tasks) > 0 /\ DOMAIN tasks = 1..Len(tasks)
      /\ DOMAIN tasks' = 1..(Len(tasks) - 1)
      /\ \A i \in 1..(Len(tasks) - 1) : tasks'[i] = tasks[i + 1]
      /\ tasks[1].op = op
  BY DEF TakeTask
<1>2. ASSUME Registering PROVE Registering'
  <2>1. PICK j \in 1..Len(tasks) : tasks[j].op = "register"
    BY <1>1, <1>2 DEF Registering
  <2>2. j # 1 /\ j - 1 \in DOMAIN tasks' /\ tasks'[j - 1] = tasks[j]
    BY <1>1, <2>1
  <2> QED  BY <2>1, <2>2 DEF Registering
<1>3. ASSUME StartsFollow PROVE StartsFollow'
  <2> SUFFICES ASSUME NEW i \in DOMAIN tasks', tasks'[i].op = "start"
               PROVE  \E j \in 1..(i - 1) : tasks'[j].op = "register"
    BY DEF StartsFollow
  <2>1. i + 1 \in DOMAIN tasks /\ tasks[i + 1].op = "start"
    BY <1>1
  <2>2. PICK j \in 1..i : tasks[j].op = "register"
    <3>1. \E j \in 1..((i + 1) - 1) : tasks[j].op = "register"
      BY Zenon, <1>3, <2>1 DEF StartsFollow
    <3>2. (i + 1) - 1 = i
      BY <1>1
    <3> QED  BY Zenon, <3>1, <3>2
  <2>3. j # 1 /\ j - 1 \in 1..(i - 1) /\ tasks'[j - 1] = tasks[j]
    BY <1>1, <2>2
  <2> QED  BY <2>2, <2>3
<1>4. ASSUME StartsFollow PROVE op # "start"
  BY <1>1, <1>4 DEF StartsFollow
<1> QED  BY <1>2, <1>3, <1>4

\* Steps that leave the delegates alone and at most add tasks.
LEMMA ScheduleStep ==
    ASSUME TypeOK, RInv, UNCHANGED <<registry, dele, feed>>,
           \/ UNCHANGED <<tasks, pc>>
           \/ /\ \E ts \in Seq(Task) : Schedule(ts) /\ \A i \in DOMAIN ts : ts[i].op # "start"
              /\ UNCHANGED pc
    PROVE  RInv'
<1>1. RegistryAgreement'
  BY DEF RInv, RegistryAgreement
<1>2. CASE UNCHANGED <<tasks, pc>>
  BY <1>1, <1>2 DEF RInv, StartsFollow, Registering
<1>3. CASE /\ \E ts \in Seq(Task) : Schedule(ts) /\ \A i \in DOMAIN ts : ts[i].op # "start"
           /\ UNCHANGED pc
  BY <1>1, <1>3, ScheduleKeeps DEF RInv, TypeOK
<1> QED  BY <1>2, <1>3

LEMMA StoreRInv ==
    ASSUME TypeOK, RInv, StoreStep
    PROVE  RInv'
<1>1. UNCHANGED <<registry, dele, feed, pc>>
  BY Zenon DEF StoreStep, TakeCommitTs, ApplyCommit, ApplySplit, Heartbeat, ApplyCapture,
         endpointVars, bridgeVars
<1>2. ASSUME NEW ts \in Ts \cup {0}, NEW r \in Region, Observe(r, ts)
      PROVE  RInv'
  <2>1. CASE UNCHANGED tasks
    BY <1>1, <2>1, ScheduleStep
  <2>2. CASE Schedule(<<[op |-> "batch", region |-> r, id |-> observed[r], ts |-> ts]>>)
    <3> DEFINE t == [op |-> "batch", region |-> r, id |-> observed[r], ts |-> ts]
               q == <<t>>
    <3>1. q \in Seq(Task) /\ \A i \in DOMAIN q : q[i].op # "start"
      <4>1. observed[r] \in Nat
        BY DEF TypeOK
      <4>2. t \in Task /\ t.op = "batch"
        BY <4>1 DEF Task
      <4> HIDE DEF t
      <4> QED  BY <4>2
    <3>2. Schedule(q)
      BY <2>2
    <3> HIDE DEF q
    <3> QED  BY <1>1, <3>1, <3>2, ScheduleStep
  <2> QED  BY <1>2, <2>1, <2>2 DEF Observe
<1>3. CASE UNCHANGED tasks
  BY <1>1, <1>3, ScheduleStep
<1>4. \/ UNCHANGED tasks
      \/ \E ts \in Ts \cup {0}, r \in Region : Observe(r, ts)
  BY Zenon DEF StoreStep, TakeCommitTs, ApplyCommit, ApplySplit, Heartbeat, ApplyCapture,
         endpointVars
<1> QED  BY <1>2, <1>3, <1>4

LEMMA EndpointRInv ==
    ASSUME TypeOK, TypeOK', RInv,
           \/ EndpointStep \/ ScheduleMinTs
           \/ \E r \in Region : OnRegister(r) \/ OnDeregister(r)
    PROVE  RInv'
<1> USE ProducerAssumption
<1>0. tasks \in Seq(Task) /\ dele \in [Region -> Delegate] /\ feed \in [Region -> BOOLEAN]
  BY Zenon DEF TypeOK, Delegate
<1>1. CASE OnRegisterSpan
  <2>1. registry' \in Sink
    BY <1>0, <1>1, TakeTaskType DEF OnRegisterSpan
  <2>2. ASSUME NEW r \in Region, dele'[r].id # 0
        PROVE  dele'[r].sink = registry' \/ (dele'[r].sink = None /\ feed'[r])
    <3>0. feed' = feed /\ dele[r] \in Delegate
      BY <1>0, <1>1 DEF OnRegisterSpan
    <3>1. CASE registry # None /\ dele[r].id # 0
      <4>1. dele'[r] = [dele[r] EXCEPT !.sink = registry']
        BY <1>1, <3>1 DEF OnRegisterSpan
      <4> QED  BY <3>0, <4>1 DEF Delegate
    <3>2. CASE ~(registry # None /\ dele[r].id # 0)
      <4>1. dele'[r] = dele[r]
        BY <1>1, <3>2 DEF OnRegisterSpan
      <4> QED  BY <2>2, <3>0, <3>2, <4>1 DEF RInv, RegistryAgreement
    <3> QED  BY <3>1, <3>2
  <2> QED  BY <2>1, <2>2 DEF RInv, RegistryAgreement
<1>2. CASE OnStartPcrStream
  <2>1. registry' = registry /\ feed' = feed /\ TakeTask("start") /\ Head(tasks).region \in Region
    BY <1>0, <1>2, TakeTaskType DEF OnStartPcrStream
  <2>2. registry # None
    BY <1>0, <2>1, TakeKeeps DEF RInv
  <2>3. PICK r \in Region, n \in Nat : dele' = [dele EXCEPT ![r] = [id |-> n, sink |-> registry]]
    <3> DEFINE r == Head(tasks).region
               id == IF dele[r].id # 0 THEN dele[r].id ELSE nextId
    <3>1. dele' = [dele EXCEPT ![r] = [id |-> id, sink |-> registry]]
      BY <1>2 DEF OnStartPcrStream
    <3>2. dele[r].id \in Nat /\ nextId \in Nat
      <4>1. nextId \in 1..(MaxObserveId + 1) /\ dele[r] \in Delegate
        BY Zenon, <1>0, <2>1 DEF TypeOK
      <4> HIDE DEF r
      <4> QED  BY <4>1 DEF Delegate
    <3> QED  BY Zenon, <2>1, <3>1, <3>2
  <2> QED  BY <1>0, <2>1, <2>2, <2>3 DEF RInv, RegistryAgreement
<1>3. CASE OnMultiBatch
  <2> DEFINE r == Head(tasks).region
  <2>1. registry' = registry /\ pc' = pc /\ TakeTask("batch")
    BY <1>3 DEF OnMultiBatch, bridgeVars
  <2>2. UNCHANGED <<dele, feed>> \/ /\ dele' = [dele EXCEPT ![r] = NoDelegate]
                                    /\ feed' = [feed EXCEPT ![r] = FALSE]
    BY <1>3 DEF OnMultiBatch
  <2> HIDE DEF r
  <2>3. \A x \in Region : dele'[x].id # 0 => dele'[x] = dele[x] /\ feed'[x] = feed[x]
    BY <1>0, <2>2 DEF NoDelegate
  <2> QED  BY <1>0, <2>1, <2>3, TakeKeeps DEF RInv, RegistryAgreement
<1>4. CASE OnMinTs
  <2>1. UNCHANGED <<registry, dele, feed, pc>> /\ TakeTask("min_ts")
    BY <1>4 DEF OnMinTs, bridgeVars
  <2> QED  BY <1>0, <2>1, TakeKeeps DEF RInv, RegistryAgreement
<1>5. CASE ScheduleMinTs
  <2>1. PICK ts \in Ts \cup {0} : Schedule(<<[op |-> "min_ts", ts |-> ts]>>)
    BY Zenon, <1>5, TsNat DEF ScheduleMinTs, TypeOK
  <2> DEFINE q == <<[op |-> "min_ts", ts |-> ts]>>
  <2>2. q \in Seq(Task) /\ \A i \in DOMAIN q : q[i].op # "start"
    BY DEF Task
  <2>3. UNCHANGED <<registry, dele, feed, pc>>
    BY Zenon, <1>5 DEF ScheduleMinTs, bridgeVars
  <2> HIDE DEF q
  <2> QED  BY Zenon, <2>1, <2>2, <2>3, ScheduleStep DEF q
<1>6. ASSUME NEW r \in Region, OnRegister(r)
      PROVE  RInv'
  <2>1. UNCHANGED <<tasks, registry, pc>>
    BY <1>6 DEF OnRegister, bridgeVars
  <2>2. CASE registry # None
    <3>1. feed' = feed /\ dele' = [dele EXCEPT ![r].sink = registry]
      BY Zenon, <1>6, <2>2 DEF OnRegister
    <3>2. \A x \in Region : /\ dele'[x].id = dele[x].id
                            /\ dele'[x].sink = dele[x].sink \/ dele'[x].sink = registry
      BY <1>0, <3>1 DEF Delegate
    <3> QED  BY <2>1, <2>2, <3>1, <3>2 DEF RInv, RegistryAgreement
  <2>3. CASE registry = None
    <3>1. /\ dele' = [dele EXCEPT ![r] = [id |-> nextId, sink |-> None]]
          /\ feed' = [feed EXCEPT ![r] = TRUE]
      BY <1>6, <2>3 DEF OnRegister
    <3>2. \A x \in Region : \/ x = r /\ dele'[x].sink = None /\ feed'[x]
                            \/ dele'[x] = dele[x] /\ feed'[x] = feed[x]
      BY Zenon, <1>0, <3>1
    <3>3. RegistryAgreement' /\ \A x \in Region : dele'[x].id # 0 => feed'[x]
      BY <2>1, <2>3, <3>2 DEF RInv, RegistryAgreement
    <3> QED  BY Zenon, <2>1, <2>3, <3>3 DEF RInv, StartsFollow, Registering
  <2> QED  BY <2>2, <2>3
<1>7. ASSUME NEW r \in Region, OnDeregister(r)
      PROVE  RInv'
  <2>1. UNCHANGED <<tasks, registry, pc>>
    BY <1>7 DEF OnDeregister, bridgeVars
  <2>2. \A x \in Region : dele'[x].id # 0 => dele'[x] = dele[x] /\ feed'[x] = feed[x]
    BY Zenon, <1>0, <1>7 DEF OnDeregister, NoDelegate
  <2> QED  BY <2>1, <2>2 DEF RInv, RegistryAgreement, StartsFollow, Registering
<1> QED
  BY <1>1, <1>2, <1>3, <1>4, <1>5, <1>6, <1>7 DEF EndpointStep

LEMMA BridgeRInv ==
    ASSUME TypeOK, RInv, NEW b \in Bridge, BridgeStep(b)
    PROVE  RInv'
<1>0. tasks \in Seq(Task) /\ pc \in [Bridge -> {"idle", "resolve", "known", "loop", "send"}]
  BY DEF TypeOK
<1>1. UNCHANGED <<registry, dele, feed>>
  BY Zenon DEF BridgeStep, Subscribe, StartRegions, KnowRegions, CheckpointTick, CheckpointSend,
         Rediscover, ScanSnapshot, ScanSend, WriterSend, StreamBreak, endpointVars
<1>2. RegistryAgreement'
  BY <1>1 DEF RInv, RegistryAgreement
<1>3. CASE Subscribe(b)
  <2> DEFINE q == <<RegisterTask(<<b, 0>>)>>
  <2>1. q \in Seq(Task) /\ DOMAIN q = 1..1 /\ q[1].op = "register"
    <3>1. RegisterTask(<<b, 0>>) \in Task /\ RegisterTask(<<b, 0>>).op = "register"
      BY Zenon, BridgeSinks DEF RegisterTask, Task
    <3> QED  BY <3>1
  <2>2. Schedule(q)
    BY <1>3 DEF Subscribe
  <2> HIDE DEF q
  <2>3. Registering' /\ (StartsFollow => StartsFollow')
    BY <1>0, <2>1, <2>2, ScheduleKeeps
  <2> QED  BY <1>1, <1>2, <2>3 DEF RInv
<1>4. CASE StartRegions(b) \/ Rediscover(b)
  <2>1. PICK q \in Seq(Task) : Schedule(q)
    <3>1. CASE StartRegions(b)
      BY <3>1, ResolvedType, StartTasksType DEF StartRegions
    <3>2. CASE Rediscover(b)
      <4>1. PICK ok \in PdOutcome :
                Schedule(Append(StartTasks(Resolved(ok) \ known[b]),
                                RegisterTask(<<b, 1 - gen[b]>>)))
        BY Zenon, <3>2 DEF Rediscover
      <4>2. StartTasks(Resolved(ok) \ known[b]) \in Seq(Task)
        BY Zenon, ResolvedType, StartTasksType
      <4>3. RegisterTask(<<b, 1 - gen[b]>>) \in Task
        <5>1. gen[b] \in {0, 1}
          BY DEF TypeOK
        <5>2. <<b, 1 - gen[b]>> \in Sink
          BY <5>1, BridgeSinks DEF Sink
        <5> QED  BY <5>2 DEF RegisterTask, Task
      <4> QED  BY Zenon, <4>1, <4>2, <4>3, AppendType
    <3> QED  BY <1>4, <3>1, <3>2
  <2>2. pc[b] # "idle"
    BY <1>4 DEF StartRegions, Rediscover
  <2>3. registry = None => Registering' /\ StartsFollow'
    BY <1>0, <2>1, <2>2, ScheduleKeeps DEF RInv
  <2> QED  BY <1>1, <1>2, <2>3 DEF RInv
<1>5. CASE UNCHANGED tasks /\ \A a \in Bridge : pc[a] = "idle" => pc'[a] = "idle"
  BY <1>1, <1>2, <1>5 DEF RInv, StartsFollow, Registering
<1>6. CASE KnowRegions(b) \/ CheckpointTick(b) \/ CheckpointSend(b)
  BY <1>0, <1>5, <1>6 DEF KnowRegions, CheckpointTick, CheckpointSend, endpointVars
<1>7. CASE \/ \E r \in Region : ScanSnapshot(b, r) \/ ScanSend(b, r)
           \/ WriterSend(b) \/ StreamBreak(b)
  BY Zenon, <1>5, <1>7 DEF ScanSnapshot, ScanSend, WriterSend, StreamBreak, endpointVars, bridgeVars
<1> QED  BY <1>3, <1>4, <1>6, <1>7 DEF BridgeStep

\* A delegate's PCR sink is the registered one, whichever bridges registered in
\* whatever order, for any number of regions, bridges and changefeeds.
THEOREM RegistryAgreementHolds == Spec => []RegistryAgreement
<1>1. Init => RInv
  BY DEF Init, RInv, RegistryAgreement, NoDelegate, StartsFollow, Registering
<1>2. TypeOK /\ TypeOK' /\ RInv /\ [Next]_vars => RInv'
  <2> SUFFICES ASSUME TypeOK, TypeOK', RInv, [Next]_vars PROVE RInv'
    OBVIOUS
  <2>1. CASE UNCHANGED vars \/ \E s \in Sink : Relay(s)
    <3>1. UNCHANGED <<registry, dele, feed, tasks, pc>>
      BY <2>1 DEF Relay, vars, endpointVars, bridgeVars
    <3> QED  BY <3>1, ScheduleStep
  <2>2. CASE Next
    BY <2>1, <2>2, StoreRInv, EndpointRInv, BridgeRInv DEF Next
  <2> QED  BY <2>1, <2>2
<1>3. RInv => RegistryAgreement
  BY DEF RInv
<1> QED  BY <1>1, <1>2, <1>3, TypeCorrect, PTL DEF Spec

(***************************************************************************)
(* Delivery.  A live sink belongs to a bridge that runs, so a bridge that  *)
(* has not subscribed yet has been handed nothing.                         *)
(***************************************************************************)

InTransit(b) == Kvs(delivered[b]) \cup Kvs(merge[b])
                    \cup Kvs(sinkQ[<<b, 0>>]) \cup Kvs(sinkQ[<<b, 1>>])

KInv ==
    \A b \in Bridge :
        /\ writer[b] => handed[b] \subseteq InTransit(b)
        /\ pc[b] = "idle" => handed[b] = {} /\ \A n \in {0, 1} : ~relay[<<b, n>>]

LEMMA KvsAppend ==
    ASSUME NEW q \in Seq(Event), NEW e \in Event
    PROVE  Kvs(Append(q, e)) = Kvs(q) \cup e.kvs
<1>1. /\ Len(q) \in Nat /\ DOMAIN q = 1..Len(q)
      /\ DOMAIN Append(q, e) = 1..(Len(q) + 1)
      /\ \A i \in 1..Len(q) : Append(q, e)[i] = q[i]
      /\ Append(q, e)[Len(q) + 1] = e
  OBVIOUS
<1>2. \A i \in 1..(Len(q) + 1) : i \in 1..Len(q) \/ i = Len(q) + 1
  BY <1>1
<1>3. Len(q) + 1 \in 1..(Len(q) + 1) /\ 1..Len(q) \subseteq 1..(Len(q) + 1)
  BY <1>1
<1>4. ASSUME NEW x PROVE x \in Kvs(Append(q, e)) <=> x \in Kvs(q) \cup e.kvs
  BY Zenon, <1>1, <1>2, <1>3 DEF Kvs
<1> QED  BY Zenon, <1>4

LEMMA KvsHeadTail ==
    ASSUME NEW q \in Seq(Event), q # <<>>
    PROVE  Kvs(q) = Head(q).kvs \cup Kvs(Tail(q))
<1>1. /\ Len(q) \in Nat \ {0} /\ DOMAIN q = 1..Len(q)
      /\ DOMAIN Tail(q) = 1..(Len(q) - 1)
      /\ \A i \in 1..(Len(q) - 1) : i + 1 \in 1..Len(q) /\ Tail(q)[i] = q[i + 1]
      /\ Head(q) = q[1] /\ 1 \in 1..Len(q)
  OBVIOUS
<1>2. \A i \in 1..Len(q) : i = 1 \/ \E j \in 1..(Len(q) - 1) : i = j + 1
  <2> SUFFICES ASSUME NEW i \in 1..Len(q), i # 1
               PROVE  \E j \in 1..(Len(q) - 1) : i = j + 1
    OBVIOUS
  <2>1. i - 1 \in 1..(Len(q) - 1) /\ i = (i - 1) + 1
    BY <1>1
  <2> QED  BY <2>1
<1>3. ASSUME NEW x, x \in Kvs(q) PROVE x \in Head(q).kvs \cup Kvs(Tail(q))
  <2>1. PICK i \in 1..Len(q) : x \in q[i].kvs
    BY Zenon, <1>1, <1>3 DEF Kvs
  <2>2. CASE i = 1
    BY Zenon, <1>1, <2>1, <2>2
  <2>3. ASSUME NEW j \in 1..(Len(q) - 1), i = j + 1
        PROVE  x \in Kvs(Tail(q))
    BY Zenon, <1>1, <2>1, <2>3 DEF Kvs
  <2> QED  BY Zenon, <1>2, <2>2, <2>3
<1>4. Head(q).kvs \subseteq Kvs(q)
  BY Zenon, <1>1 DEF Kvs
<1>5. ASSUME NEW x, x \in Kvs(Tail(q)) PROVE x \in Kvs(q)
  <2>1. PICK i \in 1..(Len(q) - 1) : x \in Tail(q)[i].kvs
    BY Zenon, <1>1, <1>5 DEF Kvs
  <2>2. i + 1 \in 1..Len(q) /\ x \in q[i + 1].kvs
    BY Zenon, <1>1, <2>1
  <2> QED  BY Zenon, <1>1, <2>2 DEF Kvs
<1> QED  BY Zenon, <1>3, <1>4, <1>5

\* A send to the merge channel of a, whatever the event.
LEMMA SendKeeps ==
    ASSUME TypeOK, KInv, NEW a \in Bridge, NEW e \in Event, Send(a, e) \/ UNCHANGED merge,
           UNCHANGED <<sinkQ, relay, writer, delivered, handed>>,
           \A b \in Bridge : pc'[b] = "idle" => pc[b] = "idle"
    PROVE  KInv'
<1>1. \A b \in Bridge : Kvs(merge[b]) \subseteq Kvs(merge'[b])
  <2>1. CASE UNCHANGED merge
    BY Zenon, <2>1
  <2>2. CASE merge' = [merge EXCEPT ![a] = Append(@, e)]
    <3> SUFFICES ASSUME NEW b \in Bridge PROVE Kvs(merge[b]) \subseteq Kvs(merge'[b])
      OBVIOUS
    <3>1. merge[b] \in Seq(Event) /\ merge'[b] = IF b = a THEN Append(merge[b], e) ELSE merge[b]
      BY Zenon, <2>2 DEF TypeOK
    <3> QED  BY Zenon, <3>1, KvsAppend
  <2> QED  BY Zenon, <2>1, <2>2 DEF Send
<1>2. \A b \in Bridge : InTransit(b) \subseteq InTransit(b)'
  BY Zenon, <1>1 DEF InTransit
<1> QED  BY Zenon, <1>2 DEF KInv

\* A delegate's event goes to a live sink, which is of a bridge that runs.
LEMMA EmitKeeps ==
    ASSUME TypeOK, KInv, NEW s \in Sink \cup {None}, NEW e \in Event,
           EmitPcrEvent(s, e) \/ UNCHANGED <<sinkQ, handed>>,
           UNCHANGED <<relay, merge, writer, delivered, pc>>
    PROVE  KInv'
<1>1. CASE UNCHANGED <<sinkQ, handed>>
  BY Zenon, <1>1 DEF KInv, InTransit
<1>2. CASE /\ s # None /\ relay[s]
           /\ sinkQ' = [sinkQ EXCEPT ![s] = Append(@, e)]
           /\ handed' = [handed EXCEPT ![s[1]] = @ \cup e.kvs]
  <2>1. s \in Sink
    BY Zenon, <1>2
  <2>2. PICK a \in Bridge, n \in {0, 1} : s = <<a, n>> /\ s[1] = a
    BY <2>1 DEF Sink
  <2>3. pc[a] # "idle"
    BY Zenon, <1>2, <2>2 DEF KInv
  <2>4. \A b \in Bridge : handed'[b] = IF b = a THEN handed[b] \cup e.kvs ELSE handed[b]
    BY Zenon, <1>2, <2>2 DEF TypeOK
  <2>5. \A t \in Sink : Kvs(sinkQ'[t]) = IF t = s THEN Kvs(sinkQ[t]) \cup e.kvs ELSE Kvs(sinkQ[t])
    <3> SUFFICES ASSUME NEW t \in Sink
                 PROVE  Kvs(sinkQ'[t]) = IF t = s THEN Kvs(sinkQ[t]) \cup e.kvs ELSE Kvs(sinkQ[t])
      OBVIOUS
    <3>1. sinkQ[t] \in Seq(Event) /\ sinkQ'[t] = IF t = s THEN Append(sinkQ[t], e) ELSE sinkQ[t]
      BY Zenon, <1>2 DEF TypeOK
    <3> QED  BY Zenon, <3>1, KvsAppend
  <2>6. ASSUME NEW b \in Bridge
        PROVE  /\ writer'[b] => handed'[b] \subseteq InTransit(b)'
               /\ pc'[b] = "idle" => handed'[b] = {} /\ \A m \in {0, 1} : ~relay'[<<b, m>>]
    <3>0. <<b, 0>> \in Sink /\ <<b, 1>> \in Sink
      BY Zenon, BridgeSinks
    <3>1. InTransit(b) \subseteq InTransit(b)'
      BY Zenon, <2>5, <3>0 DEF InTransit
    <3>2. b = a => e.kvs \subseteq InTransit(b)'
      BY Zenon, <2>2, <2>5, <3>0 DEF InTransit
    <3> QED  BY Zenon, <2>3, <2>4, <3>1, <3>2 DEF KInv
  <2> QED  BY Zenon, <2>6 DEF KInv
<1> QED  BY Zenon, <1>1, <1>2 DEF EmitPcrEvent

LEMMA SubscribeKeeps ==
    ASSUME TypeOK, KInv, NEW a \in Bridge, Subscribe(a)
    PROVE  KInv'
<1>1. /\ pc[a] = "idle" /\ pc' = [pc EXCEPT ![a] = "resolve"]
      /\ relay' = [relay EXCEPT ![<<a, 0>>] = TRUE] /\ writer' = [writer EXCEPT ![a] = TRUE]
      /\ UNCHANGED <<sinkQ, merge, delivered, handed>>
  BY Zenon DEF Subscribe
<1>2. \A b \in Bridge : /\ pc'[b] = IF b = a THEN "resolve" ELSE pc[b]
                        /\ writer'[b] = IF b = a THEN TRUE ELSE writer[b]
                        /\ InTransit(b)' = InTransit(b)
  BY Zenon, <1>1 DEF TypeOK, InTransit
<1>3. \A b \in Bridge, n \in {0, 1} : b # a => relay'[<<b, n>>] = relay[<<b, n>>]
  <2> SUFFICES ASSUME NEW b \in Bridge, NEW n \in {0, 1}, b # a
               PROVE  relay'[<<b, n>>] = relay[<<b, n>>]
    BY Zenon
  <2>1. <<b, n>> \in Sink /\ <<b, n>> # <<a, 0>>
    BY DEF Sink
  <2> QED  BY Zenon, <1>1, <2>1 DEF TypeOK
<1>4. handed'[a] = {}
  BY Zenon, <1>1 DEF KInv
<1>5. "resolve" # "idle"
  OBVIOUS
<1>6. ASSUME NEW b \in Bridge
      PROVE  /\ writer'[b] => handed'[b] \subseteq InTransit(b)'
             /\ pc'[b] = "idle" => handed'[b] = {} /\ \A m \in {0, 1} : ~relay'[<<b, m>>]
  <2>1. CASE b = a
    BY Zenon, <1>2, <1>4, <1>5, <2>1
  <2>2. CASE b # a
    <3>1. writer'[b] = writer[b] /\ pc'[b] = pc[b] /\ InTransit(b)' = InTransit(b)
      BY Zenon, <1>2, <2>2
    <3>2. handed'[b] = handed[b] /\ \A m \in {0, 1} : relay'[<<b, m>>] = relay[<<b, m>>]
      BY Zenon, <1>1, <1>3, <2>2
    <3> QED  BY Zenon, <3>1, <3>2 DEF KInv
  <2> QED  BY Zenon, <2>1, <2>2
<1> QED  BY Zenon, <1>6 DEF KInv

LEMMA RediscoverKeeps ==
    ASSUME TypeOK, KInv, NEW a \in Bridge, Rediscover(a)
    PROVE  KInv'
<1>1. /\ pc[a] = "loop" /\ UNCHANGED <<pc, sinkQ, merge, writer, delivered, handed>>
      /\ relay' = [relay EXCEPT ![<<a, 1 - gen[a]>>] = TRUE]
  BY Zenon DEF Rediscover
<1>2. \A b \in Bridge, n \in {0, 1} : b # a => relay'[<<b, n>>] = relay[<<b, n>>]
  <2> SUFFICES ASSUME NEW b \in Bridge, NEW n \in {0, 1}, b # a
               PROVE  relay'[<<b, n>>] = relay[<<b, n>>]
    BY Zenon
  <2>1. <<b, n>> \in Sink /\ <<b, n>> # <<a, 1 - gen[a]>>
    BY DEF Sink
  <2> QED  BY Zenon, <1>1, <2>1 DEF TypeOK
<1>3. "loop" # "idle"
  OBVIOUS
<1> QED  BY Zenon, <1>1, <1>2, <1>3 DEF KInv, InTransit

LEMMA RelayKeeps ==
    ASSUME TypeOK, KInv, NEW s \in Sink, Relay(s)
    PROVE  KInv'
<1>0. PICK a \in Bridge, n \in {0, 1} : s = <<a, n>> /\ s[1] = a
  BY DEF Sink
<1>1. /\ sinkQ[s] \in Seq(Event) /\ sinkQ[s] # <<>>
      /\ UNCHANGED <<pc, writer, delivered, handed>>
  BY Zenon DEF Relay, TypeOK, bridgeVars
<1>2. Head(sinkQ[s]) \in Event /\ Tail(sinkQ[s]) \in Seq(Event)
  BY <1>1, HeadTailType
<1>3. CASE writer[a]
  <2>1. /\ relay' = relay /\ sinkQ' = [sinkQ EXCEPT ![s] = Tail(@)]
        /\ merge' = [merge EXCEPT ![a] = Append(@, Head(sinkQ[s]))]
    BY Zenon, <1>0, <1>3 DEF Relay, Send
  <2>2. \A t \in Sink : t # s => sinkQ'[t] = sinkQ[t]
    BY Zenon, <2>1 DEF TypeOK
  <2>3. Kvs(sinkQ[s]) = Head(sinkQ[s]).kvs \cup Kvs(sinkQ'[s])
    <3>1. sinkQ'[s] = Tail(sinkQ[s])
      BY Zenon, <2>1 DEF TypeOK
    <3> QED  BY Zenon, <1>1, <3>1, KvsHeadTail
  <2>4. Kvs(merge'[a]) = Kvs(merge[a]) \cup Head(sinkQ[s]).kvs
    <3>1. merge[a] \in Seq(Event) /\ merge'[a] = Append(merge[a], Head(sinkQ[s]))
      BY Zenon, <2>1 DEF TypeOK
    <3> QED  BY Zenon, <1>2, <3>1, KvsAppend
  <2>5. \A b \in Bridge : b # a => merge'[b] = merge[b]
    BY Zenon, <2>1 DEF TypeOK
  <2>6. ASSUME NEW b \in Bridge PROVE InTransit(b) \subseteq InTransit(b)'
    <3>0. <<b, 0>> \in Sink /\ <<b, 1>> \in Sink
      BY Zenon, BridgeSinks
    <3>1. CASE b # a
      <4>1. <<b, 0>> # s /\ <<b, 1>> # s
        BY <1>0, <3>1
      <4> QED  BY Zenon, <1>1, <2>2, <2>5, <3>0, <3>1, <4>1 DEF InTransit
    <3>2. CASE b = a
      <4>1. Kvs(sinkQ[<<a, 0>>]) \subseteq Kvs(sinkQ'[<<a, 0>>]) \cup Kvs(merge'[a])
        BY Zenon, <2>2, <2>3, <2>4, <3>0, <3>2
      <4>2. Kvs(sinkQ[<<a, 1>>]) \subseteq Kvs(sinkQ'[<<a, 1>>]) \cup Kvs(merge'[a])
        BY Zenon, <2>2, <2>3, <2>4, <3>0, <3>2
      <4>3. Kvs(merge[a]) \subseteq Kvs(merge'[a]) /\ delivered'[a] = delivered[a]
        BY Zenon, <1>1, <2>4
      <4> QED  BY Zenon, <3>2, <4>1, <4>2, <4>3 DEF InTransit
    <3> QED  BY Zenon, <3>1, <3>2
  <2> QED  BY Zenon, <1>1, <2>1, <2>6 DEF KInv
<1>4. CASE ~writer[a]
  <2>1. /\ merge' = merge /\ sinkQ' = [sinkQ EXCEPT ![s] = <<>>]
        /\ relay' = [relay EXCEPT ![s] = FALSE]
    BY Zenon, <1>0, <1>4 DEF Relay, Send
  <2>2. \A t \in Sink : (t # s => sinkQ'[t] = sinkQ[t]) /\ (~relay[t] => ~relay'[t])
    BY Zenon, <2>1 DEF TypeOK
  <2>3. ASSUME NEW b \in Bridge, b # a PROVE InTransit(b) \subseteq InTransit(b)'
    <3>0. <<b, 0>> \in Sink /\ <<b, 1>> \in Sink
      BY Zenon, BridgeSinks
    <3>1. <<b, 0>> # s /\ <<b, 1>> # s
      BY <1>0, <2>3
    <3> QED  BY Zenon, <1>1, <2>1, <2>2, <3>0, <3>1 DEF InTransit
  <2>4. \A b \in Bridge, m \in {0, 1} : <<b, m>> \in Sink
    BY Zenon DEF Sink
  <2> QED  BY Zenon, <1>1, <1>4, <2>2, <2>3, <2>4 DEF KInv
<1> QED  BY Zenon, <1>3, <1>4

LEMMA WriterKeeps ==
    ASSUME TypeOK, KInv, NEW a \in Bridge, WriterSend(a)
    PROVE  KInv'
<1>1. merge[a] \in Seq(Event) /\ merge[a] # <<>> /\ UNCHANGED <<pc, sinkQ, relay, handed>>
  BY Zenon DEF WriterSend, TypeOK, bridgeVars
<1>2. CASE broken[a]
  <2>1. /\ writer' = [writer EXCEPT ![a] = FALSE] /\ delivered' = delivered
        /\ merge' = [merge EXCEPT ![a] = <<>>]
    BY Zenon, <1>2 DEF WriterSend
  <2>2. \A b \in Bridge : /\ writer'[b] => writer[b] /\ b # a
                          /\ b # a => merge'[b] = merge[b]
    BY Zenon, <2>1 DEF TypeOK
  <2> QED  BY Zenon, <1>1, <2>1, <2>2 DEF KInv, InTransit
<1>3. CASE ~broken[a]
  <2>1. /\ delivered' = [delivered EXCEPT ![a] = Append(@, Head(merge[a]))]
        /\ merge' = [merge EXCEPT ![a] = Tail(@)] /\ writer' = writer
    BY Zenon, <1>3 DEF WriterSend
  <2>2. \A b \in Bridge : b # a => merge'[b] = merge[b] /\ delivered'[b] = delivered[b]
    BY Zenon, <2>1 DEF TypeOK
  <2>3. Kvs(merge[a]) = Head(merge[a]).kvs \cup Kvs(merge'[a])
    <3>1. merge'[a] = Tail(merge[a])
      BY Zenon, <2>1 DEF TypeOK
    <3> QED  BY Zenon, <1>1, <3>1, KvsHeadTail
  <2>4. Kvs(delivered'[a]) = Kvs(delivered[a]) \cup Head(merge[a]).kvs
    <3>1. delivered[a] \in Seq(Event) /\ delivered'[a] = Append(delivered[a], Head(merge[a]))
      BY Zenon, <2>1 DEF TypeOK
    <3>2. Head(merge[a]) \in Event
      BY <1>1, HeadTailType
    <3> QED  BY Zenon, <3>1, <3>2, KvsAppend
  <2>5. ASSUME NEW b \in Bridge PROVE InTransit(b) \subseteq InTransit(b)'
    BY Zenon, <1>1, <2>2, <2>3, <2>4 DEF InTransit
  <2> QED  BY Zenon, <1>1, <2>1, <2>5 DEF KInv
<1> QED  BY Zenon, <1>2, <1>3

\* What a delegate handed to a live sink stays on its way to the consumer while
\* the writer runs, for any number of bridges, refreshes and splits.
THEOREM LiveStreamHolds == Spec => []LiveStreamKeepsEvents
<1>1. Init => KInv
  <2> SUFFICES ASSUME Init, NEW b \in Bridge
               PROVE  ~writer[b] /\ handed[b] = {} /\ \A n \in {0, 1} : ~relay[<<b, n>>]
    BY Zenon DEF KInv
  <2>1. \A n \in {0, 1} : <<b, n>> \in Sink
    BY Zenon DEF Sink
  <2> QED  BY Zenon, <2>1 DEF Init
<1>2. TypeOK /\ KInv /\ [Next]_vars => KInv'
  <2> SUFFICES ASSUME TypeOK, KInv, [Next]_vars PROVE KInv'
    OBVIOUS
  <2>1. CASE UNCHANGED <<sinkQ, relay, merge, writer, delivered, handed, pc>>
    BY Zenon, <2>1 DEF KInv, InTransit
  <2>2. CASE \/ UNCHANGED vars \/ StoreStep \/ ScheduleMinTs
             \/ OnRegisterSpan \/ OnStartPcrStream \/ OnMinTs
             \/ \E r \in Region : OnRegister(r) \/ OnDeregister(r)
    BY Zenon, <2>1, <2>2 DEF vars, StoreStep, TakeCommitTs, ApplyCommit, ApplySplit, Heartbeat,
         ApplyCapture, ScheduleMinTs, OnRegisterSpan, OnStartPcrStream, OnMinTs, OnRegister,
         OnDeregister, bridgeVars, streamVars
  <2>3. CASE OnMultiBatch
    <3> DEFINE r == Head(tasks).region
    <3>1. r \in Region /\ Head(tasks).ts \in Ts \cup {0}
      BY Zenon, <2>3, TakeTaskType DEF OnMultiBatch, TypeOK
    <3>2. dele[r].sink \in Sink \cup {None}
      BY Zenon, <3>1 DEF TypeOK
    <3>3. UNCHANGED <<relay, merge, writer, delivered, pc>>
      BY Zenon, <2>3 DEF OnMultiBatch, bridgeVars
    <3>4. PICK e \in Event : EmitPcrEvent(dele[r].sink, e) \/ UNCHANGED <<sinkQ, handed>>
      <4>1. CASE Head(tasks).ts # 0
        <5>1. Data({Head(tasks).ts}) \in Event
          BY <3>1, <4>1, EventTypes DEF Data, Event
        <5> QED  BY Zenon, <2>3, <4>1, <5>1 DEF OnMultiBatch
      <4>2. CASE Head(tasks).ts = 0
        <5>1. SplitEvent \in Event
          BY EventTypes
        <5> QED  BY Zenon, <2>3, <4>2, <5>1 DEF OnMultiBatch
      <4> QED  BY Zenon, <4>1, <4>2
    <3> HIDE DEF r
    <3> QED  BY Zenon, <3>2, <3>3, <3>4, EmitKeeps
  <2>4. ASSUME NEW b \in Bridge, BridgeStep(b) PROVE KInv'
    <3>1. CASE Subscribe(b) \/ Rediscover(b) \/ WriterSend(b)
      BY Zenon, <3>1, SubscribeKeeps, RediscoverKeeps, WriterKeeps
    <3>2. CASE \/ StartRegions(b) \/ KnowRegions(b) \/ CheckpointTick(b) \/ CheckpointSend(b)
               \/ StreamBreak(b)
               \/ \E r \in Region : ScanSnapshot(b, r) \/ ScanSend(b, r)
      <4>1. \A a \in Bridge : pc'[a] = "idle" => pc[a] = "idle"
        <5>1. pc' = pc \/ \E x \in {"known", "loop", "send"} : pc' = [pc EXCEPT ![b] = x]
          BY Zenon, <3>2 DEF StartRegions, KnowRegions, CheckpointTick, CheckpointSend, StreamBreak,
               ScanSnapshot, ScanSend, bridgeVars
        <5> QED  BY <5>1 DEF TypeOK
      <4>2. UNCHANGED <<sinkQ, relay, writer, delivered, handed>>
        BY Zenon, <3>2 DEF StartRegions, KnowRegions, CheckpointTick, CheckpointSend, StreamBreak,
             ScanSnapshot, ScanSend, streamVars
      <4>3. PICK e \in Event : Send(b, e) \/ UNCHANGED merge
        <5>1. CASE CheckpointSend(b)
          <6>1. Checkpoint(cpTs[b], known[b]) \in Event
            BY Zenon, EventTypes, TsNat DEF TypeOK
          <6> QED  BY Zenon, <5>1, <6>1 DEF CheckpointSend
        <5>2. ASSUME NEW r \in Region, ScanSend(b, r)
              PROVE  \E e \in Event : Send(b, e) \/ UNCHANGED merge
          <6>1. Data(snap[b][r]) \in Event
            BY EventTypes DEF TypeOK
          <6> QED  BY Zenon, <5>2, <6>1 DEF ScanSend
        <5>3. CASE UNCHANGED merge
          <6>1. SplitEvent \in Event
            BY EventTypes
          <6> QED  BY Zenon, <5>3, <6>1
        <5> QED
          BY Zenon, <3>2, <5>1, <5>2, <5>3 DEF StartRegions, KnowRegions, CheckpointTick,
               StreamBreak, ScanSnapshot, streamVars
      <4> QED  BY Zenon, <4>1, <4>2, <4>3, SendKeeps
    <3> QED  BY Zenon, <2>4, <3>1, <3>2 DEF BridgeStep
  <2> QED
    BY Zenon, <2>2, <2>3, <2>4, RelayKeeps DEF Next, EndpointStep
<1>3. KInv => LiveStreamKeepsEvents
  BY Zenon DEF KInv, InTransit, LiveStreamKeepsEvents
<1> QED  BY <1>1, <1>2, <1>3, TypeCorrect, PTL DEF Spec
=============================================================================
