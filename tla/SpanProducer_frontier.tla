------------------------ MODULE SpanProducer_frontier ------------------------
(***************************************************************************)
(* Proof that the checkpoints of a stream never go back in time.           *)
(* pcr_resolved_ts itself does go back, to 0, whenever PD gave no          *)
(* timestamp, and known_region_ids is assigned anew when run() enters its  *)
(* loop.  What saves the order is that the loop sends no checkpoint at 0,  *)
(* that a nonzero timestamp PD gives later is never smaller, that at most  *)
(* one min-ts round is open, and that the loop only adds regions.          *)
(***************************************************************************)
EXTENDS SpanProducer_proofs

\* What pcr_resolved_ts is now and can become from what is queued, if not 0, is
\* at least x.
Bounded(x) ==
    /\ x <= tso /\ (resolved = 0 \/ x <= resolved)
    /\ \A i \in DOMAIN tasks : tasks[i].op = "min_ts" => tasks[i].ts = 0 \/ x <= tasks[i].ts

ClockInv ==
    /\ Bounded(resolved)
    /\ \A i \in DOMAIN tasks : tasks[i].op = "min_ts" => tasks[i].ts <= tso
    /\ \A i, j \in DOMAIN tasks : tasks[i].op = "min_ts" /\ tasks[j].op = "min_ts" => i = j

\* What the consumer has got on b's stream and what it will get from the channel.
Stream(b) == delivered[b] \o merge[b]

IsCheckpoint(e) == e.kind = "checkpoint"

\* The checkpoints of stream q of a bridge at p that knows the regions k and has
\* read c: they are in order, and below what may follow.
InOrder(q, k, p, c, low) ==
    /\ \A i, j \in DOMAIN q : i < j /\ IsCheckpoint(q[i]) /\ IsCheckpoint(q[j]) =>
          q[i].ts <= q[j].ts /\ q[i].regions \subseteq q[j].regions
    /\ \A i \in DOMAIN q : IsCheckpoint(q[i]) =>
          /\ q[i].ts \in low /\ q[i].regions \subseteq k
          /\ p \in {"loop", "send"} /\ (p = "send" => q[i].ts <= c)
    /\ p = "send" => c \in low

Low == {x \in Nat : Bounded(x)}
StreamInv(b) == InOrder(Stream(b), known[b], pc[b], cpTs[b], Low)

SinksInv == \A s \in Sink : \A i \in DOMAIN sinkQ[s] : ~IsCheckpoint(sinkQ[s][i])

MInv == ClockInv /\ SinksInv /\ \A b \in Bridge : StreamInv(b)

-----------------------------------------------------------------------------
(* The clock *)

OtherTask == {t \in Task : t.op # "min_ts"}

LEMMA ScheduleElements ==
    ASSUME tasks \in Seq(Task), NEW q \in Seq(Task), Schedule(q)
    PROVE  /\ Len(tasks) \in Nat /\ DOMAIN tasks = 1..Len(tasks)
           /\ DOMAIN tasks' = 1..(Len(tasks) + Len(q))
           /\ \A i \in 1..Len(tasks) : tasks'[i] = tasks[i]
           /\ \A i \in 1..(Len(tasks) + Len(q)) : i > Len(tasks) =>
                  i - Len(tasks) \in DOMAIN q /\ tasks'[i] = q[i - Len(tasks)]
BY DEF Schedule

LEMMA TakeElements ==
    ASSUME tasks \in Seq(Task), NEW op, TakeTask(op)
    PROVE  /\ Len(tasks) \in Nat \ {0} /\ DOMAIN tasks = 1..Len(tasks)
           /\ DOMAIN tasks' = 1..(Len(tasks) - 1)
           /\ \A i \in 1..(Len(tasks) - 1) : tasks'[i] = tasks[i + 1]
           /\ tasks[1].op = op /\ Head(tasks) = tasks[1]
BY DEF TakeTask

\* A step that schedules no min-ts round, or takes another task, disturbs nothing.
LEMMA ClockKept ==
    ASSUME TypeOK, ClockInv, tso' \in Nat, tso <= tso', resolved' = resolved,
           \/ tasks' = tasks
           \/ \E q \in Seq(OtherTask) : Schedule(q)
           \/ \E op : TakeTask(op)
    PROVE  ClockInv' /\ \A x \in Nat : Bounded(x) => Bounded(x)'
<1>0. tso \in Nat /\ resolved \in Nat /\ tasks \in Seq(Task)
  BY ProducerAssumption DEF TypeOK
<1>1. \E f : /\ \A i \in DOMAIN tasks' : tasks'[i].op = "min_ts" =>
                   f[i] \in DOMAIN tasks /\ tasks'[i] = tasks[f[i]]
             /\ \A i, j \in DOMAIN tasks' : tasks'[i].op = "min_ts" /\ tasks'[j].op = "min_ts"
                                            /\ f[i] = f[j] => i = j
  <2>1. CASE tasks' = tasks
    <3> DEFINE f == [i \in DOMAIN tasks |-> i]
    <3>1. \A i \in DOMAIN tasks' : f[i] = i
      BY <2>1
    <3> HIDE DEF f
    <3> QED  BY <2>1, <3>1
  <2>2. ASSUME NEW q \in Seq(OtherTask), Schedule(q)
        PROVE  \A i \in DOMAIN tasks' : tasks'[i].op = "min_ts" =>
                   i \in DOMAIN tasks /\ tasks'[i] = tasks[i]
    <3>1. q \in Seq(Task) /\ \A i \in DOMAIN q : q[i].op # "min_ts"
      BY <2>2 DEF OtherTask
    <3> SUFFICES ASSUME NEW i \in DOMAIN tasks', tasks'[i].op = "min_ts"
                 PROVE  i \in DOMAIN tasks /\ tasks'[i] = tasks[i]
      OBVIOUS
    <3>2. ~(i > Len(tasks))
      BY <1>0, <2>2, <3>1, ScheduleElements
    <3>3. i \in 1..(Len(tasks) + Len(q)) /\ Len(q) \in Nat
      BY <1>0, <2>2, <3>1, ScheduleElements
    <3> QED  BY <1>0, <2>2, <3>1, <3>2, <3>3, ScheduleElements
  <2>3. CASE \E q \in Seq(OtherTask) : Schedule(q)
    <3> DEFINE f == [i \in DOMAIN tasks' |-> i]
    <3>1. \A i \in DOMAIN tasks' : f[i] = i
      OBVIOUS
    <3> HIDE DEF f
    <3> QED  BY <2>2, <2>3, <3>1
  <2>4. CASE \E op : TakeTask(op)
    <3> DEFINE f == [i \in DOMAIN tasks' |-> i + 1]
    <3>1. \A i \in DOMAIN tasks' : f[i] = i + 1
      OBVIOUS
    <3> HIDE DEF f
    <3>2. \A i \in DOMAIN tasks' : i \in Nat /\ i + 1 \in DOMAIN tasks /\ tasks'[i] = tasks[i + 1]
      BY <1>0, <2>4, TakeElements
    <3>3. \A i, j \in DOMAIN tasks' : f[i] = f[j] => i = j
      BY <3>1, <3>2
    <3>4. \A i \in DOMAIN tasks' : f[i] \in DOMAIN tasks /\ tasks'[i] = tasks[f[i]]
      BY Zenon, <3>1, <3>2
    <3> QED  BY Zenon, <3>3, <3>4
  <2> QED  BY <2>1, <2>3, <2>4
<1>2. ASSUME NEW x \in Nat, Bounded(x) PROVE Bounded(x)'
  <2>1. x <= tso' /\ (resolved' = 0 \/ x <= resolved')
    BY <1>0, <1>2 DEF Bounded
  <2>2. \A i \in DOMAIN tasks' : tasks'[i].op = "min_ts" => tasks'[i].ts = 0 \/ x <= tasks'[i].ts
    BY Zenon, <1>1, <1>2 DEF Bounded
  <2> QED  BY <2>1, <2>2 DEF Bounded
<1>3. Bounded(resolved)'
  BY <1>0, <1>2 DEF ClockInv, Bounded
<1>4. \A i \in DOMAIN tasks' : tasks'[i].op = "min_ts" => tasks'[i].ts <= tso'
  <2> SUFFICES ASSUME NEW i \in DOMAIN tasks', tasks'[i].op = "min_ts"
               PROVE  tasks'[i].ts <= tso'
    OBVIOUS
  <2>1. PICK k \in DOMAIN tasks : tasks'[i] = tasks[k]
    BY Zenon, <1>1
  <2>2. tasks[k] \in Task /\ tasks[k].op = "min_ts"
    BY <1>0, <2>1, SeqElement
  <2>3. tasks[k].ts \in Nat
    BY <2>2, TsNat DEF Task
  <2> QED  BY <1>0, <2>1, <2>2, <2>3 DEF ClockInv
<1>5. \A i, j \in DOMAIN tasks' : tasks'[i].op = "min_ts" /\ tasks'[j].op = "min_ts" => i = j
  <2>1. PICK f : /\ \A i \in DOMAIN tasks' : tasks'[i].op = "min_ts" =>
                        f[i] \in DOMAIN tasks /\ tasks'[i] = tasks[f[i]]
                 /\ \A i, j \in DOMAIN tasks' :
                        tasks'[i].op = "min_ts" /\ tasks'[j].op = "min_ts" /\ f[i] = f[j] => i = j
    BY Zenon, <1>1
  <2> SUFFICES ASSUME NEW i \in DOMAIN tasks', NEW j \in DOMAIN tasks',
                      tasks'[i].op = "min_ts", tasks'[j].op = "min_ts"
               PROVE  i = j
    BY Zenon
  <2>2. /\ f[i] \in DOMAIN tasks /\ tasks[f[i]].op = "min_ts"
        /\ f[j] \in DOMAIN tasks /\ tasks[f[j]].op = "min_ts"
    BY Zenon, <2>1
  <2>3. f[i] = f[j]
    BY Zenon, <2>2 DEF ClockInv
  <2> QED  BY Zenon, <2>1, <2>3
<1> QED  BY <1>2, <1>3, <1>4, <1>5 DEF ClockInv

LEMMA ClockMinTs ==
    ASSUME TypeOK, ClockInv, ScheduleMinTs \/ OnMinTs
    PROVE  ClockInv' /\ \A x \in Nat : Bounded(x) => Bounded(x)'
<1>0. tso \in Nat /\ resolved \in Nat /\ tasks \in Seq(Task)
  BY ProducerAssumption DEF TypeOK
<1>1. CASE ScheduleMinTs
  <2>1. PICK ts \in {tso, 0} : Schedule(<<[op |-> "min_ts", ts |-> ts]>>)
    BY <1>1 DEF ScheduleMinTs
  <2>2. ts \in Ts \cup {0} /\ ts \in Nat
    <3>1. tso \in Ts \cup {0}
      BY Zenon, TsNat DEF TypeOK
    <3> QED  BY <1>0, <2>1, <3>1
  <2> DEFINE q == <<[op |-> "min_ts", ts |-> ts]>>
  <2>3. q \in Seq(Task) /\ DOMAIN q = 1..1 /\ q[1].ts = ts
    BY <2>2 DEF Task
  <2>4. tso' = tso /\ resolved' = resolved /\ \A i \in DOMAIN tasks : tasks[i].op # "min_ts"
    BY <1>1 DEF ScheduleMinTs, storeVars
  <2> HIDE DEF q
  <2>5. \A i \in DOMAIN tasks' : tasks'[i].op = "min_ts" => i = Len(tasks) + 1 /\ tasks'[i].ts = ts
    <3>1. Schedule(q)
      BY <2>1 DEF q
    <3> QED  BY <1>0, <2>3, <2>4, <3>1, ScheduleElements
  <2>6. ASSUME NEW x \in Nat, Bounded(x) PROVE Bounded(x)'
    BY <1>0, <2>1, <2>2, <2>4, <2>5, <2>6 DEF Bounded
  <2> QED  BY <1>0, <2>1, <2>2, <2>4, <2>5, <2>6 DEF ClockInv
<1>2. CASE OnMinTs
  <2>1. TakeTask("min_ts") /\ tso' = tso /\ resolved' = Head(tasks).ts
    BY <1>2 DEF OnMinTs, storeVars
  <2>2. 1 \in DOMAIN tasks /\ tasks[1].op = "min_ts" /\ resolved' = tasks[1].ts
    BY <1>0, <2>1, TakeElements
  <2>3. tasks[1].ts \in Nat
    BY <1>0, <2>1, <2>2, TakeTaskType, TsNat
  <2>4. \A i \in DOMAIN tasks' : tasks'[i].op # "min_ts"
    <3> SUFFICES ASSUME NEW i \in DOMAIN tasks', tasks'[i].op = "min_ts" PROVE FALSE
      OBVIOUS
    <3>1. i \in Nat \ {0} /\ i + 1 \in DOMAIN tasks /\ tasks[i + 1].op = "min_ts"
      BY <1>0, <2>1, TakeElements
    <3>2. i + 1 = 1
      BY Zenon, <2>2, <3>1 DEF ClockInv
    <3> QED  BY <3>1, <3>2
  <2>5. ASSUME NEW x \in Nat, Bounded(x) PROVE Bounded(x)'
    <3>1. tasks[1].ts = 0 \/ x <= tasks[1].ts
      BY Zenon, <2>2, <2>5 DEF Bounded
    <3> QED  BY <2>1, <2>2, <2>4, <2>5, <3>1 DEF Bounded
  <2>6. tasks[1].ts <= tso
    BY Zenon, <2>2 DEF ClockInv
  <2> QED  BY <2>1, <2>2, <2>3, <2>4, <2>5, <2>6 DEF ClockInv, Bounded
<1> QED  BY <1>1, <1>2

LEMMA ClockStore ==
    ASSUME TypeOK, ClockInv, StoreStep
    PROVE  ClockInv' /\ \A x \in Nat : Bounded(x) => Bounded(x)'
<1>1. tso' \in Nat /\ tso <= tso' /\ resolved' = resolved
  <2>1. tso \in Nat
    BY ProducerAssumption DEF TypeOK
  <2>2. (tso' = tso \/ tso' = tso + 1) /\ resolved' = resolved
    BY Zenon DEF StoreStep, TakeCommitTs, ApplyCommit, ApplySplit, Heartbeat, ApplyCapture,
         endpointVars
  <2> QED  BY <2>1, <2>2
<1>2. ASSUME NEW r \in Region, NEW ts \in Ts \cup {0}, Observe(r, ts), tasks' # tasks
      PROVE  \E q \in Seq(OtherTask) : Schedule(q)
  <2> DEFINE t == [op |-> "batch", region |-> r, id |-> observed[r], ts |-> ts]
  <2>1. t \in OtherTask
    <3>1. observed[r] \in Nat
      BY DEF TypeOK
    <3> QED  BY <3>1 DEF OtherTask, Task
  <2>2. Schedule(<<t>>)
    BY Zenon, <1>2 DEF Observe
  <2> HIDE DEF t
  <2>3. <<t>> \in Seq(OtherTask)
    BY <2>1
  <2> QED  BY Zenon, <2>2, <2>3
<1>3. tasks' = tasks \/ \E q \in Seq(OtherTask) : Schedule(q)
  <2>1. tasks' = tasks \/ \E r \in Region, ts \in Ts \cup {0} : Observe(r, ts)
    BY Zenon DEF StoreStep, TakeCommitTs, ApplyCommit, ApplySplit, Heartbeat, ApplyCapture,
         endpointVars
  <2> QED  BY Zenon, <1>2, <2>1
<1> QED  BY Zenon, <1>1, <1>3, ClockKept

LEMMA ClockEndpoint ==
    ASSUME TypeOK, ClockInv,
           \/ EndpointStep \/ ScheduleMinTs
           \/ \E r \in Region : OnRegister(r) \/ OnDeregister(r)
    PROVE  ClockInv' /\ \A x \in Nat : Bounded(x) => Bounded(x)'
<1>1. CASE ScheduleMinTs \/ OnMinTs
  BY Zenon, <1>1, ClockMinTs
<1>2. CASE ~(ScheduleMinTs \/ OnMinTs)
  <2>1. tso' = tso /\ resolved' = resolved
    BY Zenon, <1>2 DEF EndpointStep, OnRegisterSpan, OnStartPcrStream, OnMultiBatch, OnRegister,
         OnDeregister, storeVars
  <2>2. tasks' = tasks \/ \E op : TakeTask(op)
    BY Zenon, <1>2 DEF EndpointStep, OnRegisterSpan, OnStartPcrStream, OnMultiBatch, OnRegister,
         OnDeregister
  <2>3. tso' \in Nat /\ tso <= tso'
    BY <2>1, ProducerAssumption DEF TypeOK
  <2> QED  BY Zenon, <2>1, <2>2, <2>3, ClockKept
<1> QED  BY Zenon, <1>1, <1>2

LEMMA ClockBridge ==
    ASSUME TypeOK, ClockInv,
           (\E b \in Bridge : BridgeStep(b)) \/ (\E s \in Sink : Relay(s)) \/ UNCHANGED vars
    PROVE  ClockInv' /\ \A x \in Nat : Bounded(x) => Bounded(x)'
<1>1. tso' = tso /\ resolved' = resolved
  <2>1. ASSUME NEW b \in Bridge, BridgeStep(b)
        PROVE  tso' = tso /\ resolved' = resolved
    <3>1. CASE Subscribe(b) \/ StartRegions(b) \/ KnowRegions(b)
      BY Zenon, <3>1 DEF Subscribe, StartRegions, KnowRegions, Schedule, storeVars, endpointVars
    <3>2. CASE CheckpointTick(b) \/ CheckpointSend(b) \/ Rediscover(b)
      BY Zenon, <3>2 DEF CheckpointTick, CheckpointSend, Rediscover, storeVars, endpointVars
    <3>3. CASE \/ \E r \in Region : ScanSnapshot(b, r) \/ ScanSend(b, r)
               \/ WriterSend(b) \/ StreamBreak(b)
      BY Zenon, <3>3 DEF ScanSnapshot, ScanSend, WriterSend, StreamBreak, storeVars, endpointVars
    <3> QED  BY Zenon, <2>1, <3>1, <3>2, <3>3 DEF BridgeStep
  <2>2. CASE (\E s \in Sink : Relay(s)) \/ UNCHANGED vars
    BY Zenon, <2>2 DEF Relay, vars, storeVars, endpointVars
  <2> QED  BY Zenon, <2>1, <2>2
<1>2. tso' \in Nat /\ tso <= tso'
  BY <1>1, ProducerAssumption DEF TypeOK
<1>3. ASSUME NEW b \in Bridge, NEW n \in {0, 1}
      PROVE  RegisterTask(<<b, n>>) \in OtherTask
  <2>1. <<b, n>> \in Sink
    BY DEF Sink
  <2> QED  BY <2>1 DEF RegisterTask, OtherTask, Task
<1>4. ASSUME NEW ok, NEW rs PROVE StartTasks(Resolved(ok) \ rs) \in Seq(OtherTask)
  <2>1. StartTask \subseteq OtherTask
    BY DEF StartTask, OtherTask, Task
  <2>2. StartTasks(Resolved(ok) \ rs) \in Seq(StartTask)
    <3>1. Resolved(ok) \ rs \in SUBSET Region
      BY Zenon, ResolvedType
    <3> QED  BY Zenon, <3>1, StartTasksType
  <2> QED  BY <2>1, <2>2
<1>5. ASSUME NEW b \in Bridge, Subscribe(b) PROVE \E q \in Seq(OtherTask) : Schedule(q)
  <2>1. Schedule(<<RegisterTask(<<b, 0>>)>>)
    BY Zenon, <1>5 DEF Subscribe
  <2>2. <<RegisterTask(<<b, 0>>)>> \in Seq(OtherTask)
    <3>1. RegisterTask(<<b, 0>>) \in OtherTask
      BY Zenon, <1>3
    <3> QED  BY <3>1
  <2> QED  BY Zenon, <2>1, <2>2
<1>6. ASSUME NEW b \in Bridge, StartRegions(b) PROVE \E q \in Seq(OtherTask) : Schedule(q)
  <2>1. PICK ok \in PdOutcome : Schedule(StartTasks(Resolved(ok)))
    BY Zenon, <1>6 DEF StartRegions
  <2>2. Resolved(ok) = Resolved(ok) \ {}
    OBVIOUS
  <2> QED  BY Zenon, <1>4, <2>1, <2>2
<1>7. ASSUME NEW b \in Bridge, Rediscover(b) PROVE \E q \in Seq(OtherTask) : Schedule(q)
  <2>1. PICK ok \in PdOutcome : Schedule(Append(StartTasks(Resolved(ok) \ known[b]),
                                                RegisterTask(<<b, 1 - gen[b]>>)))
    BY Zenon, <1>7 DEF Rediscover
  <2>2. 1 - gen[b] \in {0, 1}
    <3>1. gen[b] \in {0, 1}
      BY DEF TypeOK
    <3> QED  BY <3>1
  <2> QED  BY Zenon, <1>3, <1>4, <2>1, <2>2, AppendType
<1>8. tasks' = tasks \/ \E q \in Seq(OtherTask) : Schedule(q)
  BY Zenon, <1>5, <1>6, <1>7 DEF BridgeStep, Relay, KnowRegions, CheckpointTick, CheckpointSend,
       ScanSnapshot, ScanSend, WriterSend, StreamBreak, vars, endpointVars
<1> QED  BY Zenon, <1>1, <1>2, <1>8, ClockKept

-----------------------------------------------------------------------------
(* The sinks carry no checkpoint *)

LEMMA SinksStep ==
    ASSUME TypeOK, SinksInv, [Next]_vars
    PROVE  SinksInv'
<1>1. CASE sinkQ' = sinkQ
  BY Zenon, <1>1 DEF SinksInv
<1>2. ASSUME NEW s \in Sink, NEW e \in Event, ~IsCheckpoint(e),
             sinkQ' = [sinkQ EXCEPT ![s] = Append(@, e)]
      PROVE  SinksInv'
  <2> SUFFICES ASSUME NEW t \in Sink, NEW i \in DOMAIN sinkQ'[t]
               PROVE  ~IsCheckpoint(sinkQ'[t][i])
    BY Zenon DEF SinksInv
  <2>1. sinkQ[t] \in Seq(Event) /\ sinkQ'[t] = IF t = s THEN Append(sinkQ[t], e) ELSE sinkQ[t]
    BY Zenon, <1>2 DEF TypeOK
  <2>2. sinkQ'[t][i] = e \/ (i \in DOMAIN sinkQ[t] /\ sinkQ'[t][i] = sinkQ[t][i])
    BY <2>1
  <2> QED  BY Zenon, <1>2, <2>2 DEF SinksInv
<1>3. CASE OnMultiBatch
  <2>1. PICK e \in {Data({Head(tasks).ts}), SplitEvent} :
            EmitPcrEvent(dele[Head(tasks).region].sink, e) \/ sinkQ' = sinkQ
    BY Zenon, <1>3 DEF OnMultiBatch
  <2>2. ~IsCheckpoint(e)
    BY <2>1 DEF Data, SplitEvent, IsCheckpoint
  <2>3. Head(tasks).region \in Region /\ Head(tasks).ts \in Ts \cup {0}
    BY <1>3, TakeTaskType DEF OnMultiBatch, TypeOK
  <2>4. CASE e \in Event
    <3>1. dele[Head(tasks).region].sink \in Sink \cup {None}
      BY <2>3 DEF TypeOK
    <3> QED  BY Zenon, <1>1, <1>2, <2>1, <2>2, <2>4, <3>1 DEF EmitPcrEvent
  <2>5. CASE Head(tasks).ts # 0
    BY <2>1, <2>3, <2>4, <2>5, EventTypes
  <2>6. CASE Head(tasks).ts = 0 /\ e # SplitEvent
    <3>1. EmitPcrEvent(dele[Head(tasks).region].sink, SplitEvent) \/ sinkQ' = sinkQ
      BY Zenon, <1>3, <2>6 DEF OnMultiBatch
    <3>2. ~IsCheckpoint(SplitEvent) /\ SplitEvent \in Event
      BY EventTypes DEF SplitEvent, IsCheckpoint
    <3>3. dele[Head(tasks).region].sink \in Sink \cup {None}
      BY <2>3 DEF TypeOK
    <3> QED  BY Zenon, <1>1, <1>2, <3>1, <3>2, <3>3 DEF EmitPcrEvent
  <2> QED  BY Zenon, <2>1, <2>4, <2>5, <2>6, EventTypes
<1>4. ASSUME NEW s \in Sink, Relay(s) PROVE SinksInv'
  <2> SUFFICES ASSUME NEW t \in Sink, NEW i \in DOMAIN sinkQ'[t]
               PROVE  ~IsCheckpoint(sinkQ'[t][i])
    BY Zenon DEF SinksInv
  <2>1. sinkQ[s] \in Seq(Event) /\ sinkQ[s] # <<>>
    BY Zenon, <1>4 DEF Relay, TypeOK
  <2>2. sinkQ'[t] \in {sinkQ[t], <<>>} \/ (t = s /\ sinkQ'[t] = Tail(sinkQ[s]))
    BY Zenon, <1>4 DEF Relay, TypeOK
  <2>3. CASE sinkQ'[t] = sinkQ[t]
    BY Zenon, <2>3 DEF SinksInv
  <2>4. CASE sinkQ'[t] = <<>>
    BY <2>4
  <2>5. CASE t = s /\ sinkQ'[t] = Tail(sinkQ[s])
    <3>1. i + 1 \in DOMAIN sinkQ[s] /\ sinkQ'[t][i] = sinkQ[s][i + 1]
      BY <2>1, <2>5
    <3> QED  BY Zenon, <3>1 DEF SinksInv
  <2> QED  BY Zenon, <2>2, <2>3, <2>4, <2>5
<1> QED
  BY Zenon, <1>1, <1>3, <1>4 DEF Next, vars, StoreStep, TakeCommitTs, ApplyCommit, ApplySplit,
       Heartbeat, ApplyCapture, ScheduleMinTs, EndpointStep, OnRegisterSpan, OnStartPcrStream,
       OnMinTs, OnRegister, OnDeregister, BridgeStep, Subscribe, StartRegions, KnowRegions,
       CheckpointTick, CheckpointSend, Rediscover, ScanSnapshot, ScanSend, WriterSend,
       StreamBreak, streamVars

-----------------------------------------------------------------------------
(* The streams *)

LEMMA ConcatAppend ==
    ASSUME NEW d \in Seq(Event), NEW q \in Seq(Event), NEW e \in Event
    PROVE  d \o Append(q, e) = Append(d \o q, e)
OBVIOUS

LEMMA ConcatMove ==
    ASSUME NEW d \in Seq(Event), NEW q \in Seq(Event), q # <<>>
    PROVE  Append(d, Head(q)) \o Tail(q) = d \o q
OBVIOUS

LEMMA ConcatPrefix ==
    ASSUME NEW d \in Seq(Event), NEW q \in Seq(Event)
    PROVE  /\ d \o <<>> = d /\ DOMAIN d \subseteq DOMAIN (d \o q)
           /\ \A i \in DOMAIN d : (d \o q)[i] = d[i]
OBVIOUS

LEMMA StreamType ==
    ASSUME TypeOK, NEW b \in Bridge
    PROVE  Stream(b) \in Seq(Event) /\ delivered[b] \in Seq(Event) /\ merge[b] \in Seq(Event)
<1>1. delivered[b] \in Seq(Event) /\ merge[b] \in Seq(Event)
  BY Zenon DEF TypeOK
<1> QED  BY <1>1 DEF Stream

LEMMA EventFields ==
    ASSUME NEW q \in Seq(Event), NEW i \in DOMAIN q
    PROVE  q[i] \in Event /\ q[i].ts \in Nat /\ q[i].regions \in SUBSET Region
<1>1. q[i] \in Event
  BY Zenon, SeqElement
<1> QED  BY <1>1, TsNat DEF Event

\* Losing the end of the channel, or nothing, keeps the order.
LEMMA ShrinkInOrder ==
    ASSUME NEW q, NEW k, NEW p, NEW c, NEW low, InOrder(q, k, p, c, low),
           NEW q2, DOMAIN q2 \subseteq DOMAIN q, \A i \in DOMAIN q2 : q2[i] = q[i],
           NEW k2, k \subseteq k2, NEW low2, low \subseteq low2
    PROVE  InOrder(q2, k2, p, c, low2)
BY DEF InOrder

LEMMA GrowInOrder ==
    ASSUME NEW q \in Seq(Event), NEW k, NEW p, NEW c, NEW low, InOrder(q, k, p, c, low),
           NEW e \in Event, ~IsCheckpoint(e), NEW low2, low \subseteq low2
    PROVE  InOrder(Append(q, e), k, p, c, low2)
<1>1. \A i \in DOMAIN Append(q, e) : IsCheckpoint(Append(q, e)[i]) =>
          i \in DOMAIN q /\ Append(q, e)[i] = q[i]
  OBVIOUS
<1> QED  BY <1>1 DEF InOrder

\* Before the loop there is no checkpoint, and run() may set what it likes.
LEMMA EnterInOrder ==
    ASSUME NEW q, NEW k, NEW p, NEW c, NEW low, InOrder(q, k, p, c, low),
           p \notin {"loop", "send"},
           NEW k2, NEW p2, p2 # "send", NEW c2, NEW low2
    PROVE  InOrder(q, k2, p2, c2, low2)
BY DEF InOrder

\* The loop reads a timestamp that is not below any it has sent ...
LEMMA TickInOrder ==
    ASSUME NEW q, NEW k, NEW c, NEW low, InOrder(q, k, "loop", c, low),
           NEW c2, NEW low2, low \subseteq low2, c2 \in low2, \A x \in low : x <= c2
    PROVE  InOrder(q, k, "send", c2, low2)
BY DEF InOrder

\* ... and sends it, or finds the channel closed.
LEMMA SendInOrder ==
    ASSUME NEW q \in Seq(Event), NEW k, NEW c, NEW low, InOrder(q, k, "send", c, low),
           Checkpoint(c, k) \in Event, NEW c2, NEW low2, low \subseteq low2
    PROVE  /\ InOrder(q, k, "loop", c2, low2)
           /\ InOrder(Append(q, Checkpoint(c, k)), k, "loop", c2, low2)
<1> DEFINE e == Checkpoint(c, k)
           r == Append(q, e)
<1>1. e.ts = c /\ e.regions = k /\ e \in Event
  BY DEF Checkpoint
<1> HIDE DEF e
<1>2. \A i \in DOMAIN r : (i \in DOMAIN q /\ r[i] = q[i]) \/ (i = Len(q) + 1 /\ r[i] = e)
  BY <1>1
<1>3. \A i \in DOMAIN q : i <= Len(q) /\ i \in Nat
  OBVIOUS
<1>4. Len(q) \in Nat
  OBVIOUS
<1> HIDE DEF r
<1>5. ASSUME NEW i \in DOMAIN r, NEW j \in DOMAIN r,
             i < j, IsCheckpoint(r[i]), IsCheckpoint(r[j])
      PROVE  r[i].ts <= r[j].ts /\ r[i].regions \subseteq r[j].regions
  <2>1. CASE j \in DOMAIN q /\ r[j] = q[j]
    <3>1. i \in DOMAIN q /\ r[i] = q[i]
      BY <1>2, <1>3, <1>4, <1>5, <2>1
    <3> QED  BY Zenon, <1>5, <2>1, <3>1 DEF InOrder
  <2>2. CASE j = Len(q) + 1 /\ r[j] = e
    <3>1. i \in DOMAIN q /\ r[i] = q[i]
      BY <1>2, <1>3, <1>4, <1>5, <2>2
    <3>2. q[i].ts <= c /\ q[i].regions \subseteq k
      BY Zenon, <1>5, <3>1 DEF InOrder
    <3> QED  BY Zenon, <1>1, <2>2, <3>1, <3>2
  <2> QED  BY Zenon, <1>2, <2>1, <2>2
<1>6. ASSUME NEW i \in DOMAIN r, IsCheckpoint(r[i])
      PROVE  r[i].ts \in low2 /\ r[i].regions \subseteq k
  BY Zenon, <1>1, <1>2, <1>6 DEF InOrder
<1>7. "loop" # "send"
  OBVIOUS
<1>8. InOrder(r, k, "loop", c2, low2)
  BY Zenon, <1>5, <1>6, <1>7 DEF InOrder
<1>9. InOrder(q, k, "loop", c2, low2)
  BY Zenon, <1>7 DEF InOrder
<1> QED  BY Zenon, <1>8, <1>9 DEF r, e

LEMMA SameStream ==
    ASSUME NEW b \in Bridge, StreamInv(b), Low \subseteq Low',
           delivered'[b] = delivered[b], merge'[b] = merge[b], known'[b] = known[b],
           pc'[b] = pc[b], cpTs'[b] = cpTs[b]
    PROVE  StreamInv(b)'
<1>1. Stream(b)' = Stream(b)
  BY Zenon DEF Stream
<1> QED  BY Zenon, <1>1, ShrinkInOrder DEF StreamInv

LEMMA SendEffect ==
    ASSUME TypeOK, NEW a \in Bridge, NEW e, Send(a, e) \/ UNCHANGED merge, NEW b \in Bridge
    PROVE  merge'[b] = merge[b] \/ (b = a /\ merge'[b] = Append(merge[b], e))
<1>1. merge' = merge \/ merge' = [merge EXCEPT ![a] = Append(@, e)]
  BY Zenon DEF Send
<1>2. merge \in [Bridge -> Seq(Event)]
  BY Zenon DEF TypeOK
<1> QED  BY <1>1, <1>2

\* A send of an event that is no checkpoint.
LEMMA SendStream ==
    ASSUME TypeOK, NEW a \in Bridge, NEW e \in Event, ~IsCheckpoint(e),
           Send(a, e) \/ UNCHANGED merge, UNCHANGED <<delivered, known, pc, cpTs>>,
           Low \subseteq Low', \A b \in Bridge : StreamInv(b)
    PROVE  \A b \in Bridge : StreamInv(b)'
<1> SUFFICES ASSUME NEW b \in Bridge PROVE StreamInv(b)'
  OBVIOUS
<1>1. CASE merge'[b] = merge[b]
  BY Zenon, <1>1, SameStream
<1>2. CASE merge'[b] = Append(merge[b], e)
  <2>1. Stream(b)' = Append(Stream(b), e)
    <3>1. Stream(b)' = delivered[b] \o Append(merge[b], e)
      BY Zenon, <1>2 DEF Stream
    <3>2. delivered[b] \in Seq(Event) /\ merge[b] \in Seq(Event)
      BY Zenon, StreamType
    <3>3. delivered[b] \o Append(merge[b], e) = Append(delivered[b] \o merge[b], e)
      BY Zenon, <3>2, ConcatAppend
    <3> QED  BY Zenon, <3>1, <3>3 DEF Stream
  <2> QED  BY Zenon, <2>1, StreamType, GrowInOrder DEF StreamInv
<1>3. merge'[b] = merge[b] \/ merge'[b] = Append(merge[b], e)
  BY SendEffect
<1> QED  BY Zenon, <1>1, <1>2, <1>3

LEMMA WriterStream ==
    ASSUME TypeOK, NEW a \in Bridge, WriterSend(a), Low \subseteq Low',
           \A b \in Bridge : StreamInv(b)
    PROVE  \A b \in Bridge : StreamInv(b)'
<1> SUFFICES ASSUME NEW b \in Bridge PROVE StreamInv(b)'
  OBVIOUS
<1>1. UNCHANGED <<known, pc, cpTs>> /\ merge[a] # <<>>
  BY Zenon DEF WriterSend, bridgeVars
<1>2. CASE b # a
  <2>1. delivered'[b] = delivered[b] /\ merge'[b] = merge[b]
    BY Zenon, <1>2 DEF WriterSend, TypeOK
  <2> QED  BY Zenon, <1>1, <2>1, SameStream
<1>3. CASE b = a /\ broken[a]
  <2>1. delivered'[b] = delivered[b] /\ merge'[b] = <<>>
    BY Zenon, <1>3 DEF WriterSend, TypeOK
  <2>2. Stream(b)' = delivered[b]
    BY Zenon, <2>1, StreamType, ConcatPrefix DEF Stream
  <2>3. /\ DOMAIN delivered[b] \subseteq DOMAIN Stream(b)
        /\ \A i \in DOMAIN delivered[b] : delivered[b][i] = Stream(b)[i]
    BY Zenon, StreamType, ConcatPrefix DEF Stream
  <2> QED  BY Zenon, <1>1, <2>2, <2>3, ShrinkInOrder DEF StreamInv
<1>4. CASE b = a /\ ~broken[a]
  <2>1. delivered'[b] = Append(delivered[b], Head(merge[b])) /\ merge'[b] = Tail(merge[b])
    BY Zenon, <1>4 DEF WriterSend, TypeOK
  <2>2. Stream(b)' = Stream(b)
    <3>1. Stream(b)' = Append(delivered[b], Head(merge[b])) \o Tail(merge[b])
      BY Zenon, <2>1 DEF Stream
    <3>2. delivered[b] \in Seq(Event) /\ merge[b] \in Seq(Event) /\ merge[b] # <<>>
      BY Zenon, <1>1, <1>4, StreamType
    <3>3. Append(delivered[b], Head(merge[b])) \o Tail(merge[b]) = delivered[b] \o merge[b]
      BY Zenon, <3>2, ConcatMove
    <3> QED  BY Zenon, <3>1, <3>3 DEF Stream
  <2> QED  BY Zenon, <1>1, <2>2, ShrinkInOrder DEF StreamInv
<1> QED  BY Zenon, <1>2, <1>3, <1>4

LEMMA RunStream ==
    ASSUME TypeOK, ClockInv, NEW a \in Bridge,
           \/ Subscribe(a) \/ StartRegions(a) \/ KnowRegions(a) \/ Rediscover(a)
           \/ CheckpointTick(a) \/ CheckpointSend(a),
           Low \subseteq Low', \A b \in Bridge : StreamInv(b)
    PROVE  \A b \in Bridge : StreamInv(b)'
<1> SUFFICES ASSUME NEW b \in Bridge PROVE StreamInv(b)'
  OBVIOUS
<1>0. delivered' = delivered
  BY Zenon DEF Subscribe, StartRegions, KnowRegions, Rediscover, CheckpointTick, CheckpointSend,
       streamVars
<1>1. CASE b # a
  <2>1. merge'[b] = merge[b]
    <3>1. \/ UNCHANGED merge \/ Send(a, Checkpoint(cpTs[a], known[a]))
      BY Zenon DEF Subscribe, StartRegions, KnowRegions, Rediscover, CheckpointTick,
           CheckpointSend, streamVars
    <3> QED  BY Zenon, <1>1, <3>1, SendEffect
  <2>2. known'[b] = known[b] /\ pc'[b] = pc[b] /\ cpTs'[b] = cpTs[b]
    BY Zenon, <1>1 DEF Subscribe, StartRegions, KnowRegions, Rediscover, CheckpointTick,
         CheckpointSend, TypeOK
  <2> QED  BY Zenon, <1>0, <2>1, <2>2, SameStream
<1>2. CASE b = a /\ (Subscribe(a) \/ StartRegions(a) \/ KnowRegions(a))
  <2>1. Stream(b)' = Stream(b)
    BY Zenon, <1>0, <1>2 DEF Subscribe, StartRegions, KnowRegions, streamVars, Stream
  <2>2. pc[b] \in {"idle", "resolve", "known"} /\ pc'[b] \in {"resolve", "known", "loop"}
    BY Zenon, <1>2 DEF Subscribe, StartRegions, KnowRegions, TypeOK
  <2>3. pc[b] \notin {"loop", "send"} /\ pc'[b] # "send"
    BY <2>2
  <2> QED  BY Zenon, <2>1, <2>3, EnterInOrder DEF StreamInv
<1>3. CASE b = a /\ Rediscover(a)
  <2>1. Stream(b)' = Stream(b) /\ pc'[b] = pc[b] /\ cpTs'[b] = cpTs[b]
    BY Zenon, <1>0, <1>3 DEF Rediscover, Stream
  <2>2. known[b] \subseteq known'[b]
    <3>1. PICK rs : known' = [known EXCEPT ![a] = @ \cup rs]
      BY Zenon, <1>3 DEF Rediscover
    <3>2. known \in [Bridge -> SUBSET Region]
      BY Zenon DEF TypeOK
    <3> QED  BY <3>1, <3>2
  <2> QED  BY Zenon, <2>1, <2>2, ShrinkInOrder DEF StreamInv
<1>4. CASE b = a /\ CheckpointTick(a)
  <2>1. Stream(b)' = Stream(b) /\ known'[b] = known[b]
    BY Zenon, <1>0, <1>4 DEF CheckpointTick, streamVars, Stream
  <2>2. pc[b] = "loop" /\ pc'[b] = "send" /\ cpTs'[b] = resolved /\ resolved > 0
    BY Zenon, <1>4 DEF CheckpointTick, TypeOK
  <2>3. resolved \in Nat
    BY ProducerAssumption DEF TypeOK
  <2>4. resolved \in Low'
    BY Zenon, <2>3 DEF ClockInv, Low
  <2>5. \A x \in Low : x <= resolved
    BY <2>2, <2>3 DEF Low, Bounded
  <2> QED  BY Zenon, <2>1, <2>2, <2>4, <2>5, TickInOrder DEF StreamInv
<1>5. CASE b = a /\ CheckpointSend(a)
  <2>1. pc[b] = "send" /\ pc'[b] = "loop" /\ known'[b] = known[b]
    BY Zenon, <1>5 DEF CheckpointSend, TypeOK
  <2>2. Checkpoint(cpTs[b], known[b]) \in Event
    BY Zenon, EventTypes, TsNat DEF TypeOK
  <2>3. \/ merge'[b] = merge[b]
        \/ merge'[b] = Append(merge[b], Checkpoint(cpTs[b], known[b]))
    <3>1. Send(a, Checkpoint(cpTs[b], known[b]))
      BY Zenon, <1>5 DEF CheckpointSend
    <3> QED  BY Zenon, <3>1, SendEffect
  <2>4. \/ Stream(b)' = Stream(b)
        \/ Stream(b)' = Append(Stream(b), Checkpoint(cpTs[b], known[b]))
    <3> DEFINE e == Checkpoint(cpTs[b], known[b])
    <3> HIDE DEF e
    <3>1. delivered[b] \in Seq(Event) /\ merge[b] \in Seq(Event) /\ e \in Event
      BY Zenon, <2>2, StreamType DEF e
    <3>2. delivered[b] \o Append(merge[b], e) = Append(delivered[b] \o merge[b], e)
      BY Zenon, <3>1, ConcatAppend
    <3>3. CASE merge'[b] = merge[b]
      BY Zenon, <1>0, <3>3 DEF Stream
    <3>4. CASE merge'[b] = Append(merge[b], e)
      <4>1. Stream(b)' = delivered[b] \o Append(merge[b], e)
        BY Zenon, <1>0, <3>4 DEF Stream
      <4> QED  BY Zenon, <3>2, <4>1 DEF Stream, e
    <3> QED  BY Zenon, <2>3, <3>3, <3>4 DEF e
  <2> QED  BY Zenon, <2>1, <2>2, <2>4, StreamType, SendInOrder DEF StreamInv
<1> QED  BY Zenon, <1>1, <1>2, <1>3, <1>4, <1>5

LEMMA StreamsStep ==
    ASSUME TypeOK, MInv, [Next]_vars, Low \subseteq Low'
    PROVE  \A b \in Bridge : StreamInv(b)'
<1>1. CASE UNCHANGED <<delivered, merge, known, pc, cpTs>>
  BY Zenon, <1>1, SameStream DEF MInv
<1>2. CASE \/ UNCHANGED vars \/ StoreStep \/ EndpointStep \/ ScheduleMinTs
           \/ \E r \in Region : OnRegister(r) \/ OnDeregister(r)
  BY Zenon, <1>1, <1>2 DEF vars, StoreStep, TakeCommitTs, ApplyCommit, ApplySplit, Heartbeat,
       ApplyCapture, EndpointStep, OnRegisterSpan, OnStartPcrStream, OnMultiBatch, OnMinTs,
       ScheduleMinTs, OnRegister, OnDeregister, bridgeVars, streamVars
<1>3. ASSUME NEW s \in Sink, Relay(s) PROVE \A b \in Bridge : StreamInv(b)'
  <2>1. sinkQ[s] \in Seq(Event) /\ sinkQ[s] # <<>> /\ s[1] \in Bridge
    BY Zenon, <1>3, SinkPair DEF Relay, TypeOK
  <2>2. Head(sinkQ[s]) \in Event
    BY Zenon, <2>1, HeadTailType
  <2>3. ~IsCheckpoint(Head(sinkQ[s]))
    <3>1. 1 \in DOMAIN sinkQ[s] /\ Head(sinkQ[s]) = sinkQ[s][1]
      BY <2>1
    <3> QED  BY Zenon, <3>1 DEF MInv, SinksInv
  <2>4. Send(s[1], Head(sinkQ[s])) /\ UNCHANGED <<delivered, known, pc, cpTs>>
    BY Zenon, <1>3 DEF Relay, bridgeVars
  <2> QED  BY Zenon, <2>1, <2>2, <2>3, <2>4, SendStream DEF MInv
<1>4. ASSUME NEW a \in Bridge, NEW r \in Region, ScanSend(a, r)
      PROVE  \A b \in Bridge : StreamInv(b)'
  <2>1. Data(snap[a][r]) \in Event /\ ~IsCheckpoint(Data(snap[a][r]))
    <3>1. snap[a][r] \in SUBSET Ts
      BY DEF TypeOK
    <3>2. Data(snap[a][r]).kind = "kv"
      BY DEF Data
    <3> QED  BY <3>1, <3>2, EventTypes DEF IsCheckpoint
  <2>2. /\ Send(a, Data(snap[a][r])) \/ UNCHANGED merge
        /\ UNCHANGED <<delivered, known, pc, cpTs>>
    BY Zenon, <1>4 DEF ScanSend
  <2> QED  BY Zenon, <2>1, <2>2, SendStream DEF MInv
<1>5. ASSUME NEW a \in Bridge, BridgeStep(a) PROVE \A b \in Bridge : StreamInv(b)'
  <2>1. CASE StreamBreak(a) \/ \E r \in Region : ScanSnapshot(a, r)
    BY Zenon, <1>1, <2>1 DEF StreamBreak, ScanSnapshot, bridgeVars, streamVars
  <2> QED  BY Zenon, <1>4, <1>5, <2>1, RunStream, WriterStream DEF BridgeStep, MInv
<1> QED  BY Zenon, <1>2, <1>3, <1>5 DEF Next

\* The checkpoints the consumer gets on one stream never go back, in timestamp or in
\* regions, for any number of regions, bridges, splits, refreshes and PD failures.
THEOREM CheckpointsMonotoneHolds == Spec => []CheckpointsMonotone
<1>1. Init => MInv
  <2> SUFFICES ASSUME Init PROVE MInv
    OBVIOUS
  <2>1. ClockInv
    BY DEF Init, ClockInv, Bounded
  <2>2. SinksInv
    BY DEF Init, SinksInv
  <2>3. ASSUME NEW b \in Bridge PROVE StreamInv(b)
    <3>1. Stream(b) = <<>> /\ pc[b] # "send"
      BY DEF Init, Stream
    <3> QED  BY <3>1 DEF StreamInv, InOrder
  <2> QED  BY Zenon, <2>1, <2>2, <2>3 DEF MInv
<1>2. TypeOK /\ MInv /\ [Next]_vars => MInv'
  <2> SUFFICES ASSUME TypeOK, MInv, [Next]_vars PROVE MInv'
    OBVIOUS
  <2>1. ClockInv' /\ \A x \in Nat : Bounded(x) => Bounded(x)'
    BY Zenon, ClockStore, ClockEndpoint, ClockBridge DEF Next, MInv
  <2>2. Low \subseteq Low'
    BY Zenon, <2>1 DEF Low
  <2> QED  BY Zenon, <2>1, <2>2, SinksStep, StreamsStep DEF MInv
<1>3. TypeOK /\ MInv => CheckpointsMonotone
  <2> SUFFICES ASSUME TypeOK, MInv, NEW b \in Bridge,
                      NEW i \in DOMAIN delivered[b], NEW j \in DOMAIN delivered[b],
                      i < j, IsCheckpoint(delivered[b][i]), IsCheckpoint(delivered[b][j])
               PROVE  /\ delivered[b][i].ts <= delivered[b][j].ts
                      /\ delivered[b][i].regions \subseteq delivered[b][j].regions
    BY Zenon DEF CheckpointsMonotone, IsCheckpoint
  <2>1. /\ i \in DOMAIN Stream(b) /\ Stream(b)[i] = delivered[b][i]
        /\ j \in DOMAIN Stream(b) /\ Stream(b)[j] = delivered[b][j]
    BY Zenon, StreamType, ConcatPrefix DEF Stream
  <2> QED  BY Zenon, <2>1 DEF MInv, StreamInv, InOrder
<1> QED  BY <1>1, <1>2, <1>3, TypeCorrect, PTL DEF Spec
=============================================================================
