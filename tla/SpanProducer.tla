----------------------------- MODULE SpanProducer -----------------------------
(***************************************************************************)
(* The producer of a span subscription on one source store: the SpanBridge *)
(* of each Subscribe call (cdc/span_bridge.rs), the CDC endpoint with its  *)
(* PcrRegistry and its delegates (endpoint.rs, pcr_registry.rs,            *)
(* delegate.rs), and what they see of the raftstore and of PD.             *)
(*                                                                         *)
(* A committed write is named by its commit timestamp.  It is applied in   *)
(* one region; a delegate of that region hands it to a sink, a relay moves *)
(* it to the bridge's merge channel and a writer to the gRPC stream.       *)
(* Checkpoints and scans go to the merge channel directly.  Spans are the  *)
(* whole key space, as the consumer asks for, so every region matches.     *)
(***************************************************************************)
EXTENDS Naturals, Sequences, FiniteSets

CONSTANTS
    Region,       \* region ids
    InitRegion,   \* the regions at the start
    Feed,         \* the regions other changefeeds may register
    Bridge,       \* one SpanBridge per Subscribe call
    None,         \* no sink
    MergeCap,     \* capacity of the merge channel
    MaxTs,        \* bound on the number of writes
    MaxTicks,     \* bound on the checkpoints of a bridge
    MaxObserveId, \* bound on the delegates ever created
    MaxTasks,     \* bound on the endpoint's queue
    SourceEngine, \* whether the service has an engine to scan
    StreamBreaks, \* whether gRPC streams break: {FALSE} or BOOLEAN
    PdOutcome     \* whether PD answers: {TRUE} or BOOLEAN

Ts == 1..MaxTs
\* A bridge has two sinks in turn: the one it registered last and the one before.
Sink == Bridge \X {0, 1}

ASSUME ProducerAssumption ==
    /\ InitRegion \subseteq Region /\ Feed \subseteq Region
    /\ IsFiniteSet(Region)
    /\ None \notin Sink
    /\ MergeCap \in Nat \ {0}
    /\ MaxTs \in Nat /\ MaxTicks \in Nat /\ MaxObserveId \in Nat /\ MaxTasks \in Nat
    /\ SourceEngine \in BOOLEAN
    /\ StreamBreaks \subseteq BOOLEAN /\ PdOutcome \subseteq BOOLEAN

VARIABLES
    \* the source store and PD
    version,    \* version[r]: epoch version, 0 when the region does not exist
    pdVersion,  \* pdVersion[r]: the version PD has heard of
    tso,        \* the last timestamp PD gave to a commit
    inflight,   \* commit timestamps given out and not yet applied
    log,        \* the writes in the order they were applied
    observed,   \* observed[r]: observe id the raftstore reports r's commands with
    captures,   \* capture_change requests on their way
    \* the endpoint
    tasks,      \* its queue
    dele,       \* dele[r]: the delegate of r; id 0 when there is none
    feed,       \* feed[r]: another changefeed has a downstream on r's delegate
    registry,   \* the sink of the registered subscription, or None
    nextId,     \* the next observe id
    resolved,   \* pcr_resolved_ts
    \* the bridges
    pc,         \* pc[b]: where run() is
    startTs,    \* startTs[b]: start_ts of the subscription
    known,      \* known[b]: known_region_ids
    gen,        \* gen[b]: which of its two sinks b registered last
    ticks,      \* ticks[b]: checkpoints made
    cpTs,       \* cpTs[b]: the timestamp a tick has read and not yet sent
    scan,       \* scan[b][r]: the scan task of region r
    snap,       \* snap[b][r]: the writes in its snapshot
    sinkQ,      \* sinkQ[s]: events sent to sink s and not yet relayed
    relay,      \* relay[s]: whether the receiver of s is alive
    merge,      \* merge[b]: the merge channel
    writer,     \* writer[b]: whether the receiver of merge[b] is alive
    broken,     \* broken[b]: the gRPC stream of b has failed
    delivered,  \* delivered[b]: the events the consumer got on b's stream
    handed      \* handed[b]: the writes delegates sent to live sinks of b

storeVars == <<version, pdVersion, tso, inflight, log, observed, captures>>
endpointVars == <<tasks, dele, feed, registry, nextId, resolved>>
bridgeVars == <<pc, startTs, known, gen, ticks, cpTs, scan, snap>>
streamVars == <<sinkQ, relay, merge, writer, broken, delivered, handed>>
vars == <<storeVars, endpointVars, bridgeVars, streamVars>>

Data(kvs) == [kind |-> "kv", kvs |-> kvs, ts |-> 0, regions |-> {}]
Checkpoint(ts, rs) == [kind |-> "checkpoint", kvs |-> {}, ts |-> ts, regions |-> rs]
SplitEvent == [kind |-> "split", kvs |-> {}, ts |-> 0, regions |-> {}]

Event == [kind : {"kv", "checkpoint", "split"}, kvs : SUBSET Ts, ts : Ts \cup {0},
          regions : SUBSET Region]
Task ==
    [op : {"register"}, sink : Sink] \cup [op : {"start"}, region : Region]
        \cup [op : {"batch"}, region : Region, id : Nat, ts : Ts \cup {0}]
        \cup [op : {"min_ts"}, ts : Ts \cup {0}]

NoDelegate == [id |-> 0, sink |-> None]
Live == {r \in Region : version[r] > 0}

TypeOK ==
    /\ version \in [Region -> Nat] /\ pdVersion \in [Region -> Nat]
    /\ tso \in 0..MaxTs /\ inflight \subseteq Ts
    /\ log \in Seq([ts : Ts, region : Region])
    /\ observed \in [Region -> Nat]
    /\ captures \subseteq [region : Region, id : Nat, version : Nat]
    /\ tasks \in Seq(Task)
    /\ dele \in [Region -> [id : Nat, sink : Sink \cup {None}]]
    /\ feed \in [Region -> BOOLEAN]
    /\ registry \in Sink \cup {None}
    /\ nextId \in 1..(MaxObserveId + 1) /\ resolved \in 0..MaxTs
    /\ pc \in [Bridge -> {"idle", "resolve", "known", "loop", "send"}]
    /\ startTs \in [Bridge -> 0..MaxTs]
    /\ known \in [Bridge -> SUBSET Region]
    /\ gen \in [Bridge -> {0, 1}] /\ ticks \in [Bridge -> 0..MaxTicks]
    /\ cpTs \in [Bridge -> 0..MaxTs]
    /\ scan \in [Bridge -> [Region -> {"none", "spawned", "taken", "done"}]]
    /\ snap \in [Bridge -> [Region -> SUBSET Ts]]
    /\ sinkQ \in [Sink -> Seq(Event)] /\ relay \in [Sink -> BOOLEAN]
    /\ merge \in [Bridge -> Seq(Event)] /\ writer \in [Bridge -> BOOLEAN]
    /\ broken \in [Bridge -> BOOLEAN]
    /\ delivered \in [Bridge -> Seq(Event)]
    /\ handed \in [Bridge -> SUBSET Ts]

Init ==
    /\ version = [r \in Region |-> IF r \in InitRegion THEN 1 ELSE 0]
    /\ pdVersion = version
    /\ tso = 0 /\ inflight = {} /\ log = <<>>
    /\ observed = [r \in Region |-> 0] /\ captures = {}
    /\ tasks = <<>> /\ dele = [r \in Region |-> NoDelegate]
    /\ feed = [r \in Region |-> FALSE]
    /\ registry = None /\ nextId = 1 /\ resolved = 0
    /\ pc = [b \in Bridge |-> "idle"]
    /\ startTs = [b \in Bridge |-> 0] /\ known = [b \in Bridge |-> {}]
    /\ gen = [b \in Bridge |-> 0] /\ ticks = [b \in Bridge |-> 0]
    /\ cpTs = [b \in Bridge |-> 0]
    /\ scan = [b \in Bridge |-> [r \in Region |-> "none"]]
    /\ snap = [b \in Bridge |-> [r \in Region |-> {}]]
    /\ sinkQ = [s \in Sink |-> <<>>] /\ relay = [s \in Sink |-> FALSE]
    /\ merge = [b \in Bridge |-> <<>>] /\ writer = [b \in Bridge |-> FALSE]
    /\ broken = [b \in Bridge |-> FALSE]
    /\ delivered = [b \in Bridge |-> <<>>] /\ handed = [b \in Bridge |-> {}]

-----------------------------------------------------------------------------
(* The source store and PD (external) *)

Schedule(ts) == Len(tasks) + Len(ts) <= MaxTasks /\ tasks' = tasks \o ts

\* A transaction takes its commit timestamp.
TakeCommitTs ==
    /\ tso < MaxTs
    /\ tso' = tso + 1 /\ inflight' = inflight \cup {tso + 1}
    /\ UNCHANGED <<version, pdVersion, log, observed, captures, endpointVars,
                   bridgeVars, streamVars>>

\* What CdcObserver schedules for a command of r: nothing unless r is captured.
Observe(r, ts) ==
    IF observed[r] = 0 THEN UNCHANGED tasks
    ELSE Schedule(<<[op |-> "batch", region |-> r, id |-> observed[r], ts |-> ts]>>)

\* The commit is applied in region r.
ApplyCommit(ts, r) ==
    /\ ts \in inflight /\ r \in Live
    /\ inflight' = inflight \ {ts}
    /\ log' = Append(log, [ts |-> ts, region |-> r])
    /\ Observe(r, ts)
    /\ UNCHANGED <<version, pdVersion, tso, observed, captures, dele, feed, registry,
                   nextId, resolved, bridgeVars, streamVars>>

\* Region r splits and c is its new sibling; an observed r reports the command.
ApplySplit(r, c) ==
    /\ r \in Live /\ c \in Region \ Live
    /\ version' = [version EXCEPT ![r] = @ + 1, ![c] = version[r] + 1]
    /\ Observe(r, 0)
    /\ UNCHANGED <<pdVersion, tso, inflight, log, observed, captures, dele, feed,
                   registry, nextId, resolved, bridgeVars, streamVars>>

Heartbeat(r) ==
    /\ pdVersion[r] # version[r]
    /\ pdVersion' = [pdVersion EXCEPT ![r] = version[r]]
    /\ UNCHANGED <<version, tso, inflight, log, observed, captures, endpointVars,
                   bridgeVars, streamVars>>

\* The raftstore installs a capture_change unless it is stale or the epoch it
\* names has passed.  The callback only logs either outcome.
ApplyCapture(c) ==
    /\ c \in captures
    /\ captures' = captures \ {c}
    /\ observed' = IF observed[c.region] <= c.id /\ version[c.region] = c.version
                   THEN [observed EXCEPT ![c.region] = c.id] ELSE observed
    /\ UNCHANGED <<version, pdVersion, tso, inflight, log, endpointVars, bridgeVars,
                   streamVars>>

-----------------------------------------------------------------------------
(* The CDC endpoint: one worker, one queue *)

TakeTask(op) == tasks # <<>> /\ Head(tasks).op = op /\ tasks' = Tail(tasks)

\* Mutant: delegates that are already there keep the sink they have.
OnRegisterSpanForgets ==
    /\ TakeTask("register")
    /\ registry' = Head(tasks).sink
    /\ UNCHANGED <<storeVars, dele, feed, nextId, resolved, bridgeVars, streamVars>>

\* Task::RegisterSpanSubscription.  The existing delegates get the new sink only
\* if some subscription was there before; the new one replaces it.
OnRegisterSpan ==
    /\ TakeTask("register")
    /\ registry' = Head(tasks).sink
    /\ dele' = [r \in Region |->
                  IF registry # None /\ dele[r].id # 0
                  THEN [dele[r] EXCEPT !.sink = registry'] ELSE dele[r]]
    /\ UNCHANGED <<storeVars, feed, nextId, resolved, bridgeVars, streamVars>>

\* Mutant: a delegate that is already there is not captured again, and a new one
\* is left to somebody else.
OnStartPcrStreamNoCapture ==
    LET r == Head(tasks).region
        id == IF dele[r].id # 0 THEN dele[r].id ELSE nextId
    IN  /\ TakeTask("start")
        /\ id <= MaxObserveId
        /\ nextId' = IF dele[r].id # 0 THEN nextId ELSE nextId + 1
        /\ dele' = [dele EXCEPT ![r] = [id |-> id, sink |-> registry]]
        /\ UNCHANGED <<storeVars, feed, registry, resolved, bridgeVars, streamVars>>

\* on_start_pcr_stream: find or make the delegate, give it the registered sink (the
\* task's own sink has no receiver), capture the region at the epoch PD names, or at
\* version 1 if PD does not answer.  Every region PD lists is on this store.
OnStartPcrStream ==
    LET r == Head(tasks).region
        id == IF dele[r].id # 0 THEN dele[r].id ELSE nextId
    IN  /\ TakeTask("start")
        /\ id <= MaxObserveId
        /\ nextId' = IF dele[r].id # 0 THEN nextId ELSE nextId + 1
        /\ dele' = [dele EXCEPT ![r] = [id |-> id, sink |-> registry]]
        /\ \E ok \in PdOutcome :
              captures' = captures \cup
                  {[region |-> r, id |-> id, version |-> IF ok THEN pdVersion[r] ELSE 1]}
        /\ UNCHANGED <<version, pdVersion, tso, inflight, log, observed, feed, registry,
                       resolved, bridgeVars, streamVars>>

\* A sink whose relay has gone refuses the event, which is then dropped.
EmitPcrEvent(s, event) ==
    IF s # None /\ relay[s]
    THEN /\ sinkQ' = [sinkQ EXCEPT ![s] = Append(@, event)]
         /\ handed' = [handed EXCEPT ![s[1]] = @ \cup event.kvs]
    ELSE UNCHANGED <<sinkQ, handed>>

\* on_multi_batch: a batch of another observe id is stale.  The delegate flushes
\* its batcher after every batch, and a split ends it.
OnMultiBatch ==
    LET batch == Head(tasks)
        r == batch.region
    IN  /\ TakeTask("batch")
        /\ IF dele[r].id # batch.id \/ dele[r].id = 0
           THEN UNCHANGED <<dele, feed, sinkQ, handed>>
           ELSE IF batch.ts # 0
           THEN /\ EmitPcrEvent(dele[r].sink, Data({batch.ts}))
                /\ UNCHANGED <<dele, feed>>
           ELSE /\ EmitPcrEvent(dele[r].sink, SplitEvent)
                /\ dele' = [dele EXCEPT ![r] = NoDelegate]
                /\ feed' = [feed EXCEPT ![r] = FALSE]
        /\ UNCHANGED <<storeVars, registry, nextId, resolved, bridgeVars, relay, merge,
                       writer, broken, delivered>>

\* Mutant: the timestamp after the one PD gave.
ScheduleMinTsNext ==
    /\ \E b \in Bridge : ticks[b] < MaxTicks
    /\ \E r \in Region : dele[r].id # 0
    /\ \A i \in DOMAIN tasks : tasks[i].op # "min_ts"
    /\ Schedule(<<[op |-> "min_ts", ts |-> tso + 1]>>)
    /\ UNCHANGED <<storeVars, dele, feed, registry, nextId, resolved, bridgeVars,
                   streamVars>>

\* register_min_ts_event: take a timestamp, 0 if PD does not answer, and schedule
\* Task::MinTs if any captured region is left.  One such round is open at a time;
\* rounds that no checkpoint can read or that would publish the timestamp already
\* there are left out.
ScheduleMinTs ==
    /\ \E b \in Bridge : ticks[b] < MaxTicks
    /\ \E r \in Region : dele[r].id # 0
    /\ \A i \in DOMAIN tasks : tasks[i].op # "min_ts"
    /\ \E ok \in PdOutcome :
          LET ts == IF ok THEN tso ELSE 0
          IN  ts # resolved /\ Schedule(<<[op |-> "min_ts", ts |-> ts]>>)
    /\ UNCHANGED <<storeVars, dele, feed, registry, nextId, resolved, bridgeVars,
                   streamVars>>

\* on_min_ts publishes the timestamp itself as pcr_resolved_ts.
OnMinTs ==
    /\ TakeTask("min_ts")
    /\ resolved' = Head(tasks).ts
    /\ UNCHANGED <<storeVars, dele, feed, registry, nextId, bridgeVars, streamVars>>

\* on_register of another changefeed.  A delegate with a PCR sink refuses the
\* downstream, because enable_pcr left it with an empty region and epoch.
OnRegister(r) ==
    /\ r \in Feed \cap Live /\ ~feed[r]
    /\ IF registry # None
       THEN /\ dele[r].id # 0 /\ dele[r].sink # registry
            /\ dele' = [dele EXCEPT ![r].sink = registry]
            /\ UNCHANGED <<feed, nextId, captures>>
       ELSE /\ dele[r].id = 0 /\ nextId <= MaxObserveId
            /\ dele' = [dele EXCEPT ![r] = [id |-> nextId, sink |-> None]]
            /\ feed' = [feed EXCEPT ![r] = TRUE]
            /\ nextId' = nextId + 1
            /\ captures' = captures \cup
                   {[region |-> r, id |-> nextId, version |-> version[r]]}
    /\ UNCHANGED <<version, pdVersion, tso, inflight, log, observed, tasks, registry,
                   resolved, bridgeVars, streamVars>>

\* deregister_downstream: the last downstream takes the delegate with it, whether
\* or not it has a PCR sink.
OnDeregister(r) ==
    /\ feed[r]
    /\ feed' = [feed EXCEPT ![r] = FALSE]
    /\ dele' = [dele EXCEPT ![r] = NoDelegate]
    /\ UNCHANGED <<storeVars, tasks, registry, nextId, resolved, bridgeVars, streamVars>>

EndpointStep == OnRegisterSpan \/ OnStartPcrStream \/ OnMultiBatch \/ OnMinTs

-----------------------------------------------------------------------------
(* SpanBridge::run *)

\* resolve_regions: the regions PD lists, none when it does not answer.  A region
\* without start and end key, the only one of its cluster, is skipped.
Resolved(ok) ==
    LET listed == {r \in Region : pdVersion[r] > 0}
    IN  IF ok /\ Cardinality(listed) > 1 THEN listed ELSE {}

RegisterTask(s) == [op |-> "register", sink |-> s]
\* One start task per region, in the order of PD's list.
StartTasks(rs) ==
    CHOOSE ts \in [1..Cardinality(rs) -> [op : {"start"}, region : rs]] :
        \A r \in rs : \E i \in DOMAIN ts : ts[i].region = r
Spawn(b, rs) == scan' = [scan EXCEPT ![b] = [r \in Region |->
                           IF r \in rs /\ SourceEngine THEN "spawned" ELSE scan[b][r]]]

\* run() opens the channels, spawns the relay and registers its sink.  A consumer
\* subscribes from 0 or from a checkpoint an earlier stream delivered.
Subscribe(b) ==
    /\ pc[b] = "idle"
    /\ \E ts \in {0} \cup UNION {{delivered[a][i].ts : i \in DOMAIN delivered[a]} :
                                    a \in Bridge} :
          startTs' = [startTs EXCEPT ![b] = ts]
    /\ Schedule(<<RegisterTask(<<b, 0>>)>>)
    /\ relay' = [relay EXCEPT ![<<b, 0>>] = TRUE]
    /\ writer' = [writer EXCEPT ![b] = TRUE]
    /\ pc' = [pc EXCEPT ![b] = "resolve"]
    /\ UNCHANGED <<storeVars, dele, feed, registry, nextId, resolved, known, gen, ticks,
                   cpTs, scan, snap, sinkQ, merge, broken, delivered, handed>>

\* The first resolve: start and scan every region it returns.
StartRegions(b) ==
    /\ pc[b] = "resolve"
    /\ \E ok \in PdOutcome :
          Schedule(StartTasks(Resolved(ok))) /\ Spawn(b, Resolved(ok))
    /\ pc' = [pc EXCEPT ![b] = "known"]
    /\ UNCHANGED <<storeVars, dele, feed, registry, nextId, resolved, startTs, known,
                   gen, ticks, cpTs, snap, streamVars>>

\* The second resolve fills known_region_ids.
KnowRegions(b) ==
    /\ pc[b] = "known"
    /\ \E ok \in PdOutcome : known' = [known EXCEPT ![b] = Resolved(ok)]
    /\ pc' = [pc EXCEPT ![b] = "loop"]
    /\ UNCHANGED <<storeVars, endpointVars, startTs, gen, ticks, cpTs, scan, snap, streamVars>>

\* A send to the merge channel: it waits for room, and fails once the writer is gone.
Send(b, event) ==
    IF writer[b]
    THEN Len(merge[b]) < MergeCap /\ merge' = [merge EXCEPT ![b] = Append(@, event)]
    ELSE UNCHANGED merge

\* Mutant: the checkpoint is sent whatever pcr_resolved_ts is.
CheckpointTickUnguarded(b) ==
    /\ pc[b] = "loop" /\ ticks[b] < MaxTicks
    /\ ticks' = [ticks EXCEPT ![b] = @ + 1]
    /\ cpTs' = [cpTs EXCEPT ![b] = resolved]
    /\ pc' = [pc EXCEPT ![b] = "send"]
    /\ UNCHANGED <<storeVars, endpointVars, startTs, known, gen, scan, snap, streamVars>>

\* Every 5 s, also after the stream has failed, the loop reads pcr_resolved_ts ...
CheckpointTick(b) ==
    /\ pc[b] = "loop" /\ ticks[b] < MaxTicks
    /\ resolved > 0
    /\ ticks' = [ticks EXCEPT ![b] = @ + 1]
    /\ cpTs' = [cpTs EXCEPT ![b] = resolved]
    /\ pc' = [pc EXCEPT ![b] = "send"]
    /\ UNCHANGED <<storeVars, endpointVars, startTs, known, gen, scan, snap, streamVars>>

\* ... and sends it with the known regions once the merge channel has room.
CheckpointSend(b) ==
    /\ pc[b] = "send"
    /\ Send(b, Checkpoint(cpTs[b], known[b]))
    /\ cpTs' = [cpTs EXCEPT ![b] = 0]
    /\ pc' = [pc EXCEPT ![b] = "loop"]
    /\ UNCHANGED <<storeVars, endpointVars, startTs, known, gen, ticks, scan, snap, sinkQ,
                   relay, writer, broken, delivered, handed>>

\* The sink that Rediscover is about to reuse: nobody refers to it any more.
Unused(s) ==
    /\ sinkQ[s] = <<>> /\ registry # s
    /\ \A r \in Region : dele[r].sink # s
    /\ \A i \in DOMAIN tasks : tasks[i] # RegisterTask(s)

\* Mutant: the refresh stops the relay of the sink it replaces.
RediscoverStopsRelay(b) ==
    LET old == <<b, gen[b]>>
        new == <<b, 1 - gen[b]>>
    IN  /\ pc[b] = "loop" /\ Unused(new)
        /\ \E ok \in PdOutcome :
              LET fresh == Resolved(ok) \ known[b] IN
              /\ known' = [known EXCEPT ![b] = @ \cup fresh]
              /\ Spawn(b, fresh)
              /\ Schedule(Append(StartTasks(fresh), RegisterTask(new)))
        /\ gen' = [gen EXCEPT ![b] = 1 - @]
        /\ relay' = [relay EXCEPT ![new] = TRUE, ![old] = FALSE]
        /\ sinkQ' = [sinkQ EXCEPT ![old] = <<>>]
        /\ UNCHANGED <<storeVars, dele, feed, registry, nextId, resolved, pc, startTs,
                       ticks, cpTs, snap, merge, writer, broken, delivered, handed>>

\* Every 30 s: start and scan the regions not known yet, then register a fresh
\* sink with a relay of its own.  The old relay goes on until its sink is empty.
Rediscover(b) ==
    LET new == <<b, 1 - gen[b]>>
    IN  /\ pc[b] = "loop" /\ Unused(new)
        /\ \E ok \in PdOutcome :
              LET fresh == Resolved(ok) \ known[b] IN
              /\ known' = [known EXCEPT ![b] = @ \cup fresh]
              /\ Spawn(b, fresh)
              /\ Schedule(Append(StartTasks(fresh), RegisterTask(new)))
        /\ gen' = [gen EXCEPT ![b] = 1 - @]
        /\ relay' = [relay EXCEPT ![new] = TRUE]
        /\ UNCHANGED <<storeVars, dele, feed, registry, nextId, resolved, pc, startTs,
                       ticks, cpTs, snap, sinkQ, merge, writer, broken, delivered, handed>>

-----------------------------------------------------------------------------
(* Scans, relays and the writer: tasks of the bridge runtime *)

Written == {log[i].ts : i \in DOMAIN log}
Scanning == {p \in Bridge \X Region : scan[p[1]][p[2]] = "taken"}

\* scan_region takes its snapshot once it has one of the two permits.  Whatever
\* the region, it reads the whole store: all writes, or those after start_ts.
ScanSnapshot(b, r) ==
    /\ scan[b][r] = "spawned" /\ Cardinality(Scanning) < 2
    /\ scan' = [scan EXCEPT ![b][r] = "taken"]
    /\ snap' = [snap EXCEPT ![b][r] = {ts \in Written : ts > startTs[b]}]
    /\ UNCHANGED <<storeVars, endpointVars, pc, startTs, known, gen, ticks, cpTs, streamVars>>

\* Mutant: a scan sends full batches only.
ScanSendNoResidual(b, r) ==
    /\ scan[b][r] = "taken"
    /\ scan' = [scan EXCEPT ![b][r] = "done"]
    /\ IF Cardinality(snap[b][r]) < 2 THEN UNCHANGED merge ELSE Send(b, Data(snap[b][r]))
    /\ UNCHANGED <<storeVars, endpointVars, pc, startTs, known, gen, ticks, cpTs, snap, sinkQ,
                   relay, writer, broken, delivered, handed>>

ScanSend(b, r) ==
    /\ scan[b][r] = "taken"
    /\ scan' = [scan EXCEPT ![b][r] = "done"]
    /\ IF snap[b][r] = {} THEN UNCHANGED merge ELSE Send(b, Data(snap[b][r]))
    /\ UNCHANGED <<storeVars, endpointVars, pc, startTs, known, gen, ticks, cpTs, snap, sinkQ,
                   relay, writer, broken, delivered, handed>>

\* Mutant: the relay does not wait for room in the merge channel.
RelayDrops(s) ==
    /\ relay[s] /\ sinkQ[s] # <<>>
    /\ sinkQ' = [sinkQ EXCEPT ![s] = Tail(@)]
    /\ IF Len(merge[s[1]]) < MergeCap THEN Send(s[1], Head(sinkQ[s])) ELSE UNCHANGED merge
    /\ UNCHANGED <<storeVars, endpointVars, bridgeVars, relay, writer, broken, delivered,
                   handed>>

\* A relay moves events to the merge channel, and exits when that is closed.
Relay(s) ==
    /\ relay[s] /\ sinkQ[s] # <<>>
    /\ Send(s[1], Head(sinkQ[s]))
    /\ IF writer[s[1]]
       THEN sinkQ' = [sinkQ EXCEPT ![s] = Tail(@)] /\ UNCHANGED relay
       ELSE /\ sinkQ' = [sinkQ EXCEPT ![s] = <<>>]
            /\ relay' = [relay EXCEPT ![s] = FALSE]
    /\ UNCHANGED <<storeVars, endpointVars, bridgeVars, writer, broken, delivered, handed>>

\* The writer task sends to the gRPC stream and ends with the first error, which
\* closes the merge channel; run() itself goes on.
WriterSend(b) ==
    /\ writer[b] /\ pc[b] \in {"known", "loop", "send"} /\ merge[b] # <<>>
    /\ IF broken[b]
       THEN /\ writer' = [writer EXCEPT ![b] = FALSE]
            /\ merge' = [merge EXCEPT ![b] = <<>>]
            /\ UNCHANGED delivered
       ELSE /\ delivered' = [delivered EXCEPT ![b] = Append(@, Head(merge[b]))]
            /\ merge' = [merge EXCEPT ![b] = Tail(@)]
            /\ UNCHANGED writer
    /\ UNCHANGED <<storeVars, endpointVars, bridgeVars, sinkQ, relay, broken, handed>>

\* The consumer disconnects.
StreamBreak(b) ==
    /\ TRUE \in StreamBreaks
    /\ pc[b] # "idle" /\ ~broken[b]
    /\ broken' = [broken EXCEPT ![b] = TRUE]
    /\ UNCHANGED <<storeVars, endpointVars, bridgeVars, sinkQ, relay, merge, writer,
                   delivered, handed>>

StoreStep ==
    \/ TakeCommitTs
    \/ \E ts \in Ts, r \in Region : ApplyCommit(ts, r)
    \/ \E r, c \in Region : ApplySplit(r, c)
    \/ \E r \in Region : Heartbeat(r)
    \/ \E c \in captures : ApplyCapture(c)

BridgeStep(b) ==
    \/ Subscribe(b) \/ StartRegions(b) \/ KnowRegions(b)
    \/ CheckpointTick(b) \/ CheckpointSend(b) \/ Rediscover(b)
    \/ \E r \in Region : ScanSnapshot(b, r) \/ ScanSend(b, r)
    \/ WriterSend(b) \/ StreamBreak(b)

Next ==
    \/ StoreStep
    \/ EndpointStep \/ ScheduleMinTs
    \/ \E r \in Region : OnRegister(r) \/ OnDeregister(r)
    \/ \E b \in Bridge : BridgeStep(b)
    \/ \E s \in Sink : Relay(s)

Spec == Init /\ [][Next]_vars

\* The endpoint's worker, the bridge runtime, the apply threads and PD's
\* heartbeats all go on; clients, changefeeds and checkpoints need not.
FairSpec ==
    /\ Spec
    /\ WF_vars(EndpointStep)
    /\ \A ts \in Ts : WF_vars(\E r \in Region : ApplyCommit(ts, r))
    /\ \A r \in Region : WF_vars(Heartbeat(r))
    /\ WF_vars(\E c \in captures : ApplyCapture(c))
    /\ \A b \in Bridge :
          /\ WF_vars(StartRegions(b)) /\ WF_vars(KnowRegions(b))
          /\ WF_vars(CheckpointSend(b)) /\ WF_vars(Rediscover(b))
          /\ WF_vars(WriterSend(b))
          /\ \A r \in Region : WF_vars(ScanSnapshot(b, r)) /\ WF_vars(ScanSend(b, r))
    /\ \A s \in Sink : WF_vars(Relay(s))

-----------------------------------------------------------------------------
(* Properties *)

Kvs(events) == UNION {events[i].kvs : i \in DOMAIN events}

\* What a delegate handed to a live sink stays on its way while the writer of that
\* bridge runs: refreshes of the sink and registrations of other bridges lose none.
LiveStreamKeepsEvents ==
    \A b \in Bridge : writer[b] =>
        handed[b] \subseteq Kvs(delivered[b]) \cup Kvs(merge[b])
                            \cup Kvs(sinkQ[<<b, 0>>]) \cup Kvs(sinkQ[<<b, 1>>])

\* The consumer overwrites its frontier with each checkpoint.  On one stream their
\* timestamps never go back and their regions never go away, also when PD failed
\* to give a timestamp or a region list in between.
CheckpointsMonotone ==
    \A b \in Bridge : \A i, j \in DOMAIN delivered[b] :
        LET e == delivered[b][i]
            f == delivered[b][j]
        IN  i < j /\ e.kind = "checkpoint" /\ f.kind = "checkpoint" =>
                e.ts <= f.ts /\ e.regions \subseteq f.regions

\* A delegate's PCR sink is the registered one, whichever bridges registered in
\* whatever order; only a changefeed's delegate may be without one.
RegistryAgreement ==
    \A r \in Region : dele[r].id # 0 =>
        dele[r].sink = registry \/ (dele[r].sink = None /\ feed[r])

Attached(r) ==
    /\ dele[r].id # 0 /\ observed[r] = dele[r].id
    /\ dele[r].sink # None /\ dele[r].sink = registry

\* While the topology is steady and PD answers, a subscription captures every region.
SubscribedRegionsCaptured ==
    \A b \in Bridge, r \in InitRegion : pc[b] = "known" ~> Attached(r)

\* What was written before the bridge resolved its regions reaches the consumer:
\* the scan of any one region covers it.
StoredWritesDelivered ==
    \A b \in Bridge, ts \in Ts :
        pc[b] = "resolve" /\ ts \in Written /\ ts > startTs[b] ~> ts \in Kvs(delivered[b])

\* What a delegate handed to a bridge reaches the consumer while the stream lasts.
HandedWritesDelivered ==
    \A b \in Bridge, ts \in Ts : ts \in handed[b] ~> ts \in Kvs(delivered[b]) \/ broken[b]

\* The semantic document promises that no write is lost: a write of a running
\* subscription reaches the consumer.
EveryWriteDelivered ==
    \A b \in Bridge, ts \in Ts :
        pc[b] = "loop" /\ ts \in Written /\ ts > startTs[b] ~> ts \in Kvs(delivered[b])

\* pcrpb.proto says of a checkpoint that all data up to its timestamp has been
\* emitted for the regions it lists.
CheckpointCovers ==
    \A b \in Bridge : \A i \in DOMAIN delivered[b] : \A n \in DOMAIN log :
        LET cp == delivered[b][i] IN
        /\ cp.kind = "checkpoint" /\ log[n].region \in cp.regions
        /\ log[n].ts <= cp.ts /\ log[n].ts > startTs[b]
        => log[n].ts \in Kvs(SubSeq(delivered[b], 1, i))

Arrival(b, ts) == CHOOSE i \in DOMAIN delivered[b] :
    /\ ts \in delivered[b][i].kvs
    /\ \A j \in 1..(i - 1) : ts \notin delivered[b][j].kvs

\* The semantic document says the writes of a region arrive in apply order: of two
\* writes its delegate handed over, the later does not arrive first.
RegionOrder ==
    \A b \in Bridge : \A m, n \in DOMAIN log :
        /\ m < n /\ log[m].region = log[n].region
        /\ {log[m].ts, log[n].ts} \subseteq handed[b]
        /\ log[n].ts \in Kvs(delivered[b])
        => /\ log[m].ts \in Kvs(delivered[b])
           /\ Arrival(b, log[m].ts) <= Arrival(b, log[n].ts)

\* span_bridge.rs says splits are transparent, because new delegates are attached at
\* birth: a region that was attached once keeps being attached again.
SplitTransparent ==
    \A r \in Region : <>Attached(r) => []<>Attached(r)

\* run() says that the refresh scans any new regions: a region the bridge knows,
\* and reports in its checkpoints, has been given a scan.
KnownMeansScanned ==
    \A b \in Bridge : \A r \in known[b] : scan[b][r] # "none"

\* run() says that registering gives every existing delegate the shared sender.
EveryDelegateAttached ==
    registry # None => \A r \in Region : dele[r].id # 0 => dele[r].sink = registry

=============================================================================
