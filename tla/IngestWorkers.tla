---------------------------- MODULE IngestWorkers ----------------------------
(***************************************************************************)
(* The consumer's data plane: the ingest workers of one event loop         *)
(* (run_ingest_worker and handle_data_event of stream-ingest/task.rs), the *)
(* SstBatcher each of them owns (sst_batcher.rs) and the RocksDB they all  *)
(* write, past Raft, through DirectIngestContext (direct_ingest.rs).       *)
(*                                                                         *)
(* The workers are tasks of a multi-threaded runtime: each handles one     *)
(* event at a time, and their flushes interleave.  The steps of a flush    *)
(* are its writes to the engine: one SST per column family, then the       *)
(* buffered delete ranges.                                                 *)
(*                                                                         *)
(* A key is an MVCC key (user key and timestamp), its value is implied by  *)
(* it.  Every key-value pair and every delete range has size 1.            *)
(***************************************************************************)
EXTENDS Naturals, Sequences, Functions

CONSTANTS
    NumWorkers,      \* INGEST_WORKERS
    RegionId,        \* region ids of events; 0 in span mode
    Cf,              \* column families
    Key,             \* MVCC keys
    Batch,           \* the KvBatch payloads: sequences of pairs
    KeyRange,        \* the DeleteRange payloads: sets of keys
    MaxKvBuffer,     \* max_kv_buffer_size
    MaxRangeBuffer,  \* max_range_buffer_size
    MaxEvents,       \* bound on the number of events dispatched
    IngestOutcome    \* outcomes of building and ingesting an SST: {TRUE} or BOOLEAN

Kv == [cf : Cf, key : Key]
Worker == 0..(NumWorkers - 1)

ASSUME WorkerAssumption ==
    /\ NumWorkers \in Nat \ {0}
    /\ RegionId \subseteq Nat
    /\ Batch \subseteq Seq(Kv)
    /\ KeyRange \subseteq SUBSET Key
    /\ MaxKvBuffer \in Nat \ {0}
    /\ MaxRangeBuffer \in Nat \ {0}
    /\ MaxEvents \in Nat
    /\ IngestOutcome \subseteq BOOLEAN

VARIABLES
    log,        \* every event dispatched; an event is named by its position
    nextIdx,    \* the static NEXT counter modulo the number of workers; it outlives
                \* the event loop, so a loop may find it anywhere
    closed,     \* the event loop dropped the senders
    queue,      \* queue[w]: events sent to w and not yet received
    pc,         \* pc[w]: where worker w is
    resumeAt,   \* resumeAt[w]: where w goes when its flush returns
    curRegion,  \* curRegion[w]: current_region_id
    kvBuf,      \* kvBuf[w]: kv_buffer
    kvSize,     \* kvSize[w]: kv_buffer_size
    rangeBuf,   \* rangeBuf[w]: range_buffer, whose size is its length
    draining,   \* draining[w]: pairs of the running flush not yet ingested, each
                \* with its place in the buffer it was drained from
    engine,     \* the pairs in the target's RocksDB
    failed      \* the pairs some flush gave up on

loopVars == <<log, nextIdx, closed>>
vars == <<loopVars, queue, pc, resumeAt, curRegion, kvBuf, kvSize, rangeBuf,
          draining, engine, failed>>

Event == [region : RegionId, kvs : Seq(Kv), keys : SUBSET Key]
Drained == [place : Nat, kv : Kv]

TypeOK ==
    /\ log \in Seq(Event)
    /\ nextIdx \in Worker
    /\ closed \in BOOLEAN
    /\ queue \in [Worker -> Seq(Nat)]
    /\ pc \in [Worker -> {"select", "add", "flush", "exited"}]
    /\ resumeAt \in [Worker -> {"select", "add", "exited"}]
    /\ curRegion \in [Worker -> RegionId \cup {0}]
    /\ kvBuf \in [Worker -> Seq(Kv)]
    /\ kvSize \in [Worker -> Nat]
    /\ rangeBuf \in [Worker -> Seq(Nat)]
    /\ draining \in [Worker -> SUBSET Drained]
    /\ engine \subseteq Kv
    /\ failed \subseteq Kv

Init ==
    /\ log = <<>>
    /\ nextIdx \in Worker
    /\ closed = FALSE
    /\ queue = [w \in Worker |-> <<>>]
    /\ pc = [w \in Worker |-> "select"]
    /\ resumeAt = [w \in Worker |-> "select"]
    /\ curRegion = [w \in Worker |-> 0]
    /\ kvBuf = [w \in Worker |-> <<>>]
    /\ kvSize = [w \in Worker |-> 0]
    /\ rangeBuf = [w \in Worker |-> <<>>]
    /\ draining = [w \in Worker |-> {}]
    /\ engine = {}
    /\ failed = {}

-----------------------------------------------------------------------------
(* The event loop's side *)

\* handle_data_event: by region id, or round robin when there is none.
TargetWorker(region) == IF region # 0 THEN region % NumWorkers ELSE nextIdx

\* A loop reads one span stream, whose events have region id 0, or streams of
\* single regions.
SameKindOfStream(event) ==
    \A i \in DOMAIN log : (log[i].region = 0) <=> (event.region = 0)

\* Mutant: the round-robin counter is not reduced to an index.
DispatchNoWrap(event) ==
    LET w == TargetWorker(event.region) IN
    /\ ~closed
    /\ Len(log) < MaxEvents
    /\ SameKindOfStream(event)
    /\ log' = Append(log, event)
    /\ queue' = [queue EXCEPT ![w % NumWorkers] = Append(@, Len(log) + 1)]
    /\ nextIdx' = IF event.region # 0 THEN nextIdx ELSE nextIdx + 1
    /\ UNCHANGED <<closed, pc, resumeAt, curRegion, kvBuf, kvSize, rangeBuf,
                   draining, engine, failed>>

Dispatch(event) ==
    LET w == TargetWorker(event.region) IN
    /\ ~closed
    /\ Len(log) < MaxEvents
    /\ SameKindOfStream(event)
    /\ log' = Append(log, event)
    /\ queue' = [queue EXCEPT ![w] = Append(@, Len(log) + 1)]
    /\ nextIdx' = IF event.region # 0 THEN nextIdx ELSE (nextIdx + 1) % NumWorkers
    /\ UNCHANGED <<closed, pc, resumeAt, curRegion, kvBuf, kvSize, rangeBuf,
                   draining, engine, failed>>

DispatchKvBatch ==
    \E r \in RegionId, b \in Batch :
        Dispatch([region |-> r, kvs |-> b, keys |-> {}])

DispatchDeleteRange ==
    \E r \in RegionId, ks \in KeyRange :
        Dispatch([region |-> r, kvs |-> <<>>, keys |-> ks])

\* The event loop ended and dropped PcrComponents.
Close ==
    /\ ~closed
    /\ closed' = TRUE
    /\ UNCHANGED <<log, nextIdx, queue, pc, resumeAt, curRegion, kvBuf, kvSize,
                   rangeBuf, draining, engine, failed>>

-----------------------------------------------------------------------------
(* SstBatcher::flush *)

\* drain(..) keeps every pair, equal ones too.
Drain(kvs) == {[place |-> i, kv |-> kvs[i]] : i \in DOMAIN kvs}

\* flush called with the buffers kvs and ranges: nothing to do, or the pairs are
\* drained out of the buffer before the first SST is built.
BeginFlush(w, kvs, ranges, next) ==
    /\ kvBuf' = [kvBuf EXCEPT ![w] = <<>>]
    /\ draining' = [draining EXCEPT ![w] = Drain(kvs)]
    /\ resumeAt' = [resumeAt EXCEPT ![w] = next]
    /\ pc' = [pc EXCEPT ![w] = IF kvs = <<>> /\ ranges = <<>> THEN next ELSE "flush"]

OfCf(cf, drained) == {d \in drained : d.kv.cf = cf}
Pairs(drained) == {d.kv : d \in drained}

\* SstWriter::put wants strictly ascending keys: sorting brings equal keys
\* together, and the second of them is refused.
SstBuilds(group) == \A d, e \in group : d.kv.key = e.kv.key => d = e

\* Mutant: a failed column family is skipped and the flush goes on to the next
\* step without remembering its pairs.
IngestCfForgets(w, cf) ==
    LET group == OfCf(cf, draining[w]) IN
    /\ pc[w] = "flush"
    /\ group # {}
    /\ draining' = [draining EXCEPT ![w] = @ \ group]
    /\ \E ok \in IngestOutcome :
          engine' = IF ok /\ SstBuilds(group) THEN engine \cup Pairs(group) ELSE engine
    /\ UNCHANGED <<loopVars, queue, pc, resumeAt, curRegion, kvBuf, kvSize,
                   rangeBuf, failed>>

\* One column family, in the order of a HashMap: sort, build the SST, look the
\* region up in PD and ingest.  The first error returns from flush: the pairs
\* not yet ingested are gone, kv_buffer_size and range_buffer stay as they are.
IngestCf(w, cf) ==
    LET group == OfCf(cf, draining[w]) IN
    /\ pc[w] = "flush"
    /\ group # {}
    /\ \E ok \in IngestOutcome :
          IF ok /\ SstBuilds(group)
          THEN /\ engine' = engine \cup Pairs(group)
               /\ draining' = [draining EXCEPT ![w] = @ \ group]
               /\ UNCHANGED <<failed, pc>>
          ELSE /\ failed' = failed \cup Pairs(draining[w])
               /\ draining' = [draining EXCEPT ![w] = {}]
               /\ pc' = [pc EXCEPT ![w] = resumeAt[w]]
               /\ UNCHANGED engine
    /\ UNCHANGED <<loopVars, queue, resumeAt, curRegion, kvBuf, kvSize, rangeBuf>>

Covered(ranges) == UNION {log[j].keys : j \in Range(ranges)}

\* Mutant: the ranges are dropped instead of applied.
FinishFlushNoRanges(w) ==
    /\ pc[w] = "flush"
    /\ draining[w] = {}
    /\ rangeBuf' = [rangeBuf EXCEPT ![w] = <<>>]
    /\ kvSize' = [kvSize EXCEPT ![w] = 0]
    /\ pc' = [pc EXCEPT ![w] = resumeAt[w]]
    /\ UNCHANGED <<loopVars, queue, resumeAt, curRegion, kvBuf, draining, engine,
                   failed>>

\* The end of flush: apply the delete ranges, reset the buffers.  An error of the
\* engine's delete is ignored by the code; here the delete succeeds.
FinishFlush(w) ==
    /\ pc[w] = "flush"
    /\ draining[w] = {}
    /\ engine' = {kv \in engine : kv.key \notin Covered(rangeBuf[w])}
    /\ rangeBuf' = [rangeBuf EXCEPT ![w] = <<>>]
    /\ kvSize' = [kvSize EXCEPT ![w] = 0]
    /\ pc' = [pc EXCEPT ![w] = resumeAt[w]]
    /\ UNCHANGED <<loopVars, queue, resumeAt, curRegion, kvBuf, draining, failed>>

-----------------------------------------------------------------------------
(* run_ingest_worker *)

First(w) == log[Head(queue[w])]

\* should_flush(RangeBoundary), asked before the pairs of another region.
CrossesRegion(w) ==
    curRegion[w] # First(w).region /\ curRegion[w] # 0 /\ kvBuf[w] # <<>>

\* Mutant: flush only once the buffer exceeds its maximum.
BufferFullLate(size) == size > MaxKvBuffer

BufferFull(size) == size >= MaxKvBuffer

\* The rest of the KvBatch branch: buffer the pairs, flush when the buffer is
\* full or min_flush_interval has passed since the last successful flush.
AddKvs(w) ==
    LET kvs == kvBuf[w] \o First(w).kvs
        size == kvSize[w] + Len(First(w).kvs)
    IN  /\ curRegion' = [curRegion EXCEPT ![w] = First(w).region]
        /\ queue' = [queue EXCEPT ![w] = Tail(@)]
        /\ kvSize' = [kvSize EXCEPT ![w] = size]
        /\ \E elapsed \in BOOLEAN :
              IF BufferFull(size) \/ elapsed
              THEN BeginFlush(w, kvs, rangeBuf[w], "select")
              ELSE /\ kvBuf' = [kvBuf EXCEPT ![w] = kvs]
                   /\ pc' = [pc EXCEPT ![w] = "select"]
                   /\ UNCHANGED <<draining, resumeAt>>
        /\ UNCHANGED <<loopVars, rangeBuf, engine, failed>>

\* A KvBatch arrives.  Across a region boundary the old pairs are flushed first;
\* the event stays at the head of the queue until its pairs are added.
ReceiveKvBatch(w) ==
    /\ pc[w] = "select"
    /\ queue[w] # <<>>
    /\ First(w).keys = {}
    /\ IF CrossesRegion(w)
       THEN /\ BeginFlush(w, kvBuf[w], rangeBuf[w], "add")
            /\ UNCHANGED <<loopVars, queue, curRegion, kvSize, rangeBuf, engine,
                           failed>>
       ELSE AddKvs(w)

AddAfterBoundary(w) == pc[w] = "add" /\ AddKvs(w)

ReceiveDeleteRange(w) ==
    LET ranges == Append(rangeBuf[w], Head(queue[w])) IN
    /\ pc[w] = "select"
    /\ queue[w] # <<>>
    /\ First(w).keys # {}
    /\ curRegion' = [curRegion EXCEPT ![w] = First(w).region]
    /\ queue' = [queue EXCEPT ![w] = Tail(@)]
    /\ rangeBuf' = [rangeBuf EXCEPT ![w] = ranges]
    /\ IF Len(ranges) >= MaxRangeBuffer
       THEN BeginFlush(w, kvBuf[w], ranges, "select")
       ELSE UNCHANGED <<kvBuf, draining, resumeAt, pc>>
    /\ UNCHANGED <<loopVars, kvSize, engine, failed>>

\* Flush if pending_kvs() > 0: buffered delete ranges alone do not count.
FlushPendingKvs(w, next) ==
    /\ IF kvBuf[w] # <<>>
       THEN BeginFlush(w, kvBuf[w], rangeBuf[w], next)
       ELSE pc' = [pc EXCEPT ![w] = next] /\ UNCHANGED <<kvBuf, draining, resumeAt>>
    /\ UNCHANGED <<loopVars, queue, curRegion, kvSize, rangeBuf, engine, failed>>

\* Mutant: a closed channel is handled like an idle one.
ChannelClosedNoReturn(w) ==
    /\ pc[w] = "select"
    /\ closed /\ queue[w] = <<>>
    /\ FlushPendingKvs(w, "select")

\* recv returned None: the senders are gone and the queue is empty.
ChannelClosed(w) ==
    /\ pc[w] = "select"
    /\ closed /\ queue[w] = <<>>
    /\ FlushPendingKvs(w, "exited")

\* Mutant: the idle timer does nothing.
IdleTimeoutNoFlush(w) == FALSE

\* Five seconds without an event; select! may find the timer due together with
\* an event that has just arrived.
IdleTimeout(w) ==
    /\ pc[w] = "select"
    /\ kvBuf[w] # <<>>
    /\ FlushPendingKvs(w, "select")

WorkerStep(w) ==
    \/ ReceiveKvBatch(w) \/ AddAfterBoundary(w) \/ ReceiveDeleteRange(w)
    \/ ChannelClosed(w) \/ IdleTimeout(w)
    \/ \E cf \in Cf : IngestCf(w, cf)
    \/ FinishFlush(w)

Next ==
    \/ DispatchKvBatch \/ DispatchDeleteRange \/ Close
    \/ \E w \in Worker : WorkerStep(w)

Spec == Init /\ [][Next]_vars

\* Each worker is a task of its own that the runtime polls again whenever a
\* message, the close of its channel or its timer is due.
FairSpec == Spec /\ \A w \in Worker : WF_vars(WorkerStep(w))

-----------------------------------------------------------------------------
(* Properties *)

Queued(i) == \E w \in Worker : i \in Range(queue[w])

\* The delete range event j has been applied to the engine.
Applied(j) == ~Queued(j) /\ \A w \in Worker : j \notin Range(rangeBuf[w])

\* A pair sent to a worker is accounted for until it is in the engine: it waits
\* in the queue, a buffer or a running flush, whatever region boundaries, full
\* buffers, timers and closes come in between, unless a flush reported an error
\* for it or an applied delete range covers it.
NothingVanishes ==
    \A i \in DOMAIN log : \A kv \in Range(log[i].kvs) :
        \/ kv \in engine \cup failed
        \/ Queued(i)
        \/ \E w \in Worker : kv \in Range(kvBuf[w]) \cup Pairs(draining[w])
        \/ \E j \in DOMAIN log : kv.key \in log[j].keys /\ Applied(j)

\* With events routed by region id, a delete range that was applied leaves
\* nothing of what its region wrote before it: no earlier pair is still on its
\* way to the engine, even when flushes in between failed.
RangeRemovesEarlier ==
    \A j \in DOMAIN log : \A kv \in engine :
        log[j].region # 0 /\ kv.key \in log[j].keys /\ Applied(j) =>
            \E i \in DOMAIN log :
                /\ kv \in Range(log[i].kvs)
                /\ i > j \/ log[i].region # log[j].region

\* The design of parallel ingest says the same of every stream: one region always
\* has the same worker, which serialises its events.
SerialPerRegion ==
    \A j \in DOMAIN log : \A kv \in engine :
        kv.key \in log[j].keys /\ Applied(j) =>
            \E i \in DOMAIN log :
                /\ kv \in Range(log[i].kvs)
                /\ i > j \/ log[i].region # log[j].region

\* A worker waiting for events buffers less than max_kv_buffer_size, also when
\* flushes fail and kv_buffer_size is left at its old value.
BufferBounded ==
    \A w \in Worker : pc[w] = "select" => Len(kvBuf[w]) < MaxKvBuffer

\* Buffered pairs are always flushed in the end: by a full buffer, the flush
\* interval, the idle timer, or the last flush of a worker whose loop ended.
KvBufferDrains ==
    \A w \in Worker : (kvBuf[w] # <<>>) ~> (kvBuf[w] = <<>>)

\* Once the event loop has gone every worker handles what was sent and returns.
ClosedWorkersExit ==
    closed ~> \A w \in Worker : pc[w] = "exited" /\ queue[w] = <<>>

\* run_ingest_worker says a closed channel flushes the remaining data first.
ExitFlushesEverything ==
    \A w \in Worker : pc[w] = "exited" => kvBuf[w] = <<>> /\ rangeBuf[w] = <<>>

\* ingest_sst says no concurrent ingest can happen, so it takes no latch.
NoConcurrentIngest ==
    \A v, w \in Worker : pc[v] = "flush" /\ pc[w] = "flush" => v = w

Quiet == \A w \in Worker : /\ pc[w] \in {"select", "exited"}
                           /\ queue[w] = <<>> /\ kvBuf[w] = <<>>

\* The semantic document promises at-least-once delivery: replays are allowed,
\* losses are not.  Once the workers are quiet, a pair that no later delete range
\* covers is in the engine.
AtLeastOnce ==
    Quiet => \A i \in DOMAIN log : \A kv \in Range(log[i].kvs) :
        \/ kv \in engine
        \/ \E j \in DOMAIN log : j > i /\ kv.key \in log[j].keys

\* The same promise where no flush fails: a pair written after a delete range of
\* its key survives that range.
LaterWritesSurvive ==
    Quiet => \A i \in DOMAIN log : \A kv \in Range(log[i].kvs) :
        \/ kv \in engine \cup failed
        \/ \E j \in DOMAIN log : j > i /\ kv.key \in log[j].keys

=============================================================================
