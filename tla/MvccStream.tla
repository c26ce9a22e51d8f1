------------------------------ MODULE MvccStream ------------------------------
(***************************************************************************)
(* What the stream says about transactions: the Raft commands of one       *)
(* region, their translation into PCR events by the CDC delegate (on_batch,*)
(* sink_data and sink_txn_put of cdc/delegate.rs, logical_mutation.rs,     *)
(* pcr_event_batcher.rs), and the MVCC state the target ends up with after *)
(* the ingest workers have turned the events into SSTs.                    *)
(*                                                                         *)
(* An MVCC version is a write record at its commit timestamp and, for a    *)
(* value above 255 bytes, a default-CF entry at its start timestamp.       *)
(* Timestamps are unique, so a value is named by the start timestamp of    *)
(* the transaction that wrote it.  Keys are TiDB keys (KeyMode::Tidb).     *)
(* Each worker flushes its whole buffer in one step; IngestWorkers has the *)
(* steps of a flush.                                                       *)
(***************************************************************************)
EXTENDS Naturals, Sequences, Functions

CONSTANTS
    Key,          \* user keys
    Mutation,     \* what transactions do to a key: write a value of up to 255 bytes
                  \* or a longer one, delete it, or only lock it
    NumWorkers,   \* INGEST_WORKERS
    MaxTs,        \* bound on the timestamps handed out
    VarintBase,   \* base of the groups of a varint: 128 in the code
    KeyRange,     \* DeleteRange commands: [cf, keys, notifyOnly]
    MaxRanges     \* bound on the number of DeleteRange commands

Cf == {"default", "write"}
Ts == 0..MaxTs
Worker == 0..(NumWorkers - 1)

\* The key of the target's RocksDB: 'z' and the encoded user key.
DataKey(k) == <<"z", k>>

\* The keys of TiDB start with 't' or 'm', so none looks like a data key.
ASSUME MvccAssumption ==
    /\ \A k \in Key : DataKey(k) \notin Key
    /\ Mutation \subseteq {"short", "long", "delete", "lock"}
    /\ NumWorkers \in Nat \ {0}
    /\ MaxTs \in Nat
    /\ VarintBase \in Nat \ {0, 1}
    /\ MaxTs < VarintBase * VarintBase
    /\ MaxRanges \in Nat
    /\ KeyRange \subseteq [cf : Cf, keys : SUBSET Key, notifyOnly : BOOLEAN]

\* Values: Absent, the empty value, the bytes of a write record, or the value
\* written by the transaction that started at ts.
Absent == [kind |-> "absent", ts |-> 0]
Empty == [kind |-> "empty", ts |-> 0]
RecordBytes == [kind |-> "record", ts |-> 0]
WrittenBy(ts) == [kind |-> "value", ts |-> ts]

\* A write record; kind "rollback" stands beside the four mutations.
WriteRecord(k, commitTs, startTs, kind) ==
    [key |-> k, ts |-> commitTs, start |-> startTs, kind |-> kind]
Entry(k, startTs, value) == [key |-> k, ts |-> startTs, value |-> value]

VARIABLES
    tso,         \* the last timestamp handed out
    lock,        \* lock[k]: the prewritten mutation of k, or no lock
    srcDefault,  \* default CF of the source
    srcWrite,    \* write CF of the source
    everWritten, \* every write record ever put on the source
    ranges,      \* the DeleteRange commands so far
    applied,     \* commands applied and not yet handled by the delegate
    stream,      \* events on their way to the target's event loop
    nextIdx,     \* the round-robin counter
    kvBuf,       \* kvBuf[w]: pairs buffered by worker w
    rangeBuf,    \* rangeBuf[w]: delete ranges buffered by worker w
    tgtDefault,  \* default CF of the target, under data keys
    tgtWrite,    \* write CF of the target, under data keys
    lost         \* pairs of flushes that failed

sourceVars == <<tso, lock, srcDefault, srcWrite, everWritten, ranges>>
targetVars == <<kvBuf, rangeBuf, tgtDefault, tgtWrite, lost>>
vars == <<sourceVars, applied, stream, nextIdx, targetVars>>

NoLock == [start |-> 0, kind |-> "none"]

Init ==
    /\ tso = 0
    /\ lock = [k \in Key |-> NoLock]
    /\ srcDefault = {}
    /\ srcWrite = {}
    /\ everWritten = {}
    /\ ranges = <<>>
    /\ applied = <<>>
    /\ stream = <<>>
    /\ nextIdx = 0
    /\ kvBuf = [w \in Worker |-> <<>>]
    /\ rangeBuf = [w \in Worker |-> <<>>]
    /\ tgtDefault = {}
    /\ tgtWrite = {}
    /\ lost = {}

-----------------------------------------------------------------------------
(* The source: transactions on single keys, as Raft commands *)

PutDefault(e) == [type |-> "put", cf |-> "default", put |-> e]
PutLock(k) == [type |-> "put", cf |-> "lock", put |-> k]
PutWrite(r) == [type |-> "put", cf |-> "write", put |-> r]
Delete(cf, k) == [type |-> "delete", cf |-> cf, put |-> k]
DeleteRange(r) == [type |-> "deleteRange", cf |-> r.cf, put |-> r]

Apply(command) == applied' = Append(applied, command)

Values(k, start, kind) ==
    IF kind = "long" THEN <<Entry(k, start, WrittenBy(start))>> ELSE <<>>

PutDefaults(entries) == [i \in DOMAIN entries |-> PutDefault(entries[i])]

Prewrite(k, kind) ==
    /\ tso < MaxTs
    /\ lock[k] = NoLock
    /\ tso' = tso + 1
    /\ lock' = [lock EXCEPT ![k] = [start |-> tso + 1, kind |-> kind]]
    /\ srcDefault' = srcDefault \cup Range(Values(k, tso + 1, kind))
    /\ Apply(PutDefaults(Values(k, tso + 1, kind)) \o <<PutLock(k)>>)
    /\ UNCHANGED <<srcWrite, everWritten, ranges, stream, nextIdx, targetVars>>

CommitKey(k) ==
    LET record == WriteRecord(k, tso + 1, lock[k].start, lock[k].kind) IN
    /\ tso < MaxTs
    /\ lock[k] # NoLock
    /\ tso' = tso + 1
    /\ lock' = [lock EXCEPT ![k] = NoLock]
    /\ srcWrite' = srcWrite \cup {record}
    /\ everWritten' = everWritten \cup {record}
    /\ Apply(<<PutWrite(record), Delete("lock", k)>>)
    /\ UNCHANGED <<srcDefault, ranges, stream, nextIdx, targetVars>>

\* A rollback removes the value and leaves a record at the start timestamp.
RollbackKey(k) ==
    LET start == lock[k].start
        record == WriteRecord(k, start, start, "rollback")
        entries == {e \in srcDefault : e.key = k /\ e.ts = start}
    IN  /\ lock[k] # NoLock
        /\ lock' = [lock EXCEPT ![k] = NoLock]
        /\ srcDefault' = srcDefault \ entries
        /\ srcWrite' = srcWrite \cup {record}
        /\ everWritten' = everWritten \cup {record}
        /\ Apply((IF entries = {} THEN <<>> ELSE <<Delete("default", k)>>)
                   \o <<PutWrite(record), Delete("lock", k)>>)
        /\ UNCHANGED <<tso, ranges, stream, nextIdx, targetVars>>

\* One-phase commit: value and write record in one command, no lock.
OnePc(k, kind) ==
    LET start == tso + 1
        record == WriteRecord(k, tso + 2, start, kind)
    IN  /\ tso + 2 <= MaxTs
        /\ lock[k] = NoLock
        /\ tso' = tso + 2
        /\ srcDefault' = srcDefault \cup Range(Values(k, start, kind))
        /\ srcWrite' = srcWrite \cup {record}
        /\ everWritten' = everWritten \cup {record}
        /\ Apply(PutDefaults(Values(k, start, kind)) \o <<PutWrite(record)>>)
        /\ UNCHANGED <<lock, ranges, stream, nextIdx, targetVars>>

\* A DeleteRange command removes a range of one column family, unless it only
\* notifies of data that was removed in another way.
DeleteKeys(r) ==
    /\ Len(ranges) < MaxRanges
    /\ ranges' = Append(ranges, r)
    /\ srcDefault' = IF r.cf = "default" /\ ~r.notifyOnly
                     THEN {e \in srcDefault : e.key \notin r.keys} ELSE srcDefault
    /\ srcWrite' = IF r.cf = "write" /\ ~r.notifyOnly
                   THEN {e \in srcWrite : e.key \notin r.keys} ELSE srcWrite
    /\ Apply(<<DeleteRange(r)>>)
    /\ UNCHANGED <<tso, lock, everWritten, stream, nextIdx, targetVars>>

-----------------------------------------------------------------------------
(* Reading a multi-version store *)

NewestAt(writes, key, ts) ==
    LET versions == {r \in writes : /\ r.key = key /\ r.ts <= ts
                                    /\ r.kind \notin {"lock", "rollback"}}
    IN  {r \in versions : \A q \in versions : q.ts <= r.ts}

ValueOf(defaults, r) ==
    CASE r.kind = "delete" -> {Absent}
      [] r.kind = "short" -> {WrittenBy(r.start)}
      [] OTHER -> {e.value : e \in {d \in defaults : d.key = r.key /\ d.ts = r.start}}

\* The value of key at ts, as a set: {Absent} when there is no version, {} when a
\* write record points to a missing default-CF entry (DefaultNotFound).
Read(defaults, writes, key, ts) ==
    IF NewestAt(writes, key, ts) = {}
    THEN {Absent}
    ELSE UNION {ValueOf(defaults, r) : r \in NewestAt(writes, key, ts)}

-----------------------------------------------------------------------------
(* The delegate: from Raft commands to PCR events *)

\* What a loop over several inputs makes that adds the output for each at the end.
Flatten(seqs) ==
    LET upTo[n \in 0..Len(seqs)] == IF n = 0 THEN <<>> ELSE upTo[n - 1] \o seqs[n]
    IN  upTo[Len(seqs)]

Kv(cf, pair) == [cf |-> cf, pair |-> pair]
KvBatch(kvs) == [kvs |-> kvs, keys |-> {}]
RangeEvent(keys) == [kvs |-> <<>>, keys |-> keys]

\* old_value_cb: the newest version of key in the write CF that is visible at ts.
\* Keys of the source's region snapshot carry no prefix.
OldValue(key, ts) == Read(srcDefault, srcWrite, key, ts)

\* The value of a Put record without a short value, looked up under its data key.
LongValue(r) ==
    IF OldValue(DataKey(r.key), r.start) = {Absent}
    THEN Empty
    ELSE CHOOSE v \in OldValue(DataKey(r.key), r.start) : TRUE

\* The fallback reads the groups of the start timestamp's varint, which come
\* least significant first, as if the most significant came first.
Misread(ts) ==
    IF ts < VarintBase
    THEN ts
    ELSE (ts % VarintBase) * VarintBase + ts \div VarintBase

\* The write record itself, under the data key.
CopyWrite(r) == Kv("write", [r EXCEPT !.key = DataKey(r.key)])
CopyDefault(r, ts, value) == Kv("default", Entry(DataKey(r.key), ts, value))

\* Mutant: a rollback is sent on like a deletion.
SinkWriteRollback(r) ==
    CASE r.kind = "short" -> <<CopyDefault(r, r.start, WrittenBy(r.start)), CopyWrite(r)>>
      [] r.kind = "long" -> <<CopyDefault(r, r.start, LongValue(r)), CopyWrite(r)>>
      [] r.kind \in {"delete", "rollback"} ->
            <<CopyDefault(r, r.start, Empty), CopyWrite(r)>>
      [] r.kind = "lock" ->
            <<CopyWrite(r), CopyDefault(r, Misread(r.start), RecordBytes)>>

\* Mutant: a deletion is taken to be covered by the Delete request.
SinkWriteNoDelete(r) ==
    CASE r.kind = "short" -> <<CopyDefault(r, r.start, WrittenBy(r.start)), CopyWrite(r)>>
      [] r.kind = "long" -> <<CopyDefault(r, r.start, LongValue(r)), CopyWrite(r)>>
      [] r.kind \in {"delete", "rollback"} -> <<>>
      [] r.kind = "lock" ->
            <<CopyWrite(r), CopyDefault(r, Misread(r.start), RecordBytes)>>

\* Mutant: a Put record with a short value goes on to the fallback.
SinkWriteFallsThrough(r) ==
    CASE r.kind = "short" ->
            <<CopyDefault(r, r.start, WrittenBy(r.start)), CopyWrite(r),
              CopyWrite(r), CopyDefault(r, Misread(r.start), RecordBytes)>>
      [] r.kind = "long" -> <<CopyDefault(r, r.start, LongValue(r)), CopyWrite(r)>>
      [] r.kind = "delete" -> <<CopyDefault(r, r.start, Empty), CopyWrite(r)>>
      [] r.kind = "rollback" -> <<>>
      [] r.kind = "lock" ->
            <<CopyWrite(r), CopyDefault(r, Misread(r.start), RecordBytes)>>

\* A put to the write CF, by LogicalMutation::from_write_cf: Put, Delete and
\* Rollback records have their case, a Lock record takes the fallback.  The worker
\* does not look at the operation, so the Delete of a default entry arrives as an
\* empty value.
SinkWrite(r) ==
    CASE r.kind = "short" -> <<CopyDefault(r, r.start, WrittenBy(r.start)), CopyWrite(r)>>
      [] r.kind = "long" -> <<CopyDefault(r, r.start, LongValue(r)), CopyWrite(r)>>
      [] r.kind = "delete" -> <<CopyDefault(r, r.start, Empty), CopyWrite(r)>>
      [] r.kind = "rollback" -> <<>>
      [] r.kind = "lock" ->
            <<CopyWrite(r), CopyDefault(r, Misread(r.start), RecordBytes)>>

\* sink_txn_put: locks are skipped, default-CF puts are copied under the data key.
SinkPut(req) ==
    CASE req.cf = "lock" -> <<>>
      [] req.cf = "write" -> SinkWrite(req.put)
      [] req.cf = "default" -> <<CopyDefault(req.put, req.put.ts, req.put.value)>>

SinkRequest(req) == IF req.type = "put" THEN SinkPut(req) ELSE <<>>

\* A DeleteRange request that is not notify-only, with the keys of the request.
SinkRange(req) ==
    IF req.type = "deleteRange" /\ ~req.put.notifyOnly
    THEN <<RangeEvent(req.put.keys)>> ELSE <<>>

\* sink_data: a DeleteRange request is sent at once; the pairs of the command follow
\* in one batch, flushed at the end.
SinkData(command) ==
    LET kvs == Flatten([i \in DOMAIN command |-> SinkRequest(command[i])])
    IN  Flatten([i \in DOMAIN command |-> SinkRange(command[i])])
          \o (IF kvs = <<>> THEN <<>> ELSE <<KvBatch(kvs)>>)

\* A range raftstore collected while it applied the request, as data keys, those of
\* notify-only requests included.
CollectRange(req) ==
    IF req.type = "deleteRange"
    THEN <<RangeEvent({DataKey(k) : k \in req.put.keys})>> ELSE <<>>

DeleteRanges(batch) ==
    LET requests == Flatten(batch)
    IN  Flatten([i \in DOMAIN requests |-> CollectRange(requests[i])])

\* on_batch: the commands of a batch in order, then its ranges.  The apply thread
\* hands over any number of commands at once.
OnBatch(n) ==
    LET batch == SubSeq(applied, 1, n) IN
    /\ n \in DOMAIN applied
    /\ applied' = SubSeq(applied, n + 1, Len(applied))
    /\ stream' = stream \o Flatten([i \in DOMAIN batch |-> SinkData(batch[i])])
                        \o DeleteRanges(batch)
    /\ UNCHANGED <<sourceVars, nextIdx, targetVars>>

-----------------------------------------------------------------------------
(* The target *)

\* Mutant: the round-robin counter is not reduced to an index.
ReceiveNoWrap ==
    /\ stream # <<>>
    /\ stream' = Tail(stream)
    /\ nextIdx' = nextIdx + 1
    /\ kvBuf' = [kvBuf EXCEPT ![nextIdx % NumWorkers] = @ \o Head(stream).kvs]
    /\ UNCHANGED <<sourceVars, applied, rangeBuf, tgtDefault, tgtWrite, lost>>

\* handle_data_event without a region id, and the worker that takes the event.
Receive ==
    /\ stream # <<>>
    /\ stream' = Tail(stream)
    /\ nextIdx' = (nextIdx + 1) % NumWorkers
    /\ kvBuf' = [kvBuf EXCEPT ![nextIdx] = @ \o Head(stream).kvs]
    /\ rangeBuf' = [rangeBuf EXCEPT ![nextIdx] =
                       IF Head(stream).keys = {} THEN @ ELSE Append(@, Head(stream).keys)]
    /\ UNCHANGED <<sourceVars, applied, tgtDefault, tgtWrite, lost>>

\* The pairs of some column families.
Pairs(cfs, kvs) == {kv.pair : kv \in {x \in Range(kvs) : x.cf \in cfs}}

SameMvccKey(p, q) == p.key = q.key /\ p.ts = q.ts

\* An SST wants strictly ascending keys.
SstBuilds(cf, kvs) ==
    \A i, j \in DOMAIN kvs :
        /\ kvs[i].cf = cf /\ kvs[j].cf = cf
        /\ SameMvccKey(kvs[i].pair, kvs[j].pair)
        => i = j

\* Ingesting an SST hides the older entries of its keys.
Ingest(store, pairs) ==
    {e \in store : \A p \in pairs : ~SameMvccKey(p, e)} \cup pairs

\* The column families a flush gets to: all before the first whose SST fails.
Ingested(kvs, order) ==
    {order[i] : i \in {j \in DOMAIN order : \A m \in 1..j : SstBuilds(order[m], kvs)}}

\* SstBatcher::flush with the column families in either order of the HashMap.  An
\* error drops the pairs not yet ingested and keeps the ranges; without one the
\* ranges are deleted from every column family.
Flush(w, order) ==
    LET kvs == kvBuf[w]
        done == Ingested(kvs, order)
        Store(cf, store) ==
            IF cf \in done THEN Ingest(store, Pairs({cf}, kvs)) ELSE store
        deleted == IF done = Cf THEN UNION Range(rangeBuf[w]) ELSE {}
    IN  /\ kvs # <<>>
        /\ kvBuf' = [kvBuf EXCEPT ![w] = <<>>]
        /\ rangeBuf' = [rangeBuf EXCEPT ![w] = IF done = Cf THEN <<>> ELSE @]
        /\ tgtDefault' = {e \in Store("default", tgtDefault) : e.key \notin deleted}
        /\ tgtWrite' = {e \in Store("write", tgtWrite) : e.key \notin deleted}
        /\ lost' = lost \cup Pairs(Cf \ done, kvs)
        /\ UNCHANGED <<sourceVars, applied, stream, nextIdx>>

CfOrders == {<<"default", "write">>, <<"write", "default">>}

Source ==
    \/ \E k \in Key, kind \in Mutation : Prewrite(k, kind) \/ OnePc(k, kind)
    \/ \E k \in Key : CommitKey(k) \/ RollbackKey(k)
    \/ \E r \in KeyRange : DeleteKeys(r)

SomeBatch == \E n \in DOMAIN applied : OnBatch(n)
FlushWorker(w) == \E order \in CfOrders : Flush(w, order)

Next ==
    \/ Source \/ SomeBatch \/ Receive
    \/ \E w \in Worker : FlushWorker(w)

Spec == Init /\ [][Next]_vars

-----------------------------------------------------------------------------
(* Properties *)

Value == {Absent, Empty, RecordBytes} \cup {WrittenBy(t) : t \in Ts}
SourceEntry == [key : Key, ts : Ts, value : Value]
SourceRecord ==
    [key : Key, ts : Ts, start : Ts, kind : Mutation \cup {"rollback"}]
TargetEntry ==
    [key : {DataKey(k) : k \in Key}, ts : 0..(VarintBase * VarintBase - 1), value : Value]
TargetRecord ==
    [key : {DataKey(k) : k \in Key}, ts : Ts, start : Ts, kind : Mutation]

\* Type invariant.
TypeOK ==
    /\ tso \in Ts
    /\ lock \in [Key -> {NoLock} \cup [start : Ts, kind : Mutation]]
    /\ srcDefault \subseteq SourceEntry
    /\ srcWrite \subseteq SourceRecord
    /\ everWritten \subseteq SourceRecord
    /\ ranges \in Seq(KeyRange)
    /\ nextIdx \in Worker
    /\ \A w \in Worker :
          /\ Pairs({"default"}, kvBuf[w]) \subseteq TargetEntry
          /\ Pairs({"write"}, kvBuf[w]) \subseteq TargetRecord
    /\ tgtDefault \subseteq TargetEntry
    /\ tgtWrite \subseteq TargetRecord

\* Every version a reader of the target can meet was committed on the source, by
\* the transaction and at the timestamp its write record names: neither a prewrite
\* nor a rollback leaves a visible row behind, in whatever order the workers flush.
NoPhantomVersions ==
    \A r \in tgtWrite : \E q \in everWritten :
        r = [q EXCEPT !.key = DataKey(q.key)] /\ q.kind # "rollback"

Covered(k) == \E i \in DOMAIN ranges : k \in ranges[i].keys
LostFor(k) == \E p \in lost : p.key = DataKey(k)

Settled ==
    applied = <<>> /\ stream = <<>> /\ \A w \in Worker : kvBuf[w] = <<>>

\* Once everything applied has been captured, received and flushed, a snapshot read
\* of the target returns what the source returns, at every timestamp, where the
\* version is a short value or a deletion or there is none.  A long value never
\* reads as the value of another transaction.
ReadsAgree ==
    Settled =>
        \A k \in Key : \A ts \in Ts : ~Covered(k) /\ ~LostFor(k) =>
            LET source == NewestAt(srcWrite, k, ts)
                target == Read(tgtDefault, tgtWrite, DataKey(k), ts)
            IN  IF \E r \in source : r.kind = "long"
                THEN \A v \in target : v.kind = "value" =>
                        \E r \in source : v.ts = r.start
                ELSE target = Read(srcDefault, srcWrite, k, ts)

\* What the producer documents for values above 255 bytes: they are looked up in
\* the default CF at their start timestamp, so the target reads what the source
\* reads.
LargeValuesCopied ==
    Settled =>
        \A k \in Key : \A ts \in Ts : ~Covered(k) /\ ~LostFor(k) =>
            Read(tgtDefault, tgtWrite, DataKey(k), ts) = Read(srcDefault, srcWrite, k, ts)

\* What sink_data says of a notify-only DeleteRange: it is a placeholder and deletes
\* nothing, so the target still reads what the source reads.
NotifyOnlyKeepsData ==
    Settled /\ lost = {} /\ (\A i \in DOMAIN ranges : ranges[i].notifyOnly) =>
        \A k \in Key : \A ts \in Ts :
            Read(tgtDefault, tgtWrite, DataKey(k), ts) = Read(srcDefault, srcWrite, k, ts)

\* Of events delivered once, SstBatcher::flush drops pairs only where a transaction
\* wrote a value above 255 bytes or a lock record: the pairs that sink_txn_put makes
\* of short values and deletions never meet another of the same key and timestamp in
\* a buffer, in whatever batches and on whatever worker they arrive.
LossNeedsLongOrLock ==
    lost # {} => \E q \in everWritten : q.kind \in {"long", "lock"}

\* At-least-once, for a single delivery of every event: no flush drops a pair.
NothingLost == lost = {}

=============================================================================
