------------------------- MODULE IngestWorkers_proofs -------------------------
(***************************************************************************)
(* Proofs about the ingest workers, for every number of workers, regions,  *)
(* keys and batches, every buffer size and every interleaving.             *)
(*                                                                         *)
(* 1. A worker's buffer stays below max_kv_buffer_size.  BufferBounded is  *)
(*    not inductive: from a state whose kv_buffer_size understates the     *)
(*    buffer, the next batch could skip its flush.  BInv adds that the     *)
(*    size never understates the buffer, although a failed flush leaves it *)
(*    stale, and that outside select! the buffer is empty.                 *)
(*                                                                         *)
(* 2. No pair vanishes, and an applied delete range leaves nothing of what *)
(*    its region wrote before it.  WInv follows the events from queue to   *)
(*    range buffer and the pairs from buffer to engine: each event is in   *)
(*    one place, at the worker of its region, in the order of dispatch.    *)
(*    The actions enter that argument through six effects on these places. *)
(***************************************************************************)
EXTENDS IngestWorkers, TLAPS

-----------------------------------------------------------------------------
(* Members of sequences.  Range(s) is the set of members of a sequence s.       *)

\* Members of a sequence, through its indices.
LEMMA InRange ==
    ASSUME NEW s, NEW x
    PROVE  x \in Range(s) <=> \E n \in DOMAIN s : s[n] = x
BY DEF Range

\* Appending adds one member.
LEMMA RangeOfAppend ==
    ASSUME NEW S, NEW s \in Seq(S), NEW e \in S
    PROVE  Range(Append(s, e)) = Range(s) \cup {e}
<1>1. /\ Len(s) \in Nat /\ DOMAIN s = 1..Len(s)
      /\ DOMAIN Append(s, e) = 1..(Len(s) + 1)
      /\ \A n \in 1..Len(s) : Append(s, e)[n] = s[n]
      /\ Append(s, e)[Len(s) + 1] = e
  OBVIOUS
<1>2. ASSUME NEW x \in Range(Append(s, e)) PROVE x \in Range(s) \cup {e}
  <2>1. PICK n \in 1..(Len(s) + 1) : Append(s, e)[n] = x
    <3>1. \E n \in DOMAIN Append(s, e) : x = Append(s, e)[n]
      BY Zenon, <1>2 DEF Range
    <3> QED
      BY <1>1, <3>1
  <2>2. n \in 1..Len(s) \/ n = Len(s) + 1
    BY <1>1
  <2> QED
    BY <1>1, <2>1, <2>2, InRange
<1>3. ASSUME NEW x \in Range(s) \cup {e} PROVE x \in Range(Append(s, e))
  <2>1. CASE x = e
    <3>1. Len(s) + 1 \in 1..(Len(s) + 1)
      BY <1>1
    <3> QED
      BY Zenon, <1>1, <2>1, <3>1, InRange
  <2>2. CASE x \in Range(s)
    <3>1. PICK n \in 1..Len(s) : s[n] = x
      BY <1>1, <2>2, InRange
    <3>2. n \in 1..(Len(s) + 1)
      BY <1>1
    <3> QED
      BY <1>1, <3>1, <3>2, InRange
  <2> QED
    BY <1>3, <2>1, <2>2
<1> QED
  BY <1>2, <1>3

\* Concatenation joins the members.
LEMMA RangeOfConcat ==
    ASSUME NEW S, NEW s \in Seq(S), NEW t \in Seq(S)
    PROVE  Range(s \o t) = Range(s) \cup Range(t)
<1>1. /\ Len(s) \in Nat /\ Len(t) \in Nat
      /\ DOMAIN s = 1..Len(s) /\ DOMAIN t = 1..Len(t)
      /\ DOMAIN (s \o t) = 1..(Len(s) + Len(t))
      /\ \A n \in 1..(Len(s) + Len(t)) :
             (s \o t)[n] = IF n <= Len(s) THEN s[n] ELSE t[n - Len(s)]
  OBVIOUS
<1>2. ASSUME NEW x \in Range(s \o t) PROVE x \in Range(s) \cup Range(t)
  <2>1. PICK n \in 1..(Len(s) + Len(t)) : (s \o t)[n] = x
    BY <1>1, <1>2, InRange
  <2>2. CASE n <= Len(s)
    <3>1. n \in 1..Len(s) /\ s[n] = x
      BY <1>1, <2>1, <2>2
    <3> QED
      BY <1>1, <3>1, InRange
  <2>3. CASE ~(n <= Len(s))
    <3>1. n - Len(s) \in 1..Len(t) /\ t[n - Len(s)] = x
      BY <1>1, <2>1, <2>3
    <3> QED
      BY <1>1, <3>1, InRange
  <2> QED
    BY <2>2, <2>3
<1>3. ASSUME NEW x \in Range(s) PROVE x \in Range(s \o t)
  <2>1. PICK n \in 1..Len(s) : s[n] = x
    BY <1>1, <1>3, InRange
  <2>2. n \in 1..(Len(s) + Len(t)) /\ (s \o t)[n] = x
    BY <1>1, <2>1
  <2> QED
    BY <1>1, <2>2, InRange
<1>4. ASSUME NEW x \in Range(t) PROVE x \in Range(s \o t)
  <2>1. PICK n \in 1..Len(t) : t[n] = x
    BY <1>1, <1>4, InRange
  <2>2. n + Len(s) \in 1..(Len(s) + Len(t)) /\ (s \o t)[n + Len(s)] = x
    BY <1>1, <2>1
  <2> QED
    BY <1>1, <2>2, InRange
<1> QED
  BY <1>2, <1>3, <1>4

\* The head and the tail hold all members.
LEMMA RangeOfHeadTail ==
    ASSUME NEW S, NEW s \in Seq(S), s # <<>>
    PROVE  Range(s) = {Head(s)} \cup Range(Tail(s))
<1>1. /\ Len(s) \in Nat \ {0} /\ Head(s) = s[1]
      /\ DOMAIN s = 1..Len(s) /\ DOMAIN Tail(s) = 1..(Len(s) - 1)
      /\ \A n \in 1..(Len(s) - 1) : Tail(s)[n] = s[n + 1]
  OBVIOUS
<1>2. ASSUME NEW x \in Range(s) PROVE x \in {Head(s)} \cup Range(Tail(s))
  <2>1. PICK n \in 1..Len(s) : s[n] = x
    BY <1>1, <1>2, InRange
  <2>2. CASE n = 1
    BY <1>1, <2>1, <2>2
  <2>3. CASE n # 1
    <3>1. n - 1 \in 1..(Len(s) - 1) /\ Tail(s)[n - 1] = x
      BY <1>1, <2>1, <2>3
    <3> QED
      BY <1>1, <3>1, InRange
  <2> QED
    BY <2>2, <2>3
<1>3. Head(s) \in Range(s)
  <2>1. 1 \in 1..Len(s)
    BY <1>1
  <2> QED
    BY <1>1, <2>1, InRange
<1>4. ASSUME NEW x \in Range(Tail(s)) PROVE x \in Range(s)
  <2>1. PICK n \in 1..(Len(s) - 1) : Tail(s)[n] = x
    <3>1. \E n \in DOMAIN Tail(s) : x = Tail(s)[n]
      BY Zenon, <1>4 DEF Range
    <3> QED
      BY <1>1, <3>1
  <2>2. n + 1 \in 1..Len(s) /\ s[n + 1] = x
    BY <1>1, <2>1
  <2> QED
    BY <1>1, <2>2, InRange
<1> QED
  BY <1>2, <1>3, <1>4

\* The empty sequence has no member.
LEMMA RangeOfEmpty == Range(<<>>) = {}
<1>1. \A x : x \notin Range(<<>>)
  BY InRange
<1> QED
  BY <1>1

-----------------------------------------------------------------------------
(* The buffer bound *)

\* The part of the state that decides when a worker flushes.
Shape ==
    /\ log \in Seq(Event)
    /\ queue \in [Worker -> Seq(Nat)]
    /\ \A w \in Worker : \A n \in 1..Len(queue[w]) : queue[w][n] \in 1..Len(log)
    /\ pc \in [Worker -> {"select", "add", "flush", "exited"}]
    /\ resumeAt \in [Worker -> {"select", "add", "exited"}]
    /\ kvBuf \in [Worker -> Seq(Kv)]
    /\ kvSize \in [Worker -> Nat]
    /\ \A w \in Worker : pc[w] = "add" => queue[w] # <<>>
    /\ \A w \in Worker : pc[w] = "flush" /\ resumeAt[w] = "add" => queue[w] # <<>>

\* The batcher of worker w at each point of run_ingest_worker.
Accounted(w) ==
    /\ Len(kvBuf[w]) <= kvSize[w]
    /\ pc[w] # "select" => kvBuf[w] = <<>>
    /\ kvBuf[w] = <<>> \/ kvSize[w] < MaxKvBuffer

BInv == Shape /\ \A w \in Worker : Accounted(w)

\* The event a worker is about to handle is one that was dispatched.
LEMMA FirstIsEvent ==
    ASSUME Shape, NEW w \in Worker, queue[w] # <<>>
    PROVE  First(w) \in Event
<1>1. queue[w] \in Seq(Nat) /\ Len(queue[w]) >= 1 /\ Head(queue[w]) = queue[w][1]
  BY DEF Shape
<1>2. Head(queue[w]) \in 1..Len(log)
  BY <1>1 DEF Shape
<1> QED
  BY <1>2 DEF Shape, First

\* Taking the head off a queue leaves positions of dispatched events.
LEMMA TailIsDispatched ==
    ASSUME Shape, NEW w \in Worker, queue[w] # <<>>,
           queue' = [queue EXCEPT ![w] = Tail(@)], log' = log
    PROVE  /\ queue' \in [Worker -> Seq(Nat)]
           /\ \A k \in Worker : \A n \in 1..Len(queue'[k]) : queue'[k][n] \in 1..Len(log')
<1>1. /\ queue[w] \in Seq(Nat) /\ Tail(queue[w]) \in Seq(Nat)
      /\ Len(Tail(queue[w])) = Len(queue[w]) - 1
      /\ Len(queue[w]) \in Nat
      /\ \A n \in 1..Len(Tail(queue[w])) : Tail(queue[w])[n] = queue[w][n + 1]
  BY DEF Shape
<1>2. \A n \in 1..Len(Tail(queue[w])) : Tail(queue[w])[n] \in 1..Len(log)
  BY <1>1 DEF Shape
<1>3. queue'[w] = Tail(queue[w]) /\ \A k \in Worker \ {w} : queue'[k] = queue[k]
  BY DEF Shape
<1> QED
  BY <1>1, <1>2, <1>3 DEF Shape

\* What entering flush does to the batcher of w and to no other.
LEMMA BeginFlushFacts ==
    ASSUME Shape, NEW w \in Worker, NEW kvs, NEW ranges,
           NEW next \in {"select", "add", "exited"},
           BeginFlush(w, kvs, ranges, next)
    PROVE  /\ kvBuf' \in [Worker -> Seq(Kv)] /\ kvBuf'[w] = <<>>
           /\ pc' \in [Worker -> {"select", "add", "flush", "exited"}]
           /\ pc'[w] \in {next, "flush"}
           /\ resumeAt' \in [Worker -> {"select", "add", "exited"}]
           /\ resumeAt'[w] = next
           /\ \A k \in Worker \ {w} : /\ kvBuf'[k] = kvBuf[k]
                                      /\ pc'[k] = pc[k]
                                      /\ resumeAt'[k] = resumeAt[k]
BY DEF BeginFlush, Shape

\* A size that does not understate a buffer keeps doing so when both grow.
LEMMA SizeGrows ==
    ASSUME NEW a \in Seq(Kv), NEW b \in Seq(Kv), NEW n \in Nat, Len(a) <= n
    PROVE  /\ a \o b \in Seq(Kv) /\ n + Len(b) \in Nat
           /\ Len(a \o b) <= n + Len(b)
<1>1. Len(a) \in Nat /\ Len(b) \in Nat /\ Len(a \o b) = Len(a) + Len(b)
  OBVIOUS
<1>2. a \o b \in Seq(Kv)
  OBVIOUS
<1>3. Len(a) + Len(b) <= n + Len(b)
  BY <1>1
<1> QED
  BY <1>1, <1>2, <1>3

\* Buffering a batch keeps the books, whether or not a flush follows.
LEMMA AddKvsKeeps ==
    ASSUME BInv, NEW w \in Worker, queue[w] # <<>>, AddKvs(w),
           pc[w] \in {"select", "add"}
    PROVE  BInv'
<1> DEFINE kvs == kvBuf[w] \o First(w).kvs
           size == kvSize[w] + Len(First(w).kvs)
<1>1. First(w).kvs \in Seq(Kv)
  BY FirstIsEvent DEF BInv, Event
<1>2. /\ kvs \in Seq(Kv) /\ size \in Nat
      /\ Len(kvs) <= size
  <2>1. kvBuf[w] \in Seq(Kv) /\ kvSize[w] \in Nat /\ Len(kvBuf[w]) <= kvSize[w]
    BY DEF BInv, Shape, Accounted
  <2> QED
    BY Zenon, <1>1, <2>1, SizeGrows
<1>3. /\ queue' = [queue EXCEPT ![w] = Tail(@)] /\ log' = log
      /\ kvSize' = [kvSize EXCEPT ![w] = size]
      /\ \/ BeginFlush(w, kvs, rangeBuf[w], "select")
         \/ /\ ~BufferFull(size)
            /\ kvBuf' = [kvBuf EXCEPT ![w] = kvs]
            /\ pc' = [pc EXCEPT ![w] = "select"]
            /\ resumeAt' = resumeAt
  BY Zenon DEF AddKvs, loopVars
<1> HIDE DEF kvs, size
<1>4. /\ kvBuf' \in [Worker -> Seq(Kv)]
      /\ kvSize' \in [Worker -> Nat]
      /\ pc' \in [Worker -> {"select", "add", "flush", "exited"}]
      /\ resumeAt' \in [Worker -> {"select", "add", "exited"}]
      /\ \A k \in Worker \ {w} : /\ kvBuf'[k] = kvBuf[k] /\ kvSize'[k] = kvSize[k]
                                 /\ pc'[k] = pc[k] /\ resumeAt'[k] = resumeAt[k]
                                 /\ queue'[k] = queue[k]
  <2>1. /\ kvSize' \in [Worker -> Nat]
        /\ \A k \in Worker \ {w} : kvSize'[k] = kvSize[k] /\ queue'[k] = queue[k]
    BY <1>2, <1>3 DEF BInv, Shape
  <2>2. CASE BeginFlush(w, kvs, rangeBuf[w], "select")
    BY <2>1, <2>2, BeginFlushFacts DEF BInv
  <2>3. CASE /\ kvBuf' = [kvBuf EXCEPT ![w] = kvs]
             /\ pc' = [pc EXCEPT ![w] = "select"]
             /\ resumeAt' = resumeAt
    BY <1>2, <2>1, <2>3 DEF BInv, Shape
  <2> QED
    BY <1>3, <2>2, <2>3
<1>5. /\ pc'[w] = "select" \/ (pc'[w] = "flush" /\ resumeAt'[w] = "select")
      /\ kvBuf'[w] = <<>> \/ (pc'[w] = "select" /\ kvBuf'[w] = kvs /\ size < MaxKvBuffer)
      /\ kvSize'[w] = size
  <2>1. kvSize'[w] = size
    BY <1>3 DEF BInv, Shape
  <2>2. CASE BeginFlush(w, kvs, rangeBuf[w], "select")
    BY <2>1, <2>2, BeginFlushFacts DEF BInv
  <2>3. CASE /\ ~BufferFull(size)
             /\ kvBuf' = [kvBuf EXCEPT ![w] = kvs]
             /\ pc' = [pc EXCEPT ![w] = "select"]
    <3>1. size < MaxKvBuffer
      BY <1>2, <2>3, WorkerAssumption DEF BufferFull
    <3> QED
      BY <2>1, <2>3, <3>1 DEF BInv, Shape
  <2> QED
    BY <1>3, <2>2, <2>3
<1>6. Shape'
  <2>1. /\ queue' \in [Worker -> Seq(Nat)]
        /\ \A k \in Worker : \A n \in 1..Len(queue'[k]) : queue'[k][n] \in 1..Len(log')
    BY Zenon, <1>3, TailIsDispatched DEF BInv
  <2>2. \A k \in Worker : /\ pc'[k] = "add" => queue'[k] # <<>>
                          /\ pc'[k] = "flush" /\ resumeAt'[k] = "add" => queue'[k] # <<>>
    BY Zenon, <1>4, <1>5 DEF BInv, Shape
  <2>3. log' \in Seq(Event)
    BY <1>3 DEF BInv, Shape
  <2> QED
    BY <1>4, <2>1, <2>2, <2>3 DEF Shape
<1>7. Accounted(w)'
  BY <1>2, <1>5 DEF Accounted
<1>8. \A k \in Worker \ {w} : Accounted(k)'
  BY Zenon, <1>4 DEF BInv, Accounted
<1> QED
  BY <1>6, <1>7, <1>8 DEF BInv

\* A flush of the buffer as it stands, with no event taken.
LEMMA FlushKeeps ==
    ASSUME BInv, NEW w \in Worker, NEW next \in {"select", "add", "exited"},
           \/ BeginFlush(w, kvBuf[w], rangeBuf[w], next)
           \/ /\ kvBuf[w] = <<>> /\ pc' = [pc EXCEPT ![w] = next]
              /\ UNCHANGED <<kvBuf, resumeAt>>,
           UNCHANGED <<log, queue, kvSize>>,
           next = "add" => queue[w] # <<>>
    PROVE  BInv'
<1>1. /\ kvBuf' \in [Worker -> Seq(Kv)] /\ kvBuf'[w] = <<>>
      /\ pc' \in [Worker -> {"select", "add", "flush", "exited"}]
      /\ pc'[w] = next \/ (pc'[w] = "flush" /\ resumeAt'[w] = next)
      /\ resumeAt' \in [Worker -> {"select", "add", "exited"}]
      /\ \A k \in Worker \ {w} : /\ kvBuf'[k] = kvBuf[k]
                                 /\ pc'[k] = pc[k]
                                 /\ resumeAt'[k] = resumeAt[k]
  <2>1. CASE BeginFlush(w, kvBuf[w], rangeBuf[w], next)
    BY <2>1, BeginFlushFacts DEF BInv
  <2>2. CASE /\ kvBuf[w] = <<>> /\ pc' = [pc EXCEPT ![w] = next]
             /\ UNCHANGED <<kvBuf, resumeAt>>
    BY <2>2 DEF BInv, Shape
  <2> QED
    BY <2>1, <2>2
<1>2. Shape'
  BY Zenon, <1>1 DEF BInv, Shape
<1>3. Accounted(w)'
  BY <1>1, WorkerAssumption DEF BInv, Shape, Accounted
<1>4. \A k \in Worker \ {w} : Accounted(k)'
  BY <1>1 DEF BInv, Accounted
<1> QED
  BY <1>2, <1>3, <1>4 DEF BInv

\* A dispatched event only lengthens the log and one queue.
LEMMA DispatchKeeps ==
    ASSUME BInv, NEW event \in Event, Dispatch(event), nextIdx \in Worker
    PROVE  BInv'
<1> DEFINE w == TargetWorker(event.region)
<1>1. w \in Worker
  <2>1. event.region \in Nat /\ NumWorkers \in Nat \ {0}
    BY Zenon, WorkerAssumption DEF Event
  <2>2. event.region % NumWorkers \in 0..(NumWorkers - 1)
    BY <2>1
  <2> QED
    BY <2>2 DEF TargetWorker, Worker
<1> HIDE DEF w
<1>2. /\ log' = Append(log, event)
      /\ queue' = [queue EXCEPT ![w] = Append(@, Len(log) + 1)]
      /\ UNCHANGED <<pc, resumeAt, kvBuf, kvSize>>
  BY DEF Dispatch, w
<1>3. log' \in Seq(Event) /\ Len(log') = Len(log) + 1 /\ Len(log) \in Nat
  BY <1>2 DEF BInv, Shape
<1>4. \A k \in Worker \ {w} : queue'[k] = queue[k]
  BY <1>2 DEF BInv, Shape
<1>5. queue'[w] = Append(queue[w], Len(log) + 1) /\ queue[w] \in Seq(Nat)
  BY <1>1, <1>2 DEF BInv, Shape
<1>6. /\ Len(queue'[w]) = Len(queue[w]) + 1 /\ Len(queue[w]) \in Nat
      /\ queue'[w][Len(queue[w]) + 1] = Len(log) + 1
      /\ \A i \in 1..Len(queue[w]) : queue'[w][i] = queue[w][i]
  <2>1. Len(log) + 1 \in Nat
    BY <1>3
  <2>2. PICK s \in Seq(Nat), x \in Nat :
            s = queue[w] /\ x = Len(log) + 1 /\ queue'[w] = Append(s, x)
    BY Zenon, <1>5, <2>1
  <2>3. /\ Len(Append(s, x)) = Len(s) + 1 /\ Len(s) \in Nat
        /\ Append(s, x)[Len(s) + 1] = x
        /\ \A i \in 1..Len(s) : Append(s, x)[i] = s[i]
    OBVIOUS
  <2> QED
    BY Zenon, <2>2, <2>3
<1>7. queue' \in [Worker -> Seq(Nat)]
  BY <1>1, <1>2, <1>3, <1>5 DEF BInv, Shape
<1>8. ASSUME NEW k \in Worker, NEW n \in 1..Len(queue'[k])
      PROVE  queue'[k][n] \in 1..Len(log')
  <2>1. CASE k # w
    <3>1. queue'[k] = queue[k]
      BY <1>4, <2>1
    <3>2. queue'[k][n] \in 1..Len(log)
      BY <3>1 DEF BInv, Shape
    <3> QED
      BY <1>3, <3>2
  <2>2. CASE k = w /\ n \in 1..Len(queue[w])
    <3>1. queue[w][n] \in 1..Len(log)
      BY <1>1, <2>2 DEF BInv, Shape
    <3>2. queue'[k][n] = queue[w][n]
      BY Zenon, <1>6, <2>2
    <3> QED
      BY <1>3, <3>1, <3>2
  <2>3. CASE k = w /\ n = Len(queue[w]) + 1
    <3>1. queue'[k][n] = Len(log) + 1
      BY Zenon, <1>6, <2>3
    <3> QED
      BY <1>3, <3>1
  <2>4. n \in 1..Len(queue[w]) \/ n = Len(queue[w]) + 1 \/ k # w
    BY <1>6
  <2> QED
    BY <2>1, <2>2, <2>3, <2>4
<1>9. \A k \in Worker : queue[k] # <<>> => queue'[k] # <<>>
  BY <1>4, <1>5
<1>10. Shape'
  BY Zenon, <1>2, <1>3, <1>7, <1>8, <1>9 DEF BInv, Shape
<1> QED
  BY <1>2, <1>10 DEF BInv, Accounted

\* A delete range is buffered; the flush it may trigger empties the buffer.
LEMMA ReceiveDeleteRangeKeeps ==
    ASSUME BInv, NEW w \in Worker, ReceiveDeleteRange(w)
    PROVE  BInv'
<1> DEFINE ranges == Append(rangeBuf[w], Head(queue[w]))
<1>1. /\ pc[w] = "select" /\ queue[w] # <<>>
      /\ queue' = [queue EXCEPT ![w] = Tail(@)]
      /\ UNCHANGED <<log, kvSize>>
      /\ \/ BeginFlush(w, kvBuf[w], ranges, "select")
         \/ UNCHANGED <<kvBuf, resumeAt, pc>>
  BY DEF ReceiveDeleteRange, loopVars
<1> HIDE DEF ranges
<1>2. /\ queue' \in [Worker -> Seq(Nat)]
      /\ \A k \in Worker : \A n \in 1..Len(queue'[k]) : queue'[k][n] \in 1..Len(log')
      /\ \A k \in Worker \ {w} : queue'[k] = queue[k]
  BY <1>1, TailIsDispatched DEF BInv, Shape
<1>3. /\ kvBuf' \in [Worker -> Seq(Kv)]
      /\ pc' \in [Worker -> {"select", "add", "flush", "exited"}]
      /\ resumeAt' \in [Worker -> {"select", "add", "exited"}]
      /\ pc'[w] = "select" \/ (pc'[w] = "flush" /\ resumeAt'[w] = "select")
      /\ kvBuf'[w] = <<>> \/ (kvBuf'[w] = kvBuf[w] /\ pc'[w] = "select")
      /\ \A k \in Worker \ {w} : /\ kvBuf'[k] = kvBuf[k] /\ pc'[k] = pc[k]
                                 /\ resumeAt'[k] = resumeAt[k]
  <2>1. CASE BeginFlush(w, kvBuf[w], ranges, "select")
    BY <2>1, BeginFlushFacts DEF BInv
  <2>2. CASE UNCHANGED <<kvBuf, resumeAt, pc>>
    BY <1>1, <2>2 DEF BInv, Shape
  <2> QED
    BY <1>1, <2>1, <2>2
<1>4. \A k \in Worker : /\ pc'[k] = "add" => queue'[k] # <<>>
                        /\ pc'[k] = "flush" /\ resumeAt'[k] = "add" => queue'[k] # <<>>
  BY <1>2, <1>3 DEF BInv, Shape
<1>5. Shape'
  BY Zenon, <1>1, <1>2, <1>3, <1>4 DEF BInv, Shape
<1>6. Accounted(w)'
  BY <1>1, <1>3 DEF BInv, Shape, Accounted
<1>7. \A k \in Worker \ {w} : Accounted(k)'
  BY Zenon, <1>1, <1>3 DEF BInv, Accounted
<1> QED
  BY <1>5, <1>6, <1>7 DEF BInv

\* The steps of a flush: a failure leaves kv_buffer_size, the end resets it.
LEMMA FlushStepKeeps ==
    ASSUME BInv, NEW w \in Worker,
           (\E cf \in Cf : IngestCf(w, cf)) \/ FinishFlush(w)
    PROVE  BInv'
<1>1. /\ pc[w] = "flush"
      /\ pc' = pc \/ pc' = [pc EXCEPT ![w] = resumeAt[w]]
      /\ kvSize' = kvSize \/ kvSize' = [kvSize EXCEPT ![w] = 0]
      /\ UNCHANGED <<log, queue, resumeAt, kvBuf>>
  BY DEF IngestCf, FinishFlush, loopVars
<1>2. kvBuf[w] = <<>>
  BY <1>1 DEF BInv, Accounted
<1>3. /\ pc' \in [Worker -> {"select", "add", "flush", "exited"}]
      /\ pc'[w] \in {"flush", resumeAt[w]}
      /\ kvSize' \in [Worker -> Nat]
      /\ \A k \in Worker \ {w} : pc'[k] = pc[k] /\ kvSize'[k] = kvSize[k]
  <2>1. /\ pc \in [Worker -> {"select", "add", "flush", "exited"}]
        /\ kvSize \in [Worker -> Nat]
        /\ resumeAt[w] \in {"select", "add", "exited"}
    BY DEF BInv, Shape
  <2>2. /\ pc' \in [Worker -> {"select", "add", "flush", "exited"}]
        /\ pc'[w] \in {"flush", resumeAt[w]}
        /\ \A k \in Worker \ {w} : pc'[k] = pc[k]
    BY <1>1, <2>1
  <2>3. /\ kvSize' \in [Worker -> Nat]
        /\ \A k \in Worker \ {w} : kvSize'[k] = kvSize[k]
    BY <1>1, <2>1
  <2> QED
    BY <2>2, <2>3
<1>4. \A k \in Worker : /\ pc'[k] = "add" => queue[k] # <<>>
                        /\ pc'[k] = "flush" /\ resumeAt[k] = "add" => queue[k] # <<>>
  BY <1>1, <1>3 DEF BInv, Shape
<1>5. Shape'
  BY <1>1, <1>3, <1>4 DEF BInv, Shape
<1>6. Accounted(w)'
  BY <1>1, <1>2, <1>3 DEF Accounted
<1>7. \A k \in Worker \ {w} : Accounted(k)'
  BY <1>1, <1>3 DEF BInv, Accounted
<1> QED
  BY <1>5, <1>6, <1>7 DEF BInv

\* The round-robin counter is always the index of a worker.
LEMMA NextIdxStep ==
    ASSUME nextIdx \in Worker, [Next]_vars
    PROVE  nextIdx' \in Worker
<1>1. ASSUME NEW event, Dispatch(event) PROVE nextIdx' \in Worker
  BY <1>1, WorkerAssumption DEF Dispatch, Worker
<1>2. CASE DispatchKvBatch \/ DispatchDeleteRange
  BY Zenon, <1>1, <1>2 DEF DispatchKvBatch, DispatchDeleteRange
<1>3. ASSUME NEW w \in Worker, WorkerStep(w) PROVE nextIdx' = nextIdx
  BY Zenon, <1>3 DEF WorkerStep, ReceiveKvBatch, AddAfterBoundary, AddKvs,
              ReceiveDeleteRange, ChannelClosed, IdleTimeout, FlushPendingKvs,
              IngestCf, FinishFlush, loopVars
<1> QED
  BY <1>2, <1>3 DEF Next, Close, vars, loopVars

\* Every step of a worker or of the event loop keeps the invariant.
LEMMA BInvStep ==
    ASSUME BInv, nextIdx \in Worker, [Next]_vars
    PROVE  BInv'
<1>1. CASE DispatchKvBatch
  <2>1. PICK r \in RegionId, b \in Batch :
            Dispatch([region |-> r, kvs |-> b, keys |-> {}])
    BY <1>1 DEF DispatchKvBatch
  <2>2. [region |-> r, kvs |-> b, keys |-> {}] \in Event
    BY WorkerAssumption DEF Event
  <2> QED
    BY <2>1, <2>2, DispatchKeeps
<1>2. CASE DispatchDeleteRange
  <2>1. PICK r \in RegionId, ks \in KeyRange :
            Dispatch([region |-> r, kvs |-> <<>>, keys |-> ks])
    BY <1>2 DEF DispatchDeleteRange
  <2>2. [region |-> r, kvs |-> <<>>, keys |-> ks] \in Event
    BY WorkerAssumption DEF Event
  <2> QED
    BY <2>1, <2>2, DispatchKeeps
<1>3. ASSUME NEW w \in Worker, WorkerStep(w) PROVE BInv'
  <2>1. CASE ReceiveKvBatch(w)
    <3>1. CASE CrossesRegion(w)
      BY <2>1, <3>1, FlushKeeps DEF ReceiveKvBatch, loopVars
    <3>2. CASE ~CrossesRegion(w)
      BY <2>1, <3>2, AddKvsKeeps DEF ReceiveKvBatch
    <3> QED
      BY <3>1, <3>2
  <2>2. CASE AddAfterBoundary(w)
    <3>1. queue[w] # <<>>
      BY <2>2 DEF AddAfterBoundary, BInv, Shape
    <3> QED
      BY <2>2, <3>1, AddKvsKeeps DEF AddAfterBoundary
  <2>3. CASE ReceiveDeleteRange(w)
    BY <2>3, ReceiveDeleteRangeKeeps
  <2>4. CASE ChannelClosed(w)
    BY <2>4, FlushKeeps DEF ChannelClosed, FlushPendingKvs, loopVars
  <2>5. CASE IdleTimeout(w)
    BY <2>5, FlushKeeps DEF IdleTimeout, FlushPendingKvs, loopVars
  <2>6. CASE (\E cf \in Cf : IngestCf(w, cf)) \/ FinishFlush(w)
    BY <2>6, FlushStepKeeps
  <2> QED
    BY <1>3, <2>1, <2>2, <2>3, <2>4, <2>5, <2>6 DEF WorkerStep
<1>4. CASE Close \/ UNCHANGED vars
  BY Zenon, <1>4 DEF Close, vars, loopVars, BInv, Shape, Accounted
<1> QED
  BY <1>1, <1>2, <1>3, <1>4 DEF Next

\* A worker waiting for events never holds max_kv_buffer_size or more, however
\* many workers there are and however often ingest fails.
THEOREM BufferBoundedHolds == Spec => []BufferBounded
<1>1. Init => BInv /\ nextIdx \in Worker
  BY WorkerAssumption DEF Init, BInv, Shape, Accounted, Worker
<1>2. BInv /\ nextIdx \in Worker /\ [Next]_vars => (BInv /\ nextIdx \in Worker)'
  BY BInvStep, NextIdxStep
<1>3. BInv => BufferBounded
  <2> SUFFICES ASSUME BInv, NEW w \in Worker, pc[w] = "select"
               PROVE  Len(kvBuf[w]) < MaxKvBuffer
    BY DEF BufferBounded
  <2>1. /\ kvBuf[w] \in Seq(Kv) /\ kvSize[w] \in Nat
        /\ Len(kvBuf[w]) <= kvSize[w]
        /\ kvBuf[w] = <<>> \/ kvSize[w] < MaxKvBuffer
    BY DEF BInv, Shape, Accounted
  <2> QED
    BY <2>1, WorkerAssumption
<1> QED
  BY <1>1, <1>2, <1>3, PTL DEF Spec

-----------------------------------------------------------------------------
(* Events and pairs *)

\* The events on their way to worker w, the delete ranges it buffers and the
\* pairs it holds, in the buffer or in a running flush.
Waiting(w) == Range(queue[w])
Ranges(w) == Range(rangeBuf[w])
InHand(w) == Range(kvBuf[w]) \cup Pairs(draining[w])

\* Worker w adds the event at the head of its queue next, whatever its keys.
AddsNext(w) == pc[w] = "add" \/ (pc[w] = "flush" /\ resumeAt[w] = "add")

\* A flush leaves nothing behind, and only a KvBatch waits for one.
Settled(w) ==
    /\ pc[w] # "flush" => draining[w] = {}
    /\ AddsNext(w) => First(w).keys = {}

\* An event of a region is handled by one worker.
Home(i, w) == log[i].region # 0 => log[i].region % NumWorkers = w

\* An event is a KvBatch or a DeleteRange, and the loop reads one kind of stream.
LogOK ==
    /\ \A i \in DOMAIN log : Range(log[i].kvs) # {} => log[i].keys = {}
    /\ \A i, j \in DOMAIN log : log[i].region = 0 <=> log[j].region = 0

\* An event is in one place at a time, at its home, and a queue keeps the order
\* in which the loop dispatched.
Placed ==
    /\ \A w \in Worker : Waiting(w) \cup Ranges(w) \subseteq DOMAIN log
    /\ \A w \in Worker : \A i \in Waiting(w) \cup Ranges(w) : Home(i, w)
    /\ \A w \in Worker : \A m, n \in 1..Len(queue[w]) :
           m < n => queue[w][m] < queue[w][n]
    /\ \A v, w \in Worker : Waiting(v) \cap Ranges(w) = {}
    /\ \A v, w \in Worker : v # w => Waiting(v) \cap Waiting(w) = {}
    /\ \A v, w \in Worker : v # w => Ranges(v) \cap Ranges(w) = {}

\* What left the queue of its region's worker was dispatched before what waits.
InOrder ==
    \A w \in Worker : \A j \in DOMAIN log : \A i \in Waiting(w) :
        log[j].region # 0 /\ Home(j, w) /\ ~Queued(j) => j < i

\* A pair in a worker's hand comes from an event of that worker.
Origin ==
    \A w \in Worker : \A kv \in InHand(w) :
        \E i \in DOMAIN log : kv \in Range(log[i].kvs) /\ Home(i, w)

\* The pair kv does not date from before the delete range j of the same region.
Excused(kv, j) ==
    \E i \in DOMAIN log : /\ kv \in Range(log[i].kvs)
                          /\ i > j \/ log[i].region # log[j].region

\* RangeRemovesEarlier, extended to the pairs that will reach the engine.
NoLeftover ==
    \A j \in DOMAIN log : \A kv \in Kv :
        /\ log[j].region # 0 /\ kv.key \in log[j].keys /\ Applied(j)
        /\ kv \in engine \/ \E w \in Worker : kv \in InHand(w)
        => Excused(kv, j)

\* TypeOK without what BInv says already.
RestOK ==
    /\ closed \in BOOLEAN
    /\ curRegion \in [Worker -> RegionId \cup {0}]
    /\ rangeBuf \in [Worker -> Seq(Nat)]
    /\ draining \in [Worker -> SUBSET Drained]
    /\ engine \subseteq Kv
    /\ failed \subseteq Kv

\* The inductive invariant: each worker's state, the places of events, the pairs.
StateInv == BInv /\ nextIdx \in Worker /\ RestOK /\ \A w \in Worker : Settled(w)
PlaceInv == LogOK /\ Placed /\ InOrder
DataInv == NothingVanishes /\ Origin /\ NoLeftover
WInv == StateInv /\ PlaceInv /\ DataInv

-----------------------------------------------------------------------------
(* What a step of worker w does to the places of events and pairs *)

Untouched(v) ==
    /\ queue'[v] = queue[v] /\ Waiting(v)' = Waiting(v)
    /\ Ranges(v)' = Ranges(v) /\ InHand(v)' = InHand(v)

OthersUntouched(w) == log' = log /\ \A v \in Worker \ {w} : Untouched(v)

\* A flush begins, or a flag changes.
Keeps(w) == Untouched(w) /\ engine' = engine /\ failed' = failed

\* The head of the queue leaves it.
Takes(w) ==
    /\ queue[w] # <<>>
    /\ queue'[w] = Tail(queue[w])

Adds(w) ==
    /\ Takes(w)
    /\ First(w).keys = {}
    /\ Ranges(w)' = Ranges(w)
    /\ InHand(w)' = InHand(w) \cup Range(First(w).kvs)
    /\ engine' = engine /\ failed' = failed

Buffers(w) ==
    /\ Takes(w)
    /\ First(w).keys # {}
    /\ Ranges(w)' = Ranges(w) \cup {Head(queue[w])}
    /\ InHand(w)' = InHand(w)
    /\ engine' = engine /\ failed' = failed

Ingests(w) ==
    /\ queue'[w] = queue[w] /\ Ranges(w)' = Ranges(w)
    /\ InHand(w)' \subseteq InHand(w)
    /\ engine \subseteq engine' /\ engine' \subseteq engine \cup InHand(w)
    /\ InHand(w) \subseteq InHand(w)' \cup engine'
    /\ failed' = failed

Fails(w) ==
    /\ queue'[w] = queue[w] /\ Ranges(w)' = Ranges(w)
    /\ InHand(w)' = {}
    /\ engine' = engine /\ failed' = failed \cup InHand(w)

Finishes(w) ==
    /\ queue'[w] = queue[w] /\ Ranges(w)' = {}
    /\ InHand(w) = {} /\ InHand(w)' = {}
    /\ engine' = {kv \in engine : \A j \in Ranges(w) : kv.key \notin log[j].keys}
    /\ failed' = failed

Effect(w) ==
    /\ OthersUntouched(w)
    /\ Keeps(w) \/ Adds(w) \/ Buffers(w) \/ Ingests(w) \/ Fails(w) \/ Finishes(w)

\* Draining a buffer keeps its pairs.
LEMMA DrainPairs ==
    ASSUME NEW s \in Seq(Kv)
    PROVE  Drain(s) \in SUBSET Drained /\ Pairs(Drain(s)) = Range(s)
<1>1. \A n \in DOMAIN s : s[n] \in Kv /\ n \in Nat
  OBVIOUS
<1>2. Drain(s) \in SUBSET Drained
  BY <1>1 DEF Drain, Drained
<1>3. ASSUME NEW x \in Pairs(Drain(s)) PROVE x \in Range(s)
  <2>1. PICK d \in Drain(s) : x = d.kv
    BY <1>3 DEF Pairs
  <2>2. PICK n \in DOMAIN s : d = [place |-> n, kv |-> s[n]]
    BY <2>1 DEF Drain
  <2> QED
    BY <2>1, <2>2, InRange
<1>4. ASSUME NEW x \in Range(s) PROVE x \in Pairs(Drain(s))
  <2>1. PICK n \in DOMAIN s : s[n] = x
    BY <1>4, InRange
  <2>2. [place |-> n, kv |-> s[n]] \in Drain(s)
    BY DEF Drain
  <2>3. [place |-> n, kv |-> s[n]].kv = x
    BY <2>1
  <2> QED
    BY <2>2, <2>3 DEF Pairs
<1> QED
  BY <1>2, <1>3, <1>4

\* The head of a queue is the position of an event.
LEMMA HeadFacts ==
    ASSUME StateInv, NEW w \in Worker, queue[w] # <<>>
    PROVE  /\ queue[w] \in Seq(Nat) /\ Head(queue[w]) \in Nat
           /\ Head(queue[w]) \in DOMAIN log
           /\ First(w) \in Event
<1>1. Shape
  BY DEF StateInv, BInv
<1>2. queue[w] \in Seq(Nat) /\ Len(queue[w]) >= 1 /\ Head(queue[w]) = queue[w][1]
  BY <1>1 DEF Shape
<1>3. Head(queue[w]) \in 1..Len(log) /\ DOMAIN log = 1..Len(log)
  BY <1>1, <1>2 DEF Shape
<1> QED
  BY <1>1, <1>2, <1>3, FirstIsEvent

\* Entering flush moves the pairs of the buffer to the flush.
LEMMA BeginFlushMoves ==
    ASSUME StateInv, NEW w \in Worker, NEW kvs \in Seq(Kv), NEW ranges,
           NEW next \in {"select", "add", "exited"},
           BeginFlush(w, kvs, ranges, next)
    PROVE  /\ draining' \in [Worker -> SUBSET Drained]
           /\ InHand(w)' = Range(kvs)
           /\ \A v \in Worker \ {w} : InHand(v)' = InHand(v)
           /\ pc'[w] # "flush" => draining'[w] = {}
           /\ pc'[w] \in {next, "flush"} /\ resumeAt'[w] = next
           /\ \A v \in Worker \ {w} : /\ pc'[v] = pc[v]
                                      /\ resumeAt'[v] = resumeAt[v]
                                      /\ draining'[v] = draining[v]
<1>1. draining \in [Worker -> SUBSET Drained] /\ Shape
  BY DEF StateInv, BInv, RestOK
<1>2. Drain(kvs) \in SUBSET Drained /\ Pairs(Drain(kvs)) = Range(kvs)
  BY DrainPairs
<1>3. draining' = [draining EXCEPT ![w] = Drain(kvs)]
  BY DEF BeginFlush
<1>4. /\ draining' \in [Worker -> SUBSET Drained] /\ draining'[w] = Drain(kvs)
      /\ \A v \in Worker \ {w} : draining'[v] = draining[v]
  BY <1>1, <1>2, <1>3
<1>5. /\ kvBuf'[w] = <<>> /\ pc'[w] \in {next, "flush"} /\ resumeAt'[w] = next
      /\ \A v \in Worker \ {w} : /\ kvBuf'[v] = kvBuf[v] /\ pc'[v] = pc[v]
                                 /\ resumeAt'[v] = resumeAt[v]
  BY <1>1, BeginFlushFacts
<1>6. InHand(w)' = Range(kvs)
  BY <1>2, <1>4, <1>5, RangeOfEmpty DEF InHand
<1>7. \A v \in Worker \ {w} : InHand(v)' = InHand(v)
  BY Zenon, <1>4, <1>5 DEF InHand
<1>8. ASSUME pc'[w] # "flush" PROVE draining'[w] = {}
  <2>1. kvs = <<>>
    BY <1>1, <1>8 DEF BeginFlush, Shape
  <2>2. Drain(<<>>) = {}
    BY DEF Drain
  <2> QED
    BY <1>4, <2>1, <2>2
<1> QED
  BY <1>4, <1>5, <1>6, <1>7, <1>8

\* A worker whose own state a step leaves alone stays settled.
LEMMA SettledOther ==
    ASSUME NEW v, Settled(v), pc'[v] = pc[v], resumeAt'[v] = resumeAt[v],
           draining'[v] = draining[v], queue'[v] = queue[v], log' = log
    PROVE  Settled(v)'
BY Zenon DEF Settled, AddsNext, First

\* Taking the head off one queue.
LEMMA TakeFacts ==
    ASSUME StateInv, NEW w \in Worker, queue[w] # <<>>,
           queue' = [queue EXCEPT ![w] = Tail(@)]
    PROVE  /\ queue'[w] = Tail(queue[w])
           /\ \A v \in Worker \ {w} : queue'[v] = queue[v] /\ Waiting(v)' = Waiting(v)
<1>1. queue \in [Worker -> Seq(Nat)]
  BY DEF StateInv, BInv, Shape
<1>2. /\ queue'[w] = Tail(queue[w])
      /\ \A v \in Worker \ {w} : queue'[v] = queue[v]
  BY <1>1
<1> QED
  BY <1>2 DEF Waiting

\* Buffering a batch takes the head of the queue and holds its pairs.
LEMMA AddKvsEffect ==
    ASSUME StateInv, NEW w \in Worker, queue[w] # <<>>, First(w).keys = {},
           pc[w] \in {"select", "add"}, AddKvs(w)
    PROVE  OthersUntouched(w) /\ Adds(w) /\ RestOK' /\ \A v \in Worker : Settled(v)'
<1> DEFINE kvs == kvBuf[w] \o First(w).kvs
           size == kvSize[w] + Len(First(w).kvs)
<1>1. /\ First(w).kvs \in Seq(Kv) /\ First(w).region \in RegionId
      /\ kvBuf[w] \in Seq(Kv) /\ kvBuf \in [Worker -> Seq(Kv)]
  BY HeadFacts DEF Event, StateInv, BInv, Shape
<1>2. kvs \in Seq(Kv) /\ Range(kvs) = Range(kvBuf[w]) \cup Range(First(w).kvs)
  BY <1>1, RangeOfConcat
<1>3. /\ queue' = [queue EXCEPT ![w] = Tail(@)] /\ log' = log /\ closed' = closed
      /\ rangeBuf' = rangeBuf /\ engine' = engine /\ failed' = failed
      /\ curRegion' = [curRegion EXCEPT ![w] = First(w).region]
      /\ \/ BeginFlush(w, kvs, rangeBuf[w], "select")
         \/ /\ kvBuf' = [kvBuf EXCEPT ![w] = kvs]
            /\ pc' = [pc EXCEPT ![w] = "select"]
            /\ draining' = draining /\ resumeAt' = resumeAt
  BY Zenon DEF AddKvs, loopVars
<1> HIDE DEF kvs, size
<1>4. /\ pc \in [Worker -> {"select", "add", "flush", "exited"}]
      /\ draining \in [Worker -> SUBSET Drained]
      /\ curRegion \in [Worker -> RegionId \cup {0}]
      /\ draining[w] = {}
  BY DEF StateInv, BInv, Shape, RestOK, Settled
<1>5. InHand(w) = Range(kvBuf[w])
  BY <1>4 DEF InHand, Pairs
<1>6. /\ draining' \in [Worker -> SUBSET Drained]
      /\ InHand(w)' = Range(kvs)
      /\ \A v \in Worker \ {w} : InHand(v)' = InHand(v)
      /\ pc'[w] # "flush" => draining'[w] = {}
      /\ pc'[w] = "select" \/ (pc'[w] = "flush" /\ resumeAt'[w] = "select")
      /\ \A v \in Worker \ {w} : /\ pc'[v] = pc[v]
                                 /\ resumeAt'[v] = resumeAt[v]
                                 /\ draining'[v] = draining[v]
  <2>1. CASE BeginFlush(w, kvs, rangeBuf[w], "select")
    BY <1>2, <2>1, BeginFlushMoves
  <2>2. CASE /\ kvBuf' = [kvBuf EXCEPT ![w] = kvs]
             /\ pc' = [pc EXCEPT ![w] = "select"]
             /\ draining' = draining /\ resumeAt' = resumeAt
    <3>1. /\ kvBuf'[w] = kvs /\ pc'[w] = "select"
          /\ \A v \in Worker \ {w} : kvBuf'[v] = kvBuf[v] /\ pc'[v] = pc[v]
      BY <1>1, <1>4, <2>2
    <3>2. InHand(w)' = Range(kvs)
      BY <1>4, <2>2, <3>1 DEF InHand, Pairs
    <3>3. \A v \in Worker \ {w} : InHand(v)' = InHand(v)
      BY Zenon, <2>2, <3>1 DEF InHand
    <3> QED
      BY <1>4, <2>2, <3>1, <3>2, <3>3
  <2> QED
    BY <1>3, <2>1, <2>2
<1>7. /\ queue'[w] = Tail(queue[w])
      /\ \A v \in Worker \ {w} : queue'[v] = queue[v] /\ Waiting(v)' = Waiting(v)
  BY <1>3, TakeFacts
<1>8. \A v \in Worker : Ranges(v)' = Ranges(v)
  BY Zenon, <1>3 DEF Ranges
<1>9. OthersUntouched(w)
  BY Zenon, <1>3, <1>6, <1>7, <1>8 DEF OthersUntouched, Untouched
<1>10. Adds(w)
  BY Zenon, <1>2, <1>3, <1>5, <1>6, <1>7, <1>8 DEF Adds, Takes
<1>11. RestOK'
  <2>1. curRegion' \in [Worker -> RegionId \cup {0}]
    BY <1>1, <1>3, <1>4
  <2> QED
    BY <1>3, <1>6, <2>1 DEF RestOK, StateInv
<1>12. ASSUME NEW v \in Worker PROVE Settled(v)'
  <2>1. CASE v = w
    BY <1>6, <2>1 DEF Settled, AddsNext
  <2>2. CASE v # w
    <3>1. Settled(v)
      BY DEF StateInv
    <3> QED
      BY <1>3, <1>6, <1>7, <2>2, <3>1, SettledOther
  <2> QED
    BY <2>1, <2>2
<1> QED
  BY <1>9, <1>10, <1>11, <1>12

\* A flush of the buffer as it stands moves no event and loses no pair.
LEMMA FlushEffect ==
    ASSUME StateInv, NEW w \in Worker, NEW next \in {"select", "add", "exited"},
           pc[w] = "select",
           \/ BeginFlush(w, kvBuf[w], rangeBuf[w], next)
           \/ pc' = [pc EXCEPT ![w] = next] /\ UNCHANGED <<kvBuf, draining, resumeAt>>,
           UNCHANGED <<log, closed, queue, curRegion, rangeBuf, engine, failed>>,
           next = "add" => First(w).keys = {}
    PROVE  OthersUntouched(w) /\ Keeps(w) /\ RestOK' /\ \A v \in Worker : Settled(v)'
<1>1. /\ kvBuf[w] \in Seq(Kv) /\ draining[w] = {}
      /\ pc \in [Worker -> {"select", "add", "flush", "exited"}]
      /\ draining \in [Worker -> SUBSET Drained]
  BY DEF StateInv, BInv, Shape, RestOK, Settled
<1>2. InHand(w) = Range(kvBuf[w])
  BY <1>1 DEF InHand, Pairs
<1>3. /\ draining' \in [Worker -> SUBSET Drained]
      /\ \A v \in Worker : InHand(v)' = InHand(v)
      /\ pc'[w] # "flush" => draining'[w] = {}
      /\ pc'[w] = next \/ (pc'[w] = "flush" /\ resumeAt'[w] = next)
      /\ \A v \in Worker \ {w} : /\ pc'[v] = pc[v]
                                 /\ resumeAt'[v] = resumeAt[v]
                                 /\ draining'[v] = draining[v]
  <2>1. CASE BeginFlush(w, kvBuf[w], rangeBuf[w], next)
    <3>1. /\ draining' \in [Worker -> SUBSET Drained]
          /\ InHand(w)' = Range(kvBuf[w])
          /\ \A v \in Worker \ {w} : InHand(v)' = InHand(v)
          /\ pc'[w] # "flush" => draining'[w] = {}
          /\ pc'[w] \in {next, "flush"} /\ resumeAt'[w] = next
          /\ \A v \in Worker \ {w} : /\ pc'[v] = pc[v]
                                     /\ resumeAt'[v] = resumeAt[v]
                                     /\ draining'[v] = draining[v]
      BY <1>1, <2>1, BeginFlushMoves
    <3>2. InHand(w)' = InHand(w)
      BY Zenon, <1>2, <3>1
    <3>3. \A v \in Worker : InHand(v)' = InHand(v)
      BY Zenon, <3>1, <3>2
    <3> QED
      BY Zenon, <3>1, <3>3
  <2>2. CASE pc' = [pc EXCEPT ![w] = next] /\ UNCHANGED <<kvBuf, draining, resumeAt>>
    <3>1. \A v \in Worker : InHand(v)' = InHand(v)
      BY Zenon, <2>2 DEF InHand
    <3> QED
      BY <1>1, <2>2, <3>1
  <2> QED
    BY <2>1, <2>2
<1>4. \A v \in Worker : Untouched(v)
  BY Zenon, <1>3 DEF Untouched, Waiting, Ranges
<1>5. RestOK'
  BY <1>3 DEF RestOK, StateInv
<1>6. ASSUME NEW v \in Worker PROVE Settled(v)'
  <2>1. CASE v = w
    <3>1. First(w)' = First(w)
      BY Zenon DEF First
    <3> QED
      BY <1>3, <2>1, <3>1 DEF Settled, AddsNext
  <2>2. CASE v # w
    <3>1. Settled(v)
      BY DEF StateInv
    <3> QED
      BY <1>3, <2>2, <3>1, SettledOther
  <2> QED
    BY <2>1, <2>2
<1> QED
  BY <1>4, <1>5, <1>6 DEF OthersUntouched, Keeps

\* A delete range moves from the queue to the range buffer.
LEMMA DeleteRangeEffect ==
    ASSUME StateInv, NEW w \in Worker, ReceiveDeleteRange(w)
    PROVE  OthersUntouched(w) /\ Buffers(w) /\ RestOK' /\ \A v \in Worker : Settled(v)'
<1> DEFINE ranges == Append(rangeBuf[w], Head(queue[w]))
<1>1. /\ pc[w] = "select" /\ queue[w] # <<>> /\ First(w).keys # {}
      /\ queue' = [queue EXCEPT ![w] = Tail(@)] /\ log' = log /\ closed' = closed
      /\ rangeBuf' = [rangeBuf EXCEPT ![w] = ranges]
      /\ curRegion' = [curRegion EXCEPT ![w] = First(w).region]
      /\ engine' = engine /\ failed' = failed
      /\ \/ BeginFlush(w, kvBuf[w], ranges, "select")
         \/ UNCHANGED <<kvBuf, draining, resumeAt, pc>>
  BY DEF ReceiveDeleteRange, loopVars
<1>2. /\ First(w).region \in RegionId /\ Head(queue[w]) \in Nat
      /\ rangeBuf[w] \in Seq(Nat) /\ rangeBuf \in [Worker -> Seq(Nat)]
      /\ kvBuf[w] \in Seq(Kv) /\ draining[w] = {}
      /\ draining \in [Worker -> SUBSET Drained]
      /\ curRegion \in [Worker -> RegionId \cup {0}]
  BY <1>1, HeadFacts DEF Event, StateInv, BInv, Shape, RestOK, Settled
<1>3. ranges \in Seq(Nat) /\ Range(ranges) = Range(rangeBuf[w]) \cup {Head(queue[w])}
  <2>1. ranges \in Seq(Nat)
    BY <1>2
  <2>2. Range(Append(rangeBuf[w], Head(queue[w]))) = Range(rangeBuf[w]) \cup {Head(queue[w])}
    <3>1. \A s \in Seq(Nat), e \in Nat : Range(Append(s, e)) = Range(s) \cup {e}
      BY RangeOfAppend
    <3> QED
      BY Zenon, <1>2, <3>1
  <2> QED
    BY <2>1, <2>2
<1> HIDE DEF ranges
<1>4. /\ rangeBuf' \in [Worker -> Seq(Nat)] /\ rangeBuf'[w] = ranges
      /\ \A v \in Worker \ {w} : rangeBuf'[v] = rangeBuf[v]
      /\ curRegion' \in [Worker -> RegionId \cup {0}]
  BY <1>1, <1>2, <1>3
<1>5. InHand(w) = Range(kvBuf[w])
  BY <1>2 DEF InHand, Pairs
<1>6. /\ draining' \in [Worker -> SUBSET Drained]
      /\ \A v \in Worker : InHand(v)' = InHand(v)
      /\ pc'[w] # "flush" => draining'[w] = {}
      /\ pc'[w] = "select" \/ (pc'[w] = "flush" /\ resumeAt'[w] = "select")
      /\ \A v \in Worker \ {w} : /\ pc'[v] = pc[v]
                                 /\ resumeAt'[v] = resumeAt[v]
                                 /\ draining'[v] = draining[v]
  <2>1. CASE BeginFlush(w, kvBuf[w], ranges, "select")
    BY <1>2, <1>5, <2>1, BeginFlushMoves
  <2>2. CASE UNCHANGED <<kvBuf, draining, resumeAt, pc>>
    <3>1. \A v \in Worker : InHand(v)' = InHand(v)
      BY Zenon, <2>2 DEF InHand
    <3> QED
      BY <1>1, <1>2, <2>2, <3>1
  <2> QED
    BY <1>1, <2>1, <2>2
<1>7. /\ queue'[w] = Tail(queue[w])
      /\ \A v \in Worker \ {w} : queue'[v] = queue[v] /\ Waiting(v)' = Waiting(v)
  BY <1>1, TakeFacts
<1>8. /\ \A v \in Worker \ {w} : Ranges(v)' = Ranges(v)
      /\ Ranges(w)' = Ranges(w) \cup {Head(queue[w])}
  BY Zenon, <1>3, <1>4 DEF Ranges
<1>9. OthersUntouched(w)
  BY Zenon, <1>1, <1>6, <1>7, <1>8 DEF OthersUntouched, Untouched
<1>10. Buffers(w)
  BY Zenon, <1>1, <1>6, <1>7, <1>8 DEF Buffers, Takes
<1>11. RestOK'
  BY <1>1, <1>4, <1>6 DEF RestOK, StateInv
<1>12. ASSUME NEW v \in Worker PROVE Settled(v)'
  <2>1. CASE v = w
    BY <1>6, <2>1 DEF Settled, AddsNext
  <2>2. CASE v # w
    <3>1. Settled(v)
      BY DEF StateInv
    <3> QED
      BY <1>1, <1>6, <1>7, <2>2, <3>1, SettledOther
  <2> QED
    BY <2>1, <2>2
<1> QED
  BY <1>9, <1>10, <1>11, <1>12

\* A worker that only leaves flush, or stays in it, stays settled.
LEMMA SettledFlush ==
    ASSUME StateInv, NEW w \in Worker, pc[w] = "flush",
           \/ pc' = pc
           \/ pc' = [pc EXCEPT ![w] = resumeAt[w]] /\ draining'[w] = {},
           \A v \in Worker \ {w} : draining'[v] = draining[v],
           UNCHANGED <<log, queue, resumeAt>>
    PROVE  \A v \in Worker : Settled(v)'
<1>1. /\ pc \in [Worker -> {"select", "add", "flush", "exited"}]
      /\ resumeAt[w] \in {"select", "add", "exited"}
      /\ \A v \in Worker : Settled(v)
  BY DEF StateInv, BInv, Shape
<1>2. ASSUME NEW v \in Worker PROVE Settled(v)'
  <2>1. First(v)' = First(v) /\ resumeAt'[v] = resumeAt[v]
    BY Zenon DEF First
  <2>2. CASE v = w
    <3>1. pc'[w] = "flush" \/ (pc'[w] = resumeAt[w] /\ draining'[w] = {})
      BY <1>1
    <3> QED
      BY <1>1, <2>1, <2>2, <3>1 DEF Settled, AddsNext
  <2>3. CASE v # w
    <3>1. pc'[v] = pc[v]
      BY <1>1, <2>3
    <3> QED
      BY <1>1, <2>1, <2>3, <3>1, SettledOther
  <2> QED
    BY <2>2, <2>3
<1> QED
  BY <1>2

\* A column family reaches the engine, or the flush gives up on all it holds.
LEMMA IngestCfEffect ==
    ASSUME StateInv, NEW w \in Worker, NEW cf \in Cf, IngestCf(w, cf)
    PROVE  /\ OthersUntouched(w) /\ (Ingests(w) \/ Fails(w))
           /\ RestOK' /\ \A v \in Worker : Settled(v)'
<1> DEFINE group == OfCf(cf, draining[w])
<1>1. /\ pc[w] = "flush" /\ UNCHANGED <<log, closed, queue, resumeAt, curRegion, kvBuf, rangeBuf>>
      /\ \/ /\ engine' = engine \cup Pairs(group)
            /\ draining' = [draining EXCEPT ![w] = draining[w] \ group]
            /\ failed' = failed /\ pc' = pc
         \/ /\ failed' = failed \cup Pairs(draining[w])
            /\ draining' = [draining EXCEPT ![w] = {}]
            /\ pc' = [pc EXCEPT ![w] = resumeAt[w]]
            /\ engine' = engine
  BY DEF IngestCf, loopVars
<1>2. /\ draining \in [Worker -> SUBSET Drained] /\ draining[w] \subseteq Drained
      /\ kvBuf[w] = <<>>
  BY <1>1 DEF StateInv, BInv, Accounted, RestOK
<1>3. group \subseteq draining[w]
  BY DEF OfCf
<1> HIDE DEF group
<1>4. ASSUME NEW D, D \subseteq Drained PROVE Pairs(D) \subseteq Kv
  BY <1>4 DEF Pairs, Drained
<1>5. \A v \in Worker \ {w} : draining'[v] = draining[v]
  BY <1>1, <1>2
<1>6. \A v \in Worker : Waiting(v)' = Waiting(v) /\ Ranges(v)' = Ranges(v) /\ queue'[v] = queue[v]
  BY Zenon, <1>1 DEF Waiting, Ranges
<1>7. \A v \in Worker \ {w} : InHand(v)' = InHand(v)
  BY Zenon, <1>1, <1>5 DEF InHand
<1>8. OthersUntouched(w)
  BY Zenon, <1>1, <1>6, <1>7 DEF OthersUntouched, Untouched
<1>9. InHand(w) = Pairs(draining[w]) /\ InHand(w)' = Pairs(draining'[w])
  <2>1. kvBuf'[w] = <<>>
    BY <1>1, <1>2
  <2> QED
    BY Zenon, <1>2, <2>1, RangeOfEmpty DEF InHand
<1>10. CASE /\ engine' = engine \cup Pairs(group)
            /\ draining' = [draining EXCEPT ![w] = draining[w] \ group]
            /\ failed' = failed /\ pc' = pc
  <2>1. draining'[w] = draining[w] \ group
    BY <1>2, <1>10
  <2>2. /\ Pairs(draining[w] \ group) \subseteq Pairs(draining[w])
        /\ Pairs(group) \subseteq Pairs(draining[w])
        /\ Pairs(draining[w]) \subseteq Pairs(draining[w] \ group) \cup Pairs(group)
    BY Zenon, <1>3 DEF Pairs
  <2>3. Ingests(w)
    BY <1>6, <1>9, <1>10, <2>1, <2>2 DEF Ingests
  <2>4. draining' \in [Worker -> SUBSET Drained]
    BY <1>2, <1>10
  <2>5. Pairs(group) \subseteq Kv
    BY <1>2, <1>3, <1>4
  <2>6. RestOK'
    BY <1>1, <1>10, <2>4, <2>5 DEF RestOK, StateInv
  <2>7. UNCHANGED <<log, queue, resumeAt>> /\ pc[w] = "flush" /\ pc' = pc
    BY <1>1, <1>10
  <2>8. \A v \in Worker : Settled(v)'
    BY Zenon, <1>5, <2>7, SettledFlush
  <2> QED
    BY <1>8, <2>3, <2>6, <2>8
<1>11. CASE /\ failed' = failed \cup Pairs(draining[w])
            /\ draining' = [draining EXCEPT ![w] = {}]
            /\ pc' = [pc EXCEPT ![w] = resumeAt[w]]
            /\ engine' = engine
  <2>1. draining'[w] = {} /\ draining' \in [Worker -> SUBSET Drained]
    BY <1>2, <1>11
  <2>2. InHand(w)' = {}
    BY <1>9, <2>1 DEF Pairs
  <2>3. Fails(w)
    BY <1>6, <1>9, <1>11, <2>2 DEF Fails
  <2>4. Pairs(draining[w]) \subseteq Kv
    BY <1>2, <1>4
  <2>5. RestOK'
    BY <1>1, <1>11, <2>1, <2>4 DEF RestOK, StateInv
  <2>6. UNCHANGED <<log, queue, resumeAt>> /\ pc[w] = "flush"
    BY <1>1
  <2>7. \A v \in Worker : Settled(v)'
    BY Zenon, <1>5, <1>11, <2>1, <2>6, SettledFlush
  <2> QED
    BY <1>8, <2>3, <2>5, <2>7
<1> QED
  BY <1>1, <1>10, <1>11

\* The end of a flush removes the ranges and what they cover.
LEMMA FinishFlushEffect ==
    ASSUME StateInv, NEW w \in Worker, FinishFlush(w)
    PROVE  OthersUntouched(w) /\ Finishes(w) /\ RestOK' /\ \A v \in Worker : Settled(v)'
<1>1. /\ pc[w] = "flush" /\ draining[w] = {}
      /\ engine' = {kv \in engine : kv.key \notin Covered(rangeBuf[w])}
      /\ rangeBuf' = [rangeBuf EXCEPT ![w] = <<>>]
      /\ pc' = [pc EXCEPT ![w] = resumeAt[w]]
      /\ UNCHANGED <<log, closed, queue, resumeAt, curRegion, kvBuf, draining, failed>>
  BY DEF FinishFlush, loopVars
<1>2. rangeBuf \in [Worker -> Seq(Nat)] /\ kvBuf[w] = <<>> /\ kvBuf'[w] = <<>>
  BY <1>1 DEF StateInv, BInv, Accounted, RestOK
<1>3. /\ rangeBuf' \in [Worker -> Seq(Nat)] /\ rangeBuf'[w] = <<>>
      /\ \A v \in Worker \ {w} : rangeBuf'[v] = rangeBuf[v]
  BY <1>1, <1>2
<1>4. \A v \in Worker : Waiting(v)' = Waiting(v) /\ InHand(v)' = InHand(v) /\ queue'[v] = queue[v]
  BY Zenon, <1>1 DEF Waiting, InHand
<1>5. Ranges(w)' = {} /\ \A v \in Worker \ {w} : Ranges(v)' = Ranges(v)
  BY Zenon, <1>3, RangeOfEmpty DEF Ranges
<1>6. InHand(w) = {}
  BY <1>1, <1>2, RangeOfEmpty DEF InHand, Pairs
<1>7. engine' = {kv \in engine : \A j \in Ranges(w) : kv.key \notin log[j].keys}
  BY <1>1 DEF Covered, Ranges
<1>8. OthersUntouched(w)
  BY Zenon, <1>1, <1>4, <1>5 DEF OthersUntouched, Untouched
<1>9. Finishes(w)
  BY Zenon, <1>1, <1>4, <1>5, <1>6, <1>7 DEF Finishes
<1>10. RestOK'
  BY <1>1, <1>3, <1>7 DEF RestOK, StateInv
<1> QED
  BY <1>1, <1>8, <1>9, <1>10, SettledFlush

\* Every step of a worker has one of the six effects.
LEMMA WorkerEffect ==
    ASSUME StateInv, NEW w \in Worker, WorkerStep(w)
    PROVE  Effect(w) /\ RestOK' /\ \A v \in Worker : Settled(v)'
<1>1. CASE ReceiveKvBatch(w)
  <2>1. CASE CrossesRegion(w)
    BY <1>1, <2>1, FlushEffect DEF ReceiveKvBatch, loopVars, Effect
  <2>2. CASE ~CrossesRegion(w)
    BY <1>1, <2>2, AddKvsEffect DEF ReceiveKvBatch, Effect
  <2> QED
    BY <2>1, <2>2
<1>2. CASE AddAfterBoundary(w)
  <2>1. queue[w] # <<>> /\ First(w).keys = {}
    BY <1>2 DEF AddAfterBoundary, StateInv, BInv, Shape, Settled, AddsNext
  <2> QED
    BY <1>2, <2>1, AddKvsEffect DEF AddAfterBoundary, Effect
<1>3. CASE ReceiveDeleteRange(w)
  BY <1>3, DeleteRangeEffect DEF Effect
<1>4. CASE ChannelClosed(w)
  BY <1>4, FlushEffect DEF ChannelClosed, FlushPendingKvs, loopVars, Effect
<1>5. CASE IdleTimeout(w)
  BY <1>5, FlushEffect DEF IdleTimeout, FlushPendingKvs, loopVars, Effect
<1>6. CASE \E cf \in Cf : IngestCf(w, cf)
  BY <1>6, IngestCfEffect DEF Effect
<1>7. CASE FinishFlush(w)
  BY <1>7, FinishFlushEffect DEF Effect
<1> QED
  BY <1>1, <1>2, <1>3, <1>4, <1>5, <1>6, <1>7 DEF WorkerStep

\* The head of a queue leaves it and is older than what stays.
LEMMA TakeOrder ==
    ASSUME StateInv, Placed, NEW w \in Worker, Takes(w)
    PROVE  /\ Head(queue[w]) \in Waiting(w) /\ Head(queue[w]) \in DOMAIN log
           /\ Waiting(w) = {Head(queue[w])} \cup Waiting(w)'
           /\ \A m \in Waiting(w)' : Head(queue[w]) < m
           /\ Head(queue[w]) \notin Waiting(w)'
           /\ \A m, n \in 1..Len(queue'[w]) : m < n => queue'[w][m] < queue'[w][n]
<1>1. queue[w] \in Seq(Nat) /\ queue[w] # <<>> /\ queue'[w] = Tail(queue[w])
  BY HeadFacts DEF Takes
<1>2. Head(queue[w]) \in DOMAIN log
  BY <1>1, HeadFacts
<1>3. Waiting(w)' = Range(Tail(queue[w]))
  BY Zenon, <1>1 DEF Waiting
<1>4. Range(queue[w]) = {Head(queue[w])} \cup Range(Tail(queue[w]))
  BY <1>1, RangeOfHeadTail
<1>5. Waiting(w) = {Head(queue[w])} \cup Waiting(w)'
  BY <1>3, <1>4 DEF Waiting
<1>6. /\ Len(queue[w]) \in Nat \ {0} /\ Head(queue[w]) = queue[w][1]
      /\ Len(Tail(queue[w])) = Len(queue[w]) - 1
      /\ DOMAIN Tail(queue[w]) = 1..(Len(queue[w]) - 1)
      /\ \A n \in 1..(Len(queue[w]) - 1) : Tail(queue[w])[n] = queue[w][n + 1]
      /\ \A n \in 1..Len(queue[w]) : queue[w][n] \in Nat
  BY <1>1
<1>7. \A m, n \in 1..Len(queue[w]) : m < n => queue[w][m] < queue[w][n]
  BY DEF Placed
<1>8. ASSUME NEW m \in Waiting(w)' PROVE Head(queue[w]) < m
  <2>1. \E n \in DOMAIN Tail(queue[w]) : m = Tail(queue[w])[n]
    BY Zenon, <1>3, <1>8 DEF Range
  <2>2. PICK n \in 1..(Len(queue[w]) - 1) : m = queue[w][n + 1]
    BY <1>6, <2>1
  <2>3. 1 \in 1..Len(queue[w]) /\ n + 1 \in 1..Len(queue[w]) /\ 1 < n + 1
    BY <1>6
  <2> QED
    BY <1>6, <1>7, <2>2, <2>3
<1>9. Head(queue[w]) \notin Waiting(w)'
  BY <1>6, <1>8, HeadFacts, <1>1
<1>10. ASSUME NEW m \in 1..Len(queue'[w]), NEW n \in 1..Len(queue'[w]), m < n
       PROVE  queue'[w][m] < queue'[w][n]
  <2>1. /\ m + 1 \in 1..Len(queue[w]) /\ n + 1 \in 1..Len(queue[w]) /\ m + 1 < n + 1
        /\ m \in 1..(Len(queue[w]) - 1) /\ n \in 1..(Len(queue[w]) - 1)
    BY <1>1, <1>6, <1>10
  <2>2. queue[w][m + 1] < queue[w][n + 1]
    BY Zenon, <1>7, <2>1
  <2> QED
    BY <1>1, <1>6, <2>1, <2>2
<1> QED
  BY <1>2, <1>5, <1>8, <1>9, <1>10

\* How a step of w moves events: it empties its ranges, or takes the head of its
\* queue and may add it to its ranges.
Moves(w) ==
    \/ queue'[w] = queue[w] /\ Ranges(w)' \subseteq Ranges(w)
    \/ Takes(w) /\ Ranges(w)' \subseteq Ranges(w) \cup {Head(queue[w])}

\* Each effect is such a move.
LEMMA EffectMoves ==
    ASSUME NEW w \in Worker, Effect(w)
    PROVE  Moves(w) /\ OthersUntouched(w)
BY DEF Effect, Moves, Keeps, Untouched, Adds, Buffers, Ingests, Fails, Finishes

\* No event enters a queue, and only the head of w's queue leaves one.
LEMMA MoveFacts ==
    ASSUME StateInv, Placed, NEW w \in Worker, Moves(w), OthersUntouched(w)
    PROVE  /\ \A v \in Worker : Waiting(v)' \subseteq Waiting(v)
           /\ \A v \in Worker : \A j \in Waiting(v) :
                  \/ j \in Waiting(v)'
                  \/ v = w /\ Takes(w) /\ j = Head(queue[w])
           /\ \A v \in Worker : \A j \in Ranges(v)' :
                  \/ j \in Ranges(v)
                  \/ v = w /\ Takes(w) /\ j = Head(queue[w]) /\ j \in Waiting(w)
                     /\ j \notin Waiting(w)'
<1>1. \A v \in Worker \ {w} : Waiting(v)' = Waiting(v) /\ Ranges(v)' = Ranges(v)
  BY DEF OthersUntouched, Untouched
<1>2. CASE queue'[w] = queue[w] /\ Ranges(w)' \subseteq Ranges(w)
  <2>1. Waiting(w)' = Waiting(w)
    BY Zenon, <1>2 DEF Waiting
  <2> QED
    BY <1>1, <1>2, <2>1
<1>3. CASE Takes(w) /\ Ranges(w)' \subseteq Ranges(w) \cup {Head(queue[w])}
  <2>1. /\ Waiting(w) = {Head(queue[w])} \cup Waiting(w)'
        /\ Head(queue[w]) \notin Waiting(w)'
    BY <1>3, TakeOrder
  <2> QED
    BY <1>1, <1>3, <2>1
<1> QED
  BY <1>2, <1>3 DEF Moves

\* A move keeps every event in one place, at home and in order.
LEMMA PlacedStep ==
    ASSUME StateInv, PlaceInv, NEW w \in Worker, Moves(w), OthersUntouched(w)
    PROVE  PlaceInv'
<1>1. log' = log /\ Placed /\ LogOK /\ InOrder
  BY DEF OthersUntouched, PlaceInv
<1>2. LogOK'
  BY Zenon, <1>1 DEF LogOK
<1>3. \A i, v : Home(i, v)' <=> Home(i, v)
  BY Zenon, <1>1 DEF Home
<1>4. /\ \A v \in Worker : Waiting(v)' \subseteq Waiting(v)
      /\ \A v \in Worker : \A j \in Waiting(v) :
             \/ j \in Waiting(v)'
             \/ v = w /\ Takes(w) /\ j = Head(queue[w])
      /\ \A v \in Worker : \A j \in Ranges(v)' :
             \/ j \in Ranges(v)
             \/ v = w /\ Takes(w) /\ j = Head(queue[w]) /\ j \in Waiting(w)
                /\ j \notin Waiting(w)'
  BY <1>1, MoveFacts
<1>5. /\ \A v \in Worker : Waiting(v) \cup Ranges(v) \subseteq DOMAIN log
      /\ \A v \in Worker : \A i \in Waiting(v) \cup Ranges(v) : Home(i, v)
      /\ \A u, v \in Worker : Waiting(u) \cap Ranges(v) = {}
      /\ \A u, v \in Worker : u # v => Waiting(u) \cap Waiting(v) = {}
      /\ \A u, v \in Worker : u # v => Ranges(u) \cap Ranges(v) = {}
  BY <1>1 DEF Placed
<1>6. \A v \in Worker : Ranges(v)' \subseteq Ranges(v) \cup Waiting(v)
  BY <1>4
<1>7. \A v \in Worker : (Waiting(v) \cup Ranges(v))' \subseteq DOMAIN log'
  BY <1>1, <1>4, <1>5, <1>6
<1>8. \A v \in Worker : \A i \in (Waiting(v) \cup Ranges(v))' : Home(i, v)'
  BY <1>3, <1>4, <1>5, <1>6
<1>9. ASSUME NEW v \in Worker
      PROVE  \A m, n \in 1..Len(queue'[v]) : m < n => queue'[v][m] < queue'[v][n]
  <2>1. CASE queue'[v] = queue[v]
    BY Zenon, <1>1, <2>1 DEF Placed
  <2>2. CASE v = w /\ Takes(w)
    BY Zenon, <1>1, <2>2, TakeOrder
  <2> QED
    BY Zenon, <2>1, <2>2 DEF Moves, OthersUntouched, Untouched
<1>10. ASSUME NEW u \in Worker, NEW v \in Worker, NEW j \in Waiting(u)', j \in Ranges(v)'
       PROVE  FALSE
  <2>1. j \in Waiting(u)
    BY <1>4
  <2>2. j \notin Ranges(v)
    BY <1>5, <2>1
  <2>3. v = w /\ j \in Waiting(w) /\ j \notin Waiting(w)'
    BY <1>4, <1>10, <2>2
  <2>4. u # w
    BY <2>3
  <2> QED
    BY <1>5, <2>1, <2>3, <2>4
<1>11. \A u, v \in Worker : u # v => Waiting(u)' \cap Waiting(v)' = {}
  BY <1>4, <1>5
<1>12. ASSUME NEW u \in Worker, NEW v \in Worker, u # v, NEW j \in Ranges(u)', j \in Ranges(v)'
       PROVE  FALSE
  <2>1. j \in Ranges(u) \/ (u = w /\ j \in Waiting(w))
    BY <1>4
  <2>2. j \in Ranges(v) \/ (v = w /\ j \in Waiting(w))
    BY <1>4, <1>12
  <2> QED
    BY <1>5, <1>12, <2>1, <2>2
<1>13. Placed'
  <2>1. \A u, v \in Worker : Waiting(u)' \cap Ranges(v)' = {}
    BY <1>10
  <2>2. \A u, v \in Worker : u # v => Ranges(u)' \cap Ranges(v)' = {}
    BY <1>12
  <2> QED
    BY <1>7, <1>8, <1>9, <1>11, <2>1, <2>2 DEF Placed
<1>14. ASSUME NEW v \in Worker, NEW j \in DOMAIN log, NEW i \in Waiting(v)',
              log[j].region # 0, Home(j, v), ~Queued(j)'
       PROVE  j < i
  <2>1. i \in Waiting(v)
    BY <1>4
  <2>2. CASE ~Queued(j)
    BY Zenon, <1>1, <1>14, <2>1, <2>2 DEF InOrder
  <2>3. CASE Queued(j)
    <3>1. PICK u \in Worker : j \in Waiting(u)
      BY <2>3 DEF Queued, Waiting
    <3>2. j \notin Waiting(u)'
      BY <1>14 DEF Queued, Waiting
    <3>3. u = w /\ Takes(w) /\ j = Head(queue[w])
      BY <1>4, <3>1, <3>2
    <3>4. Home(j, w)
      BY <1>5, <3>1, <3>3
    <3>5. v = w
      BY <1>14, <3>4 DEF Home
    <3> QED
      BY <1>1, <3>3, <3>5, TakeOrder
  <2> QED
    BY <2>2, <2>3
<1>15. InOrder'
  BY <1>1, <1>3, <1>14 DEF InOrder
<1> QED
  BY <1>2, <1>13, <1>15 DEF PlaceInv

\* An applied delete range stays applied.
LEMMA AppliedStays ==
    ASSUME StateInv, PlaceInv, NEW w \in Worker, Moves(w), OthersUntouched(w),
           NEW j, Applied(j)
    PROVE  Applied(j)'
<1>1. \A v \in Worker : j \notin Waiting(v) /\ j \notin Ranges(v)
  BY DEF Applied, Queued, Waiting, Ranges
<1>2. \A v \in Worker : j \notin Waiting(v)' /\ j \notin Ranges(v)'
  BY <1>1, MoveFacts DEF PlaceInv
<1> QED
  BY <1>2 DEF Applied, Queued, Waiting, Ranges

\* The pair kv of event i is somewhere: the disjunction of NothingVanishes.
Somewhere(i, kv) ==
    \/ kv \in engine \cup failed
    \/ Queued(i)
    \/ \E v \in Worker : kv \in InHand(v)
    \/ \E j \in DOMAIN log : kv.key \in log[j].keys /\ Applied(j)

\* NothingVanishes, in those words.
LEMMA VanishesDef ==
    NothingVanishes <=> \A i \in DOMAIN log : \A kv \in Range(log[i].kvs) : Somewhere(i, kv)
BY DEF NothingVanishes, Somewhere, InHand

\* No step of a worker makes a pair vanish.
LEMMA SomewhereStep ==
    ASSUME StateInv, PlaceInv, NEW w \in Worker, Effect(w),
           NEW i \in DOMAIN log, NEW kv \in Range(log[i].kvs), Somewhere(i, kv)
    PROVE  Somewhere(i, kv)'
<1>1. log' = log /\ Moves(w) /\ OthersUntouched(w) /\ Placed /\ LogOK
  BY EffectMoves DEF OthersUntouched, PlaceInv
<1>2. /\ \A v \in Worker : \A j \in Waiting(v) :
             \/ j \in Waiting(v)'
             \/ v = w /\ Takes(w) /\ j = Head(queue[w])
      /\ \A v \in Worker \ {w} : InHand(v)' = InHand(v)
  BY <1>1, MoveFacts DEF OthersUntouched, Untouched
<1>3. CASE \E j \in DOMAIN log : kv.key \in log[j].keys /\ Applied(j)
  BY <1>1, <1>3, AppliedStays DEF Somewhere
<1>4. CASE Queued(i)
  <2>1. PICK v \in Worker : i \in Waiting(v)
    BY <1>4 DEF Queued, Waiting
  <2>2. CASE i \in Waiting(v)'
    BY <2>2 DEF Somewhere, Queued, Waiting
  <2>3. CASE i \notin Waiting(v)'
    <3>1. v = w /\ Takes(w) /\ i = Head(queue[w]) /\ First(w) = log[i]
      BY <1>2, <2>1, <2>3 DEF First
    <3>2. log[i].keys = {}
      BY <1>1 DEF LogOK
    <3>3. Adds(w)
      <4>1. queue'[w] # queue[w]
        BY Zenon, <2>1, <2>3, <3>1 DEF Waiting
      <4> QED
        BY <3>1, <3>2, <4>1 DEF Effect, Keeps, Untouched, Adds, Buffers, Ingests, Fails, Finishes
    <3>4. kv \in InHand(w)'
      BY <3>1, <3>3 DEF Adds
    <3> QED
      BY <3>4 DEF Somewhere
  <2> QED
    BY <2>2, <2>3
<1>5. CASE \E v \in Worker : kv \in InHand(v)
  <2>1. PICK v \in Worker : kv \in InHand(v)
    BY <1>5
  <2>2. CASE v # w
    BY <1>2, <2>1, <2>2 DEF Somewhere
  <2>3. CASE v = w
    <3>1. kv \in InHand(w)' \/ kv \in engine' \cup failed'
      BY <2>1, <2>3 DEF Effect, Keeps, Untouched, Adds, Buffers, Ingests, Fails, Finishes
    <3> QED
      BY <3>1 DEF Somewhere
  <2> QED
    BY <2>2, <2>3
<1>6. CASE kv \in engine \cup failed
  <2>1. CASE kv \in engine' \cup failed'
    BY <2>1 DEF Somewhere
  <2>2. CASE kv \notin engine' \cup failed'
    <3>1. Finishes(w) /\ kv \in engine
      BY <1>6, <2>2 DEF Effect, Keeps, Untouched, Adds, Buffers, Ingests, Fails, Finishes
    <3>2. PICK j \in Ranges(w) : kv.key \in log[j].keys
      BY <2>2, <3>1 DEF Finishes
    <3>3. /\ j \in DOMAIN log
          /\ \A v \in Worker : j \notin Waiting(v)
          /\ \A v \in Worker \ {w} : j \notin Ranges(v)
      BY <1>1 DEF Placed
    <3>4. /\ \A v \in Worker : j \notin Waiting(v)'
          /\ \A v \in Worker : j \notin Ranges(v)'
      <4>1. Waiting(w)' = Waiting(w) /\ Ranges(w)' = {}
        BY Zenon, <3>1 DEF Finishes, Waiting
      <4> QED
        BY <1>1, <3>3, <4>1 DEF OthersUntouched, Untouched
    <3>5. Applied(j)'
      BY <3>4 DEF Applied, Queued, Waiting, Ranges
    <3> QED
      BY <1>1, <3>2, <3>3, <3>5 DEF Somewhere
  <2> QED
    BY <2>1, <2>2
<1> QED
  BY <1>3, <1>4, <1>5, <1>6 DEF Somewhere

\* A pair newly in a worker's hand comes from the head of that worker's queue.
LEMMA InHandStep ==
    ASSUME NEW w \in Worker, Effect(w), NEW v \in Worker, NEW kv \in InHand(v)'
    PROVE  \/ kv \in InHand(v)
           \/ v = w /\ Adds(w) /\ kv \in Range(First(w).kvs)
<1>1. CASE v # w
  BY <1>1 DEF Effect, OthersUntouched, Untouched
<1>2. CASE v = w
  BY <1>2 DEF Effect, Keeps, Untouched, Adds, Buffers, Ingests, Fails, Finishes
<1> QED
  BY <1>1, <1>2

\* Pairs in hand keep coming from events of their worker.
LEMMA OriginStep ==
    ASSUME StateInv, PlaceInv, Origin, NEW w \in Worker, Effect(w)
    PROVE  Origin'
<1>1. log' = log /\ Placed
  BY DEF Effect, OthersUntouched, PlaceInv
<1>2. \A i, v : Home(i, v)' <=> Home(i, v)
  BY Zenon, <1>1 DEF Home
<1>3. ASSUME NEW v \in Worker, NEW kv \in InHand(v)'
      PROVE  \E i \in DOMAIN log : kv \in Range(log[i].kvs) /\ Home(i, v)
  <2>1. CASE kv \in InHand(v)
    BY <2>1 DEF Origin
  <2>2. CASE v = w /\ Adds(w) /\ kv \in Range(First(w).kvs)
    <3>1. Head(queue[w]) \in Waiting(w) /\ Head(queue[w]) \in DOMAIN log
      BY <1>1, <2>2, TakeOrder DEF Adds
    <3>2. Home(Head(queue[w]), w)
      BY <1>1, <3>1 DEF Placed
    <3> QED
      BY <2>2, <3>1, <3>2 DEF First
  <2> QED
    BY <1>3, <2>1, <2>2, InHandStep
<1> QED
  BY <1>1, <1>2, <1>3 DEF Origin

\* A range becomes applied only when the flush of the worker that buffers it ends.
LEMMA NewlyApplied ==
    ASSUME StateInv, PlaceInv, NEW w \in Worker, Effect(w),
           NEW j \in DOMAIN log, log[j].keys # {}, ~Applied(j), Applied(j)'
    PROVE  Finishes(w) /\ j \in Ranges(w)
<1>1. log' = log /\ Moves(w) /\ OthersUntouched(w) /\ Placed
  BY EffectMoves DEF OthersUntouched, PlaceInv
<1>2. \A v \in Worker : j \notin Waiting(v)' /\ j \notin Ranges(v)'
  BY DEF Applied, Queued, Waiting, Ranges
<1>3. \E v \in Worker : j \in Waiting(v) \/ j \in Ranges(v)
  BY DEF Applied, Queued, Waiting, Ranges
<1>4. ASSUME NEW v \in Worker, j \in Waiting(v) PROVE FALSE
  <2>1. v = w /\ Takes(w) /\ j = Head(queue[w]) /\ First(w) = log[j]
    BY <1>1, <1>2, <1>4, MoveFacts DEF First
  <2>2. queue'[w] # queue[w]
    BY Zenon, <1>2, <1>4, <2>1 DEF Waiting
  <2>3. Adds(w) \/ Buffers(w)
    BY <2>2 DEF Effect, Keeps, Untouched, Ingests, Fails, Finishes
  <2>4. Buffers(w)
    BY <2>1, <2>3 DEF Adds
  <2> QED
    BY <1>2, <2>1, <2>4 DEF Buffers
<1>5. PICK v \in Worker : j \in Ranges(v)
  BY <1>3, <1>4
<1>6. v = w
  BY <1>1, <1>2, <1>5 DEF OthersUntouched, Untouched
<1>7. Ranges(w)' # Ranges(w) /\ j \notin Ranges(w)'
  BY <1>2, <1>5, <1>6
<1> QED
  BY <1>5, <1>6, <1>7 DEF Effect, Keeps, Untouched, Adds, Buffers, Ingests, Fails, Finishes

\* A range that is or becomes applied leaves nothing older of its region.
LEMMA LeftoverStep ==
    ASSUME StateInv, PlaceInv, Origin, NoLeftover, NEW w \in Worker, Effect(w)
    PROVE  NoLeftover'
<1>1. log' = log /\ Placed /\ LogOK /\ InOrder
  BY DEF Effect, OthersUntouched, PlaceInv
<1>2. ASSUME NEW j \in DOMAIN log, NEW kv \in Kv, log[j].region # 0,
             kv.key \in log[j].keys, Applied(j)',
             kv \in engine' \/ \E v \in Worker : kv \in InHand(v)'
      PROVE  Excused(kv, j)
  <2>1. CASE ~Applied(j)
    <3>1. Finishes(w) /\ j \in Ranges(w)
      BY <1>2, <2>1, NewlyApplied
    <3>2. kv \notin engine'
      BY <1>2, <3>1 DEF Finishes
    <3>3. PICK v \in Worker : kv \in InHand(v)'
      BY <1>2, <3>2
    <3>4. v # w /\ kv \in InHand(v)
      BY <3>1, <3>3 DEF Finishes, Effect, OthersUntouched, Untouched
    <3>5. PICK i \in DOMAIN log : kv \in Range(log[i].kvs) /\ Home(i, v)
      BY <3>4 DEF Origin
    <3>6. log[i].region # 0
      BY <1>1, <1>2 DEF LogOK
    <3>7. Home(j, w)
      BY <1>1, <3>1 DEF Placed
    <3>8. log[i].region # log[j].region
      BY <1>2, <3>4, <3>5, <3>6, <3>7 DEF Home
    <3> QED
      BY <3>5, <3>8 DEF Excused
  <2>2. CASE Applied(j) /\ (kv \in engine \/ \E v \in Worker : kv \in InHand(v))
    BY <1>2, <2>2 DEF NoLeftover
  <2>3. CASE Applied(j) /\ Adds(w) /\ kv \in Range(First(w).kvs)
    <3> DEFINE i == Head(queue[w])
    <3>1. i \in Waiting(w) /\ i \in DOMAIN log /\ kv \in Range(log[i].kvs)
      BY <1>1, <2>3, TakeOrder DEF Adds, First
    <3>2. Home(i, w)
      BY <1>1, <3>1 DEF Placed
    <3> HIDE DEF i
    <3>3. CASE log[i].region # log[j].region
      BY <3>1, <3>3 DEF Excused
    <3>4. CASE log[i].region = log[j].region
      <4>1. Home(j, w)
        BY <3>2, <3>4 DEF Home
      <4>2. ~Queued(j)
        BY <2>3 DEF Applied
      <4>3. j < i
        BY Zenon, <1>1, <1>2, <3>1, <4>1, <4>2 DEF InOrder
      <4>4. i > j
        <5>1. i \in Nat /\ j \in Nat
          BY <3>1 DEF StateInv, BInv, Shape
        <5> QED
          BY <4>3, <5>1
      <4> QED
        BY <3>1, <4>4 DEF Excused
    <3> QED
      BY <3>3, <3>4
  <2>4. ASSUME kv \in engine'
        PROVE  kv \in engine \/ \E v \in Worker : kv \in InHand(v)
    BY <2>4 DEF Effect, Keeps, Adds, Buffers, Ingests, Fails, Finishes
  <2>5. ASSUME NEW v \in Worker, kv \in InHand(v)'
        PROVE  kv \in InHand(v) \/ (Adds(w) /\ kv \in Range(First(w).kvs))
    BY <2>5, InHandStep
  <2> QED
    BY <1>2, <2>1, <2>2, <2>3, <2>4, <2>5
<1>3. \A kv, j : Excused(kv, j)' <=> Excused(kv, j)
  BY Zenon, <1>1 DEF Excused
<1> QED
  BY <1>1, <1>2, <1>3 DEF NoLeftover

\* A worker's step keeps events in place and pairs accounted for.
LEMMA WorkerStepKeeps ==
    ASSUME WInv, NEW w \in Worker, Effect(w)
    PROVE  PlaceInv' /\ DataInv'
<1>1. StateInv /\ PlaceInv /\ NothingVanishes /\ Origin /\ NoLeftover
  BY DEF WInv, DataInv
<1>2. PlaceInv'
  BY <1>1, EffectMoves, PlacedStep
<1>3. log' = log
  BY DEF Effect, OthersUntouched
<1>4. \A i \in DOMAIN log : \A kv \in Range(log[i].kvs) : Somewhere(i, kv)'
  BY <1>1, VanishesDef, SomewhereStep
<1>5. NothingVanishes'
  <2>1. \A i \in DOMAIN log' : \A kv \in Range(log'[i].kvs) : Somewhere(i, kv)'
    BY Zenon, <1>3, <1>4
  <2>2. (\A i \in DOMAIN log : \A kv \in Range(log[i].kvs) : Somewhere(i, kv))'
        => NothingVanishes'
    BY VanishesDef, PTL
  <2> QED
    BY <2>1, <2>2
<1> QED
  BY <1>1, <1>2, <1>5, OriginStep, LeftoverStep DEF DataInv

\* A dispatched event is the last of the log and of one queue, its home.
LEMMA DispatchStep ==
    ASSUME WInv, NEW event \in Event, Dispatch(event),
           Range(event.kvs) # {} => event.keys = {}
    PROVE  RestOK' /\ (\A v \in Worker : Settled(v)') /\ PlaceInv' /\ DataInv'
<1>1. PICK w \in Worker : /\ w = TargetWorker(event.region)
                          /\ event.region # 0 => event.region % NumWorkers = w
  <2>1. event.region \in Nat /\ NumWorkers \in Nat \ {0} /\ nextIdx \in Worker
    BY Zenon, WorkerAssumption DEF Event, WInv, StateInv
  <2>2. event.region % NumWorkers \in 0..(NumWorkers - 1)
    BY <2>1
  <2> QED
    BY <2>1, <2>2 DEF TargetWorker, Worker
<1>0. PICK n : n = Len(log) + 1
  OBVIOUS
<1>2. /\ log' = Append(log, event) /\ SameKindOfStream(event)
      /\ queue' = [queue EXCEPT ![w] = Append(@, n)]
      /\ UNCHANGED <<closed, pc, resumeAt, curRegion, kvBuf, kvSize, rangeBuf,
                     draining, engine, failed>>
  BY <1>0, <1>1 DEF Dispatch
<1>3. StateInv /\ LogOK /\ Placed /\ InOrder /\ NothingVanishes /\ Origin /\ NoLeftover
  BY DEF WInv, PlaceInv, DataInv
<1>4. log \in Seq(Event) /\ queue \in [Worker -> Seq(Nat)]
  BY <1>3 DEF StateInv, BInv, Shape
<1>5. /\ n \in Nat /\ n \notin DOMAIN log /\ DOMAIN log' = DOMAIN log \cup {n}
      /\ \A i \in DOMAIN log : i < n /\ i \in Nat
      /\ \A i \in DOMAIN log : log'[i] = log[i]
      /\ log'[n] = event
  <2>1. log' = Append(log, event)
    BY <1>2
  <2>2. Len(log) \in Nat /\ DOMAIN log = 1..Len(log)
    BY <1>4
  <2>3. DOMAIN log' = 1..n /\ \A i \in 1..Len(log) : log'[i] = log[i]
    BY <1>0, <1>4, <2>1
  <2>4. log'[n] = event
    BY <1>0, <1>4, <2>1
  <2> QED
    BY <1>0, <2>2, <2>3, <2>4
<1>6. /\ queue'[w] = Append(queue[w], n) /\ queue[w] \in Seq(Nat)
      /\ \A v \in Worker \ {w} : queue'[v] = queue[v]
  BY <1>1, <1>2, <1>4
<1>7. \A s \in Seq(Nat), e \in Nat : Range(Append(s, e)) = Range(s) \cup {e}
  BY RangeOfAppend
<1>8. /\ Waiting(w)' = Waiting(w) \cup {n}
      /\ \A v \in Worker \ {w} : Waiting(v)' = Waiting(v)
      /\ \A v \in Worker : Ranges(v)' = Ranges(v) /\ InHand(v)' = InHand(v)
  <2>1. Waiting(w)' = Waiting(w) \cup {n}
    BY Zenon, <1>5, <1>6, <1>7 DEF Waiting
  <2>2. \A v \in Worker \ {w} : Waiting(v)' = Waiting(v)
    BY Zenon, <1>6 DEF Waiting
  <2>3. \A v \in Worker : Ranges(v)' = Ranges(v) /\ InHand(v)' = InHand(v)
    BY Zenon, <1>2 DEF Ranges, InHand
  <2> QED
    BY <2>1, <2>2, <2>3
<1>9. RestOK'
  BY <1>2, <1>3 DEF StateInv, RestOK
<1>10. ASSUME NEW v \in Worker PROVE Settled(v)'
  <2>1. Settled(v) /\ (AddsNext(v) => queue[v] # <<>>)
    BY <1>3 DEF StateInv, BInv, Shape, AddsNext
  <2>2. AddsNext(v)' <=> AddsNext(v)
    BY Zenon, <1>2 DEF AddsNext
  <2>3. ASSUME queue[v] # <<>> PROVE First(v)' = First(v)
    <3>1. Head(queue[v]) \in DOMAIN log /\ queue[v] \in Seq(Nat)
      BY <1>3, <2>3, HeadFacts
    <3>2. Head(queue'[v]) = Head(queue[v])
      <4>1. CASE v # w
        BY <1>6, <4>1
      <4>2. CASE v = w
        <5>1. Head(Append(queue[w], n)) = Head(queue[w])
          BY <1>5, <1>6, <2>3, <4>2
        <5> QED
          BY Zenon, <1>6, <4>2, <5>1
      <4> QED
        BY <4>1, <4>2
    <3> QED
      BY <1>5, <3>1, <3>2 DEF First
  <2> QED
    BY <1>2, <2>1, <2>2, <2>3 DEF Settled
<1>11. /\ \A i \in DOMAIN log : \A v : Home(i, v)' <=> Home(i, v)
       /\ Home(n, w)'
  BY <1>1, <1>5 DEF Home
<1>12. LogOK'
  <2>1. \A i \in DOMAIN log : log[i].region = 0 <=> event.region = 0
    BY <1>2 DEF SameKindOfStream
  <2> QED
    BY <1>3, <1>5, <2>1 DEF LogOK
<1>13. Placed'
  <2>1. /\ \A v \in Worker : Waiting(v) \cup Ranges(v) \subseteq DOMAIN log
        /\ \A v \in Worker : \A i \in Waiting(v) \cup Ranges(v) : Home(i, v)
        /\ \A u, v \in Worker : Waiting(u) \cap Ranges(v) = {}
        /\ \A u, v \in Worker : u # v => Waiting(u) \cap Waiting(v) = {}
        /\ \A u, v \in Worker : u # v => Ranges(u) \cap Ranges(v) = {}
        /\ \A v \in Worker : \A k, m \in 1..Len(queue[v]) :
               k < m => queue[v][k] < queue[v][m]
    BY <1>3 DEF Placed
  <2>2. \A v \in Worker : Waiting(v)' \cup Ranges(v)' \subseteq DOMAIN log'
    BY <1>5, <1>8, <2>1
  <2>3. ASSUME NEW v \in Worker, NEW i \in Waiting(v)' \cup Ranges(v)'
        PROVE  Home(i, v)'
    <3>1. CASE i \in Waiting(v) \cup Ranges(v)
      BY <1>11, <2>1, <3>1
    <3>2. CASE i = n /\ v = w
      BY <1>11, <3>2
    <3> QED
      BY <1>8, <3>1, <3>2
  <2>4. ASSUME NEW v \in Worker, NEW k \in 1..Len(queue'[v]), NEW m \in 1..Len(queue'[v]),
               k < m
        PROVE  queue'[v][k] < queue'[v][m]
    <3>1. CASE v # w
      BY <1>6, <2>1, <2>4, <3>1
    <3>2. CASE v = w
      <4>1. /\ Len(queue[w]) \in Nat /\ Len(queue'[w]) = Len(queue[w]) + 1
            /\ queue'[w][Len(queue[w]) + 1] = n
            /\ \A x \in 1..Len(queue[w]) : queue'[w][x] = queue[w][x]
        BY <1>5, <1>6
      <4>2. k \in 1..Len(queue[w])
        BY <2>4, <3>2, <4>1
      <4>3. queue[w][k] \in Waiting(w)
        BY <1>6, <4>2 DEF Waiting, Range
      <4>4. queue[w][k] < n
        BY <1>1, <1>5, <2>1, <4>3
      <4>5. CASE m = Len(queue[w]) + 1
        BY <3>2, <4>1, <4>2, <4>4, <4>5
      <4>6. CASE m \in 1..Len(queue[w])
        BY <1>1, <2>1, <2>4, <3>2, <4>1, <4>2, <4>6
      <4> QED
        BY <3>2, <4>1, <4>5, <4>6
    <3> QED
      BY <3>1, <3>2
  <2>8. \A v \in Worker : n \notin Waiting(v) /\ n \notin Ranges(v)
    BY <1>5, <2>1
  <2>9. \A v \in Worker : Waiting(v)' \subseteq Waiting(v) \cup {n}
    BY <1>8
  <2>5. \A u, v \in Worker : Waiting(u)' \cap Ranges(v)' = {}
    <3>1. \A v \in Worker : Ranges(v)' = Ranges(v)
      BY <1>8
    <3>2. \A u, v \in Worker : Waiting(u) \cap Ranges(v) = {}
      BY <2>1
    <3> QED
      BY <2>8, <2>9, <3>1, <3>2
  <2>6. \A u, v \in Worker : u # v => Waiting(u)' \cap Waiting(v)' = {}
    <3>1. \A v \in Worker : v # w => Waiting(v)' = Waiting(v)
      BY <1>8
    <3>2. \A u, v \in Worker : u # v => Waiting(u) \cap Waiting(v) = {}
      BY <2>1
    <3>3. ASSUME NEW u \in Worker, NEW v \in Worker, u # v
          PROVE  Waiting(u)' \cap Waiting(v)' = {}
      <4>1. Waiting(u) \cap Waiting(v) = {}
        BY <3>2, <3>3
      <4>2. u # w \/ v # w
        BY <3>3
      <4> QED
        BY <2>8, <2>9, <3>1, <4>1, <4>2
    <3> QED
      BY <3>3
  <2>7. \A u, v \in Worker : u # v => Ranges(u)' \cap Ranges(v)' = {}
    BY <1>8, <2>1
  <2> QED
    BY <2>2, <2>3, <2>4, <2>5, <2>6, <2>7 DEF Placed
<1>14. \A j : Queued(j)' <=> Queued(j) \/ j = n
  <2>1. \A j : Queued(j) <=> \E v \in Worker : j \in Waiting(v)
    BY DEF Queued, Waiting
  <2>2. \A j : Queued(j)' <=> \E v \in Worker : j \in Waiting(v)'
    BY DEF Queued, Waiting
  <2> QED
    BY <1>1, <1>8, <2>1, <2>2
<1>15. \A j \in DOMAIN log : Applied(j)' <=> Applied(j)
  <2>1. \A j : Applied(j) <=> ~Queued(j) /\ \A v \in Worker : j \notin Ranges(v)
    BY DEF Applied, Ranges
  <2>2. \A j : Applied(j)' <=> ~Queued(j)' /\ \A v \in Worker : j \notin Ranges(v)'
    BY DEF Applied, Ranges
  <2> QED
    BY <1>5, <1>8, <1>14, <2>1, <2>2
<1>16. InOrder'
  <2> SUFFICES ASSUME NEW v \in Worker, NEW j \in DOMAIN log', NEW i \in Waiting(v)',
                      log'[j].region # 0, Home(j, v)', ~Queued(j)'
               PROVE  j < i
    BY DEF InOrder
  <2>1. j \in DOMAIN log /\ ~Queued(j)
    BY <1>5, <1>14
  <2>2. CASE i = n
    BY <1>5, <2>1, <2>2
  <2>3. CASE i \in Waiting(v)
    BY <1>3, <1>5, <1>11, <2>1, <2>3 DEF InOrder
  <2> QED
    BY <1>8, <2>2, <2>3
<1>17. NothingVanishes'
  <2>1. ASSUME NEW i \in DOMAIN log', NEW kv \in Range(log'[i].kvs)
        PROVE  Somewhere(i, kv)'
    <3>1. CASE i = n
      BY <1>14, <3>1 DEF Somewhere
    <3>2. CASE i \in DOMAIN log
      <4>1. Somewhere(i, kv)
        BY <1>3, <1>5, <3>2, VanishesDef
      <4> QED
        BY <1>2, <1>5, <1>8, <1>14, <1>15, <4>1 DEF Somewhere
    <3> QED
      BY <1>5, <3>1, <3>2
  <2>2. (\A i \in DOMAIN log : \A kv \in Range(log[i].kvs) : Somewhere(i, kv))'
        => NothingVanishes'
    BY VanishesDef, PTL
  <2> QED
    BY <2>1, <2>2
<1>18. Origin'
  BY <1>3, <1>5, <1>8, <1>11 DEF Origin
<1>19. NoLeftover'
  <2> SUFFICES ASSUME NEW j \in DOMAIN log', NEW kv \in Kv, log'[j].region # 0,
                      kv.key \in log'[j].keys, Applied(j)',
                      kv \in engine' \/ \E v \in Worker : kv \in InHand(v)'
               PROVE  Excused(kv, j)'
    BY DEF NoLeftover
  <2>1. j \in DOMAIN log
    BY <1>5, <1>14 DEF Applied
  <2>2. Excused(kv, j)
    BY <1>2, <1>3, <1>5, <1>8, <1>15, <2>1 DEF NoLeftover
  <2> QED
    BY <1>5, <2>1, <2>2 DEF Excused
<1> QED
  BY <1>9, <1>10, <1>12, <1>13, <1>16, <1>17, <1>18, <1>19 DEF PlaceInv, DataInv

\* The invariant holds when the loop starts its workers.
LEMMA WInvInit == Init => WInv
<1> SUFFICES ASSUME Init PROVE WInv
  OBVIOUS
<1>1. BInv /\ nextIdx \in Worker
  BY WorkerAssumption DEF Init, BInv, Shape, Accounted, Worker
<1>2. RestOK
  <2>1. /\ curRegion \in [Worker -> RegionId \cup {0}]
        /\ rangeBuf \in [Worker -> Seq(Nat)]
        /\ draining \in [Worker -> SUBSET Drained]
    BY DEF Init
  <2>2. closed \in BOOLEAN /\ engine \subseteq Kv /\ failed \subseteq Kv
    BY DEF Init
  <2> QED
    BY <2>1, <2>2 DEF RestOK
<1>3. \A w \in Worker : Settled(w)
  BY DEF Init, Settled, AddsNext
<1>4. \A w \in Worker : Waiting(w) = {} /\ Ranges(w) = {} /\ InHand(w) = {} /\ queue[w] = <<>>
  <2>1. \A w \in Worker : /\ queue[w] = <<>> /\ rangeBuf[w] = <<>>
                          /\ kvBuf[w] = <<>> /\ draining[w] = {}
    BY DEF Init
  <2>2. Pairs({}) = {}
    BY DEF Pairs
  <2> QED
    BY <2>1, <2>2, RangeOfEmpty DEF Waiting, Ranges, InHand
<1>5. DOMAIN log = {}
  BY DEF Init
<1>6. PlaceInv
  <2>1. LogOK /\ InOrder
    BY Zenon, <1>5 DEF LogOK, InOrder
  <2>2. \A w \in Worker : 1..Len(queue[w]) = {}
    BY <1>4
  <2>3. Placed
    <3>1. \A w \in Worker : Waiting(w) \cup Ranges(w) = {}
      BY Zenon, <1>4
    <3>2. /\ \A v, w \in Worker : Waiting(v) \cap Ranges(w) = {}
          /\ \A v, w \in Worker : Waiting(v) \cap Waiting(w) = {}
          /\ \A v, w \in Worker : Ranges(v) \cap Ranges(w) = {}
      BY Zenon, <1>4
    <3> QED
      BY Zenon, <2>2, <3>1, <3>2 DEF Placed
  <2> QED
    BY Zenon, <2>1, <2>3 DEF PlaceInv
<1>7. DataInv
  BY <1>4, <1>5 DEF DataInv, NothingVanishes, Origin, NoLeftover
<1> QED
  BY <1>1, <1>2, <1>3, <1>6, <1>7 DEF WInv, StateInv

\* Every step of the loop or of a worker keeps the invariant.
LEMMA WInvStep ==
    ASSUME WInv, [Next]_vars
    PROVE  WInv'
<1>1. BInv' /\ nextIdx' \in Worker
  BY BInvStep, NextIdxStep DEF WInv, StateInv
<1>2. CASE DispatchKvBatch
  <2>1. PICK r \in RegionId, b \in Batch :
            Dispatch([region |-> r, kvs |-> b, keys |-> {}])
    BY <1>2 DEF DispatchKvBatch
  <2>2. [region |-> r, kvs |-> b, keys |-> {}] \in Event
    BY WorkerAssumption DEF Event
  <2> QED
    BY <1>1, <2>1, <2>2, DispatchStep DEF WInv, StateInv
<1>3. CASE DispatchDeleteRange
  <2>1. PICK r \in RegionId, ks \in KeyRange :
            Dispatch([region |-> r, kvs |-> <<>>, keys |-> ks])
    BY <1>3 DEF DispatchDeleteRange
  <2>2. [region |-> r, kvs |-> <<>>, keys |-> ks] \in Event
    BY WorkerAssumption DEF Event
  <2> QED
    BY <1>1, <2>1, <2>2, DispatchStep, RangeOfEmpty DEF WInv, StateInv
<1>4. ASSUME NEW w \in Worker, WorkerStep(w) PROVE WInv'
  <2>1. Effect(w) /\ RestOK' /\ \A v \in Worker : Settled(v)'
    BY <1>4, WorkerEffect DEF WInv
  <2> QED
    BY <1>1, <2>1, WorkerStepKeeps DEF WInv, StateInv
<1>5. CASE Close \/ UNCHANGED vars
  <2>1. /\ UNCHANGED <<log, queue, pc, resumeAt, curRegion, kvBuf, rangeBuf,
                       draining, engine, failed>>
        /\ closed' = TRUE \/ closed' = closed
    BY <1>5 DEF Close, vars, loopVars
  <2>2. RestOK'
    BY <2>1 DEF WInv, StateInv, RestOK
  <2>3. \A v \in Worker : Settled(v)'
    BY Zenon, <2>1 DEF WInv, StateInv, Settled, AddsNext, First
  <2>4. PlaceInv'
    BY Zenon, <2>1 DEF WInv, PlaceInv, LogOK, Placed, InOrder, Home, Waiting, Ranges,
                       Queued
  <2>5. DataInv'
    <3>1. NothingVanishes'
      BY Zenon, <2>1 DEF WInv, DataInv, NothingVanishes, Queued, Applied
    <3>2. Origin'
      BY Zenon, <2>1 DEF WInv, DataInv, Origin, InHand, Home
    <3>3. NoLeftover'
      <4>1. /\ \A kv, j : Excused(kv, j)' <=> Excused(kv, j)
            /\ \A j : Applied(j)' <=> Applied(j)
            /\ \A v : InHand(v)' = InHand(v)
        BY Zenon, <2>1 DEF Excused, Applied, Queued, InHand
      <4> QED
        BY Zenon, <2>1, <4>1 DEF WInv, DataInv, NoLeftover
    <3> QED
      BY <3>1, <3>2, <3>3 DEF DataInv
  <2> QED
    BY <1>1, <2>2, <2>3, <2>4, <2>5 DEF WInv, StateInv
<1> QED
  BY <1>2, <1>3, <1>4, <1>5 DEF Next

\* WInv is an invariant.
LEMMA WInvHolds == Spec => []WInv
<1>1. Init => WInv
  BY WInvInit
<1>2. WInv /\ [Next]_vars => WInv'
  BY WInvStep
<1> QED
  BY <1>1, <1>2, PTL DEF Spec

\* Every variable keeps its type; nextIdx stays the index of a worker although
\* the counter behind it never stops.
THEOREM WorkersTypeCorrect == Spec => []TypeOK
<1>1. WInv => TypeOK
  BY DEF WInv, StateInv, BInv, Shape, RestOK, TypeOK
<1> QED
  BY <1>1, WInvHolds, PTL

\* A pair handed to a worker is never lost silently: it is on its way, in the
\* engine, reported by a failed flush or covered by an applied delete range, for
\* every number of workers and regions and every interleaving of their flushes.
THEOREM NothingVanishesHolds == Spec => []NothingVanishes
<1>1. WInv => NothingVanishes
  BY DEF WInv, DataInv
<1> QED
  BY <1>1, WInvHolds, PTL

\* With events routed by region, an applied delete range leaves nothing of what
\* its region wrote before it, in the engine or on the way there.
THEOREM RangeRemovesEarlierHolds == Spec => []RangeRemovesEarlier
<1>1. WInv => RangeRemovesEarlier
  <2>1. WInv => NoLeftover /\ engine \subseteq Kv
    BY DEF WInv, DataInv, StateInv, RestOK
  <2> QED
    BY <2>1 DEF NoLeftover, Excused, RangeRemovesEarlier
<1> QED
  BY <1>1, WInvHolds, PTL
===============================================================================
