--------------------------- MODULE Pipeline_proofs ---------------------------
(***************************************************************************)
(* Proofs about the consumer pipeline, for every number of workers, commits*)
(* and crashes and every outcome of a flush or a checkpoint write: what    *)
(* the checkpoint file covers is accounted for, no commit is skipped, and  *)
(* the pipeline implements the safety part of Replication.                 *)
(*                                                                         *)
(* None of the properties is inductive.  CheckpointAccounted needs to know *)
(* that a checkpoint still on the wire is preceded by the data it covers;  *)
(* the refinement needs that checkpoints on the wire never lie below the   *)
(* file, so that the file never moves back.  PInv collects these facts.    *)
(***************************************************************************)
EXTENDS Pipeline, TLAPS

IsCheckpoint(e) == e.kind = "checkpoint"

\* Only commits are stored, dropped, buffered or on the wire.
OnlyCommits ==
    /\ engine \cup lost \cup InMemory \subseteq 1..committed
    /\ \A i \in 1..Len(wire) : wire[i].ts \in 1..committed

\* Checkpoints come in order: the file, then the frontier, then the wire.
Ordered ==
    /\ ckptFile <= resolved /\ frontier <= resolved
    /\ frontier # 0 => ckptFile <= frontier
    /\ \A i \in 1..Len(wire) : IsCheckpoint(wire[i]) =>
          /\ ckptFile <= wire[i].ts
          /\ frontier <= wire[i].ts
          /\ wire[i].ts <= resolved
          /\ \A j \in 1..Len(wire) : i <= j /\ IsCheckpoint(wire[j]) =>
                wire[i].ts <= wire[j].ts

OnWire(t, n) == \E j \in 1..n : wire[j] = Data(t)

\* What a checkpoint covers was accounted for before it, wherever it is.
Covers ==
    /\ \A t \in 1..ckptFile : Accounted(t)
    /\ \A t \in 1..frontier : Accounted(t)
    /\ \A i \in 1..Len(wire) : IsCheckpoint(wire[i]) =>
          \A t \in 1..(wire[i].ts) : Accounted(t) \/ OnWire(t, i - 1)
    /\ running => \A t \in 1..sent : Accounted(t) \/ OnWire(t, Len(wire))
    /\ ~running => wire = <<>>

PInv == TypeOK /\ OnlyCommits /\ Ordered /\ Covers

-----------------------------------------------------------------------------
(* What the target knows of *)

Known == engine \cup lost \cup InMemory

LEMMA AccountedIsKnown == \A t : Accounted(t) <=> t \in Known
BY DEF Accounted, Known

\* A commit is in memory when some worker's buffer, live or orphaned, holds it.
LEMMA InMemoryIff ==
    \A t : t \in InMemory <=> \/ \E w \in Worker : t \in Range(buf[w])
                             \/ \E kvs \in orphans : t \in Range(kvs)
BY DEF InMemory, Held

LEMMA InMemoryIffNext ==
    \A t : t \in InMemory' <=> \/ \E w \in Worker : t \in Range(buf'[w])
                              \/ \E kvs \in orphans' : t \in Range(kvs)
BY DEF InMemory, Held

LEMMA RangeOfEmpty == Range(<<>>) = {}
BY DEF Range

LEMMA RangeOfAppend ==
    ASSUME NEW S, NEW s \in Seq(S), NEW e \in S
    PROVE  Range(Append(s, e)) = Range(s) \cup {e}
<1>1. /\ Len(s) \in Nat /\ DOMAIN s = 1..Len(s)
      /\ DOMAIN Append(s, e) = 1..(Len(s) + 1)
      /\ \A i \in 1..Len(s) : Append(s, e)[i] = s[i]
      /\ Append(s, e)[Len(s) + 1] = e
  OBVIOUS
<1>2. 1..(Len(s) + 1) = 1..Len(s) \cup {Len(s) + 1}
  BY <1>1
<1> QED
  BY <1>1, <1>2 DEF Range

LEMMA SameBuffers ==
    ASSUME UNCHANGED <<buf, orphans>>
    PROVE  InMemory' = InMemory
BY Zenon, InMemoryIff, InMemoryIffNext

\* A loop that ends hands its workers' buffers over to the orphans.
LEMMA DropKeepsMemory ==
    ASSUME DropComponents
    PROVE  InMemory' = InMemory
<1>1. /\ \A w \in Worker : buf'[w] = <<>>
      /\ \A kvs : kvs \in orphans' <=>
            kvs \in orphans \/ (kvs # <<>> /\ \E w \in Worker : kvs = buf[w])
  BY DEF DropComponents, NoBuffers, Held
<1>2. ASSUME NEW t, t \in InMemory'
      PROVE  t \in InMemory
  <2>1. PICK kvs \in orphans' : t \in Range(kvs)
    BY <1>1, <1>2, InMemoryIffNext, RangeOfEmpty
  <2> QED
    BY <1>1, <2>1, InMemoryIff
<1>3. ASSUME NEW t, t \in InMemory
      PROVE  t \in InMemory'
  <2>1. CASE \E kvs \in orphans : t \in Range(kvs)
    BY <1>1, <2>1, InMemoryIffNext
  <2>2. CASE \E w \in Worker : t \in Range(buf[w])
    <3>1. PICK w \in Worker : t \in Range(buf[w])
      BY <2>2
    <3>2. buf[w] # <<>>
      BY <3>1, RangeOfEmpty
    <3> QED
      BY <1>1, <3>1, <3>2, InMemoryIffNext
  <2> QED
    BY <1>3, <2>1, <2>2, InMemoryIff
<1> QED
  BY <1>2, <1>3

\* A flush moves its buffer to the engine or to the lost commits.
LEMMA FlushBufferSettles ==
    ASSUME NEW kvs, FlushBuffer(kvs)
    PROVE  engine' \cup lost' = engine \cup lost \cup Range(kvs)
BY DEF FlushBuffer

LEMMA FlushKnown ==
    ASSUME TypeOK, NEW w \in Worker, Flush(w)
    PROVE  Known' = Known
<1>1. /\ FlushBuffer(buf[w]) /\ orphans' = orphans
      /\ buf'[w] = <<>> /\ \A v \in Worker \ {w} : buf'[v] = buf[v]
  BY DEF Flush, TypeOK
<1>2. engine' \cup lost' = engine \cup lost \cup Range(buf[w])
  BY <1>1, FlushBufferSettles
<1>3. ASSUME NEW t
      PROVE  t \in InMemory' \cup Range(buf[w]) <=> t \in InMemory \cup Range(buf[w])
  BY <1>1, InMemoryIff, InMemoryIffNext, RangeOfEmpty
<1>4. Range(buf[w]) \subseteq InMemory
  BY InMemoryIff
<1> QED
  BY <1>2, <1>3, <1>4 DEF Known

LEMMA FlushOrphanKnown ==
    ASSUME NEW kvs \in orphans, FlushOrphan(kvs)
    PROVE  Known' = Known
<1>1. FlushBuffer(kvs) /\ orphans' = orphans \ {kvs} /\ buf' = buf
  BY DEF FlushOrphan
<1>2. engine' \cup lost' = engine \cup lost \cup Range(kvs)
  BY <1>1, FlushBufferSettles
<1>3. ASSUME NEW t
      PROVE  t \in InMemory' \cup Range(kvs) <=> t \in InMemory \cup Range(kvs)
  BY <1>1, InMemoryIff, InMemoryIffNext
<1>4. Range(kvs) \subseteq InMemory
  BY InMemoryIff
<1> QED
  BY <1>2, <1>3, <1>4 DEF Known

LEMMA CrashKnown ==
    ASSUME Crash
    PROVE  Known' = Known /\ InMemory' = {}
<1>1. /\ \A w \in Worker : buf'[w] = <<>>
      /\ orphans' = {} /\ engine' = engine /\ lost' = lost \cup InMemory
  BY DEF Crash, NoBuffers
<1>2. InMemory' = {}
  BY <1>1, InMemoryIffNext, RangeOfEmpty
<1> QED
  BY <1>1, <1>2 DEF Known

\* The event loop learns of one more commit when it receives its data.
LEMMA ReceiveDataKnown ==
    ASSUME TypeOK, ReceiveData
    PROVE  Known' = Known \cup {wire[1].ts}
<1>1. /\ wire \in Seq(Event) /\ wire # <<>> /\ wire[1] \in Event /\ Head(wire) = wire[1]
      /\ nextIdx \in Worker
  BY DEF ReceiveData, TypeOK
<1>2. wire[1].ts \in Ts
  BY <1>1 DEF Event
<1>3. /\ engine' = engine /\ lost' = lost /\ orphans' = orphans
      /\ buf'[nextIdx] = Append(buf[nextIdx], wire[1].ts)
      /\ \A v \in Worker \ {nextIdx} : buf'[v] = buf[v]
  BY <1>1 DEF ReceiveData, TypeOK
<1>4. Range(buf'[nextIdx]) = Range(buf[nextIdx]) \cup {wire[1].ts}
  <2>1. buf[nextIdx] \in Seq(Ts)
    BY <1>1 DEF TypeOK
  <2> QED
    BY <1>2, <1>3, <2>1, RangeOfAppend
<1>5. InMemory' = InMemory \cup {wire[1].ts}
  <2>1. ASSUME NEW t
        PROVE  t \in InMemory' <=> t \in InMemory \cup {wire[1].ts}
    BY Zenon, <1>1, <1>3, <1>4, InMemoryIff, InMemoryIffNext
  <2> QED
    BY <2>1
<1> QED
  BY <1>3, <1>5 DEF Known

-----------------------------------------------------------------------------
(* Types *)

LEMMA RecordTypes ==
    ASSUME TypeOK, NEW ts \in Ts, Record(ts)
    PROVE  lastRec' \in Ts /\ ckptFile' \in Ts /\ ckptFile' \in {ckptFile, ts}
BY DEF Record, TypeOK

LEMMA DropTypes ==
    ASSUME TypeOK, DropComponents
    PROVE  /\ running' = FALSE /\ wire' = <<>>
           /\ wire' \in Seq(Event)
           /\ buf' \in [Worker -> Seq(Ts)]
           /\ orphans' \subseteq Seq(Ts)
<1>1. Held \subseteq Seq(Ts)
  BY DEF TypeOK, Held
<1>2. NoBuffers \in [Worker -> Seq(Ts)]
  BY DEF NoBuffers
<1> QED
  BY <1>1, <1>2 DEF DropComponents, TypeOK

LEMMA FlushBufferTypes ==
    ASSUME TypeOK, NEW kvs \in Seq(Ts), FlushBuffer(kvs)
    PROVE  engine' \subseteq Ts /\ lost' \subseteq Ts
<1>1. Range(kvs) \subseteq Ts
  BY DEF Range
<1> QED
  BY <1>1 DEF FlushBuffer, TypeOK

LEMMA HeadIsEvent ==
    ASSUME TypeOK, wire # <<>>
    PROVE  /\ Head(wire) = wire[1] /\ wire[1] \in Event /\ wire[1].ts \in Ts
           /\ 1 \in 1..Len(wire)
           /\ Tail(wire) \in Seq(Event)
           /\ Len(Tail(wire)) = Len(wire) - 1
           /\ \A i \in 1..Len(Tail(wire)) : i + 1 \in 1..Len(wire) /\ Tail(wire)[i] = wire[i + 1]
<1>1. wire \in Seq(Event) /\ Len(wire) \in Nat /\ Len(wire) # 0
  BY DEF TypeOK
<1>2. /\ Head(wire) = wire[1] /\ wire[1] \in Event
      /\ Tail(wire) \in Seq(Event)
      /\ Len(Tail(wire)) = Len(wire) - 1
      /\ \A i \in 1..(Len(wire) - 1) : Tail(wire)[i] = wire[i + 1]
  BY <1>1
<1> QED
  BY <1>1, <1>2 DEF Event

LEMMA ExitLoopTypes ==
    ASSUME TypeOK, NEW new \in {"Paused", "Subscribing", "CuttingOver", "Completed",
                               "Activated", "Idle"},
           ExitLoop(new)
    PROVE  TypeOK'
<1>1. lastRec' \in Ts /\ ckptFile' \in Ts
  BY RecordTypes DEF ExitLoop, TypeOK
<1>2. /\ running' = FALSE /\ wire' \in Seq(Event)
      /\ buf' \in [Worker -> Seq(Ts)] /\ orphans' \subseteq Seq(Ts)
  BY DropTypes DEF ExitLoop
<1> QED
  BY Zenon, <1>1, <1>2 DEF ExitLoop, TypeOK, sourceVars

LEMMA SpawnTypes ==
    ASSUME TypeOK, NEW ts \in Ts, ts <= committed, Spawn(ts)
    PROVE  TypeOK'
<1>1. sent' \in 0..committed' /\ frontier' \in Ts /\ lastRec' \in Ts
  BY PipelineAssumption DEF Spawn, TypeOK, sourceVars, Ts
<1> QED
  BY <1>1 DEF Spawn, TypeOK, sourceVars

LEMMA ReceiveDataTypes ==
    ASSUME TypeOK, ReceiveData
    PROVE  TypeOK'
<1>1. Tail(wire) \in Seq(Event) /\ Head(wire).ts \in Ts
  BY HeadIsEvent DEF ReceiveData
<1>2. buf' \in [Worker -> Seq(Ts)]
  BY <1>1 DEF ReceiveData, TypeOK
<1>3. nextIdx' \in Worker
  BY PipelineAssumption DEF ReceiveData, TypeOK, Worker
<1> QED
  BY <1>1, <1>2, <1>3 DEF ReceiveData, TypeOK, sourceVars

LEMMA ReceiveCheckpointTypes ==
    ASSUME TypeOK, ReceiveCheckpoint
    PROVE  TypeOK'
<1>1. Tail(wire) \in Seq(Event) /\ Head(wire).ts \in Ts
  BY HeadIsEvent DEF ReceiveCheckpoint
<1>2. frontier' \in Ts /\ lastRec' \in Ts /\ ckptFile' \in Ts
  BY <1>1, RecordTypes DEF ReceiveCheckpoint
<1>3. /\ running' \in BOOLEAN /\ wire' \in Seq(Event)
      /\ buf' \in [Worker -> Seq(Ts)] /\ orphans' \subseteq Seq(Ts)
      /\ state' \in {"Paused", "Subscribing", "CuttingOver", "Completed",
                     "Activated", "Idle"}
  <2>1. CASE DropComponents /\ state' = Reported
    BY Zenon, <2>1, DropTypes DEF Reported, TypeOK
  <2>2. CASE wire' = Tail(wire) /\ UNCHANGED <<running, buf, orphans, state>>
    BY <1>1, <2>2 DEF TypeOK
  <2> QED
    BY Zenon, <2>1, <2>2 DEF ReceiveCheckpoint
<1> QED
  BY <1>2, <1>3 DEF ReceiveCheckpoint, TypeOK, sourceVars

\* Steps keep the type invariant; a new stream starts at a commit because the
\* checkpoint file never passes the resolved timestamp.
LEMMA TypeStep ==
    ASSUME PInv, [Next]_vars
    PROVE  TypeOK'
<1> USE DEF PInv
<1>0. ckptFile \in Ts /\ ckptFile <= committed /\ 0 \in Ts /\ 0 <= committed
  BY PipelineAssumption DEF TypeOK, Ordered, Ts
<1>1. CASE Commit
  BY <1>1, PipelineAssumption DEF Commit, TypeOK, Ts, loopVars
<1>2. CASE SendData
  <2>1. sent + 1 \in Ts /\ sent' \in 0..committed
    BY <1>2, PipelineAssumption DEF SendData, TypeOK, Ts
  <2>2. wire' \in Seq(Event)
    BY <1>2, <2>1 DEF SendData, TypeOK, Data, Event
  <2> QED
    BY <1>2, <2>1, <2>2 DEF SendData, TypeOK, sourceVars
<1>3. CASE SendCheckpoint
  <2>1. PICK r \in resolved..sent :
            r # 0 /\ resolved' = r /\ wire' = Append(wire, Checkpoint(r))
    BY <1>3 DEF SendCheckpoint
  <2>2. r \in Ts /\ r \in 0..committed
    BY <2>1, PipelineAssumption DEF TypeOK, Ts
  <2>3. wire' \in Seq(Event)
    BY <2>1, <2>2 DEF TypeOK, Checkpoint, Event
  <2> QED
    BY <1>3, <2>1, <2>2, <2>3 DEF SendCheckpoint, TypeOK
<1>4. CASE ReceiveData
  BY <1>4, ReceiveDataTypes
<1>5. CASE ReceiveCheckpoint
  BY <1>5, ReceiveCheckpointTypes
<1>6. CASE CutoverCheck
  BY <1>6, ExitLoopTypes DEF CutoverCheck, Reported, TypeOK
<1>7. ASSUME NEW w \in Worker, Flush(w)
      PROVE  TypeOK'
  <2>1. engine' \subseteq Ts /\ lost' \subseteq Ts
    BY <1>7, FlushBufferTypes DEF Flush, TypeOK
  <2> QED
    BY <1>7, <2>1 DEF Flush, TypeOK, sourceVars
<1>8. ASSUME NEW kvs \in orphans, FlushOrphan(kvs)
      PROVE  TypeOK'
  <2>1. engine' \subseteq Ts /\ lost' \subseteq Ts
    BY <1>8, FlushBufferTypes DEF FlushOrphan, TypeOK
  <2> QED
    BY <1>8, <2>1 DEF FlushOrphan, TypeOK, sourceVars
<1>9. CASE CreateReplication \/ StartReplication \/ ResumeReplication
  BY <1>0, <1>9, SpawnTypes DEF CreateReplication, StartReplication, ResumeReplication
<1>10. ASSUME NEW new \in {"Paused", "Completed"}, Stop(new)
       PROVE  TypeOK'
  <2>1. CASE ExitLoop(new)
    BY <2>1, ExitLoopTypes
  <2>2. CASE state' = new /\ UNCHANGED <<sourceVars, sent, loopVars, target, engine, lost,
                                          crashes>>
    BY <2>2 DEF TypeOK, sourceVars, loopVars
  <2> QED
    BY <1>10, <2>1, <2>2 DEF Stop
<1>11. CASE Cutover
  BY <1>11, PipelineAssumption DEF Cutover, TypeOK, Ts, sourceVars, loopVars
<1>12. CASE Activate
  BY <1>0, <1>12 DEF Activate, TypeOK, sourceVars
<1>13. CASE Crash
  <2>1. InMemory \subseteq Ts
    BY PipelineAssumption DEF OnlyCommits, TypeOK, Ts
  <2>2. /\ NoBuffers \in [Worker -> Seq(Ts)] /\ 0 \in Worker
        /\ LoadPersistedState \in {"Paused", "Idle"}
    BY PipelineAssumption DEF NoBuffers, Worker, LoadPersistedState
  <2>3. ckptFile' \in Ts
    BY <1>0, <1>13 DEF Crash
  <2>4. <<>> \in Seq(Event)
    OBVIOUS
  <2>5. crashes' \in Nat
    BY <1>13 DEF Crash, TypeOK
  <2>6. lost' \subseteq Ts
    BY <1>13, <2>1 DEF Crash, TypeOK
  <2> QED
    BY Zenon, <1>0, <1>13, <2>2, <2>3, <2>4, <2>5, <2>6 DEF Crash, TypeOK, sourceVars
<1>14. CASE UNCHANGED vars
  BY <1>14 DEF TypeOK, vars, sourceVars, loopVars
<1> QED
  BY <1>1, <1>2, <1>3, <1>4, <1>5, <1>6, <1>7, <1>8, <1>9, <1>10, <1>11, <1>12, <1>13,
     <1>14 DEF Next, Loop, Command, PauseReplication, Shutdown

-----------------------------------------------------------------------------
(* The invariant, one kind of step at a time *)

LEMMA AccountedIsKnownNext == \A t : Accounted(t)' <=> t \in Known'
BY DEF Accounted, Known

\* The covers, in terms of what is known.
LEMMA CoversIff ==
    Covers <=>
      /\ \A t \in 1..ckptFile : t \in Known
      /\ \A t \in 1..frontier : t \in Known
      /\ \A i \in 1..Len(wire) : IsCheckpoint(wire[i]) =>
            \A t \in 1..(wire[i].ts) : t \in Known \/ OnWire(t, i - 1)
      /\ running => \A t \in 1..sent : t \in Known \/ OnWire(t, Len(wire))
      /\ ~running => wire = <<>>
BY AccountedIsKnown DEF Covers

LEMMA CoversIffNext ==
    Covers' <=>
      /\ \A t \in 1..ckptFile' : t \in Known'
      /\ \A t \in 1..frontier' : t \in Known'
      /\ \A i \in 1..Len(wire') : IsCheckpoint(wire'[i]) =>
            \A t \in 1..(wire'[i].ts) : t \in Known' \/ OnWire(t, i - 1)'
      /\ running' => \A t \in 1..sent' : t \in Known' \/ OnWire(t, Len(wire))'
      /\ ~running' => wire' = <<>>
BY AccountedIsKnownNext DEF Covers

\* A step that neither moves the stream nor changes what is known.
LEMMA QuietStep ==
    ASSUME PInv, TypeOK', Known' = Known,
           UNCHANGED <<wire, running, frontier, resolved, sent>>,
           ckptFile' \in {0, ckptFile},
           committed' >= committed
    PROVE  PInv'
<1> USE DEF PInv
<1>1. OnlyCommits'
  <2>1. 1..committed \subseteq 1..committed'
    BY PipelineAssumption DEF TypeOK, Ts
  <2> QED
    BY <2>1 DEF OnlyCommits, Known
<1>2. Ordered'
  <2>1. ckptFile' <= ckptFile /\ ckptFile' \in Nat /\ ckptFile \in Nat
    BY PipelineAssumption DEF TypeOK, Ts
  <2>2. /\ frontier \in Nat /\ resolved \in Nat
        /\ \A i \in 1..Len(wire) : wire[i] \in Event
    BY PipelineAssumption DEF TypeOK, Ts
  <2>3. \A i \in 1..Len(wire) : wire[i].ts \in Nat
    BY <2>2, PipelineAssumption DEF Event, Ts
  <2> QED
    BY <2>1, <2>2, <2>3 DEF Ordered, IsCheckpoint
<1>3. Covers'
  <2>1. \A t, n : OnWire(t, n)' <=> OnWire(t, n)
    BY DEF OnWire, Data
  <2>2. \A t \in 1..ckptFile' : t \in 1..ckptFile
    BY DEF TypeOK, Ts
  <2> QED
    BY <2>1, <2>2, CoversIff, CoversIffNext
<1> QED
  BY <1>1, <1>2, <1>3

\* A step that ends the stream.
LEMMA EndStep ==
    ASSUME PInv, TypeOK', Known' = Known,
           wire' = <<>>, running' = FALSE,
           UNCHANGED <<resolved, committed>>,
           ckptFile' <= resolved, frontier' <= resolved,
           frontier' # 0 => ckptFile' <= frontier',
           \A t \in 1..ckptFile' : t \in Known,
           \A t \in 1..frontier' : t \in Known
    PROVE  PInv'
<1> USE DEF PInv
<1>1. OnlyCommits'
  BY DEF OnlyCommits, Known
<1>2. Ordered'
  BY DEF Ordered
<1>3. Covers'
  BY CoversIffNext
<1> QED
  BY <1>1, <1>2, <1>3

\* What record_checkpoint may do to the file.
LEMMA RecordChoices ==
    ASSUME NEW ts, Record(ts)
    PROVE  ckptFile' = ckptFile \/ (ts # 0 /\ ckptFile' = ts)
BY DEF Record

LEMMA ExitLoopStep ==
    ASSUME PInv, TypeOK', NEW new, ExitLoop(new)
    PROVE  PInv'
<1>1. Known' = Known
  BY DropKeepsMemory DEF ExitLoop, Known
<1>2. /\ ckptFile' = ckptFile \/ (frontier # 0 /\ ckptFile' = frontier)
      /\ frontier' = frontier /\ resolved' = resolved /\ committed' = committed
      /\ wire' = <<>> /\ running' = FALSE
  BY RecordChoices DEF ExitLoop, sourceVars, DropComponents
<1>3. /\ ckptFile' <= resolved /\ frontier' <= resolved
      /\ frontier' # 0 => ckptFile' <= frontier'
  <2>1. /\ ckptFile <= resolved /\ frontier <= resolved
        /\ frontier # 0 => ckptFile <= frontier
    BY Zenon DEF PInv, Ordered
  <2>2. frontier <= frontier
    BY PipelineAssumption DEF PInv, TypeOK, Ts
  <2> QED
    BY Zenon, <1>2, <2>1, <2>2
<1>4. (\A t \in 1..ckptFile' : t \in Known) /\ (\A t \in 1..frontier' : t \in Known)
  BY <1>2, CoversIff DEF PInv
<1> QED
  BY Zenon, <1>1, <1>2, <1>3, <1>4, EndStep

LEMMA CrashStep ==
    ASSUME PInv, TypeOK', Crash
    PROVE  PInv'
<1>1. /\ Known' = Known /\ frontier' = 0 /\ ckptFile' \in {0, ckptFile}
      /\ wire' = <<>> /\ running' = FALSE /\ resolved' = resolved /\ committed' = committed
  BY Zenon, CrashKnown DEF Crash, sourceVars
<1>2. ckptFile' <= resolved /\ frontier' <= resolved
  BY <1>1 DEF PInv, Ordered, TypeOK, Ts
<1>3. (\A t \in 1..ckptFile' : t \in Known) /\ (\A t \in 1..frontier' : t \in Known)
  <2>1. 1..0 = {}
    OBVIOUS
  <2> QED
    BY <1>1, <2>1, CoversIff DEF PInv
<1> QED
  BY Zenon, <1>1, <1>2, <1>3, EndStep

\* A new stream resumes at the checkpoint file or at zero, behind the wire.
LEMMA SpawnStep ==
    ASSUME PInv, TypeOK', ~running, NEW ts \in {0, ckptFile}, Spawn(ts)
    PROVE  PInv'
<1> USE DEF PInv
<1>1. /\ Known' = Known /\ wire' = <<>> /\ wire = <<>>
      /\ running' = TRUE /\ sent' = ts /\ frontier' = ts
      /\ UNCHANGED <<ckptFile, resolved, committed>>
  BY SameBuffers DEF Spawn, Known, sourceVars, Covers
<1>2. OnlyCommits'
  BY <1>1 DEF OnlyCommits, Known
<1>3. Ordered'
  BY <1>1 DEF Ordered, TypeOK, Ts
<1>4. Covers'
  <2>1. \A t \in 1..ts : t \in Known
    <3>1. 1..0 = {}
      OBVIOUS
    <3> QED
      BY <3>1, CoversIff
  <2> QED
    BY <1>1, <2>1, CoversIff, CoversIffNext
<1> QED
  BY <1>2, <1>3, <1>4

\* The wire after one more event.
LEMMA SendFacts ==
    ASSUME TypeOK, NEW e \in Event, wire' = Append(wire, e)
    PROVE  /\ Len(wire) \in Nat /\ Len(wire') = Len(wire) + 1
           /\ \A i \in 1..Len(wire) : wire'[i] = wire[i] /\ wire[i].ts \in Nat
           /\ wire'[Len(wire) + 1] = e
           /\ \A t : \A n \in 0..Len(wire) : OnWire(t, n) => OnWire(t, n)'
           /\ \A t : OnWire(t, Len(wire)) => OnWire(t, Len(wire))'
<1>1. /\ Len(wire) \in Nat /\ Len(wire') = Len(wire) + 1
      /\ \A i \in 1..Len(wire) : wire'[i] = wire[i] /\ wire[i] \in Event
      /\ wire'[Len(wire) + 1] = e
  BY DEF TypeOK
<1>2. \A i \in 1..Len(wire) : wire[i].ts \in Nat
  BY <1>1, PipelineAssumption DEF Event, Ts
<1>3. \A t : \A n \in 0..Len(wire) : OnWire(t, n) => OnWire(t, n)'
  BY <1>1 DEF OnWire, Data
<1>4. \A t : OnWire(t, Len(wire)) => OnWire(t, Len(wire))'
  BY <1>1 DEF OnWire, Data
<1> QED
  BY <1>1, <1>2, <1>3, <1>4

LEMMA SendDataStep ==
    ASSUME PInv, TypeOK', SendData
    PROVE  PInv'
<1> USE DEF PInv
<1> DEFINE e == Data(sent + 1)
           n == Len(wire)
<1>1. /\ Known' = Known /\ wire' = Append(wire, e) /\ running /\ running'
      /\ sent' = sent + 1 /\ sent < committed
      /\ UNCHANGED <<ckptFile, frontier, resolved, committed>>
  BY SameBuffers DEF SendData, Known, sourceVars
<1>2. /\ e \in Event /\ ~IsCheckpoint(e) /\ e.ts = sent + 1
      /\ sent \in Nat /\ committed \in Nat
  BY <1>1, PipelineAssumption DEF Data, Event, IsCheckpoint, TypeOK, Ts
<1> HIDE DEF e
<1>3. /\ n \in Nat /\ Len(wire') = n + 1
      /\ \A i \in 1..n : wire'[i] = wire[i] /\ wire[i].ts \in Nat
      /\ wire'[n + 1] = e
      /\ \A t : \A k \in 0..n : OnWire(t, k) => OnWire(t, k)'
      /\ \A t : OnWire(t, n) => OnWire(t, Len(wire))'
  BY <1>1, <1>2, SendFacts
<1> HIDE DEF n
<1>4. OnlyCommits'
  <2>1. \A i \in 1..(n + 1) : wire'[i].ts \in 1..committed
    BY <1>1, <1>2, <1>3 DEF OnlyCommits, n
  <2> QED
    BY <1>1, <1>3, <2>1 DEF OnlyCommits, Known
<1>5. \A i \in 1..(n + 1) : IsCheckpoint(wire'[i]) => i \in 1..n
  BY <1>2, <1>3
<1>6. Ordered'
  BY <1>1, <1>3, <1>5 DEF Ordered, n
<1>7. Covers'
  <2>1. \A i \in 1..(n + 1) : IsCheckpoint(wire'[i]) =>
            \A t \in 1..(wire'[i].ts) : t \in Known \/ OnWire(t, i - 1)'
    <3>1. \A i \in 1..n : i - 1 \in 0..n
      BY <1>3
    <3> QED
      BY <1>3, <1>5, <3>1, CoversIff DEF n
  <2>2. \A t \in 1..(sent + 1) : t \in Known \/ OnWire(t, Len(wire))'
    <3>1. ASSUME NEW t, t = sent + 1
          PROVE  OnWire(t, Len(wire))'
      <4>1. n + 1 \in 1..Len(wire') /\ wire'[n + 1] = Data(t)
        BY <1>3, <3>1 DEF e
      <4> QED
        BY <4>1 DEF OnWire, Data
    <3>2. \A t \in 1..(sent + 1) : t \in 1..sent \/ t = sent + 1
      BY <1>2
    <3> QED
      BY <1>1, <1>3, <3>1, <3>2, CoversIff DEF n
  <2> QED
    BY <1>1, <1>3, <2>1, <2>2, CoversIff, CoversIffNext
<1> QED
  BY <1>4, <1>6, <1>7

LEMMA SendCheckpointStep ==
    ASSUME PInv, TypeOK', SendCheckpoint
    PROVE  PInv'
<1> USE DEF PInv
<1> DEFINE n == Len(wire)
<1>1. PICK r \in resolved..sent : r # 0 /\ resolved' = r /\ wire' = Append(wire, Checkpoint(r))
  BY DEF SendCheckpoint
<1>2. /\ Known' = Known /\ running /\ running'
      /\ UNCHANGED <<ckptFile, frontier, sent, committed>>
  BY SameBuffers DEF SendCheckpoint, Known
<1>3. /\ Checkpoint(r) \in Event /\ Checkpoint(r).ts = r
      /\ r \in Nat /\ sent \in Nat /\ committed \in Nat /\ resolved \in Nat
      /\ r >= 1 /\ resolved <= r /\ r <= sent /\ sent <= committed
      /\ ckptFile \in Nat /\ frontier \in Nat
  BY <1>1, PipelineAssumption DEF Checkpoint, Event, TypeOK, Ts
<1>4. /\ n \in Nat /\ Len(wire') = n + 1
      /\ \A i \in 1..n : wire'[i] = wire[i] /\ wire[i].ts \in Nat
      /\ wire'[n + 1] = Checkpoint(r)
      /\ \A t : \A k \in 0..n : OnWire(t, k) => OnWire(t, k)'
      /\ \A t : OnWire(t, n) => OnWire(t, Len(wire))'
  BY <1>1, <1>3, SendFacts
<1> HIDE DEF n
<1>5. OnlyCommits'
  <2>1. \A i \in 1..(n + 1) : wire'[i].ts \in 1..committed
    BY <1>3, <1>4 DEF OnlyCommits, n
  <2> QED
    BY <1>2, <1>4, <2>1 DEF OnlyCommits, Known
<1>6. \A i \in 1..(n + 1) : i \in 1..n \/ i = n + 1
  BY <1>4
<1>7. Ordered'
  <2>1. \A i \in 1..n : IsCheckpoint(wire[i]) =>
            /\ ckptFile <= wire[i].ts /\ frontier <= wire[i].ts
            /\ wire[i].ts <= r
            /\ \A j \in 1..n : i <= j /\ IsCheckpoint(wire[j]) => wire[i].ts <= wire[j].ts
    BY <1>3, <1>4 DEF Ordered, n
  <2>2. ckptFile <= r /\ frontier <= r /\ (frontier # 0 => ckptFile <= frontier)
    BY <1>3 DEF Ordered
  <2>3. ASSUME NEW i \in 1..(n + 1), IsCheckpoint(wire'[i])
        PROVE  /\ ckptFile <= wire'[i].ts /\ frontier <= wire'[i].ts /\ wire'[i].ts <= r
               /\ \A j \in 1..(n + 1) : i <= j /\ IsCheckpoint(wire'[j]) =>
                      wire'[i].ts <= wire'[j].ts
    <3>1. CASE i = n + 1
      <4>1. \A j \in 1..(n + 1) : i <= j => j = i
        BY <1>4, <3>1
      <4> QED
        BY <1>3, <1>4, <2>2, <3>1, <4>1
    <3>2. CASE i \in 1..n
      BY <1>3, <1>4, <1>6, <2>1, <2>3, <3>2
    <3> QED
      BY <1>6, <3>1, <3>2
  <2> QED
    BY <1>1, <1>2, <1>4, <2>2, <2>3 DEF Ordered
<1>8. Covers'
  <2>1. ASSUME NEW i \in 1..(n + 1), IsCheckpoint(wire'[i]), NEW t \in 1..(wire'[i].ts)
        PROVE  t \in Known \/ OnWire(t, i - 1)'
    <3>1. CASE i = n + 1
      <4>1. t \in 1..sent /\ i - 1 = n /\ n \in 0..n
        BY <1>3, <1>4, <2>1, <3>1
      <4> QED
        BY <1>2, <1>4, <4>1, CoversIff DEF n
    <3>2. CASE i \in 1..n
      <4>1. i - 1 \in 0..n
        BY <1>4, <3>2
      <4> QED
        BY <1>4, <2>1, <3>2, <4>1, CoversIff DEF n
    <3> QED
      BY <1>6, <3>1, <3>2
  <2>2. \A t \in 1..sent : t \in Known \/ OnWire(t, Len(wire))'
    BY <1>2, <1>4, CoversIff DEF n
  <2> QED
    BY <1>2, <1>4, <2>1, <2>2, CoversIff, CoversIffNext
<1> QED
  BY <1>5, <1>7, <1>8

\* The wire without its first event.
LEMMA ReceiveFacts ==
    ASSUME TypeOK, wire # <<>>, wire' = Tail(wire)
    PROVE  /\ Len(wire) \in Nat /\ Len(wire') = Len(wire) - 1 /\ 1 \in 1..Len(wire)
           /\ \A i \in 1..Len(wire') : i + 1 \in 1..Len(wire) /\ wire'[i] = wire[i + 1]
           /\ \A i \in 1..Len(wire) : wire[i].ts \in Nat
           /\ \A t : \A m \in 0..Len(wire') : OnWire(t, m + 1) =>
                 wire[1] = Data(t) \/ OnWire(t, m)'
           /\ \A t : OnWire(t, Len(wire)) => wire[1] = Data(t) \/ OnWire(t, Len(wire))'
<1>1. /\ Len(wire) \in Nat /\ Len(wire') = Len(wire) - 1 /\ 1 \in 1..Len(wire)
      /\ \A i \in 1..Len(wire') : i + 1 \in 1..Len(wire) /\ wire'[i] = wire[i + 1]
  BY HeadIsEvent DEF TypeOK
<1>2. \A i \in 1..Len(wire) : wire[i].ts \in Nat
  <2>1. \A i \in 1..Len(wire) : wire[i] \in Event
    BY DEF TypeOK
  <2> QED
    BY <2>1, PipelineAssumption DEF Event, Ts
<1>3. ASSUME NEW t, NEW m \in 0..Len(wire'), OnWire(t, m + 1)
      PROVE  wire[1] = Data(t) \/ OnWire(t, m)'
  <2>1. PICK j \in 1..(m + 1) : wire[j] = Data(t)
    BY <1>3 DEF OnWire
  <2>2. CASE j = 1
    BY <2>1, <2>2
  <2>3. CASE j # 1
    <3>1. j - 1 \in 1..m /\ j - 1 \in 1..Len(wire') /\ (j - 1) + 1 = j
      BY <1>1, <2>3
    <3>2. wire'[j - 1] = Data(t)
      BY <1>1, <2>1, <3>1
    <3> QED
      BY Zenon, <3>1, <3>2 DEF OnWire, Data
  <2> QED
    BY <2>2, <2>3
<1>4. ASSUME NEW t, OnWire(t, Len(wire))
      PROVE  wire[1] = Data(t) \/ OnWire(t, Len(wire))'
  <2>1. PICK j \in 1..Len(wire) : wire[j] = Data(t)
    BY <1>4 DEF OnWire
  <2>2. CASE j = 1
    BY <2>1, <2>2
  <2>3. CASE j # 1
    <3>1. j - 1 \in 1..Len(wire') /\ (j - 1) + 1 = j
      BY <1>1, <2>3
    <3>2. wire'[j - 1] = Data(t)
      BY <1>1, <2>1, <3>1
    <3> QED
      BY <3>1, <3>2 DEF OnWire, Data
  <2> QED
    BY <2>2, <2>3
<1> QED
  BY <1>1, <1>2, <1>3, <1>4

\* Taking the first event off the wire keeps the covers, if what it brought is
\* known afterwards.
LEMMA ReceiveCovers ==
    ASSUME PInv, wire # <<>>, wire' = Tail(wire), running, running',
           sent' = sent, Known \subseteq Known',
           \A t : wire[1] = Data(t) => t \in Known',
           \A t \in 1..ckptFile' : t \in Known,
           \A t \in 1..frontier' : t \in Known
    PROVE  Covers'
<1> USE DEF PInv
<1>1. /\ Len(wire) \in Nat /\ Len(wire') = Len(wire) - 1 /\ 1 \in 1..Len(wire)
      /\ \A i \in 1..Len(wire') : i + 1 \in 1..Len(wire) /\ wire'[i] = wire[i + 1]
      /\ \A t : \A m \in 0..Len(wire') : OnWire(t, m + 1) =>
            wire[1] = Data(t) \/ OnWire(t, m)'
      /\ \A t : OnWire(t, Len(wire)) => wire[1] = Data(t) \/ OnWire(t, Len(wire))'
  BY ReceiveFacts
<1>2. ASSUME NEW i \in 1..Len(wire'), IsCheckpoint(wire'[i]), NEW t \in 1..(wire'[i].ts)
      PROVE  t \in Known' \/ OnWire(t, i - 1)'
  <2>1. i + 1 \in 1..Len(wire) /\ wire'[i] = wire[i + 1] /\ (i + 1) - 1 = (i - 1) + 1
        /\ i - 1 \in 0..Len(wire')
    BY <1>1
  <2>2. t \in Known \/ OnWire(t, (i + 1) - 1)
    BY <1>2, <2>1, CoversIff
  <2> QED
    BY <1>1, <2>1, <2>2
<1>3. \A t \in 1..sent' : t \in Known' \/ OnWire(t, Len(wire))'
  BY <1>1, CoversIff
<1> QED
  BY <1>2, <1>3, CoversIffNext

\* Taking the first event off the wire keeps the rest in order.
LEMMA ReceiveOrdered ==
    ASSUME PInv, wire # <<>>, wire' = Tail(wire), resolved' = resolved,
           ckptFile' <= resolved, frontier' <= resolved,
           frontier' # 0 => ckptFile' <= frontier',
           \A i \in 1..Len(wire) : i # 1 /\ IsCheckpoint(wire[i]) =>
              ckptFile' <= wire[i].ts /\ frontier' <= wire[i].ts
    PROVE  Ordered'
<1> USE DEF PInv
<1>1. /\ Len(wire) \in Nat /\ Len(wire') = Len(wire) - 1
      /\ \A i \in 1..Len(wire') : i + 1 \in 1..Len(wire) /\ wire'[i] = wire[i + 1]
  BY ReceiveFacts
<1>2. ASSUME NEW i \in 1..Len(wire'), IsCheckpoint(wire'[i])
      PROVE  /\ ckptFile' <= wire'[i].ts /\ frontier' <= wire'[i].ts
             /\ wire'[i].ts <= resolved
             /\ \A j \in 1..Len(wire') : i <= j /\ IsCheckpoint(wire'[j]) =>
                    wire'[i].ts <= wire'[j].ts
  <2>1. /\ i + 1 \in 1..Len(wire) /\ i + 1 # 1 /\ wire'[i] = wire[i + 1]
        /\ \A j \in 1..Len(wire') : i <= j => i + 1 <= j + 1
    BY <1>1
  <2> QED
    BY <1>1, <1>2, <2>1 DEF Ordered
<1> QED
  BY <1>2 DEF Ordered

LEMMA ReceiveDataStep ==
    ASSUME PInv, TypeOK', ReceiveData
    PROVE  PInv'
<1> USE DEF PInv
<1>1. /\ wire # <<>> /\ wire' = Tail(wire) /\ running /\ running'
      /\ UNCHANGED <<sent, ckptFile, frontier, resolved, committed>>
  BY DEF ReceiveData, sourceVars
<1>2. Known' = Known \cup {wire[1].ts}
  BY ReceiveDataKnown
<1>3. /\ 1 \in 1..Len(wire) /\ Len(wire') = Len(wire) - 1
      /\ \A i \in 1..Len(wire') : i + 1 \in 1..Len(wire) /\ wire'[i] = wire[i + 1]
  BY <1>1, ReceiveFacts
<1>4. OnlyCommits'
  <2>1. Known' \subseteq 1..committed
    BY <1>2, <1>3 DEF OnlyCommits, Known
  <2> QED
    BY <1>1, <1>3, <2>1 DEF OnlyCommits, Known
<1>5. Ordered'
  <2>1. /\ ckptFile' <= resolved /\ frontier' <= resolved
        /\ frontier' # 0 => ckptFile' <= frontier'
        /\ \A i \in 1..Len(wire) : i # 1 /\ IsCheckpoint(wire[i]) =>
              ckptFile' <= wire[i].ts /\ frontier' <= wire[i].ts
    BY <1>1 DEF Ordered
  <2> QED
    BY <1>1, <2>1, ReceiveOrdered
<1>6. Covers'
  <2>1. \A t : wire[1] = Data(t) => t \in Known'
    BY <1>2 DEF Data
  <2>2. (\A t \in 1..ckptFile' : t \in Known) /\ (\A t \in 1..frontier' : t \in Known)
    BY <1>1, CoversIff
  <2> QED
    BY <1>1, <1>2, <2>1, <2>2, ReceiveCovers
<1> QED
  BY <1>4, <1>5, <1>6

\* What the first checkpoint on the wire covers is known: nothing precedes it.
LEMMA FirstCheckpointKnown ==
    ASSUME PInv, wire # <<>>, IsCheckpoint(wire[1])
    PROVE  \A t \in 1..(wire[1].ts) : t \in Known
<1>1. 1 \in 1..Len(wire)
  BY HeadIsEvent DEF PInv
<1>2. \A t : ~OnWire(t, 1 - 1)
  BY DEF OnWire
<1> QED
  BY <1>1, <1>2, CoversIff DEF PInv

LEMMA ReceiveCheckpointStep ==
    ASSUME PInv, TypeOK', ReceiveCheckpoint
    PROVE  PInv'
<1> USE DEF PInv
<1> DEFINE ts == wire[1].ts
<1>1. /\ wire # <<>> /\ running /\ Head(wire) = wire[1] /\ IsCheckpoint(wire[1])
      /\ 1 \in 1..Len(wire) /\ ts \in Ts
  BY HeadIsEvent DEF ReceiveCheckpoint, IsCheckpoint
<1>2. /\ frontier' = ts /\ ckptFile' \in {ckptFile, ts}
      /\ UNCHANGED <<sent, resolved, committed>>
  BY <1>1, RecordTypes DEF ReceiveCheckpoint, sourceVars
<1>3. /\ ckptFile' <= resolved /\ frontier' <= resolved
      /\ ckptFile' <= frontier'
  <2>1. ckptFile <= ts /\ ts <= resolved /\ ckptFile <= resolved
    BY <1>1 DEF Ordered
  <2>2. ts <= ts
    BY <1>1, PipelineAssumption DEF Ts
  <2> HIDE DEF ts, PInv
  <2> QED
    BY Zenon, <1>2, <2>1, <2>2
<1>4. \A t \in 1..ts : t \in Known
  BY <1>1, FirstCheckpointKnown
<1>5. (\A t \in 1..ckptFile' : t \in Known) /\ (\A t \in 1..frontier' : t \in Known)
  BY <1>2, <1>4, CoversIff
<1>6. CASE DropComponents
  <2>1. Known' = Known
    BY <1>6, DropKeepsMemory DEF ReceiveCheckpoint, Known
  <2>2. wire' = <<>> /\ running' = FALSE
    BY <1>6 DEF DropComponents
  <2> QED
    BY Zenon, <1>2, <1>3, <1>5, <2>1, <2>2, EndStep
<1>7. CASE wire' = Tail(wire) /\ UNCHANGED <<running, buf, orphans, state>>
  <2>1. Known' = Known
    BY <1>7, SameBuffers DEF ReceiveCheckpoint, Known
  <2>2. /\ Len(wire') = Len(wire) - 1
        /\ \A i \in 1..Len(wire') : i + 1 \in 1..Len(wire) /\ wire'[i] = wire[i + 1]
        /\ \A i \in 1..Len(wire) : wire[i].ts \in Nat
    BY <1>1, <1>7, ReceiveFacts
  <2>3. OnlyCommits'
    BY <1>2, <2>1, <2>2 DEF OnlyCommits, Known
  <2>4. Ordered'
    <3>1. \A i \in 1..Len(wire) : IsCheckpoint(wire[i]) =>
             ckptFile <= wire[i].ts /\ ts <= wire[i].ts
      BY <1>1 DEF Ordered
    <3>2. \A i \in 1..Len(wire) : i # 1 /\ IsCheckpoint(wire[i]) =>
             ckptFile' <= wire[i].ts /\ frontier' <= wire[i].ts
      BY <1>2, <3>1
    <3> QED
      BY <1>1, <1>2, <1>3, <1>7, <3>2, ReceiveOrdered
  <2>5. Covers'
    <3>1. \A t : wire[1] # Data(t)
      BY <1>1 DEF IsCheckpoint, Data
    <3> QED
      BY <1>1, <1>2, <1>5, <1>7, <2>1, <3>1, ReceiveCovers
  <2> QED
    BY <2>3, <2>4, <2>5
<1> QED
  BY Zenon, <1>6, <1>7 DEF ReceiveCheckpoint

LEMMA InitPInv ==
    ASSUME Init
    PROVE  PInv
<1>1. InMemory = {}
  BY InMemoryIff, RangeOfEmpty DEF Init, NoBuffers
<1>2. 1..0 = {} /\ Len(<<>>) = 0 /\ 0 \in Worker /\ 0 \in Ts /\ 0 \in 0..0
  BY PipelineAssumption DEF Worker, Ts
<1>3. TypeOK
  BY <1>2 DEF Init, TypeOK, NoBuffers
<1>4. OnlyCommits /\ Ordered /\ Covers
  BY <1>1, <1>2 DEF Init, OnlyCommits, Ordered, Covers
<1> QED
  BY <1>3, <1>4 DEF PInv

LEMMA NextPInv ==
    ASSUME PInv, [Next]_vars
    PROVE  PInv'
<1>0. TypeOK' /\ committed \in Nat
  <2>1. committed \in Nat
    BY PipelineAssumption DEF PInv, TypeOK, Ts
  <2> QED
    BY <2>1, TypeStep
<1>1. CASE Commit
  <2>1. Known' = Known
    BY <1>1, SameBuffers DEF Commit, Known, loopVars
  <2> QED
    BY <1>0, <1>1, <2>1, PipelineAssumption, QuietStep DEF Commit, loopVars, PInv, TypeOK, Ts
<1>2. CASE SendData
  BY <1>0, <1>2, SendDataStep
<1>3. CASE SendCheckpoint
  BY <1>0, <1>3, SendCheckpointStep
<1>4. CASE ReceiveData
  BY <1>0, <1>4, ReceiveDataStep
<1>5. CASE ReceiveCheckpoint
  BY <1>0, <1>5, ReceiveCheckpointStep
<1>6. CASE CutoverCheck
  BY <1>0, <1>6, ExitLoopStep DEF CutoverCheck
<1>7. ASSUME NEW w \in Worker, Flush(w)
      PROVE  PInv'
  <2>1. Known' = Known
    BY <1>7, FlushKnown DEF PInv
  <2> QED
    BY <1>0, <1>7, <2>1, QuietStep DEF Flush, sourceVars
<1>8. ASSUME NEW kvs \in orphans, FlushOrphan(kvs)
      PROVE  PInv'
  BY <1>0, <1>8, FlushOrphanKnown, QuietStep DEF FlushOrphan, sourceVars
<1>9. CASE CreateReplication \/ StartReplication \/ ResumeReplication
  BY <1>0, <1>9, SpawnStep DEF CreateReplication, StartReplication, ResumeReplication
<1>10. ASSUME UNCHANGED <<sourceVars, sent, loopVars, engine, lost>>
       PROVE  PInv'
  <2>1. Known' = Known
    BY <1>10, SameBuffers DEF Known, loopVars
  <2> QED
    BY <1>0, <1>10, <2>1, QuietStep DEF sourceVars, loopVars
<1>11. ASSUME NEW new, Stop(new)
       PROVE  PInv'
  BY <1>0, <1>10, <1>11, ExitLoopStep DEF Stop
<1>12. CASE Cutover
  BY <1>10, <1>12 DEF Cutover
<1>13. CASE Activate
  <2>1. Known' = Known
    BY <1>13, SameBuffers DEF Activate, Known
  <2> QED
    BY <1>0, <1>13, <2>1, QuietStep DEF Activate, sourceVars
<1>14. CASE Crash
  BY <1>0, <1>14, CrashStep
<1>15. CASE UNCHANGED vars
  BY <1>10, <1>15 DEF vars
<1> QED
  BY <1>1, <1>2, <1>3, <1>4, <1>5, <1>6, <1>7, <1>8, <1>9, <1>11, <1>12, <1>13, <1>14,
     <1>15 DEF Next, Loop, Command, PauseReplication, Shutdown

\* The inductive invariant holds in every state of the pipeline.
THEOREM Invariance == Spec => []PInv
BY InitPInv, NextPInv, PTL DEF Spec

-----------------------------------------------------------------------------
(* Theorems *)

\* Types are kept, and neither the stream nor the resolved timestamp passes the
\* last commit: a restart from the checkpoint file never asks for the future.
THEOREM TypeCorrect == Spec => []TypeOK
<1>1. PInv => TypeOK
  BY DEF PInv
<1> QED
  BY <1>1, Invariance, PTL

\* record_checkpoint covers only commits that are in the engine, in some worker's
\* memory, or were dropped by a failed flush or a crash.
THEOREM CheckpointSound == Spec => []CheckpointAccounted
<1>1. PInv => CheckpointAccounted
  BY DEF PInv, Covers, CheckpointAccounted
<1> QED
  BY <1>1, Invariance, PTL

\* No commit falls between two streams, whatever pauses, full scans, cutovers and
\* crashes separate them.
THEOREM NoneSkipped == Spec => []NothingSkipped
<1>1. ASSUME PInv PROVE NothingSkipped
  <2>1. /\ committed \in Nat /\ sent \in Nat /\ ckptFile \in Nat
        /\ wire \in Seq(Event) /\ running \in BOOLEAN
    BY <1>1, PipelineAssumption DEF PInv, TypeOK, Ts
  <2>2. \A t : OnWire(t, Len(wire)) => Data(t) \in Range(wire)
    BY <2>1 DEF OnWire, Range
  <2>3. ASSUME NEW t \in 1..committed, ~Accounted(t), Data(t) \notin Range(wire)
        PROVE  IF running THEN t > sent ELSE t > ckptFile
    <3>1. CASE running
      <4>1. t \notin 1..sent
        BY <1>1, <2>2, <2>3, <3>1 DEF PInv, Covers
      <4> QED
        BY <2>1, <3>1, <4>1
    <3>2. CASE ~running
      <4>1. t \notin 1..ckptFile
        BY <1>1, <2>3 DEF PInv, Covers
      <4> QED
        BY <2>1, <3>2, <4>1
    <3> QED
      BY <3>1, <3>2
  <2> QED
    BY <2>3 DEF NothingSkipped
<1> QED
  BY <1>1, Invariance, PTL

-----------------------------------------------------------------------------
(* Refinement *)

\* What record_checkpoint does to the promise: nothing, or it grows by commits.
LEMMA RecordPromises ==
    ASSUME PInv, NEW ts \in Ts, Record(ts), ts # 0 => ckptFile <= ts, ts <= committed
    PROVE  1..ckptFile' = 1..ckptFile
             \/ \E P \in SUBSET (1..committed) : 1..ckptFile' = 1..ckptFile \cup P
<1>1. ckptFile \in Nat /\ ts \in Nat /\ committed \in Nat
  BY PipelineAssumption DEF PInv, TypeOK, Ts
<1>2. CASE ckptFile' = ckptFile
  BY <1>2
<1>3. CASE ts # 0 /\ ckptFile' = ts
  <2>1. 1..ts \subseteq 1..committed /\ 1..ts = 1..ckptFile \cup 1..ts
    BY <1>1, <1>3
  <2> QED
    BY Zenon, <1>3, <2>1
<1> QED
  BY <1>2, <1>3, RecordChoices

\* A step that leaves source and store alone and may only add to the promise.
LEMMA PromiseStep ==
    ASSUME UNCHANGED <<committed, engine, lost>>,
           1..ckptFile' = 1..ckptFile
             \/ \E P \in SUBSET (1..committed) : 1..ckptFile' = 1..ckptFile \cup P
    PROVE  [Abstract!Next]_(Abstract!vars)
BY DEF Abstract!Next, Abstract!Promise, Abstract!vars

\* A flush settles a buffer of commits.
LEMMA SettleStep ==
    ASSUME NEW kvs, FlushBuffer(kvs), Range(kvs) \subseteq 1..committed,
           UNCHANGED <<committed, ckptFile>>
    PROVE  Abstract!Settle
<1>1. CASE engine' = engine \cup Range(kvs) /\ lost' = lost
  <2>1. engine' = engine \cup Range(kvs) /\ lost' = lost \cup {}
    BY <1>1
  <2> QED
    BY Zenon, <2>1 DEF Abstract!Settle
<1>2. CASE lost' = lost \cup Range(kvs) /\ engine' = engine
  <2>1. engine' = engine \cup {} /\ lost' = lost \cup Range(kvs)
    BY <1>2
  <2> QED
    BY Zenon, <2>1 DEF Abstract!Settle
<1> QED
  BY <1>1, <1>2 DEF FlushBuffer

LEMMA ExitLoopRefines ==
    ASSUME PInv, NEW new, ExitLoop(new)
    PROVE  [Abstract!Next]_(Abstract!vars)
<1>1. frontier \in Ts /\ (frontier # 0 => ckptFile <= frontier) /\ frontier <= committed
  BY PipelineAssumption DEF PInv, TypeOK, Ordered, Ts
<1> QED
  BY <1>1, RecordPromises, PromiseStep DEF ExitLoop, sourceVars

LEMMA NextRefines ==
    ASSUME PInv, [Next]_vars
    PROVE  [Abstract!Next]_(Abstract!vars)
<1>0. committed \in Nat /\ ckptFile \in Nat /\ MaxTs \in Nat
  BY PipelineAssumption DEF PInv, TypeOK, Ts
<1>1. CASE Commit
  <2>1. /\ committed + 1 \in (1..MaxTs) \ (1..committed)
        /\ 1..(committed + 1) = 1..committed \cup {committed + 1}
    BY <1>0, <1>1 DEF Commit
  <2>2. committed' = committed + 1 /\ UNCHANGED <<engine, lost, ckptFile>>
    BY <1>1 DEF Commit, loopVars
  <2> QED
    BY <2>1, <2>2 DEF Abstract!Next, Abstract!Commit
<1>2. ASSUME UNCHANGED <<committed, engine, lost, ckptFile>>
      PROVE  [Abstract!Next]_(Abstract!vars)
  BY <1>2 DEF Abstract!vars
<1>3. CASE SendData \/ SendCheckpoint \/ ReceiveData
  BY <1>2, <1>3 DEF SendData, SendCheckpoint, ReceiveData, sourceVars
<1>4. CASE ReceiveCheckpoint
  <2>1. /\ wire # <<>> /\ Head(wire) = wire[1] /\ IsCheckpoint(wire[1])
        /\ 1 \in 1..Len(wire) /\ wire[1].ts \in Ts
    BY <1>4, HeadIsEvent DEF ReceiveCheckpoint, IsCheckpoint, PInv
  <2>2. ckptFile <= wire[1].ts /\ wire[1].ts <= committed
    BY <2>1, PipelineAssumption DEF PInv, Ordered, TypeOK, Ts
  <2> QED
    BY Zenon, <1>4, <2>1, <2>2, RecordPromises, PromiseStep DEF ReceiveCheckpoint, sourceVars
<1>5. CASE CutoverCheck
  BY <1>5, ExitLoopRefines DEF CutoverCheck
<1>6. ASSUME NEW w \in Worker, Flush(w)
      PROVE  [Abstract!Next]_(Abstract!vars)
  <2>1. Range(buf[w]) \subseteq 1..committed
    BY InMemoryIff DEF PInv, OnlyCommits
  <2> QED
    BY <1>6, <2>1, SettleStep DEF Flush, sourceVars, Abstract!Next
<1>7. ASSUME NEW kvs \in orphans, FlushOrphan(kvs)
      PROVE  [Abstract!Next]_(Abstract!vars)
  <2>1. Range(kvs) \subseteq 1..committed
    BY InMemoryIff DEF PInv, OnlyCommits
  <2> QED
    BY <1>7, <2>1, SettleStep DEF FlushOrphan, sourceVars, Abstract!Next
<1>8. CASE CreateReplication \/ StartReplication \/ ResumeReplication
  BY <1>2, <1>8 DEF CreateReplication, StartReplication, ResumeReplication, Spawn, sourceVars
<1>9. ASSUME NEW new, Stop(new)
      PROVE  [Abstract!Next]_(Abstract!vars)
  BY <1>2, <1>9, ExitLoopRefines DEF Stop, sourceVars, loopVars
<1>10. CASE Cutover
  BY <1>2, <1>10 DEF Cutover, sourceVars, loopVars
<1>11. CASE Activate
  <2>1. CASE ckptFile' = ckptFile
    BY <1>2, <1>11, <2>1 DEF Activate, sourceVars
  <2>2. CASE ckptFile' = 0
    <3>1. 1..ckptFile' = {} /\ lost' = lost \cup {} /\ committed' = committed
          /\ engine' = engine
      BY <1>11, <2>2 DEF Activate, sourceVars
    <3> QED
      BY Zenon, <3>1 DEF Abstract!Next, Abstract!Withdraw
  <2> QED
    BY <1>11, <2>1, <2>2 DEF Activate
<1>12. CASE Crash
  <2>1. /\ InMemory \subseteq 1..committed /\ lost' = lost \cup InMemory
        /\ committed' = committed /\ engine' = engine
        /\ ckptFile' = ckptFile \/ ckptFile' = 0
    BY <1>12 DEF PInv, OnlyCommits, Crash, sourceVars
  <2>2. CASE ckptFile' = ckptFile
    <3>1. engine' = engine \cup {}
      BY <2>1
    <3> QED
      BY Zenon, <2>1, <2>2, <3>1 DEF Abstract!Next, Abstract!Settle
  <2>3. CASE ckptFile' = 0
    <3>1. 1..ckptFile' = {}
      BY <2>3
    <3> QED
      BY <2>1, <3>1 DEF Abstract!Next, Abstract!Withdraw
  <2> QED
    BY <2>1, <2>2, <2>3
<1>13. CASE UNCHANGED vars
  BY <1>2, <1>13 DEF vars, sourceVars, loopVars
<1> QED
  BY <1>1, <1>3, <1>4, <1>5, <1>6, <1>7, <1>8, <1>9, <1>10, <1>11, <1>12, <1>13
  DEF Next, Loop, Command, PauseReplication, Shutdown

\* The pipeline implements the safety part of Replication: only commits are stored
\* and stored commits are kept, and the checkpoint covers commits and does not
\* move back until it is withdrawn.
THEOREM Refines == Spec => Abstract!Safety
<1>1. Init => Abstract!Init
  <2>1. 1..0 = {}
    OBVIOUS
  <2> QED
    BY <2>1 DEF Init, Abstract!Init
<1> QED
  BY <1>1, Invariance, NextRefines, PTL DEF Spec, Abstract!Safety

=============================================================================
