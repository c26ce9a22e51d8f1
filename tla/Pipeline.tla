------------------------------- MODULE Pipeline -------------------------------
(***************************************************************************)
(* The consumer end to end: the event loop that dispatches data to the     *)
(* ingest workers and records checkpoints (run_event_loop and              *)
(* handle_control_event of stream-ingest/task.rs, checkpoint.rs), the      *)
(* workers' buffers, the commands that start and stop the loop, and a      *)
(* crash of the target's process at any point.                             *)
(*                                                                         *)
(* IngestTask has the control plane in detail and IngestWorkers the data   *)
(* plane; this module has the few steps of each whose order decides what a *)
(* recorded checkpoint is worth.  The frontier is its global minimum, and  *)
(* a worker's queue and buffer are one sequence.  The producer is the one  *)
(* the consumer relies on: it sends commits in order from where it was     *)
(* asked to resume, and a checkpoint only after the data it covers.        *)
(***************************************************************************)
EXTENDS Naturals, Sequences, Functions

CONSTANTS
    NumWorkers,    \* INGEST_WORKERS
    MaxTs,         \* bound on the number of commits; commit t has timestamp t
    MaxWire,       \* bound on the events between producer and event loop
    MaxCrashes,    \* bound on the number of crashes
    FlushOutcome,  \* outcomes of ingesting a flush: {TRUE} or BOOLEAN
    DiskOutcome    \* outcomes of writing the checkpoint file: {TRUE} or BOOLEAN

ASSUME PipelineAssumption ==
    /\ NumWorkers \in Nat \ {0}
    /\ MaxTs \in Nat
    /\ MaxWire \in Nat
    /\ MaxCrashes \in Nat
    /\ FlushOutcome \subseteq BOOLEAN
    /\ DiskOutcome \subseteq BOOLEAN

Worker == 0..(NumWorkers - 1)
Ts == 0..MaxTs

VARIABLES
    committed,  \* the source has committed 1..committed
    resolved,   \* the source's resolved timestamp
    sent,       \* the stream has sent the commits up to here
    wire,       \* events sent and not yet received by the event loop
    state,      \* TaskState of the target's task
    running,    \* an event loop is alive
    target,     \* cutover_ts, 0 when there is none
    frontier,   \* the loop's frontier (its minimum), 0 when empty
    lastRec,    \* CheckpointManager.last_recorded_ts of the loop
    ckptFile,   \* the checkpoint file, 0 when there is none
    nextIdx,    \* the round-robin counter
    buf,        \* buf[w]: what worker w has received and not yet flushed
    orphans,    \* buffers of workers whose event loop has ended
    engine,     \* commits in the target's RocksDB
    lost,       \* commits in a flush that failed or in memory at a crash
    crashes     \* number of crashes so far

sourceVars == <<committed, resolved>>
loopVars == <<wire, running, frontier, lastRec, ckptFile, nextIdx, buf, orphans>>
vars == <<sourceVars, sent, loopVars, state, target, engine, lost, crashes>>

Data(t) == [kind |-> "data", ts |-> t]
Checkpoint(t) == [kind |-> "checkpoint", ts |-> t]
Event == [kind : {"data", "checkpoint"}, ts : Ts]

\* Type invariant; the resolved timestamp and the stream never pass the last
\* commit.
TypeOK ==
    /\ committed \in Ts
    /\ resolved \in 0..committed
    /\ sent \in 0..committed
    /\ wire \in Seq(Event)
    /\ state \in {"Paused", "Subscribing", "CuttingOver", "Completed",
                  "Activated", "Idle"}
    /\ running \in BOOLEAN
    /\ target \in Ts
    /\ frontier \in Ts
    /\ lastRec \in Ts
    /\ ckptFile \in Ts
    /\ nextIdx \in Worker
    /\ buf \in [Worker -> Seq(Ts)]
    /\ orphans \subseteq Seq(Ts)
    /\ engine \subseteq Ts
    /\ lost \subseteq Ts
    /\ crashes \in Nat

NoBuffers == [w \in Worker |-> <<>>]
Held == {buf[w] : w \in Worker}

Init ==
    /\ committed = 0
    /\ resolved = 0
    /\ sent = 0
    /\ wire = <<>>
    /\ state = "Paused"
    /\ running = FALSE
    /\ target = 0
    /\ frontier = 0
    /\ lastRec = 0
    /\ ckptFile = 0
    /\ nextIdx = 0
    /\ buf = NoBuffers
    /\ orphans = {}
    /\ engine = {}
    /\ lost = {}
    /\ crashes = 0

-----------------------------------------------------------------------------
(* The source and its stream *)

Commit ==
    /\ committed < MaxTs
    /\ committed' = committed + 1
    /\ UNCHANGED <<resolved, sent, loopVars, state, target, engine, lost,
                   crashes>>

SendData ==
    /\ running
    /\ sent < committed
    /\ Len(wire) < MaxWire
    /\ sent' = sent + 1
    /\ wire' = Append(wire, Data(sent + 1))
    /\ UNCHANGED <<sourceVars, running, frontier, lastRec, ckptFile, nextIdx,
                   buf, orphans, state, target, engine, lost, crashes>>

\* The resolved timestamp never goes back, and the data it covers has been sent.
SendCheckpoint ==
    /\ running
    /\ Len(wire) < MaxWire
    /\ \E r \in resolved..sent :
          /\ r # 0
          /\ resolved' = r
          /\ wire' = Append(wire, Checkpoint(r))
    /\ UNCHANGED <<committed, sent, running, frontier, lastRec, ckptFile,
                   nextIdx, buf, orphans, state, target, engine, lost, crashes>>

-----------------------------------------------------------------------------
(* The event loop *)

\* Mutant: the round-robin counter is not reduced to an index.
ReceiveDataNoWrap ==
    /\ running
    /\ wire # <<>>
    /\ Head(wire).kind = "data"
    /\ wire' = Tail(wire)
    /\ buf' = [buf EXCEPT ![nextIdx % NumWorkers] = Append(@, Head(wire).ts)]
    /\ nextIdx' = nextIdx + 1
    /\ UNCHANGED <<sourceVars, sent, running, frontier, lastRec, ckptFile,
                   orphans, state, target, engine, lost, crashes>>

\* handle_data_event: to the next worker's channel, without waiting for it.
ReceiveData ==
    /\ running
    /\ wire # <<>>
    /\ Head(wire).kind = "data"
    /\ wire' = Tail(wire)
    /\ buf' = [buf EXCEPT ![nextIdx] = Append(@, Head(wire).ts)]
    /\ nextIdx' = (nextIdx + 1) % NumWorkers
    /\ UNCHANGED <<sourceVars, sent, running, frontier, lastRec, ckptFile,
                   orphans, state, target, engine, lost, crashes>>

\* record_checkpoint with the minimum ts: nothing to do for an empty frontier or
\* the minimum recorded last.  last_recorded_ts is set before the file is
\* written, and a failed write is only logged.
Record(ts) ==
    IF ts = 0 \/ ts = lastRec
    THEN UNCHANGED <<lastRec, ckptFile>>
    ELSE /\ lastRec' = ts
         /\ \E ok \in DiskOutcome : ckptFile' = IF ok THEN ts ELSE ckptFile

IsCutoverReady(ts) == target # 0 /\ ts # 0 /\ ts >= target

\* Mutant: the workers are aborted with the loop.
DropComponentsAborts ==
    /\ running' = FALSE
    /\ wire' = <<>>
    /\ buf' = NoBuffers
    /\ UNCHANGED orphans

\* What a loop leaves behind: PcrComponents is dropped, which closes the stream
\* and the workers' channels.  Nobody waits for the workers.
DropComponents ==
    /\ running' = FALSE
    /\ wire' = <<>>
    /\ orphans' = orphans \cup (Held \ {<<>>})
    /\ buf' = NoBuffers

\* A cutover waits for the loop to report; otherwise the state is left alone.
Reported == IF state = "CuttingOver" THEN "Completed" ELSE state

\* handle_control_event: move the frontier, record it at once ("workers flush
\* independently") and leave the loop when the cutover target is reached.
ReceiveCheckpoint ==
    LET ts == Head(wire).ts IN
    /\ running
    /\ wire # <<>>
    /\ Head(wire).kind = "checkpoint"
    /\ frontier' = ts
    /\ Record(ts)
    /\ IF IsCutoverReady(ts)
       THEN DropComponents /\ state' = Reported
       ELSE wire' = Tail(wire) /\ UNCHANGED <<running, buf, orphans, state>>
    /\ UNCHANGED <<sourceVars, sent, nextIdx, target, engine, lost, crashes>>

\* The way out of the loop: record the frontier, drop everything, report.
ExitLoop(newState) ==
    /\ running
    /\ Record(frontier)
    /\ DropComponents
    /\ state' = newState
    /\ UNCHANGED <<sourceVars, sent, nextIdx, frontier, target, engine, lost,
                   crashes>>

\* The 500 ms tick.
CutoverCheck == IsCutoverReady(frontier) /\ ExitLoop(Reported)

-----------------------------------------------------------------------------
(* The workers *)

\* SstBatcher::flush of one worker's buffer.  An SST refuses a key it already
\* holds, so a buffer with a commit twice fails like any other error, and the
\* caller ignores the error.
FlushBuffer(kvs) ==
    \E ok \in FlushOutcome :
        IF ok /\ IsInjective(kvs)
        THEN engine' = engine \cup Range(kvs) /\ UNCHANGED lost
        ELSE lost' = lost \cup Range(kvs) /\ UNCHANGED engine

\* Mutant: a flush waits until there is more than one commit to write.
FlushFullOnly(w) ==
    /\ Len(buf[w]) > 1
    /\ FlushBuffer(buf[w])
    /\ buf' = [buf EXCEPT ![w] = <<>>]
    /\ UNCHANGED <<sourceVars, sent, wire, running, frontier, lastRec, ckptFile,
                   nextIdx, orphans, state, target, crashes>>

\* A full buffer, the flush interval or the idle timer.
Flush(w) ==
    /\ buf[w] # <<>>
    /\ FlushBuffer(buf[w])
    /\ buf' = [buf EXCEPT ![w] = <<>>]
    /\ UNCHANGED <<sourceVars, sent, wire, running, frontier, lastRec, ckptFile,
                   nextIdx, orphans, state, target, crashes>>

\* A worker whose channel was closed flushes what it has and returns.
FlushOrphan(kvs) ==
    /\ FlushBuffer(kvs)
    /\ orphans' = orphans \ {kvs}
    /\ UNCHANGED <<sourceVars, sent, wire, running, frontier, lastRec, ckptFile,
                   nextIdx, buf, state, target, crashes>>

-----------------------------------------------------------------------------
(* Commands *)

\* Mutant: the stream is asked to resume one timestamp late.
SpawnPast(resumeTs) ==
    /\ state' = "Subscribing"
    /\ running' = TRUE
    /\ sent' = IF resumeTs < committed THEN resumeTs + 1 ELSE resumeTs
    /\ frontier' = resumeTs
    /\ lastRec' = 0
    /\ UNCHANGED <<sourceVars, wire, ckptFile, nextIdx, buf, orphans, target,
                   engine, lost, crashes>>

\* spawn_event_loop: the stream resumes at the checkpoint, or at 0 when a full
\* scan is forced.  The round-robin counter is a static.
Spawn(resumeTs) ==
    /\ state' = "Subscribing"
    /\ running' = TRUE
    /\ sent' = resumeTs
    /\ frontier' = resumeTs
    /\ lastRec' = 0
    /\ UNCHANGED <<sourceVars, wire, ckptFile, nextIdx, buf, orphans, target,
                   engine, lost, crashes>>

Startable == {"Paused", "Idle", "Activated", "Completed"}

CreateReplication == ~running /\ state \in Startable /\ Spawn(0)
StartReplication == ~running /\ state \in Startable /\ Spawn(ckptFile)
ResumeReplication == ~running /\ state = "Paused" /\ Spawn(ckptFile)

\* PauseReplication and Shutdown: cancel the loop and wait for its report, or
\* find that it has already left.
Stop(newState) ==
    /\ state = "Subscribing"
    /\ \/ ExitLoop(newState)
       \/ /\ ~running
          /\ state' = newState
          /\ UNCHANGED <<sourceVars, sent, loopVars, target, engine, lost, crashes>>

PauseReplication == Stop("Paused")
Shutdown == Stop("Completed")

\* cutover_ts is never cleared again; u64::MAX asks for any frontier at all, as 1
\* does.
Cutover ==
    /\ state = "Subscribing"
    /\ target' \in 1..MaxTs
    /\ state' = IF running THEN "CuttingOver" ELSE "Completed"
    /\ UNCHANGED <<sourceVars, sent, loopVars, engine, lost, crashes>>

\* Activate releases the target.  The checkpoint file is removed only when PD
\* answers.
Activate ==
    /\ state = "Completed"
    /\ state' = "Activated"
    /\ ckptFile' \in {0, ckptFile}
    /\ UNCHANGED <<sourceVars, sent, wire, running, frontier, lastRec, nextIdx, buf,
                   orphans, target, engine, lost, crashes>>

-----------------------------------------------------------------------------

\* load_persisted_state of the state file; Activate has removed it.
LoadPersistedState == IF state \in {"Completed", "Idle"} THEN "Idle" ELSE "Paused"

InMemory == UNION {Range(kvs) : kvs \in Held \cup orphans}

\* The process dies and StreamIngestTask::new runs in a new one.  A checkpoint
\* write cut short leaves a file that does not parse.
Crash ==
    /\ crashes < MaxCrashes
    /\ crashes' = crashes + 1
    /\ lost' = lost \cup InMemory
    /\ state' = LoadPersistedState
    /\ running' = FALSE
    /\ wire' = <<>>
    /\ buf' = NoBuffers
    /\ orphans' = {}
    /\ frontier' = 0
    /\ lastRec' = 0
    /\ target' = 0
    /\ nextIdx' = 0
    /\ \/ UNCHANGED ckptFile
       \/ running /\ ckptFile' = 0
    /\ UNCHANGED <<sourceVars, sent, engine>>

Loop == ReceiveData \/ ReceiveCheckpoint \/ CutoverCheck

Command ==
    \/ CreateReplication \/ StartReplication \/ ResumeReplication
    \/ PauseReplication \/ Shutdown \/ Cutover \/ Activate

Next ==
    \/ Commit \/ SendData \/ SendCheckpoint
    \/ Loop
    \/ \E w \in Worker : Flush(w)
    \/ \E kvs \in orphans : FlushOrphan(kvs)
    \/ Command
    \/ Crash

Spec == Init /\ [][Next]_vars

\* A worker's timer or the close of its channel always becomes due; nothing is
\* assumed of the producer, the event loop or the operator.
FairSpec ==
    /\ Spec
    /\ \A w \in Worker : WF_vars(Flush(w))
    /\ \A t \in Ts :
          WF_vars(\E kvs \in orphans : t \in Range(kvs) /\ FlushOrphan(kvs))

-----------------------------------------------------------------------------
(* Properties *)

Accounted(t) == t \in engine \cup lost \cup InMemory

\* record_checkpoint does not wait for the workers, but the order of the stream
\* and of the loop is enough for this much: every commit the checkpoint file
\* covers has left the wire, so only a failed flush or a crash can lose it.
CheckpointAccounted == \A t \in 1..ckptFile : Accounted(t)

\* Across pauses, resumes, full scans, cutovers and crashes no commit falls
\* between two streams: it is in the target or accounted for, on the wire, or
\* still ahead of the running stream or of the checkpoint the next one resumes
\* from.
NothingSkipped ==
    \A t \in 1..committed :
        \/ Accounted(t)
        \/ Data(t) \in Range(wire)
        \/ IF running THEN t > sent ELSE t > ckptFile

\* The abstract replica this pipeline implements.
Abstract == INSTANCE Replication WITH
    Version <- 1..MaxTs,
    committed <- 1..committed,
    replicated <- engine,
    forfeited <- lost,
    promised <- 1..ckptFile

\* The consumer keeps the promise of Replication: the target receives only what
\* was committed and keeps it, checkpoints only cover commits and never move
\* back until activation, and a covered commit is ingested in the end unless
\* its flush failed or the process died first.
ImplementsReplication == Abstract!Spec

\* run_event_loop says it flushes the remaining data and then persists the
\* checkpoint: once it has reported, what the checkpoint covers is settled.
FlushedBeforeReport ==
    ~running => \A t \in 1..ckptFile : t \in engine \cup lost

\* Activate opens the target for writes when replication is over.
ActivatedMeansQuiet == state = "Activated" => orphans = {}
=============================================================================
