------------------------------ MODULE IngestTask ------------------------------
(***************************************************************************)
(* The consumer's control plane: StreamIngestTask (stream-ingest/task.rs), *)
(* the event loops it spawns, the checkpoint file those loops write        *)
(* (checkpoint.rs) and the storage write guard.                            *)
(*                                                                         *)
(* The task runs one command at a time on TiKV's worker thread.  Three     *)
(* commands block that thread while event loops keep running on the tokio  *)
(* runtime: stop_event_loop (at most 5 s), Cutover (at most 300 s) and     *)
(* Activate (a PD call).  pc names the wait the thread is in, so commands  *)
(* and loops interleave exactly at those waits.  A loop blocks only on PD  *)
(* while it records a checkpoint.                                          *)
(*                                                                         *)
(* Every subscription is a full-range span (run_event_loop passes b"",     *)
(* b""), so the per-region branches guarded by !span_mode never run and    *)
(* are not modelled.  A checkpoint event carries a timestamp above zero    *)
(* (span_bridge.rs sends none otherwise), so a frontier is a total         *)
(* function in which NoTs stands for a region that is not in the map.      *)
(***************************************************************************)
EXTENDS Naturals, FiniteSets

CONSTANTS
    Region,       \* source region ids
    Loop,         \* identities of event loops; bounds how many live at once
    NoLoop,       \* an empty cancel_tx or done_rx
    MaxTs,        \* bound on the source's timestamps
    Enabled,      \* stream_ingest.enable of this node
    DiskOutcome   \* outcomes of a local file write: {TRUE} or BOOLEAN

ASSUME TaskAssumption ==
    /\ MaxTs \in Nat \ {0}
    /\ Enabled \in BOOLEAN
    /\ DiskOutcome \subseteq BOOLEAN
    /\ NoLoop \notin Loop

NoTs == 0
Ts == 0..MaxTs
Latest == MaxTs + 1          \* u64::MAX, "TO LATEST"
Frontier == [Region -> Ts]
NoRegions == [r \in Region |-> NoTs]

TaskState == {"Idle", "Subscribing", "Paused", "CuttingOver", "Completed",
              "Activated", "Failed"}
NoFile == "none"             \* the state file does not exist

\* Commands that first wait in stop_event_loop.
Stopping == {"start", "create", "pause", "shutdown", "activate"}
Wait == {"ready", "cutover", "clear"} \cup Stopping

VARIABLES
    state,        \* StreamIngestTask.state
    stateFile,    \* contents of pcr_task_state
    writeGuard,   \* Storage.write_protected
    cutoverTs,    \* the AtomicU64 the task shares with its loops
    pc,           \* what the worker thread is waiting for
    cancelTx,     \* the loop whose cancel_tx the task holds
    doneRx,       \* the loop whose done_rx the task holds or waits on
    timedOut,     \* some wait for a loop gave up since the process started
    phase,        \* phase[l]: where loop l is
    cancelled,    \* cancelled[l]: true was sent on l's cancel channel
    frontier,     \* frontier[l]: PcrComponents.frontier
    lastRec,      \* lastRec[l]: CheckpointManager.last_recorded_ts
    startTs,      \* startTs[l]: resume_ts, where l's subscription starts
    known,        \* known[l]: regions named by l's latest checkpoint event
    floor,        \* floor[l]: no later checkpoint event of l is older
    staleTarget,  \* staleTarget[l]: cutover_ts was already set at l's spawn
    synced,       \* synced[l]: the checkpoint file holds l's latest record
    ckptFile,     \* contents of pcr_checkpoint_pcr_default.json
    sourceTs      \* the source's pcr_resolved_ts

taskVars == <<state, stateFile, writeGuard, cutoverTs, pc, cancelTx, doneRx,
              timedOut>>
loopVars == <<phase, cancelled, frontier, lastRec, startTs, known, floor,
              staleTarget, synced, ckptFile>>
vars == <<taskVars, loopVars, sourceTs>>

TypeOK ==
    /\ state \in TaskState
    /\ stateFile \in TaskState \cup {NoFile}
    /\ writeGuard \in BOOLEAN
    /\ cutoverTs \in Ts \cup {Latest}
    /\ pc \in Wait
    /\ cancelTx \in Loop \cup {NoLoop}
    /\ doneRx \in Loop \cup {NoLoop}
    /\ timedOut \in BOOLEAN
    /\ phase \in [Loop -> {"unused", "select", "recording", "exiting", "done",
                           "dropped"}]
    /\ cancelled \in [Loop -> BOOLEAN]
    /\ frontier \in [Loop -> Frontier]
    /\ lastRec \in [Loop -> Ts]
    /\ startTs \in [Loop -> Ts]
    /\ known \in [Loop -> SUBSET Region]
    /\ floor \in [Loop -> Ts]
    /\ staleTarget \in [Loop -> BOOLEAN]
    /\ synced \in [Loop -> BOOLEAN]
    /\ ckptFile \in Frontier
    /\ sourceTs \in Ts

-----------------------------------------------------------------------------
(* Frontiers and the state file *)

Present(f) == {r \in Region : f[r] # NoTs}

\* frontier.values().min().copied().unwrap_or(0)
GlobalMin(f) ==
    IF Present(f) = {}
    THEN NoTs
    ELSE CHOOSE t \in Ts : /\ \E r \in Present(f) : f[r] = t
                           /\ \A r \in Present(f) : t <= f[r]

\* Mutant: ready as soon as one region has reached the target.
IsCutoverReadyAny(f) ==
    /\ cutoverTs # NoTs
    /\ GlobalMin(f) # NoTs
    /\ cutoverTs = Latest \/ \E r \in Region : f[r] >= cutoverTs

\* Mutant: u64::MAX is compared like any other timestamp.
IsCutoverReadyNoLatest(f) ==
    cutoverTs # NoTs /\ GlobalMin(f) # NoTs /\ GlobalMin(f) >= cutoverTs

IsCutoverReady(f) ==
    /\ cutoverTs # NoTs
    /\ GlobalMin(f) # NoTs
    /\ cutoverTs = Latest \/ GlobalMin(f) >= cutoverTs

LoadPersistedState(file) ==
    IF file \in {"Subscribing", "Paused"} THEN "Paused"
    ELSE IF file \in {"Completed", "Failed", "Activated"} THEN "Idle"
    ELSE IF Enabled THEN "Paused" ELSE "Idle"

\* A failed write is only logged: the file keeps its old contents.
PersistState(s) ==
    \E ok \in DiskOutcome : stateFile' = IF ok THEN s ELSE stateFile

Live(l) == phase[l] \in {"select", "recording", "exiting"}
Finished(l) == phase[l] \in {"done", "dropped"}

-----------------------------------------------------------------------------
(* Pieces of the command handlers *)

\* Mutants: resume just after the minimum; resume at the most advanced region.
ResumeTsPast(seed) == IF Present(seed) = {} THEN NoTs ELSE GlobalMin(seed) + 1
ResumeTsMax(seed) == CHOOSE t \in Ts : /\ \E r \in Region : seed[r] = t
                                       /\ \A r \in Region : seed[r] <= t

ResumeTs(seed) == GlobalMin(seed)

\* spawn_event_loop: a fresh loop, seeded from the checkpoint file unless a
\* full scan is forced.  A file that cannot be read or parsed loads as empty.
SpawnEventLoop(fullScan) ==
    \E l \in Loop :
        LET seed == IF fullScan THEN NoRegions ELSE ckptFile IN
        /\ ~Live(l)
        /\ phase' = [phase EXCEPT ![l] = "select"]
        /\ cancelled' = [cancelled EXCEPT ![l] = FALSE]
        /\ frontier' = [frontier EXCEPT ![l] = seed]
        /\ lastRec' = [lastRec EXCEPT ![l] = NoTs]
        /\ startTs' = [startTs EXCEPT ![l] = ResumeTs(seed)]
        /\ known' = [known EXCEPT ![l] = {}]
        /\ floor' = [floor EXCEPT ![l] = sourceTs]
        /\ staleTarget' = [staleTarget EXCEPT ![l] = cutoverTs # NoTs]
        /\ synced' = [synced EXCEPT ![l] = FALSE]
        /\ cancelTx' = l
        /\ doneRx' = l
        /\ UNCHANGED ckptFile

\* The first half of stop_event_loop: send the cancel signal, start waiting.
SendCancel(command) ==
    /\ pc' = command
    /\ cancelled' = [l \in Loop |-> cancelled[l] \/ l = cancelTx]
    /\ cancelTx' = NoLoop
    /\ UNCHANGED <<state, stateFile, writeGuard, cutoverTs, doneRx, timedOut,
                   phase, frontier, lastRec, startTs, known, floor,
                   staleTarget, synced, ckptFile, sourceTs>>

\* The second half: the loop reported, its sender was dropped, or 5 s passed.
StopReturns ==
    /\ pc' = "ready"
    /\ timedOut' = (timedOut \/ ~Finished(doneRx))

\* The common body of CreateReplication and StartReplication.
Replicate(fullScan) ==
    /\ state' = "Subscribing"
    /\ writeGuard' = TRUE
    /\ SpawnEventLoop(fullScan)
    /\ PersistState("Subscribing")
    /\ UNCHANGED <<cutoverTs, sourceTs>>

SetState(s) ==
    /\ state' = s
    /\ PersistState(s)
    /\ UNCHANGED <<writeGuard, cutoverTs, loopVars, sourceTs>>

Startable == {"Paused", "Idle", "Activated", "Completed"}

-----------------------------------------------------------------------------
(* Commands.  A command that the current state rejects is only logged. *)

CreateReplication ==
    /\ pc = "ready"
    /\ \/ state = "Subscribing" /\ SendCancel("create")
       \/ state \in Startable /\ Replicate(TRUE) /\ UNCHANGED <<pc, timedOut>>

CreateAfterStop ==
    pc = "create" /\ StopReturns /\ Replicate(TRUE)

StartReplication ==
    /\ pc = "ready"
    /\ \/ state = "Subscribing" /\ SendCancel("start")
       \/ state \in Startable /\ Replicate(FALSE) /\ UNCHANGED <<pc, timedOut>>

StartAfterStop ==
    pc = "start" /\ StopReturns /\ Replicate(FALSE)

\* Mutant: pausing leaves the loop running.
PauseNoStop ==
    /\ pc = "ready"
    /\ state = "Subscribing"
    /\ SetState("Paused")
    /\ UNCHANGED <<pc, cancelTx, doneRx, timedOut>>

PauseReplication ==
    pc = "ready" /\ state = "Subscribing" /\ SendCancel("pause")

PauseAfterStop ==
    /\ pc = "pause"
    /\ StopReturns
    /\ doneRx' = NoLoop
    /\ SetState("Paused")
    /\ UNCHANGED cancelTx

\* Resume does not touch the write guard.
ResumeReplication ==
    /\ pc = "ready"
    /\ state = "Paused"
    /\ state' = "Subscribing"
    /\ SpawnEventLoop(FALSE)
    /\ PersistState("Subscribing")
    /\ UNCHANGED <<writeGuard, cutoverTs, pc, timedOut, sourceTs>>

Cutover ==
    /\ pc = "ready"
    /\ state = "Subscribing"
    /\ \E ts \in Ts \cup {Latest} : cutoverTs' = ts
    /\ state' = "CuttingOver"
    /\ PersistState("CuttingOver")
    /\ pc' = "cutover"
    /\ UNCHANGED <<writeGuard, cancelTx, doneRx, timedOut, loopVars, sourceTs>>

\* The wait of at most 300 s for done_rx: done, sender dropped, or timeout.
\* Cutover leaves cancel_tx in place and never clears cutover_ts.
CutoverReturns ==
    /\ pc = "cutover"
    /\ pc' = "ready"
    /\ doneRx' = NoLoop
    /\ timedOut' = (timedOut \/ ~Finished(doneRx))
    /\ UNCHANGED cancelTx
    /\ CASE phase[doneRx] = "done" -> SetState("Completed")
         [] phase[doneRx] = "dropped" ->
              UNCHANGED <<state, stateFile, writeGuard, cutoverTs, loopVars,
                          sourceTs>>
         [] OTHER -> SetState("Failed")

\* Mutant: shutting down leaves the loop running.
ShutdownNoStop ==
    /\ pc = "ready"
    /\ SetState("Completed")
    /\ UNCHANGED <<pc, cancelTx, doneRx, timedOut>>

\* Shutdown stops the loop only from Subscribing, but completes from any state.
Shutdown ==
    /\ pc = "ready"
    /\ IF state = "Subscribing"
       THEN SendCancel("shutdown")
       ELSE SetState("Completed") /\ UNCHANGED <<pc, cancelTx, doneRx, timedOut>>

ShutdownAfterStop ==
    /\ pc = "shutdown"
    /\ StopReturns
    /\ doneRx' = NoLoop
    /\ SetState("Completed")
    /\ UNCHANGED cancelTx

\* Mutant: Activate accepts Subscribing without stopping the loop.
ActivateNoStop ==
    /\ pc = "ready"
    /\ state \in {"Completed", "Subscribing"}
    /\ pc' = "clear"
    /\ UNCHANGED <<state, stateFile, writeGuard, cutoverTs, cancelTx, doneRx,
                   timedOut, loopVars, sourceTs>>

Activate ==
    /\ pc = "ready"
    /\ \/ state = "Subscribing" /\ SendCancel("activate")
       \/ /\ state = "Completed"
          /\ pc' = "clear"
          /\ UNCHANGED <<state, stateFile, writeGuard, cutoverTs, cancelTx,
                         doneRx, timedOut, loopVars, sourceTs>>

\* The state is Completed in memory only; clear_checkpoint now waits for PD.
ActivateAfterStop ==
    /\ pc = "activate"
    /\ pc' = "clear"
    /\ timedOut' = (timedOut \/ ~Finished(doneRx))
    /\ doneRx' = NoLoop
    /\ state' = "Completed"
    /\ UNCHANGED <<stateFile, writeGuard, cutoverTs, cancelTx, loopVars,
                   sourceTs>>

\* PD answered.  clear_checkpoint removes the checkpoint file only after a
\* successful PD call, and Activate carries on after either answer.
ActivateAfterClear ==
    /\ pc = "clear"
    /\ pc' = "ready"
    /\ \E pdOk \in BOOLEAN, removed \in DiskOutcome :
          /\ ckptFile' = IF pdOk /\ removed THEN NoRegions ELSE ckptFile
          /\ synced' = [l \in Loop |-> synced[l] /\ ~(pdOk /\ removed)]
    /\ PersistState(NoFile)
    /\ state' = "Activated"
    /\ writeGuard' = FALSE
    /\ UNCHANGED <<cutoverTs, cancelTx, doneRx, timedOut, phase, cancelled,
                   frontier, lastRec, startTs, known, floor, staleTarget,
                   sourceTs>>

-----------------------------------------------------------------------------
(* The event loop.  It waits in select!, for PD while recording a checkpoint
   event, or for PD while recording its last checkpoint. *)

\* record_checkpoint up to its PD call.  An empty frontier, or a minimum equal
\* to the last one, returns at once.  last_recorded_ts is set before the file
\* is written, and a failed write is only logged.
RecordCheckpoint(l, f, unchangedPhase, pdPhase) ==
    IF Present(f) = {} \/ lastRec[l] = GlobalMin(f)
    THEN /\ phase' = [phase EXCEPT ![l] = unchangedPhase]
         /\ UNCHANGED <<lastRec, synced, ckptFile>>
    ELSE /\ phase' = [phase EXCEPT ![l] = pdPhase]
         /\ lastRec' = [lastRec EXCEPT ![l] = GlobalMin(f)]
         /\ \E ok \in DiskOutcome :
               IF ok
               THEN ckptFile' = f /\ synced' = [k \in Loop |-> k = l]
               ELSE ckptFile' = ckptFile /\ synced' = [synced EXCEPT ![l] = FALSE]

\* A checkpoint event.  The bridge's region list only grows and its timestamps
\* never go back.  When the minimum is unchanged the cutover test follows at
\* once, and the exit it leads to finds nothing new to record.
HandleCheckpoint(l, S, ts) ==
    LET f == [r \in Region |-> IF r \in S THEN ts ELSE frontier[l][r]] IN
    /\ phase[l] = "select"
    /\ S # {} /\ known[l] \subseteq S
    /\ ts # NoTs /\ floor[l] <= ts /\ ts <= sourceTs
    /\ frontier' = [frontier EXCEPT ![l] = f]
    /\ known' = [known EXCEPT ![l] = S]
    /\ floor' = [floor EXCEPT ![l] = ts]
    /\ RecordCheckpoint(l, f, IF IsCutoverReady(f) THEN "done" ELSE "select",
                        "recording")
    /\ UNCHANGED <<taskVars, cancelled, startTs, staleTarget, sourceTs>>

\* PD's answer to a checkpoint event.  An error skips the cutover test.
CheckpointAnswered(l) ==
    /\ phase[l] = "recording"
    /\ \E pdOk \in BOOLEAN :
          phase' = [phase EXCEPT ![l] =
              IF pdOk /\ IsCutoverReady(frontier[l]) THEN "done" ELSE "select"]
    /\ UNCHANGED <<taskVars, cancelled, frontier, lastRec, startTs, known, floor,
                   staleTarget, synced, ckptFile, sourceTs>>

DropRegions(l, gone) ==
    /\ phase[l] = "select"
    /\ frontier' = [frontier EXCEPT ![l] =
                      [r \in Region |-> IF r \in gone THEN NoTs ELSE @[r]]]
    /\ UNCHANGED <<taskVars, phase, cancelled, lastRec, startTs, known, floor,
                   staleTarget, synced, ckptFile, sourceTs>>

\* A split event clears every region it names.
HandleSplit(l, newRegions) == DropRegions(l, newRegions)

\* Topology sync forgets the regions PD no longer lists.  An empty answer of
\* PD is ignored.
Rediscover(l, pdRegions) == pdRegions # {} /\ DropRegions(l, Region \ pdRegions)

\* Mutant: no record_checkpoint on the way out.
ExitLoopNoRecord(l) ==
    /\ phase[l] = "select"
    /\ phase' = [phase EXCEPT ![l] = "done"]
    /\ UNCHANGED <<taskVars, cancelled, frontier, lastRec, startTs, known, floor,
                   staleTarget, synced, ckptFile, sourceTs>>

\* Leaving the select loop: the last record_checkpoint, then done_tx.
ExitLoop(l) ==
    /\ phase[l] = "select"
    /\ RecordCheckpoint(l, frontier[l], "done", "exiting")
    /\ UNCHANGED <<taskVars, cancelled, frontier, startTs, known, floor,
                   staleTarget, sourceTs>>

\* Mutant: the cancel signal is looked at only during a cutover.
SeeCancelInCutover(l) == cancelled[l] /\ cutoverTs # NoTs /\ ExitLoop(l)

SeeCancel(l) == cancelled[l] /\ ExitLoop(l)

CutoverCheck(l) == IsCutoverReady(frontier[l]) /\ ExitLoop(l)

SetPhase(l, p) ==
    /\ phase' = [phase EXCEPT ![l] = p]
    /\ UNCHANGED <<taskVars, cancelled, frontier, lastRec, startTs, known, floor,
                   staleTarget, synced, ckptFile, sourceTs>>

LastCheckpointAnswered(l) == phase[l] = "exiting" /\ SetPhase(l, "done")

\* The loop's future is dropped without reporting (a panic in it).
LoopDropped(l) == phase[l] = "select" /\ SetPhase(l, "dropped")

-----------------------------------------------------------------------------
(* The source's clock, and a restart of the target's process *)

AdvanceSource ==
    /\ sourceTs < MaxTs
    /\ sourceTs' = sourceTs + 1
    /\ UNCHANGED <<taskVars, loopVars>>

Init ==
    /\ state = LoadPersistedState(NoFile)
    /\ writeGuard = FALSE
    /\ cutoverTs = NoTs
    /\ pc = "ready"
    /\ cancelTx = NoLoop
    /\ doneRx = NoLoop
    /\ timedOut = FALSE
    /\ phase = [l \in Loop |-> "unused"]
    /\ cancelled = [l \in Loop |-> FALSE]
    /\ frontier = [l \in Loop |-> NoRegions]
    /\ lastRec = [l \in Loop |-> NoTs]
    /\ startTs = [l \in Loop |-> NoTs]
    /\ known = [l \in Loop |-> {}]
    /\ floor = [l \in Loop |-> NoTs]
    /\ staleTarget = [l \in Loop |-> FALSE]
    /\ synced = [l \in Loop |-> FALSE]
    /\ stateFile = NoFile
    /\ ckptFile = NoRegions
    /\ sourceTs = NoTs

\* StreamIngestTask::new in a new process.  Only the two files survive; a
\* checkpoint write cut short leaves a file that does not parse.
Restart ==
    /\ state' = LoadPersistedState(stateFile)
    /\ writeGuard' = FALSE
    /\ cutoverTs' = NoTs
    /\ pc' = "ready"
    /\ cancelTx' = NoLoop
    /\ doneRx' = NoLoop
    /\ timedOut' = FALSE
    /\ phase' = [l \in Loop |-> "unused"]
    /\ cancelled' = [l \in Loop |-> FALSE]
    /\ frontier' = [l \in Loop |-> NoRegions]
    /\ lastRec' = [l \in Loop |-> NoTs]
    /\ startTs' = [l \in Loop |-> NoTs]
    /\ known' = [l \in Loop |-> {}]
    /\ floor' = [l \in Loop |-> NoTs]
    /\ staleTarget' = [l \in Loop |-> FALSE]
    /\ synced' = [l \in Loop |-> FALSE]
    /\ \/ ckptFile' = ckptFile
       \/ (\E l \in Loop : Live(l)) /\ ckptFile' = NoRegions
    /\ UNCHANGED <<stateFile, sourceTs>>

Command ==
    \/ CreateReplication \/ StartReplication \/ PauseReplication
    \/ ResumeReplication \/ Cutover \/ Shutdown \/ Activate

Return ==
    \/ CreateAfterStop \/ StartAfterStop \/ PauseAfterStop
    \/ ShutdownAfterStop \/ ActivateAfterStop \/ ActivateAfterClear
    \/ CutoverReturns

LoopStep(l) ==
    \/ \E S \in SUBSET Region, ts \in Ts : HandleCheckpoint(l, S, ts)
    \/ CheckpointAnswered(l)
    \/ \E S \in SUBSET Region : HandleSplit(l, S)
    \/ \E S \in SUBSET Region : Rediscover(l, S)
    \/ SeeCancel(l)
    \/ CutoverCheck(l)
    \/ LastCheckpointAnswered(l)
    \/ LoopDropped(l)

Next ==
    \/ Command
    \/ Return
    \/ \E l \in Loop : LoopStep(l)
    \/ AdvanceSource
    \/ Restart

Spec == Init /\ [][Next]_vars

\* PD answers or its client gives up, so a loop never waits for it forever.
\* select! polls its ready branches in random order, so a branch that is ready
\* again and again is taken: the cancel channel, the 500 ms cutover tick and,
\* with the source reachable, the checkpoint the bridge repeats every 5 s.
LoopFairness(l) ==
    /\ WF_vars(CheckpointAnswered(l))
    /\ WF_vars(LastCheckpointAnswered(l))
    /\ SF_vars(SeeCancel(l))
    /\ SF_vars(CutoverCheck(l))
    /\ SF_vars(HandleCheckpoint(l, Region, sourceTs))

FairSpec ==
    /\ Spec
    /\ WF_vars(AdvanceSource)
    /\ \A l \in Loop : LoopFairness(l)

-----------------------------------------------------------------------------
(* Properties *)

Reached(f, target) ==
    /\ target # NoTs
    /\ Present(f) # {}
    /\ target = Latest \/ \A r \in Present(f) : f[r] >= target

\* As long as no wait for a loop gave up in this process, commands never leave
\* two event loops alive: stop_event_loop, Cutover and Shutdown together make
\* sure that whatever spawn_event_loop replaces has already ended.
SingleEventLoop ==
    ~timedOut => \A k, l \in Loop : Live(k) /\ Live(l) => k = l

\* Write protection is released (by Activate, or by a new process) only when no
\* loop is left to write into the target, unless a wait for a loop gave up.
GuardReleasedWhenQuiet ==
    [][writeGuard /\ ~writeGuard' /\ ~timedOut => \A l \in Loop : ~Live(l)']_vars

\* Cutover completes through the waited-for loop's own report, so when that loop
\* was spawned with no target set, every region it tracks has reached the
\* requested timestamp by then, whatever splits, topology syncs, PD errors and
\* earlier pauses it went through.
CutoverReachesFreshTarget ==
    pc = "cutover" /\ phase[doneRx] = "done" /\ ~staleTarget[doneRx]
        => Reached(frontier[doneRx], cutoverTs)

\* The subscription of a loop starts no later than any region's progress: a
\* region that the seeded frontier holds is never resumed beyond its own entry.
StartCoversFrontier ==
    \A l \in Loop : Live(l) =>
        \A r \in Present(frontier[l]) : startTs[l] <= frontier[l][r]

\* A loop that ended leaves its final minimum in the checkpoint file, even when
\* regions were dropped after the last checkpoint event, unless its write
\* failed or the file was since written or removed by someone else.
ExitPersistsFrontier ==
    \A l \in Loop : phase[l] = "done" /\ synced[l] /\ Present(frontier[l]) # {}
        => GlobalMin(ckptFile) = GlobalMin(frontier[l])

\* The resume point never moves back: a new checkpoint file has a minimum at
\* least that of the one it replaces, across pauses, restarts and re-creations
\* of the task, unless a wait for a loop gave up and left an older loop writing.
CheckpointNeverRegresses ==
    [][ckptFile' # NoRegions /\ ~timedOut
          => GlobalMin(ckptFile') >= GlobalMin(ckptFile)]_vars

\* A loop that was told to stop ends, whatever events keep arriving and however
\* often PD fails, also when stop_event_loop gave up waiting for it.
CancelledLoopEnds ==
    \A l \in Loop : (cancelled[l] /\ Live(l)) ~> ~Live(l)

\* Once a cutover timestamp is set every loop reaches it and ends, also one whose
\* Cutover command timed out, unless a later Cutover resets the target to 0.
TargetedLoopEnds ==
    \A l \in Loop : (cutoverTs # NoTs /\ Live(l)) ~> (~Live(l) \/ cutoverTs = NoTs)

\* task.rs says the target is read-only during replication: whenever a loop
\* ingests, writes are rejected.
ReadOnlyWhileIngesting ==
    (\E l \in Loop : Live(l)) => writeGuard

\* Cutover says the loop it waits for exits when min(frontier) >= cutover_ts.
CutoverReachesTarget ==
    pc = "cutover" /\ phase[doneRx] = "done"
        => Reached(frontier[doneRx], cutoverTs)

\* Activate reports that the PCR metadata has been cleaned.
ActivatedMeansClean ==
    state = "Activated" => ckptFile = NoRegions /\ stateFile = NoFile

\* load_persisted_state says a task that was Activated restarts in Idle.
ActivatedRestartsIdle ==
    [][Restart /\ state = "Activated" => state' = "Idle"]_vars

\* The task says it holds the cancel sender whenever a loop runs: a loop that
\* was not yet told to stop is the one cancel_tx belongs to.
RunningLoopCancellable ==
    \A l \in Loop : Live(l) /\ ~cancelled[l] => cancelTx = l

=============================================================================
