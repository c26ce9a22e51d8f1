--------------------------- MODULE IngestTask_proofs ---------------------------
(***************************************************************************)
(* Theorems about IngestTask for any sets of regions and loops, any bound  *)
(* on timestamps and any outcomes of disk writes.                          *)
(***************************************************************************)
EXTENDS IngestTask, WellFoundedInduction, TLAPS

(* Frontiers *)

\* Among the timestamps of a frontier that is not empty there is a least one.
LEMMA LeastTs ==
    ASSUME NEW f \in Frontier, Present(f) # {}
    PROVE  \E t \in Ts : /\ \E r \in Present(f) : f[r] = t
                         /\ \A r \in Present(f) : t <= f[r]
<1> DEFINE T == {f[r] : r \in Present(f)}
           R == OpToRel(<, Nat)
<1>1. T \subseteq Nat /\ T # {}
  BY TaskAssumption DEF Present, Frontier, Ts
<1>2. \E x \in T : \A y \in T : ~ (<<y, x>> \in R)
  <2> HIDE DEF T, R
  <2>1. IsWellFoundedOn(R, Nat)
    BY Zenon, NatLessThanWellFounded DEF R
  <2> QED
    BY Zenon, <1>1, <2>1, WFMin
<1>3. PICK x \in T : \A y \in T : ~ (<<y, x>> \in R)
  BY Zenon, <1>2
<1>4. \A y \in T : x <= y
  <2>1. R = {ss \in Nat \X Nat : ss[1] < ss[2]}
    BY Zenon DEF OpToRel
  <2> HIDE DEF T, R
  <2>2. \A y \in T : y \in Nat /\ x \in Nat /\ ~(y < x)
    BY Zenon, <1>1, <1>3, <2>1
  <2> QED
    BY <2>2
<1>5. x \in Ts
  BY DEF Present, Frontier
<1> QED
  BY Zenon, <1>3, <1>4, <1>5

\* global_min_ts is 0 for an empty frontier and else the least timestamp in it.
LEMMA GlobalMinIsLeast ==
    ASSUME NEW f \in Frontier
    PROVE  /\ GlobalMin(f) \in Ts
           /\ Present(f) = {} => GlobalMin(f) = NoTs
           /\ Present(f) # {} => /\ GlobalMin(f) # NoTs
                                 /\ \E r \in Present(f) : f[r] = GlobalMin(f)
                                 /\ \A r \in Present(f) : GlobalMin(f) <= f[r]
<1>1. CASE Present(f) = {}
  BY <1>1, TaskAssumption DEF GlobalMin, NoTs, Ts
<1>2. CASE Present(f) # {}
  <2> DEFINE P(t) == /\ \E r \in Present(f) : f[r] = t
                     /\ \A r \in Present(f) : t <= f[r]
  <2>1. GlobalMin(f) = CHOOSE t \in Ts : P(t)
    BY <1>2 DEF GlobalMin
  <2>2. \E t \in Ts : P(t)
    BY <1>2, LeastTs
  <2>3. GlobalMin(f) \in Ts /\ P(GlobalMin(f))
    <3> HIDE DEF P
    <3> QED BY <2>1, <2>2
  <2> QED
    BY <1>2, <2>3 DEF Present
<1> QED
  BY <1>1, <1>2

-----------------------------------------------------------------------------
(* Type correctness *)

\* A new loop has the types of its components.
LEMMA SpawnTypes ==
    ASSUME TypeOK, NEW full \in BOOLEAN, SpawnEventLoop(full)
    PROVE  /\ phase' \in [Loop -> {"unused", "select", "recording", "exiting",
                                   "done", "dropped"}]
           /\ cancelled' \in [Loop -> BOOLEAN]
           /\ frontier' \in [Loop -> Frontier]
           /\ lastRec' \in [Loop -> Ts]
           /\ startTs' \in [Loop -> Ts]
           /\ known' \in [Loop -> SUBSET Region]
           /\ floor' \in [Loop -> Ts]
           /\ staleTarget' \in [Loop -> BOOLEAN]
           /\ synced' \in [Loop -> BOOLEAN]
           /\ cancelTx' \in Loop
           /\ doneRx' = cancelTx'
           /\ ckptFile' = ckptFile
<1> DEFINE seed == IF full THEN NoRegions ELSE ckptFile
<1>1. seed \in Frontier /\ NoTs \in Ts
  BY TaskAssumption DEF TypeOK, NoRegions, Frontier, NoTs, Ts
<1>2. ResumeTs(seed) \in Ts
  BY <1>1, GlobalMinIsLeast DEF ResumeTs
<1>3. PICK l \in Loop :
        /\ phase' = [phase EXCEPT ![l] = "select"]
        /\ cancelled' = [cancelled EXCEPT ![l] = FALSE]
        /\ frontier' = [frontier EXCEPT ![l] = seed]
        /\ lastRec' = [lastRec EXCEPT ![l] = NoTs]
        /\ startTs' = [startTs EXCEPT ![l] = ResumeTs(seed)]
        /\ known' = [known EXCEPT ![l] = {}]
        /\ floor' = [floor EXCEPT ![l] = sourceTs]
        /\ staleTarget' = [staleTarget EXCEPT ![l] = cutoverTs # NoTs]
        /\ synced' = [synced EXCEPT ![l] = FALSE]
        /\ cancelTx' = l
        /\ doneRx' = l
        /\ UNCHANGED ckptFile
  BY Zenon DEF SpawnEventLoop
<1> HIDE DEF seed
<1>4. /\ phase' \in [Loop -> {"unused", "select", "recording", "exiting", "done",
                              "dropped"}]
      /\ cancelled' \in [Loop -> BOOLEAN]
      /\ frontier' \in [Loop -> Frontier]
      /\ known' \in [Loop -> SUBSET Region]
  BY <1>1, <1>3 DEF TypeOK
<1>5. /\ lastRec' \in [Loop -> Ts]
      /\ startTs' \in [Loop -> Ts]
      /\ floor' \in [Loop -> Ts]
  BY <1>1, <1>2, <1>3 DEF TypeOK
<1>6. staleTarget' \in [Loop -> BOOLEAN] /\ synced' \in [Loop -> BOOLEAN]
  BY <1>3, Zenon DEF TypeOK
<1> QED
  BY <1>3, <1>4, <1>5, <1>6

\* record_checkpoint keeps the types of what it assigns.
LEMMA RecordTypes ==
    ASSUME TypeOK, NEW l \in Loop, NEW f \in Frontier,
           NEW p \in {"select", "done"}, NEW q \in {"recording", "exiting"},
           RecordCheckpoint(l, f, p, q)
    PROVE  /\ phase' \in [Loop -> {"unused", "select", "recording", "exiting",
                                   "done", "dropped"}]
           /\ lastRec' \in [Loop -> Ts]
           /\ synced' \in [Loop -> BOOLEAN]
           /\ ckptFile' \in Frontier
<1>1. GlobalMin(f) \in Ts
  BY GlobalMinIsLeast
<1>2. /\ phase' = [phase EXCEPT ![l] = p] \/ phase' = [phase EXCEPT ![l] = q]
      /\ lastRec' = lastRec \/ lastRec' = [lastRec EXCEPT ![l] = GlobalMin(f)]
      /\ ckptFile' = ckptFile \/ ckptFile' = f
      /\ \/ synced' = synced
         \/ synced' = [k \in Loop |-> k = l]
         \/ synced' = [synced EXCEPT ![l] = FALSE]
  BY Zenon DEF RecordCheckpoint
<1>3. synced' \in [Loop -> BOOLEAN]
  BY <1>2, Zenon DEF TypeOK
<1> QED
  BY <1>1, <1>2, <1>3 DEF TypeOK

\* A handler that writes the state file leaves a state, or nothing, in it.
LEMMA PersistTypes ==
    ASSUME TypeOK, NEW s \in TaskState \cup {NoFile}, PersistState(s)
    PROVE  stateFile' \in TaskState \cup {NoFile}
BY DEF TypeOK, PersistState

\* Every step of the task and of its loops keeps the types.
LEMMA TypeStep ==
    ASSUME TypeOK, [Next]_vars
    PROVE  TypeOK'
<1> USE DEF TaskState, NoFile, Wait, Stopping
<1>1. ASSUME NEW full \in BOOLEAN, Replicate(full), pc' \in Wait, timedOut' \in BOOLEAN
      PROVE  TypeOK'
  BY <1>1, SpawnTypes, PersistTypes DEF TypeOK, Replicate
<1>2. ASSUME NEW c \in Stopping, SendCancel(c) PROVE TypeOK'
  BY <1>2 DEF TypeOK, SendCancel
<1>3. ASSUME NEW s \in TaskState, SetState(s), pc' \in Wait, timedOut' \in BOOLEAN,
             cancelTx' \in Loop \cup {NoLoop}, doneRx' \in Loop \cup {NoLoop}
      PROVE  TypeOK'
  BY <1>3, PersistTypes DEF TypeOK, SetState, loopVars
<1>4. ASSUME NEW l \in Loop, NEW f \in Frontier, NEW p \in {"select", "done"},
             NEW q \in {"recording", "exiting"}, RecordCheckpoint(l, f, p, q),
             frontier' \in [Loop -> Frontier], known' \in [Loop -> SUBSET Region],
             floor' \in [Loop -> Ts],
             UNCHANGED <<taskVars, cancelled, startTs, staleTarget, sourceTs>>
      PROVE  TypeOK'
  BY <1>4, RecordTypes DEF TypeOK, taskVars
<1>5. CASE Command
  <2>1. CASE CreateReplication \/ StartReplication
    BY Zenon, <2>1, <1>1, <1>2 DEF CreateReplication, StartReplication, TypeOK
  <2>2. CASE PauseReplication
    BY <2>2, <1>2 DEF PauseReplication
  <2>3. CASE ResumeReplication
    BY Zenon, <2>3, SpawnTypes, PersistTypes DEF ResumeReplication, TypeOK
  <2>4. CASE Cutover
    BY <2>4, PersistTypes DEF Cutover, TypeOK, loopVars
  <2>5. CASE Shutdown
    BY <2>5, <1>2, <1>3 DEF Shutdown, TypeOK
  <2>6. CASE Activate
    BY <2>6, <1>2 DEF Activate, TypeOK, loopVars
  <2> QED
    BY <1>5, <2>1, <2>2, <2>3, <2>4, <2>5, <2>6 DEF Command
<1>6. CASE Return
  <2>1. CASE CreateAfterStop \/ StartAfterStop
    BY Zenon, <2>1, <1>1 DEF CreateAfterStop, StartAfterStop, StopReturns, TypeOK
  <2>2. CASE PauseAfterStop \/ ShutdownAfterStop
    BY Zenon, <2>2, <1>3 DEF PauseAfterStop, ShutdownAfterStop, StopReturns, TypeOK
  <2>3. CASE ActivateAfterStop
    BY <2>3 DEF ActivateAfterStop, TypeOK, loopVars
  <2>4. CASE ActivateAfterClear
    <3>1. NoRegions \in Frontier
      BY TaskAssumption DEF NoRegions, Frontier, NoTs, Ts
    <3> QED
      BY Zenon, <2>4, <3>1, PersistTypes DEF ActivateAfterClear, TypeOK
  <2>5. CASE CutoverReturns
    <3>1. pc' \in Wait /\ timedOut' \in BOOLEAN /\ cancelTx' \in Loop \cup {NoLoop}
          /\ doneRx' \in Loop \cup {NoLoop}
      BY <2>5 DEF CutoverReturns, TypeOK
    <3>2. \/ SetState("Completed")
          \/ UNCHANGED <<state, stateFile, writeGuard, cutoverTs, loopVars, sourceTs>>
          \/ SetState("Failed")
      BY <2>5 DEF CutoverReturns
    <3>3. CASE UNCHANGED <<state, stateFile, writeGuard, cutoverTs, loopVars, sourceTs>>
      BY <3>1, <3>3 DEF TypeOK, loopVars
    <3> QED
      BY <3>1, <3>2, <3>3, <1>3
  <2> QED
    BY <1>6, <2>1, <2>2, <2>3, <2>4, <2>5 DEF Return
<1>7. ASSUME NEW l \in Loop, LoopStep(l) PROVE TypeOK'
  <2>1. ASSUME NEW S \in SUBSET Region, NEW ts \in Ts, HandleCheckpoint(l, S, ts)
        PROVE  TypeOK'
    <3> DEFINE f == [r \in Region |-> IF r \in S THEN ts ELSE frontier[l][r]]
    <3>1. f \in Frontier
      BY DEF TypeOK, Frontier
    <3>2. /\ frontier' \in [Loop -> Frontier]
          /\ known' \in [Loop -> SUBSET Region]
          /\ floor' \in [Loop -> Ts]
      BY <2>1, <3>1 DEF TypeOK, HandleCheckpoint
    <3> QED
      BY <2>1, <3>1, <3>2, <1>4 DEF HandleCheckpoint
  <2>2. CASE CheckpointAnswered(l)
    BY <2>2 DEF CheckpointAnswered, TypeOK, taskVars
  <2>3. ASSUME NEW S \in SUBSET Region, DropRegions(l, S) PROVE TypeOK'
    <3> DEFINE f == [r \in Region |-> IF r \in S THEN NoTs ELSE frontier[l][r]]
    <3>1. f \in Frontier
      BY TaskAssumption DEF TypeOK, Frontier, NoTs, Ts
    <3>2. frontier' \in [Loop -> Frontier]
      BY <2>3, <3>1 DEF TypeOK, DropRegions
    <3> QED
      BY <2>3, <3>2 DEF DropRegions, TypeOK, taskVars
  <2>4. CASE ExitLoop(l)
    BY <2>4, <1>4 DEF ExitLoop, TypeOK
  <2>5. CASE LastCheckpointAnswered(l) \/ LoopDropped(l)
    BY <2>5 DEF LastCheckpointAnswered, LoopDropped, SetPhase, TypeOK, taskVars
  <2> QED
    BY Zenon, <1>7, <2>1, <2>2, <2>3, <2>4, <2>5
    DEF LoopStep, HandleSplit, Rediscover, SeeCancel, CutoverCheck
<1>8. CASE AdvanceSource
  BY <1>8, TaskAssumption DEF AdvanceSource, TypeOK, taskVars, loopVars, Ts
<1>9. CASE Restart
  <2>1. NoRegions \in Frontier /\ NoTs \in Ts
    BY TaskAssumption DEF NoRegions, Frontier, NoTs, Ts
  <2> QED
    BY Zenon, <1>9, <2>1 DEF Restart, TypeOK, LoadPersistedState
<1>10. CASE UNCHANGED vars
  BY <1>10 DEF vars, taskVars, loopVars, TypeOK
<1> QED
  BY <1>5, <1>6, <1>7, <1>8, <1>9, <1>10 DEF Next

\* Type correctness: the task, its loops and the two files always hold values
\* of their types, in every run of the program.
THEOREM TypeCorrect == Spec => []TypeOK
<1>1. Init => TypeOK
  <2>1. NoRegions \in Frontier /\ NoTs \in Ts
    BY TaskAssumption DEF NoRegions, Frontier, NoTs, Ts
  <2> QED
    BY Zenon, <2>1 DEF Init, TypeOK, LoadPersistedState, TaskState, NoFile, Wait
<1> QED
  BY <1>1, TypeStep, PTL DEF Spec

\* Every timestamp is a natural number, before and after a step.
LEMMA NatTs ==
    ASSUME TypeOK
    PROVE  /\ sourceTs \in Nat
           /\ \A r \in Region : ckptFile[r] \in Nat
           /\ \A l \in Loop : startTs[l] \in Nat
           /\ \A l \in Loop : floor[l] \in Nat
           /\ \A l \in Loop : \A r \in Region : frontier[l][r] \in Nat
<1>1. Ts \subseteq Nat
  BY TaskAssumption DEF Ts
<1>2. sourceTs \in Nat /\ \A l \in Loop : startTs[l] \in Nat /\ floor[l] \in Nat
  BY Zenon, <1>1 DEF TypeOK
<1>3. ckptFile \in Frontier /\ \A l \in Loop : frontier[l] \in Frontier
  BY DEF TypeOK
<1>4. \A f \in Frontier : \A r \in Region : f[r] \in Nat
  BY Zenon, <1>1 DEF Frontier
<1> QED
  BY <1>2, <1>3, <1>4

\* The same of the values after a step.
LEMMA NatTsNext ==
    ASSUME TypeOK'
    PROVE  /\ \A l \in Loop : floor'[l] \in Nat
           /\ \A l \in Loop : \A r \in Region : frontier'[l][r] \in Nat
<1>1. Ts \subseteq Nat
  BY TaskAssumption DEF Ts
<1>2. \A l \in Loop : floor'[l] \in Nat
  BY Zenon, <1>1 DEF TypeOK
<1>3. \A l \in Loop : frontier'[l] \in Frontier
  BY DEF TypeOK
<1>4. \A f \in Frontier : \A r \in Region : f[r] \in Nat
  BY Zenon, <1>1 DEF Frontier
<1> QED
  BY <1>2, <1>3, <1>4

-----------------------------------------------------------------------------
(* The inductive invariant *)

\* Which loop the task waits for in which state.  It says nothing about loops,
\* so it survives timeouts.
WaitedFor ==
    /\ pc \in Stopping => state = "Subscribing"
    /\ pc = "cutover" => state = "CuttingOver"
    /\ pc = "clear" => state = "Completed"
    /\ doneRx # NoLoop <=> pc = "cutover" \/ state = "Subscribing"

\* Unless a wait gave up, no loop lives but the one the task waits for.
Owned == ~timedOut => \A l \in Loop : Live(l) => l = doneRx

\* The waited-for loop, if spawned without a target: it sees a target only
\* during the cutover, is not cancelled outside stop_event_loop, and has left
\* its select loop only because it reached the target.
Targeted ==
    doneRx # NoLoop /\ ~staleTarget[doneRx] =>
        /\ pc # "cutover" => cutoverTs = NoTs
        /\ pc \notin Stopping => ~cancelled[doneRx]
        /\ pc \notin Stopping /\ phase[doneRx] \in {"exiting", "done"} =>
              pc = "cutover" /\ Reached(frontier[doneRx], cutoverTs)

\* Timestamps of files, frontiers and streams never exceed their origin.
Bounded ==
    /\ \A r \in Region : ckptFile[r] <= sourceTs
    /\ \A l \in Loop : Live(l) =>
          /\ startTs[l] <= floor[l]
          /\ floor[l] <= sourceTs
          /\ \A r \in Region : frontier[l][r] <= floor[l]
          /\ \A r \in Present(frontier[l]) : startTs[l] <= frontier[l][r]

\* What a loop would record is not older than the file, unless a wait gave up.
Ahead ==
    ~timedOut => \A l \in Loop : Live(l) =>
        /\ GlobalMin(ckptFile) <= floor[l]
        /\ \A r \in Present(frontier[l]) : GlobalMin(ckptFile) <= frontier[l][r]

\* lastRec is the minimum in the file, and of the frontier once it is recorded.
Recorded ==
    \A l \in Loop :
        /\ synced[l] => GlobalMin(ckptFile) = lastRec[l]
        /\ phase[l] \in {"recording", "exiting", "done"} /\ Present(frontier[l]) # {}
              => lastRec[l] = GlobalMin(frontier[l])

IInv == WaitedFor /\ Owned /\ Targeted /\ Bounded /\ Ahead /\ Recorded

\* The initial states, and those of a new process, satisfy the invariant.
LEMMA InitInvariant == Init => IInv
<1> SUFFICES ASSUME Init PROVE IInv
  OBVIOUS
<1>1. NoRegions \in Frontier /\ \A r \in Region : NoRegions[r] = NoTs
  BY TaskAssumption DEF NoRegions, Frontier, NoTs, Ts
<1>2. GlobalMin(NoRegions) = NoTs
  BY <1>1, GlobalMinIsLeast DEF Present
<1>3. \A l \in Loop : phase[l] = "unused" /\ ~synced[l] /\ ~Live(l)
  BY DEF Init, Live
<1>4. WaitedFor /\ Owned /\ Targeted
  BY <1>3 DEF Init, WaitedFor, Owned, Targeted, Stopping, LoadPersistedState, NoFile
<1>5. Bounded /\ Ahead /\ Recorded
  BY <1>1, <1>2, <1>3 DEF Init, Bounded, Ahead, Recorded, NoTs
<1> QED
  BY <1>4, <1>5 DEF IInv

\* A loop step changes neither the task nor the source, and no other loop.
LEMMA LoopStepFrame ==
    ASSUME TypeOK, NEW l \in Loop, LoopStep(l)
    PROVE  /\ Live(l)
           /\ UNCHANGED <<taskVars, cancelled, startTs, staleTarget, sourceTs>>
           /\ \A k \in Loop \ {l} : /\ phase'[k] = phase[k]
                                    /\ frontier'[k] = frontier[k]
                                    /\ lastRec'[k] = lastRec[k]
                                    /\ floor'[k] = floor[k]
<1>1. ASSUME NEW f, NEW p, NEW q, RecordCheckpoint(l, f, p, q)
      PROVE  \A k \in Loop \ {l} : phase'[k] = phase[k] /\ lastRec'[k] = lastRec[k]
  BY <1>1 DEF RecordCheckpoint, TypeOK
<1>2. ASSUME NEW S \in SUBSET Region, NEW ts \in Ts, HandleCheckpoint(l, S, ts)
      PROVE  \A k \in Loop \ {l} : /\ phase'[k] = phase[k]
                                    /\ frontier'[k] = frontier[k]
                                    /\ lastRec'[k] = lastRec[k]
                                    /\ floor'[k] = floor[k]
  <2>1. \A k \in Loop \ {l} : phase'[k] = phase[k] /\ lastRec'[k] = lastRec[k]
    BY <1>1, <1>2 DEF HandleCheckpoint
  <2>2. /\ floor' = [floor EXCEPT ![l] = ts]
        /\ \E f : frontier' = [frontier EXCEPT ![l] = f]
    BY Zenon, <1>2 DEF HandleCheckpoint
  <2> QED
    BY <2>1, <2>2 DEF TypeOK
<1>3. CASE \E S \in SUBSET Region, ts \in Ts : HandleCheckpoint(l, S, ts)
  BY Zenon, <1>2, <1>3 DEF HandleCheckpoint, Live
<1>4. CASE ExitLoop(l)
  BY <1>1, <1>4 DEF ExitLoop, Live
<1>5. CASE CheckpointAnswered(l) \/ LastCheckpointAnswered(l) \/ LoopDropped(l)
  BY <1>5 DEF CheckpointAnswered, LastCheckpointAnswered, LoopDropped, SetPhase,
              TypeOK, Live
<1>6. ASSUME NEW S, DropRegions(l, S)
      PROVE  /\ Live(l)
             /\ UNCHANGED <<taskVars, cancelled, startTs, staleTarget, sourceTs, phase,
                            lastRec, floor>>
             /\ \A k \in Loop \ {l} : frontier'[k] = frontier[k]
  <2>1. \E f : frontier' = [frontier EXCEPT ![l] = f]
    BY Zenon, <1>6 DEF DropRegions
  <2> QED
    BY <1>6, <2>1 DEF DropRegions, Live, TypeOK
<1> QED
  BY Zenon, <1>3, <1>4, <1>5, <1>6
  DEF LoopStep, HandleSplit, Rediscover, SeeCancel, CutoverCheck

\* The task's wait and its state stay matched.
LEMMA WaitedForStep ==
    ASSUME TypeOK, WaitedFor, [Next]_vars
    PROVE  WaitedFor'
<1> USE DEF WaitedFor, Stopping
<1>1. CASE Command
  <2>1. CASE CreateReplication \/ StartReplication
    <3>1. CASE \E full \in BOOLEAN : Replicate(full) /\ pc = "ready" /\ UNCHANGED pc
      BY <3>1, SpawnTypes, TaskAssumption DEF Replicate
    <3>2. CASE \E c \in Stopping : state = "Subscribing" /\ pc = "ready" /\ SendCancel(c)
      BY <3>2 DEF SendCancel
    <3> QED
      BY Zenon, <2>1, <3>1, <3>2 DEF CreateReplication, StartReplication
  <2>2. CASE PauseReplication
    BY <2>2 DEF PauseReplication, SendCancel
  <2>3. CASE ResumeReplication
    BY Zenon, <2>3, SpawnTypes, TaskAssumption DEF ResumeReplication
  <2>4. CASE Cutover
    BY <2>4 DEF Cutover
  <2>5. CASE Shutdown
    BY <2>5 DEF Shutdown, SendCancel, SetState
  <2>6. CASE Activate
    BY <2>6 DEF Activate, SendCancel
  <2> QED
    BY <1>1, <2>1, <2>2, <2>3, <2>4, <2>5, <2>6 DEF Command
<1>2. CASE Return
  <2>1. CASE CreateAfterStop \/ StartAfterStop
    BY Zenon, <2>1, SpawnTypes, TaskAssumption
    DEF CreateAfterStop, StartAfterStop, StopReturns, Replicate
  <2>2. CASE PauseAfterStop \/ ShutdownAfterStop
    BY <2>2 DEF PauseAfterStop, ShutdownAfterStop, StopReturns, SetState
  <2>3. CASE ActivateAfterStop \/ ActivateAfterClear
    BY <2>3 DEF ActivateAfterStop, ActivateAfterClear
  <2>4. CASE CutoverReturns
    <3>1. pc = "cutover" /\ pc' = "ready" /\ doneRx' = NoLoop
      BY <2>4 DEF CutoverReturns
    <3>2. SetState("Completed") \/ state' = state \/ SetState("Failed")
      BY <2>4 DEF CutoverReturns
    <3> QED
      BY <3>1, <3>2 DEF SetState
  <2> QED
    BY <1>2, <2>1, <2>2, <2>3, <2>4 DEF Return
<1>3. CASE \E l \in Loop : LoopStep(l)
  BY <1>3, LoopStepFrame DEF taskVars
<1>4. CASE AdvanceSource
  BY <1>4 DEF AdvanceSource, taskVars
<1>5. CASE Restart
  BY <1>5 DEF Restart, LoadPersistedState
<1>6. CASE UNCHANGED vars
  BY <1>6 DEF vars, taskVars
<1> QED
  BY <1>1, <1>2, <1>3, <1>4, <1>5, <1>6 DEF Next

\* What spawn_event_loop does to the loop it picks, and to no other.
LEMMA SpawnFacts ==
    ASSUME TypeOK, NEW full \in BOOLEAN, SpawnEventLoop(full)
    PROVE  \E l \in Loop :
             /\ ~Live(l)
             /\ doneRx' = l /\ cancelTx' = l
             /\ phase'[l] = "select" /\ ~cancelled'[l] /\ ~synced'[l]
             /\ frontier'[l] \in {NoRegions, ckptFile}
             /\ startTs'[l] = GlobalMin(frontier'[l])
             /\ floor'[l] = sourceTs
             /\ staleTarget'[l] = (cutoverTs # NoTs)
             /\ \A k \in Loop \ {l} :
                  /\ phase'[k] = phase[k] /\ synced'[k] = synced[k]
                  /\ frontier'[k] = frontier[k] /\ startTs'[k] = startTs[k]
                  /\ floor'[k] = floor[k] /\ lastRec'[k] = lastRec[k]
             /\ ckptFile' = ckptFile
<1> DEFINE seed == IF full THEN NoRegions ELSE ckptFile
<1>1. PICK l \in Loop :
        /\ ~Live(l)
        /\ phase' = [phase EXCEPT ![l] = "select"]
        /\ cancelled' = [cancelled EXCEPT ![l] = FALSE]
        /\ frontier' = [frontier EXCEPT ![l] = seed]
        /\ lastRec' = [lastRec EXCEPT ![l] = NoTs]
        /\ startTs' = [startTs EXCEPT ![l] = ResumeTs(seed)]
        /\ floor' = [floor EXCEPT ![l] = sourceTs]
        /\ staleTarget' = [staleTarget EXCEPT ![l] = cutoverTs # NoTs]
        /\ synced' = [synced EXCEPT ![l] = FALSE]
        /\ cancelTx' = l
        /\ doneRx' = l
        /\ UNCHANGED ckptFile
  BY Zenon DEF SpawnEventLoop
<1>2. seed \in {NoRegions, ckptFile}
  OBVIOUS
<1> HIDE DEF seed
<1>3. staleTarget'[l] = (cutoverTs # NoTs)
  BY <1>1, Zenon DEF TypeOK
<1> WITNESS l \in Loop
<1> QED
  BY <1>1, <1>2, <1>3 DEF TypeOK, ResumeTs

\* A command or its return either spawns a loop, or leaves the loops as they are.
LEMMA TaskSteps ==
    ASSUME TypeOK, WaitedFor, Command \/ Return
    PROVE  LET waited == timedOut' = (timedOut \/ (doneRx # NoLoop /\ ~Finished(doneRx)))
           IN  \/ /\ \E full \in BOOLEAN : SpawnEventLoop(full)
                  /\ pc' = "ready" /\ UNCHANGED <<cutoverTs, sourceTs>>
                  /\ waited
               \/ /\ UNCHANGED <<phase, frontier, lastRec, startTs, floor, staleTarget,
                                 sourceTs>>
                  /\ \/ doneRx' = doneRx /\ timedOut' = timedOut
                     \/ doneRx' = NoLoop /\ waited
                  /\ \/ UNCHANGED <<ckptFile, synced>>
                     \/ ckptFile' = NoRegions /\ synced' = [l \in Loop |-> FALSE]
                  /\ doneRx' # NoLoop =>
                       /\ pc = "ready"
                       /\ \/ pc' \in Stopping /\ UNCHANGED cutoverTs
                          \/ pc' = "cutover" /\ UNCHANGED cancelled
<1> USE DEF WaitedFor, Stopping, loopVars
<1>1. ASSUME NEW full \in BOOLEAN, Replicate(full)
      PROVE  /\ \E f \in BOOLEAN : SpawnEventLoop(f)
             /\ UNCHANGED <<cutoverTs, sourceTs>>
  BY <1>1, Zenon DEF Replicate
<1>2. CASE CreateReplication \/ StartReplication
  <2>1. CASE state = "Subscribing"
    BY <1>2, <2>1 DEF CreateReplication, StartReplication, SendCancel, Startable
  <2>2. CASE state # "Subscribing"
    <3>1. /\ pc = "ready" /\ UNCHANGED <<pc, timedOut>>
          /\ \E full \in BOOLEAN : Replicate(full)
      BY Zenon, <1>2, <2>2 DEF CreateReplication, StartReplication
    <3> QED
      BY <1>1, <2>2, <3>1 DEF TypeOK
  <2> QED
    BY <2>1, <2>2
<1>3. CASE PauseReplication
  BY <1>3 DEF PauseReplication, SendCancel
<1>4. CASE ResumeReplication
  <2>1. \E full \in BOOLEAN : SpawnEventLoop(full)
    BY <1>4, Zenon DEF ResumeReplication
  <2> QED
    BY <1>4, <2>1 DEF ResumeReplication, TypeOK
<1>5. CASE Cutover
  BY <1>5 DEF Cutover
<1>6. CASE Shutdown
  BY <1>6 DEF Shutdown, SendCancel, SetState
<1>7. CASE Activate
  BY <1>7 DEF Activate, SendCancel
<1>8. CASE CreateAfterStop \/ StartAfterStop
  <2>1. \E full \in BOOLEAN : Replicate(full)
    BY <1>8, Zenon DEF CreateAfterStop, StartAfterStop
  <2>2. pc \in Stopping /\ StopReturns
    BY Zenon, <1>8 DEF CreateAfterStop, StartAfterStop
  <2> QED
    BY <1>1, <2>1, <2>2 DEF StopReturns
<1>9. CASE PauseAfterStop \/ ShutdownAfterStop
  BY <1>9 DEF PauseAfterStop, ShutdownAfterStop, StopReturns, SetState
<1>10. CASE ActivateAfterStop
  BY <1>10 DEF ActivateAfterStop
<1>11. CASE ActivateAfterClear
  <2>1. \/ UNCHANGED <<ckptFile, synced>>
        \/ ckptFile' = NoRegions /\ synced' = [l \in Loop |-> FALSE]
    <3>1. PICK gone \in BOOLEAN :
            /\ ckptFile' = IF gone THEN NoRegions ELSE ckptFile
            /\ synced' = [l \in Loop |-> synced[l] /\ ~gone]
      BY <1>11, TaskAssumption, Zenon DEF ActivateAfterClear
    <3>2. CASE gone
      BY Zenon, <3>1, <3>2
    <3>3. CASE ~gone
      BY Zenon, <3>1, <3>3 DEF TypeOK
    <3> QED
      BY <3>2, <3>3
  <2> QED
    BY Zenon, <1>11, <2>1 DEF ActivateAfterClear
<1>12. CASE CutoverReturns
  <2>1. /\ doneRx' = NoLoop /\ pc = "cutover"
        /\ timedOut' = (timedOut \/ ~Finished(doneRx))
    BY <1>12 DEF CutoverReturns
  <2>2. UNCHANGED loopVars /\ sourceTs' = sourceTs
    BY <1>12 DEF CutoverReturns, SetState
  <2> QED
    BY <2>1, <2>2
<1> QED
  BY Zenon, <1>2, <1>3, <1>4, <1>5, <1>6, <1>7, <1>8, <1>9, <1>10, <1>11, <1>12
  DEF Command, Return

\* Unless a wait gives up, no loop is left behind by a command.
LEMMA OwnedStep ==
    ASSUME TypeOK, WaitedFor, Owned, [Next]_vars
    PROVE  Owned'
<1> SUFFICES ASSUME ~timedOut', NEW l \in Loop, Live(l)' PROVE l = doneRx'
  BY DEF Owned
<1>1. CASE Command \/ Return
  <2>0. ASSUME timedOut' = (timedOut \/ (doneRx # NoLoop /\ ~Finished(doneRx)))
        PROVE  \A k \in Loop : ~Live(k)
    <3>1. ~timedOut /\ (doneRx = NoLoop \/ Finished(doneRx))
      BY <2>0, Zenon
    <3> QED
      BY <3>1, TaskAssumption DEF Owned, Finished, Live
  <2>1. ASSUME NEW full \in BOOLEAN, SpawnEventLoop(full),
               timedOut' = (timedOut \/ (doneRx # NoLoop /\ ~Finished(doneRx)))
        PROVE  l = doneRx'
    BY <2>0, <2>1, SpawnFacts DEF Live
  <2>2. CASE UNCHANGED phase /\ doneRx' = doneRx /\ timedOut' = timedOut
    BY <2>2 DEF Owned, Live
  <2>3. CASE UNCHANGED phase /\
             timedOut' = (timedOut \/ (doneRx # NoLoop /\ ~Finished(doneRx)))
    BY <2>0, <2>3 DEF Live
  <2> QED
    BY <1>1, <2>1, <2>2, <2>3, TaskSteps
<1>2. CASE \E k \in Loop : LoopStep(k)
  BY <1>2, LoopStepFrame DEF Owned, Live, taskVars
<1>3. CASE AdvanceSource \/ UNCHANGED vars
  BY <1>3 DEF AdvanceSource, vars, taskVars, loopVars, Owned, Live
<1>4. CASE Restart
  BY <1>4 DEF Restart, Live
<1> QED
  BY <1>1, <1>2, <1>3, <1>4 DEF Next

\* is_cutover_ready says that every region in the frontier reached the target.
LEMMA ReadyIsReached ==
    ASSUME TypeOK, NEW f \in Frontier, IsCutoverReady(f)
    PROVE  Reached(f, cutoverTs)
<1>1. Present(f) # {} /\ \A r \in Present(f) : GlobalMin(f) <= f[r]
  BY GlobalMinIsLeast DEF IsCutoverReady
<1>2. GlobalMin(f) \in Nat /\ cutoverTs \in Nat /\ \A r \in Present(f) : f[r] \in Nat
  BY GlobalMinIsLeast, TaskAssumption DEF TypeOK, Ts, Latest, Frontier, Present
<1> QED
  BY <1>1, <1>2 DEF IsCutoverReady, Reached

\* The two outcomes of record_checkpoint before it calls PD.
LEMMA RecordFacts ==
    ASSUME TypeOK, NEW l \in Loop, NEW f \in Frontier, NEW p, NEW q,
           RecordCheckpoint(l, f, p, q)
    PROVE  \/ /\ Present(f) = {} \/ lastRec[l] = GlobalMin(f)
              /\ phase'[l] = p
              /\ UNCHANGED <<lastRec, synced, ckptFile>>
           \/ /\ phase'[l] = q
              /\ lastRec'[l] = GlobalMin(f)
              /\ \/ ckptFile' = f /\ \A k \in Loop : synced'[k] = (k = l)
                 \/ /\ ckptFile' = ckptFile
                    /\ ~synced'[l]
                    /\ \A k \in Loop \ {l} : synced'[k] = synced[k]
<1>1. CASE Present(f) = {} \/ lastRec[l] = GlobalMin(f)
  BY <1>1 DEF RecordCheckpoint, TypeOK
<1>2. CASE ~(Present(f) = {} \/ lastRec[l] = GlobalMin(f))
  <2>1. /\ phase' = [phase EXCEPT ![l] = q]
        /\ lastRec' = [lastRec EXCEPT ![l] = GlobalMin(f)]
        /\ \/ ckptFile' = f /\ synced' = [k \in Loop |-> k = l]
           \/ ckptFile' = ckptFile /\ synced' = [synced EXCEPT ![l] = FALSE]
    BY <1>2, Zenon DEF RecordCheckpoint
  <2>2. CASE ckptFile' = f /\ synced' = [k \in Loop |-> k = l]
    <3>1. \A k \in Loop : synced'[k] = (k = l)
      BY <2>2, Zenon
    <3> QED
      BY <2>1, <2>2, <3>1 DEF TypeOK
  <2>3. CASE ckptFile' = ckptFile /\ synced' = [synced EXCEPT ![l] = FALSE]
    BY <2>1, <2>3 DEF TypeOK
  <2> QED
    BY <2>1, <2>2, <2>3
<1> QED
  BY <1>1, <1>2

\* How one loop step moves a loop's timestamps and the checkpoint file, and the
\* only reasons a loop leaves its select loop.
LEMMA LoopStepTs ==
    ASSUME TypeOK, NEW l \in Loop, LoopStep(l)
    PROVE  /\ ckptFile' \in {ckptFile, frontier'[l]}
           /\ floor[l] <= floor'[l]
           /\ floor'[l] = floor[l] \/ floor'[l] <= sourceTs
           /\ \A r \in Region : frontier'[l][r] \in {frontier[l][r], NoTs, floor'[l]}
           /\ phase'[l] \in {"exiting", "done"} =>
                \/ cancelled[l]
                \/ IsCutoverReady(frontier'[l])
                \/ phase[l] = "exiting" /\ frontier'[l] = frontier[l]
<1>1. ASSUME NEW S \in SUBSET Region, NEW ts \in Ts, HandleCheckpoint(l, S, ts)
      PROVE  /\ ckptFile' \in {ckptFile, frontier'[l]}
             /\ floor[l] <= floor'[l] /\ floor'[l] <= sourceTs
             /\ \A r \in Region : frontier'[l][r] \in {frontier[l][r], floor'[l]}
             /\ phase'[l] \in {"exiting", "done"} => IsCutoverReady(frontier'[l])
  <2> DEFINE f == [r \in Region |-> IF r \in S THEN ts ELSE frontier[l][r]]
  <2>1. f \in Frontier
    BY DEF TypeOK, Frontier
  <2>2. /\ frontier'[l] = f /\ floor'[l] = ts
        /\ floor[l] <= ts /\ ts <= sourceTs
        /\ RecordCheckpoint(l, f, IF IsCutoverReady(f) THEN "done" ELSE "select",
                            "recording")
    BY <1>1 DEF HandleCheckpoint, TypeOK
  <2>3. \A r \in Region : f[r] \in {frontier[l][r], ts}
    OBVIOUS
  <2> HIDE DEF f
  <2>4. /\ ckptFile' \in {ckptFile, f}
        /\ phase'[l] \in {IF IsCutoverReady(f) THEN "done" ELSE "select", "recording"}
    BY <2>1, <2>2, RecordFacts
  <2>5. phase'[l] \in {"exiting", "done"} => IsCutoverReady(f)
    BY <2>4
  <2> QED
    BY <2>2, <2>3, <2>4, <2>5
<1>0. ASSUME floor'[l] = floor[l] PROVE floor[l] <= floor'[l]
  <2>1. floor[l] \in Nat
    BY NatTs
  <2> QED
    BY <1>0, <2>1, SMTT(30)
<1>2. CASE CheckpointAnswered(l)
  <2>1. /\ UNCHANGED <<ckptFile, floor, frontier>>
        /\ phase'[l] # "exiting"
        /\ phase'[l] = "done" => IsCutoverReady(frontier[l])
    BY <1>2 DEF CheckpointAnswered, TypeOK
  <2>2. floor'[l] = floor[l] /\ frontier'[l] = frontier[l] /\ floor[l] <= floor'[l]
    BY <1>0, <2>1
  <2> QED
    BY <2>1, <2>2
<1>3. ASSUME NEW S, DropRegions(l, S)
      PROVE  /\ ckptFile' = ckptFile /\ floor'[l] = floor[l] /\ phase'[l] = "select"
             /\ \A r \in Region : frontier'[l][r] \in {frontier[l][r], NoTs}
  BY <1>3 DEF DropRegions, TypeOK, Frontier
<1>4. CASE SeeCancel(l) \/ CutoverCheck(l)
  <2>1. /\ frontier' = frontier /\ floor' = floor
        /\ cancelled[l] \/ IsCutoverReady(frontier[l])
        /\ RecordCheckpoint(l, frontier[l], "done", "exiting")
    BY <1>4 DEF SeeCancel, CutoverCheck, ExitLoop
  <2>2. frontier[l] \in Frontier
    BY DEF TypeOK
  <2>3. ckptFile' \in {ckptFile, frontier[l]}
    BY <2>1, <2>2, RecordFacts
  <2>4. floor'[l] = floor[l] /\ frontier'[l] = frontier[l] /\ floor[l] <= floor'[l]
    BY <1>0, <2>1
  <2>5. cancelled[l] \/ IsCutoverReady(frontier'[l])
    BY <2>1, <2>4
  <2> QED
    BY <2>3, <2>4, <2>5
<1>5. CASE LastCheckpointAnswered(l) \/ LoopDropped(l)
  <2>1. /\ UNCHANGED <<ckptFile, floor, frontier>>
        /\ phase'[l] \in {"exiting", "done"} => phase[l] = "exiting"
    BY <1>5 DEF LastCheckpointAnswered, LoopDropped, SetPhase, TypeOK
  <2>2. floor'[l] = floor[l] /\ frontier'[l] = frontier[l] /\ floor[l] <= floor'[l]
    BY <1>0, <2>1
  <2> QED
    BY <2>1, <2>2
<1>6. CASE \E S \in SUBSET Region, ts \in Ts : HandleCheckpoint(l, S, ts)
  BY <1>1, <1>6
<1>7. CASE \E S : DropRegions(l, S)
  <2>1. /\ ckptFile' = ckptFile /\ floor'[l] = floor[l] /\ phase'[l] = "select"
        /\ \A r \in Region : frontier'[l][r] \in {frontier[l][r], NoTs}
    BY <1>3, <1>7
  <2>2. floor[l] <= floor'[l]
    BY <1>0, <2>1
  <2> QED
    BY <2>1, <2>2
<1> QED
  BY Zenon, <1>2, <1>4, <1>5, <1>6, <1>7 DEF LoopStep, HandleSplit, Rediscover

\* A loop spawned without a target leaves its select loop, while the task waits
\* in Cutover, only at the target.
LEMMA TargetedStep ==
    ASSUME TypeOK, TypeOK', WaitedFor, Targeted, [Next]_vars
    PROVE  Targeted'
<1> USE TaskAssumption DEF Targeted
<1>1. CASE Command \/ Return
  <2>1. ASSUME NEW full \in BOOLEAN, SpawnEventLoop(full), pc' = "ready",
               UNCHANGED cutoverTs
        PROVE  Targeted'
    BY Zenon, <2>1, SpawnFacts DEF Stopping
  <2>2. ASSUME UNCHANGED <<phase, frontier, staleTarget>>,
               doneRx' = doneRx \/ doneRx' = NoLoop,
               doneRx' # NoLoop =>
                       /\ pc = "ready"
                       /\ \/ pc' \in Stopping /\ UNCHANGED cutoverTs
                          \/ pc' = "cutover" /\ UNCHANGED cancelled
        PROVE  Targeted'
    BY <2>2 DEF Stopping
  <2> QED
    BY <1>1, <2>1, <2>2, TaskSteps
<1>2. ASSUME NEW l \in Loop, LoopStep(l) PROVE Targeted'
  <2>1. CASE l # doneRx
    <3>1. UNCHANGED <<doneRx, pc, cutoverTs, cancelled, staleTarget>>
      BY <1>2, LoopStepFrame DEF taskVars
    <3>2. doneRx # NoLoop => /\ phase'[doneRx] = phase[doneRx]
                             /\ frontier'[doneRx] = frontier[doneRx]
      <4>1. doneRx # NoLoop => doneRx \in Loop \ {l}
        BY <2>1 DEF TypeOK
      <4> QED
        BY <1>2, <4>1, LoopStepFrame
    <3> QED
      BY <3>1, <3>2
  <2>2. CASE l = doneRx
    <3>1. frontier'[l] \in Frontier
      BY DEF TypeOK
    <3>2. /\ UNCHANGED <<taskVars, cancelled, staleTarget>>
          /\ phase'[l] \in {"exiting", "done"} =>
                \/ cancelled[l]
                \/ IsCutoverReady(frontier'[l])
                \/ phase[l] = "exiting" /\ frontier'[l] = frontier[l]
      BY Zenon, <1>2, LoopStepFrame, LoopStepTs
    <3>3. IsCutoverReady(frontier'[l]) => /\ cutoverTs # NoTs
                                          /\ Reached(frontier'[l], cutoverTs)
      BY <3>1, ReadyIsReached DEF IsCutoverReady
    <3> QED
      BY <2>2, <3>2, <3>3 DEF taskVars
  <2> QED
    BY <2>1, <2>2
<1>3. CASE AdvanceSource \/ UNCHANGED vars
  BY <1>3 DEF AdvanceSource, vars, taskVars, loopVars
<1>4. CASE Restart
  BY <1>4 DEF Restart
<1> QED
  BY <1>1, <1>2, <1>3, <1>4 DEF Next

\* The least timestamp of a frontier is at most any bound of its entries.
LEMMA MinBelow ==
    ASSUME NEW f \in Frontier, NEW t \in Ts, \A r \in Region : f[r] <= t
    PROVE  GlobalMin(f) <= t
<1>1. GlobalMin(f) = 0 \/ \E r \in Region : GlobalMin(f) = f[r]
  BY GlobalMinIsLeast DEF Present, NoTs
<1>2. t \in Nat
  BY TaskAssumption DEF Ts
<1> QED
  BY <1>1, <1>2

\* Timestamps never exceed the clock they come from.
LEMMA BoundedStep ==
    ASSUME TypeOK, TypeOK', WaitedFor, Bounded, [Next]_vars
    PROVE  Bounded'
<1>0. /\ NoRegions \in Frontier /\ \A r \in Region : NoRegions[r] = 0
      /\ Ts \subseteq Nat /\ NoTs = 0
  BY TaskAssumption DEF NoRegions, Frontier, NoTs, Ts
<1>1. CASE Command \/ Return
  <2>1. ASSUME NEW full \in BOOLEAN, SpawnEventLoop(full), UNCHANGED sourceTs
        PROVE  Bounded'
    <3>1. PICK l \in Loop :
             /\ frontier'[l] \in {NoRegions, ckptFile}
             /\ startTs'[l] = GlobalMin(frontier'[l])
             /\ floor'[l] = sourceTs
             /\ \A k \in Loop \ {l} :
                  /\ phase'[k] = phase[k] /\ startTs'[k] = startTs[k]
                  /\ frontier'[k] = frontier[k] /\ floor'[k] = floor[k]
             /\ ckptFile' = ckptFile
      BY <2>1, SpawnFacts
    <3>2. frontier'[l] \in Frontier /\ sourceTs \in Ts
      BY DEF TypeOK
    <3>3. \A r \in Region : frontier'[l][r] <= sourceTs
      <4>1. CASE frontier'[l] = NoRegions
        <5>1. \A r \in Region : frontier'[l][r] = 0
          BY Zenon, <1>0, <4>1
        <5>2. 0 <= sourceTs
          BY NatTs
        <5> QED
          BY <5>1, <5>2
      <4>2. CASE frontier'[l] = ckptFile
        BY <4>2 DEF Bounded
      <4> QED
        BY <3>1, <4>1, <4>2
    <3>4. startTs'[l] <= sourceTs
      BY <3>1, <3>2, <3>3, MinBelow
    <3>5. \A r \in Present(frontier'[l]) : startTs'[l] <= frontier'[l][r]
      BY <3>1, <3>2, GlobalMinIsLeast
    <3>6. ASSUME NEW k \in Loop, Live(k)'
          PROVE  /\ startTs'[k] <= floor'[k]
                 /\ floor'[k] <= sourceTs'
                 /\ \A r \in Region : frontier'[k][r] <= floor'[k]
                 /\ \A r \in Present(frontier'[k]) : startTs'[k] <= frontier'[k][r]
      <4>1. CASE k = l
        BY <1>0, <2>1, <3>1, <3>2, <3>3, <3>4, <3>5, <4>1
      <4>2. CASE k # l
        <5>1. Live(k)
          BY <3>1, <3>6, <4>2 DEF Live
        <5> QED
          BY <2>1, <3>1, <4>2, <5>1 DEF Bounded
      <4> QED
        BY <4>1, <4>2
    <3> QED
      BY <2>1, <3>1, <3>6 DEF Bounded
  <2>2. ASSUME UNCHANGED <<phase, frontier, startTs, floor, sourceTs>>,
               ckptFile' \in {ckptFile, NoRegions}
        PROVE  Bounded'
    BY <2>2, <1>0, SMTT(30) DEF Bounded, Live, TypeOK
  <2> QED
    BY <1>1, <2>1, <2>2, TaskSteps
<1>2. ASSUME NEW l \in Loop, LoopStep(l) PROVE Bounded'
  <2>1. Live(l) /\ UNCHANGED <<startTs, sourceTs>>
    BY <1>2, LoopStepFrame
  <2>2. /\ floor[l] \in Nat /\ floor'[l] \in Nat /\ sourceTs \in Nat /\ startTs[l] \in Nat
        /\ \A r \in Region : frontier[l][r] \in Nat /\ frontier'[l][r] \in Nat
    BY NatTs, NatTsNext
  <2>3. floor[l] <= floor'[l] /\ floor'[l] <= sourceTs /\ startTs[l] <= floor'[l]
    <3>1. startTs[l] <= floor[l] /\ floor[l] <= sourceTs
      BY <2>1 DEF Bounded
    <3>2. /\ floor[l] <= floor'[l]
          /\ floor'[l] = floor[l] \/ floor'[l] <= sourceTs
      BY <1>2, LoopStepTs
    <3>3. floor[l] \in Nat /\ floor'[l] \in Nat /\ sourceTs \in Nat /\ startTs[l] \in Nat
      BY <2>2
    <3> QED
      BY <3>1, <3>2, <3>3
  <2>4. \A r \in Region :
          /\ frontier'[l][r] <= floor'[l]
          /\ frontier'[l][r] # NoTs => startTs[l] <= frontier'[l][r]
    <3> SUFFICES ASSUME NEW r \in Region
                 PROVE  /\ frontier'[l][r] <= floor'[l]
                        /\ frontier'[l][r] # NoTs => startTs[l] <= frontier'[l][r]
      OBVIOUS
    <3>1. frontier'[l][r] \in {frontier[l][r], NoTs, floor'[l]}
      BY <1>2, LoopStepTs
    <3>2. /\ frontier[l][r] <= floor[l]
          /\ frontier[l][r] # NoTs => startTs[l] <= frontier[l][r]
      BY <2>1 DEF Bounded, Present
    <3>3. /\ floor[l] \in Nat /\ floor'[l] \in Nat /\ startTs[l] \in Nat
          /\ frontier[l][r] \in Nat /\ NoTs = 0
      BY <1>0, <2>2
    <3>4. CASE frontier'[l][r] = frontier[l][r]
      BY <2>3, <3>2, <3>3, <3>4
    <3>5. CASE frontier'[l][r] = NoTs
      BY <3>3, <3>5
    <3>6. CASE frontier'[l][r] = floor'[l]
      BY <2>3, <3>3, <3>6
    <3> QED
      BY <3>1, <3>4, <3>5, <3>6
  <2>5. ASSUME NEW r \in Region PROVE ckptFile'[r] <= sourceTs
    <3>1. CASE ckptFile' = ckptFile
      BY <3>1 DEF Bounded
    <3>2. CASE ckptFile' = frontier'[l]
      <4>1. frontier'[l][r] <= floor'[l] /\ frontier'[l][r] \in Nat
        BY <2>2, <2>4
      <4>2. floor'[l] \in Nat /\ sourceTs \in Nat /\ floor'[l] <= sourceTs
        BY <2>2, <2>3
      <4> QED
        BY <3>2, <4>1, <4>2
    <3> QED
      BY <1>2, <3>1, <3>2, LoopStepTs
  <2>6. \A k \in Loop \ {l} : /\ Live(k)' <=> Live(k)
                              /\ frontier'[k] = frontier[k] /\ floor'[k] = floor[k]
    BY <1>2, LoopStepFrame DEF Live
  <2> QED
    BY Zenon, <2>1, <2>3, <2>4, <2>5, <2>6 DEF Bounded, Present
<1>3. CASE AdvanceSource
  <2>1. sourceTs' = sourceTs + 1 /\ UNCHANGED loopVars
    BY <1>3 DEF AdvanceSource
  <2>2. \A r \in Region : ckptFile[r] <= sourceTs'
    BY <2>1, NatTs DEF Bounded
  <2>3. \A l \in Loop : Live(l) => floor[l] <= sourceTs'
    BY <2>1, NatTs DEF Bounded
  <2>4. \A l \in Loop : Live(l)' <=> Live(l)
    BY <2>1 DEF Live, loopVars
  <2> QED
    BY Zenon, <2>1, <2>2, <2>3, <2>4 DEF Bounded, loopVars
<1>4. CASE Restart
  <2>1. /\ \A l \in Loop : ~Live(l)'
        /\ sourceTs' = sourceTs
        /\ ckptFile' \in {ckptFile, NoRegions}
    BY <1>4 DEF Restart, Live
  <2>2. \A r \in Region : ckptFile'[r] = ckptFile[r] \/ ckptFile'[r] = 0
    BY <1>0, <2>1 DEF NoRegions
  <2>3. \A r \in Region : ckptFile'[r] <= sourceTs'
    <3>1. \A r \in Region : ckptFile[r] <= sourceTs
      BY DEF Bounded
    <3>2. 0 <= sourceTs
      BY NatTs
    <3> QED
      BY Zenon, <2>1, <2>2, <3>1, <3>2
  <2> QED
    BY <2>1, <2>3 DEF Bounded
<1>5. CASE UNCHANGED vars
  BY <1>5 DEF vars, loopVars, Bounded, Live
<1> QED
  BY <1>1, <1>2, <1>3, <1>4, <1>5 DEF Next

\* Unless a wait gives up, what a loop may record is not older than the file.
LEMMA AheadStep ==
    ASSUME TypeOK, TypeOK', WaitedFor, Owned, Owned', Bounded, Bounded', Ahead,
           [Next]_vars
    PROVE  Ahead'
<1>0. /\ NoRegions \in Frontier /\ Ts \subseteq Nat /\ NoTs = 0
      /\ GlobalMin(NoRegions) = 0 /\ Present(NoRegions) = {}
  <2>1. NoRegions \in Frontier /\ Ts \subseteq Nat /\ NoTs = 0
    BY TaskAssumption DEF NoRegions, Frontier, NoTs, Ts
  <2>2. Present(NoRegions) = {}
    BY DEF Present, NoRegions
  <2> QED
    BY <2>1, <2>2, GlobalMinIsLeast
<1> SUFFICES ASSUME ~timedOut', NEW l \in Loop, Live(l)'
             PROVE  /\ GlobalMin(ckptFile)' <= floor'[l]
                    /\ \A r \in Present(frontier'[l]) :
                          GlobalMin(ckptFile)' <= frontier'[l][r]
  BY DEF Ahead
<1>1. l = doneRx'
  BY DEF Owned
<1>2. /\ floor'[l] \in Nat /\ floor[l] \in Nat
      /\ \A r \in Region : frontier'[l][r] \in Nat /\ frontier[l][r] \in Nat
      /\ GlobalMin(ckptFile) \in Nat
  <2>1. GlobalMin(ckptFile) \in Nat
    BY Zenon, <1>0, GlobalMinIsLeast DEF TypeOK
  <2> QED
    BY Zenon, <2>1, NatTs, NatTsNext
<1>3. CASE Command \/ Return
  <2>1. ASSUME NEW full \in BOOLEAN, SpawnEventLoop(full), UNCHANGED sourceTs
        PROVE  /\ GlobalMin(ckptFile)' <= floor'[l]
               /\ \A r \in Present(frontier'[l]) : GlobalMin(ckptFile)' <= frontier'[l][r]
    <3>1. /\ frontier'[l] \in {NoRegions, ckptFile}
          /\ floor'[l] = sourceTs
          /\ ckptFile' = ckptFile
      BY Zenon, <1>1, <2>1, SpawnFacts
    <3>2. GlobalMin(ckptFile) <= sourceTs
      BY MinBelow DEF TypeOK, Bounded
    <3>3. \A r \in Present(ckptFile) : GlobalMin(ckptFile) <= ckptFile[r]
      BY GlobalMinIsLeast DEF TypeOK
    <3> QED
      BY <1>0, <3>1, <3>2, <3>3
  <2>2. ASSUME UNCHANGED <<phase, frontier, floor>>, ~timedOut,
               ckptFile' \in {ckptFile, NoRegions}
        PROVE  /\ GlobalMin(ckptFile)' <= floor'[l]
               /\ \A r \in Present(frontier'[l]) : GlobalMin(ckptFile)' <= frontier'[l][r]
    <3>1. CASE ckptFile' = ckptFile
      BY <2>2, <3>1 DEF Ahead, Live
    <3>2. CASE ckptFile' = NoRegions
      BY <1>0, <1>2, <3>2 DEF Present
    <3> QED
      BY <2>2, <3>1, <3>2
  <2>3. ASSUME timedOut' = (timedOut \/ (doneRx # NoLoop /\ ~Finished(doneRx)))
        PROVE  ~timedOut
    BY <2>3, Zenon
  <2> QED
    BY <1>3, <2>1, <2>2, <2>3, TaskSteps
<1>4. ASSUME NEW k \in Loop, LoopStep(k)
      PROVE  /\ GlobalMin(ckptFile)' <= floor'[l]
             /\ \A r \in Present(frontier'[l]) : GlobalMin(ckptFile)' <= frontier'[l][r]
  <2>1. Live(k) /\ UNCHANGED taskVars
    BY Zenon, <1>4, LoopStepFrame
  <2>2. k = l /\ ~timedOut
    BY <1>1, <2>1 DEF Owned, taskVars
  <2>3. /\ GlobalMin(ckptFile) <= floor[l]
        /\ \A r \in Region : frontier[l][r] # NoTs => GlobalMin(ckptFile) <= frontier[l][r]
    BY <2>1, <2>2 DEF Ahead, Present
  <2>4. CASE ckptFile' = ckptFile
    <3>1. GlobalMin(ckptFile) <= floor'[l]
      <4>1. floor[l] <= floor'[l]
        BY <1>4, <2>2, LoopStepTs
      <4>2. GlobalMin(ckptFile) \in Nat /\ floor[l] \in Nat /\ floor'[l] \in Nat
        BY <1>2
      <4> QED
        BY <2>3, <4>1, <4>2
    <3>2. ASSUME NEW r \in Region, frontier'[l][r] # NoTs
          PROVE  GlobalMin(ckptFile) <= frontier'[l][r]
      <4>1. frontier'[l][r] \in {frontier[l][r], floor'[l]}
        BY <1>4, <2>2, <3>2, LoopStepTs
      <4> QED
        BY <2>3, <3>1, <3>2, <4>1
    <3> QED
      BY <2>4, <3>1, <3>2 DEF Present
  <2>5. CASE ckptFile' = frontier'[l]
    <3>1. frontier'[l] \in Frontier /\ floor'[l] \in Ts
      BY DEF TypeOK
    <3>2. \A r \in Region : frontier'[l][r] <= floor'[l]
      BY Zenon DEF Bounded
    <3> QED
      BY <2>5, <3>1, <3>2, MinBelow, GlobalMinIsLeast
  <2> QED
    BY <1>4, <2>2, <2>4, <2>5, LoopStepTs
<1>5. CASE AdvanceSource \/ UNCHANGED vars
  BY Zenon, <1>5 DEF AdvanceSource, vars, taskVars, loopVars, Ahead, Live
<1>6. CASE Restart
  BY <1>6 DEF Restart, Live
<1> QED
  BY <1>3, <1>4, <1>5, <1>6 DEF Next

\* last_recorded_ts follows the file and, once recorded, the frontier.
LEMMA RecordedStep ==
    ASSUME TypeOK, TypeOK', WaitedFor, Recorded, [Next]_vars
    PROVE  Recorded'
<1>1. CASE Command \/ Return
  <2>1. ASSUME NEW full \in BOOLEAN, SpawnEventLoop(full)
        PROVE  Recorded'
    BY <2>1, SpawnFacts DEF Recorded
  <2>2. ASSUME UNCHANGED <<phase, frontier, lastRec>>,
               \/ UNCHANGED <<ckptFile, synced>>
               \/ synced' = [l \in Loop |-> FALSE]
        PROVE  Recorded'
    BY <2>2 DEF Recorded
  <2> QED
    BY <1>1, <2>1, <2>2, TaskSteps
<1>2. ASSUME NEW l \in Loop, LoopStep(l) PROVE Recorded'
  <2>0. ASSUME NEW f \in Frontier, NEW p, NEW q, RecordCheckpoint(l, f, p, q),
               frontier'[l] = f
        PROVE  Recorded'
    <3>1. \A k \in Loop \ {l} : /\ phase'[k] = phase[k]
                                /\ frontier'[k] = frontier[k]
                                /\ lastRec'[k] = lastRec[k]
      BY Zenon, <1>2, LoopStepFrame
    <3>2. CASE /\ Present(f) = {} \/ lastRec[l] = GlobalMin(f)
               /\ UNCHANGED <<lastRec, synced, ckptFile>>
      BY Zenon, <2>0, <3>1, <3>2 DEF Recorded
    <3>3. CASE /\ lastRec'[l] = GlobalMin(f) /\ ckptFile' = f
               /\ \A k \in Loop : synced'[k] = (k = l)
      <4>1. \A k \in Loop : synced'[k] => k = l
        BY <3>3, Zenon
      <4> QED
        BY <2>0, <3>1, <3>3, <4>1 DEF Recorded
    <3>4. CASE /\ lastRec'[l] = GlobalMin(f) /\ ckptFile' = ckptFile
               /\ ~synced'[l]
               /\ \A k \in Loop \ {l} : synced'[k] = synced[k]
      BY <2>0, <3>1, <3>4 DEF Recorded
    <3> QED
      BY Zenon, <2>0, <3>2, <3>3, <3>4, RecordFacts
  <2>1. ASSUME NEW S \in SUBSET Region, NEW ts \in Ts, HandleCheckpoint(l, S, ts)
        PROVE  Recorded'
    <3> DEFINE f == [r \in Region |-> IF r \in S THEN ts ELSE frontier[l][r]]
    <3>1. f \in Frontier
      <4>1. frontier[l] \in Frontier
        BY DEF TypeOK
      <4> QED
        BY <4>1 DEF Frontier
    <3>2. /\ frontier'[l] = f
          /\ RecordCheckpoint(l, f, IF IsCutoverReady(f) THEN "done" ELSE "select",
                              "recording")
      BY <2>1 DEF HandleCheckpoint, TypeOK
    <3> HIDE DEF f
    <3> QED
      BY <2>0, <3>1, <3>2
  <2>2. CASE SeeCancel(l) \/ CutoverCheck(l)
    BY <2>0, <2>2 DEF SeeCancel, CutoverCheck, ExitLoop, TypeOK
  <2>3. CASE CheckpointAnswered(l) \/ LastCheckpointAnswered(l) \/ LoopDropped(l)
    BY <2>3 DEF CheckpointAnswered, LastCheckpointAnswered, LoopDropped, SetPhase,
                Recorded, TypeOK
  <2>4. ASSUME NEW S, DropRegions(l, S) PROVE Recorded'
    <3>1. /\ phase[l] = "select"
          /\ UNCHANGED <<phase, lastRec, synced, ckptFile>>
      BY <2>4 DEF DropRegions
    <3>2. \A k \in Loop \ {l} : frontier'[k] = frontier[k]
      BY <1>2, LoopStepFrame
    <3> QED
      BY Zenon, <3>1, <3>2 DEF Recorded
  <2> QED
    BY Zenon, <1>2, <2>1, <2>2, <2>3, <2>4 DEF LoopStep, HandleSplit, Rediscover
<1>3. CASE AdvanceSource \/ UNCHANGED vars
  BY <1>3 DEF AdvanceSource, vars, loopVars, Recorded
<1>4. CASE Restart
  BY Zenon, <1>4 DEF Restart, Recorded
<1> QED
  BY <1>1, <1>2, <1>3, <1>4 DEF Next

\* The types and the invariant hold in every run.
THEOREM Invariant == Spec => [](TypeOK /\ IInv)
<1>1. TypeOK /\ IInv /\ [Next]_vars => IInv'
  <2> SUFFICES ASSUME TypeOK, IInv, [Next]_vars PROVE IInv'
    OBVIOUS
  <2>1. TypeOK'
    BY TypeStep
  <2>2. WaitedFor' /\ Owned' /\ Targeted' /\ Bounded' /\ Recorded'
    BY <2>1, WaitedForStep, OwnedStep, TargetedStep, BoundedStep, RecordedStep DEF IInv
  <2>3. Ahead'
    BY <2>1, <2>2, AheadStep DEF IInv
  <2> QED
    BY <2>2, <2>3 DEF IInv
<1> QED
  BY <1>1, InitInvariant, TypeCorrect, PTL DEF Spec

-----------------------------------------------------------------------------
(* The properties *)

\* At most one event loop is alive as long as no wait for a loop gave up.
THEOREM SingleEventLoopHolds == Spec => []SingleEventLoop
<1>1. IInv => SingleEventLoop
  BY DEF IInv, Owned, SingleEventLoop
<1> QED
  BY <1>1, Invariant, PTL

\* A cutover waited for by the task, of a loop spawned with no target set,
\* completes only with every tracked region at the requested timestamp.
THEOREM CutoverReachesFreshTargetHolds == Spec => []CutoverReachesFreshTarget
<1>1. TypeOK /\ IInv => CutoverReachesFreshTarget
  BY TaskAssumption DEF IInv, WaitedFor, Targeted, CutoverReachesFreshTarget, Stopping
<1> QED
  BY <1>1, Invariant, PTL

\* No loop subscribes beyond the progress of a region it tracks.
THEOREM StartCoversFrontierHolds == Spec => []StartCoversFrontier
<1>1. IInv => StartCoversFrontier
  BY DEF IInv, Bounded, StartCoversFrontier
<1> QED
  BY <1>1, Invariant, PTL

\* An ended loop leaves its final minimum in the file, unless its write failed
\* or another write or removal followed.
THEOREM ExitPersistsFrontierHolds == Spec => []ExitPersistsFrontier
<1>1. IInv => ExitPersistsFrontier
  BY DEF IInv, Recorded, ExitPersistsFrontier
<1> QED
  BY <1>1, Invariant, PTL

\* Write protection is released only when no loop is left, unless a wait for a
\* loop gave up.
THEOREM GuardReleasedWhenQuietHolds == Spec => GuardReleasedWhenQuiet
<1> DEFINE Released == writeGuard /\ ~writeGuard' /\ ~timedOut
                         => \A l \in Loop : ~Live(l)'
<1>1. TypeOK /\ IInv /\ [Next]_vars => [Released]_vars
  <2> SUFFICES ASSUME TypeOK, IInv, Next, writeGuard, ~writeGuard', ~timedOut,
                      NEW l \in Loop
               PROVE  ~Live(l)'
    OBVIOUS
  <2>1. CASE Command
    BY Zenon, <2>1 DEF Command, CreateReplication, StartReplication, PauseReplication,
      ResumeReplication, Cutover, Shutdown, Activate, SendCancel, SetState, Replicate
  <2>2. CASE ActivateAfterClear
    BY <2>2, TaskAssumption DEF ActivateAfterClear, IInv, WaitedFor, Owned, Live
  <2>3. CASE Return /\ ~ActivateAfterClear
    BY Zenon, <2>3 DEF Return, CreateAfterStop, StartAfterStop, PauseAfterStop,
      ShutdownAfterStop, ActivateAfterStop, CutoverReturns, SetState, Replicate
  <2>4. CASE \E k \in Loop : LoopStep(k)
    BY Zenon, <2>4, LoopStepFrame DEF taskVars
  <2>5. CASE AdvanceSource
    BY <2>5 DEF AdvanceSource, taskVars
  <2>6. CASE Restart
    BY <2>6 DEF Restart, Live
  <2> QED
    BY <2>1, <2>2, <2>3, <2>4, <2>5, <2>6 DEF Next
<1> QED
  BY <1>1, Invariant, PTL DEF Spec, GuardReleasedWhenQuiet

\* The resume point in the checkpoint file never moves back, unless a wait for
\* a loop gave up.
THEOREM CheckpointNeverRegressesHolds == Spec => CheckpointNeverRegresses
<1> DEFINE Forward == ckptFile' # NoRegions /\ ~timedOut
                         => GlobalMin(ckptFile') >= GlobalMin(ckptFile)
<1>1. TypeOK /\ TypeOK' /\ IInv /\ IInv' /\ [Next]_vars => [Forward]_vars
  <2> SUFFICES ASSUME TypeOK, TypeOK', IInv, IInv', Next, ckptFile' # NoRegions, ~timedOut
               PROVE  GlobalMin(ckptFile') >= GlobalMin(ckptFile)
    OBVIOUS
  <2>1. GlobalMin(ckptFile) \in Nat /\ GlobalMin(ckptFile') \in Nat
    <3>1. ckptFile \in Frontier /\ ckptFile' \in Frontier
      BY DEF TypeOK
    <3>2. Ts \subseteq Nat
      BY TaskAssumption DEF Ts
    <3> QED
      BY Zenon, <3>1, <3>2, GlobalMinIsLeast
  <2>2. CASE ckptFile' = ckptFile
    BY <2>1, <2>2
  <2>3. ASSUME NEW l \in Loop, LoopStep(l), ckptFile' = frontier'[l]
        PROVE  GlobalMin(ckptFile') >= GlobalMin(ckptFile)
    <3>1. ckptFile' \in Frontier /\ Present(ckptFile') # {}
      BY DEF TypeOK, Present, NoRegions, Frontier
    <3>2. PICK r \in Region : GlobalMin(ckptFile') = frontier'[l][r] /\ frontier'[l][r] # NoTs
      BY <2>3, <3>1, GlobalMinIsLeast DEF Present
    <3>3. frontier'[l][r] \in {frontier[l][r], floor'[l]}
      BY Zenon, <2>3, <3>2, LoopStepTs
    <3>4. Live(l)
      BY <2>3, LoopStepFrame
    <3>5. /\ GlobalMin(ckptFile) <= floor[l]
          /\ frontier[l][r] # NoTs => GlobalMin(ckptFile) <= frontier[l][r]
      BY <3>4 DEF IInv, Ahead, Present
    <3>6. floor[l] <= floor'[l]
      BY Zenon, <2>3, LoopStepTs
    <3>7. floor[l] \in Nat /\ floor'[l] \in Nat
      BY Zenon, NatTs, NatTsNext
    <3>8. CASE frontier'[l][r] = frontier[l][r]
      BY <2>1, <3>2, <3>5, <3>8
    <3>9. CASE frontier'[l][r] = floor'[l]
      <4>1. GlobalMin(ckptFile) <= floor'[l]
        BY <2>1, <3>5, <3>6, <3>7
      <4> QED
        BY <2>1, <3>2, <3>9, <4>1
    <3> QED
      BY <3>3, <3>8, <3>9
  <2>4. CASE Command \/ Return
    <3>1. ASSUME NEW full \in BOOLEAN, SpawnEventLoop(full) PROVE ckptFile' = ckptFile
      BY Zenon, <3>1, SpawnFacts
    <3> QED
      BY <2>2, <2>4, <3>1, TaskSteps DEF IInv
  <2>5. CASE \E l \in Loop : LoopStep(l)
    BY <2>2, <2>3, <2>5, LoopStepTs
  <2>6. CASE AdvanceSource \/ Restart
    BY <2>2, <2>6 DEF AdvanceSource, Restart, loopVars
  <2> QED
    BY <2>4, <2>5, <2>6 DEF Next
<1> QED
  BY <1>1, Invariant, PTL DEF Spec, CheckpointNeverRegresses

=============================================================================
