------------------------ MODULE DdlDiscovery_proofs ------------------------
(***************************************************************************)
(* Proofs about DdlDiscovery.  SeenMeansCovered rests on two facts: the    *)
(* cache and the spans name the same tables, so that what the comparison   *)
(* finds in the cache has a span, and a job id in the registry is one the  *)
(* source has already given, so that the next DDL makes it out of date.    *)
(***************************************************************************)
EXTENDS DdlDiscovery, TLAPS

\* The inductive invariant.
DInv ==
    /\ TypeOK
    /\ jobs > 0
    /\ cache = spans
    /\ SeenMeansCovered

LEMMA InitDInv == Init => DInv
<1> SUFFICES ASSUME Init PROVE DInv
  OBVIOUS
<1>1. 1 \in Table /\ 1 \in 0..MaxTable /\ 0 \in 0..1
  BY DdlAssumption DEF Table
<1>2. TypeOK
  BY Zenon, <1>1 DEF Init, TypeOK
<1> QED  BY <1>2 DEF Init, DInv, SeenMeansCovered, UpToDate

\* A DDL job makes the registry out of date.
LEMMA SourceStep ==
    ASSUME DInv, CreateTable \/ DropTable \/ TruncateTable \/ AlterTable
    PROVE  DInv'
<1> USE DdlAssumption
<1>1. allocated' \in 0..MaxTable /\ tables' \subseteq Table /\ jobs' = jobs + 1
  <2>1. allocated < MaxTable => allocated + 1 \in 0..MaxTable /\ allocated + 1 \in Table
    BY DEF DInv, TypeOK, Table
  <2>2. allocated \in 0..MaxTable /\ tables \subseteq Table
    BY DEF DInv, TypeOK
  <2>3. CASE CreateTable
    BY <2>1, <2>2, <2>3 DEF CreateTable, Ddl
  <2>4. CASE DropTable
    BY <2>2, <2>4 DEF DropTable, Ddl
  <2>5. CASE TruncateTable
    BY <2>1, <2>2, <2>5 DEF TruncateTable, Ddl
  <2>6. CASE AlterTable
    BY <2>2, <2>6 DEF AlterTable, Ddl
  <2> QED  BY <2>3, <2>4, <2>5, <2>6
<1>2. UNCHANGED <<pc, currentMax, registryVars, schemaVars, restarts>>
  BY DEF CreateTable, DropTable, TruncateTable, AlterTable, Ddl
<1>3. TypeOK'
  BY <1>1, <1>2 DEF DInv, TypeOK, registryVars, schemaVars
<1>4. lastSeen' # jobs' /\ jobs' > 0
  BY <1>1, <1>2 DEF DInv, TypeOK, registryVars
<1> QED
  BY <1>2, <1>3, <1>4 DEF DInv, SeenMeansCovered, UpToDate, registryVars

\* The queries of a tick.
LEMMA QueryStep ==
    ASSUME DInv, NEW ok \in BOOLEAN, QueryMax(ok) \/ Bootstrap(ok) \/ Refresh(ok)
    PROVE  DInv'
<1> USE DdlAssumption
<1>1. CASE QueryMax(ok)
  BY <1>1 DEF DInv, TypeOK, SeenMeansCovered, UpToDate, QueryMax, sourceVars, schemaVars
<1>2. CASE Bootstrap(ok)
  <2>1. TypeOK'
    BY <1>2 DEF DInv, TypeOK, Bootstrap, sourceVars, schemaVars
  <2>2. cache' = spans'
    BY Zenon, <1>2 DEF DInv, Bootstrap
  <2>3. SeenMeansCovered'
    <3>1. CASE ok
      BY <1>2, <3>1 DEF DInv, SeenMeansCovered, Bootstrap, sourceVars
    <3>2. CASE ~ok
      BY <1>2, <3>2 DEF DInv, TypeOK, SeenMeansCovered, UpToDate, Bootstrap, sourceVars
    <3> QED  BY <3>1, <3>2
  <2>4. jobs' > 0
    BY <1>2 DEF DInv, Bootstrap, sourceVars
  <2> QED  BY <2>1, <2>2, <2>3, <2>4 DEF DInv
<1>3. CASE Refresh(ok)
  <2>1. TypeOK'
    BY <1>3 DEF DInv, TypeOK, Refresh, sourceVars, schemaVars
  <2>2. cache' = spans'
    BY <1>3 DEF DInv, Refresh
  <2>3. SeenMeansCovered'
    <3>1. CASE ok
      BY <1>3, <3>1 DEF DInv, SeenMeansCovered, Refresh, sourceVars
    <3>2. CASE ~ok
      BY Zenon, <1>3, <3>2 DEF DInv, TypeOK, SeenMeansCovered, UpToDate, Refresh, sourceVars
    <3> QED  BY <3>1, <3>2
  <2>4. jobs' > 0
    BY <1>3 DEF DInv, Refresh, sourceVars
  <2> QED  BY <2>1, <2>2, <2>3, <2>4 DEF DInv
<1> QED  BY <1>1, <1>2, <1>3

\* The schema version and a new event loop.
LEMMA OtherStep ==
    ASSUME DInv,
           Restart \/ \E readOk, putOk \in Outcome : BumpSchema(readOk, putOk)
    PROVE  DInv'
<1> USE DdlAssumption
<1>1. CASE Restart
  <2>1. 0 \in 0..jobs /\ restarts + 1 \in Nat
    BY DEF DInv, TypeOK
  <2>2. UNCHANGED <<tables, allocated, jobs, targetVersion, putFailed>>
    BY <1>1 DEF Restart, sourceVars
  <2>3. /\ pc' = "idle" /\ currentMax' = 0 /\ lastSeen' = 0 /\ synced' = 0
        /\ cache' = {} /\ spans' = {} /\ missed' = FALSE /\ restarts' = restarts + 1
    BY <1>1 DEF Restart
  <2>4. TypeOK'
    BY Zenon, <2>1, <2>2, <2>3 DEF DInv, TypeOK
  <2> QED
    BY <2>2, <2>3, <2>4 DEF DInv, SeenMeansCovered, UpToDate
<1>2. CASE \E readOk, putOk \in Outcome : BumpSchema(readOk, putOk)
  <2>1. PICK readOk \in BOOLEAN, putOk \in BOOLEAN : BumpSchema(readOk, putOk)
    BY <1>2
  <2>2. UNCHANGED <<sourceVars, currentMax, registryVars, restarts>> /\ pc' = "idle" /\ pc = "bump"
    BY <2>1 DEF BumpSchema
  <2>3. synced' \in 0..jobs /\ targetVersion' \in 0..jobs
    <3>1. jobs \in 0..jobs /\ synced \in 0..jobs /\ targetVersion \in 0..jobs
      BY DEF DInv, TypeOK
    <3> QED  BY <2>1, <3>1 DEF BumpSchema, schemaVars
  <2>4. putFailed' \in BOOLEAN
    <3>1. putFailed \in BOOLEAN
      BY DEF DInv, TypeOK
    <3> QED  BY Zenon, <2>1, <3>1 DEF BumpSchema, schemaVars
  <2>5. TypeOK'
    BY <2>2, <2>3, <2>4 DEF DInv, TypeOK, sourceVars, registryVars
  <2> QED
    BY <2>2, <2>5 DEF DInv, SeenMeansCovered, UpToDate, sourceVars, registryVars
<1> QED  BY <1>1, <1>2

LEMMA NextDInv == DInv /\ [Next]_vars => DInv'
<1> SUFFICES ASSUME DInv, [Next]_vars PROVE DInv'
  OBVIOUS
<1>1. CASE UNCHANGED vars
  BY <1>1
  DEF DInv, TypeOK, SeenMeansCovered, UpToDate, vars, sourceVars, registryVars, schemaVars
<1>2. CASE Next
  BY <1>2, SourceStep, QueryStep, OtherStep, DdlAssumption DEF Next, Tick
<1> QED  BY <1>1, <1>2

\* Every reachable state has the types TypeOK states: no DDL job id that discovery or
\* the target remembers is above the last one the source has given.
THEOREM TypeCorrect == Spec => []TypeOK
<1>1. DInv => TypeOK
  BY DEF DInv
<1> QED  BY InitDInv, <1>1, NextDInv, PTL DEF Spec

\* Discovery never takes itself to be up to date while a table has no span, for any
\* number of tables, DDL jobs and restarts and any failures of the queries.
THEOREM DiscoverySound == Spec => []SeenMeansCovered
<1>1. DInv => SeenMeansCovered
  BY DEF DInv
<1> QED  BY InitDInv, <1>1, NextDInv, PTL DEF Spec
=============================================================================
