---------------------------- MODULE DdlDiscovery ----------------------------
(***************************************************************************)
(* The ddl_discover tick of the event loop: discover_new_spans (resolver.rs*)
(* of stream-ingest/span_ctl) polls the source TiDB for DDL jobs and keeps *)
(* the SpanRegistry's table cache and spans, and SchemaSync::bump_schema   *)
(* (schema_sync.rs) copies the source's schema version to the target's PD. *)
(*                                                                         *)
(* Every query is an external command that can fail, and DDL goes on on    *)
(* the source between the queries of one tick.  The stream covers the      *)
(* whole key space (span mode), so a new span subscribes to nothing; in    *)
(* span mode spans have no workers and a split finds an empty region index.*)
(***************************************************************************)
EXTENDS Naturals, Sequences

CONSTANTS
    MaxTable,      \* bound on table ids; ids are handed out in order
    MaxJobs,       \* bound on the number of DDL jobs
    MaxRestarts,   \* bound on the number of event loops after the first
    Outcome,       \* outcomes of the queries and of the put: {TRUE} or BOOLEAN
    HexBase,       \* radix in which the version is written: 16 in the code
    DecBase        \* radix of table ids in keys and of the version a TiDB reads: 10;
                   \* two digits are enough for the table ids

ASSUME DdlAssumption ==
    /\ MaxTable \in Nat \ {0}
    /\ MaxJobs \in Nat
    /\ MaxRestarts \in Nat
    /\ Outcome \subseteq BOOLEAN
    /\ DecBase \in Nat \ {0, 1}
    /\ HexBase \in Nat
    /\ DecBase < HexBase
    /\ MaxTable + 1 < DecBase * DecBase

VARIABLES
    tables,        \* the source's tables
    allocated,     \* the last table id handed out
    jobs,          \* the last job id in tidb_ddl_history; the schema version too
    pc,            \* where the tick is
    currentMax,    \* current_max of the running tick
    lastSeen,      \* last_seen_ddl_job_id
    cache,         \* table_cache
    spans,         \* tables that have a span in the registry
    synced,        \* last_synced_version
    targetVersion, \* the version last put into the target's PD
    missed,        \* the last refresh failed
    putFailed,     \* the last put failed
    restarts       \* number of event loops after the first

sourceVars == <<tables, allocated, jobs>>
registryVars == <<lastSeen, cache, spans, missed>>
schemaVars == <<synced, targetVersion, putFailed>>
vars == <<sourceVars, pc, currentMax, registryVars, schemaVars, restarts>>

Table == 1..MaxTable

\* Type invariant.
TypeOK ==
    /\ tables \subseteq Table
    /\ allocated \in 0..MaxTable
    /\ jobs \in Nat
    /\ pc \in {"idle", "bootstrap", "refresh", "bump"}
    /\ currentMax \in 0..jobs
    /\ lastSeen \in 0..jobs
    /\ cache \subseteq Table
    /\ spans \subseteq Table
    /\ synced \in 0..jobs
    /\ targetVersion \in 0..jobs
    /\ missed \in BOOLEAN
    /\ putFailed \in BOOLEAN
    /\ restarts \in Nat

Init ==
    /\ tables \in SUBSET {1}
    /\ allocated = 1
    /\ jobs = 1
    /\ pc = "idle"
    /\ currentMax = 0
    /\ lastSeen = 0
    /\ cache = {}
    /\ spans = {}
    /\ synced = 0
    /\ targetVersion = 0
    /\ missed = FALSE
    /\ putFailed = FALSE
    /\ restarts = 0

-----------------------------------------------------------------------------
(* The source *)

Ddl(new) ==
    /\ jobs < MaxJobs
    /\ jobs' = jobs + 1
    /\ tables' = new
    /\ UNCHANGED <<pc, currentMax, registryVars, schemaVars, restarts>>

CreateTable ==
    /\ allocated < MaxTable
    /\ allocated' = allocated + 1
    /\ Ddl(tables \cup {allocated + 1})

DropTable ==
    /\ \E t \in tables : Ddl(tables \ {t})
    /\ UNCHANGED allocated

\* TRUNCATE gives the table a new id.
TruncateTable ==
    /\ allocated < MaxTable
    /\ allocated' = allocated + 1
    /\ \E t \in tables : Ddl((tables \ {t}) \cup {allocated + 1})

AlterTable == Ddl(tables) /\ UNCHANGED allocated

-----------------------------------------------------------------------------
(* discover_new_spans *)

\* query_max_ddl_job_id gives 0 when it fails.  A first run goes on to the
\* bootstrap; later an unchanged job id ends the discovery, and a new one is
\* remembered before the tables are looked at.
QueryMax(ok) ==
    LET max == IF ok THEN jobs ELSE 0 IN
    /\ pc = "idle"
    /\ currentMax' = max
    /\ IF lastSeen = 0
       THEN pc' = "bootstrap" /\ UNCHANGED lastSeen
       ELSE IF max <= lastSeen
            THEN pc' = "bump" /\ UNCHANGED lastSeen
            ELSE pc' = "refresh" /\ lastSeen' = max
    /\ UNCHANGED <<sourceVars, cache, spans, missed, schemaVars, restarts>>

\* Mutant: the id remembered is that of the job to look for next.
BootstrapNext(ok) ==
    /\ pc = "bootstrap"
    /\ pc' = "bump"
    /\ IF ok
       THEN /\ cache' = cache \cup tables
            /\ spans' = spans \cup tables
            /\ lastSeen' = currentMax + 1
       ELSE UNCHANGED <<cache, spans, lastSeen>>
    /\ UNCHANGED <<sourceVars, currentMax, missed, schemaVars, restarts>>

\* The first run: every table gets a cache entry and a span.
Bootstrap(ok) ==
    /\ pc = "bootstrap"
    /\ pc' = "bump"
    /\ IF ok
       THEN /\ cache' = cache \cup tables
            /\ spans' = spans \cup tables
            /\ lastSeen' = currentMax
       ELSE UNCHANGED <<cache, spans, lastSeen>>
    /\ UNCHANGED <<sourceVars, currentMax, missed, schemaVars, restarts>>

\* Mutant: tables that are gone are dropped, new ones are not added.
RefreshDropsOnly(ok) ==
    /\ pc = "refresh"
    /\ pc' = "bump"
    /\ missed' = ~ok
    /\ IF ok
       THEN cache' = tables /\ spans' = spans \ (cache \ tables)
       ELSE UNCHANGED <<cache, spans>>
    /\ UNCHANGED <<sourceVars, currentMax, lastSeen, schemaVars, restarts>>

\* A new job: compare the tables with the cache.  When the query fails nothing is
\* compared, and the job id has already been remembered.
Refresh(ok) ==
    /\ pc = "refresh"
    /\ pc' = "bump"
    /\ missed' = ~ok
    /\ IF ok
       THEN /\ cache' = tables
            /\ spans' = (spans \ (cache \ tables)) \cup (tables \ cache)
       ELSE UNCHANGED <<cache, spans>>
    /\ UNCHANGED <<sourceVars, currentMax, lastSeen, schemaVars, restarts>>

-----------------------------------------------------------------------------
(* bump_schema *)

\* Mutant: only the first version is copied.
BumpSchemaOnce(readOk, putOk) ==
    /\ pc = "bump"
    /\ pc' = "idle"
    /\ IF ~readOk \/ synced # 0
       THEN UNCHANGED schemaVars
       ELSE /\ synced' = jobs
            /\ targetVersion' = IF putOk THEN jobs ELSE targetVersion
            /\ putFailed' = ~putOk
    /\ UNCHANGED <<sourceVars, currentMax, registryVars, restarts>>

\* A read that fails gives 0.  The version is remembered before it is put, and
\* nobody looks at the outcome of the put.
BumpSchema(readOk, putOk) ==
    LET version == IF readOk THEN jobs ELSE 0 IN
    /\ pc = "bump"
    /\ pc' = "idle"
    /\ IF version = 0 \/ version <= synced
       THEN UNCHANGED schemaVars
       ELSE /\ synced' = version
            /\ targetVersion' = IF putOk THEN version ELSE targetVersion
            /\ putFailed' = ~putOk
    /\ UNCHANGED <<sourceVars, currentMax, registryVars, restarts>>

-----------------------------------------------------------------------------

\* A new event loop starts with an empty registry and a new SchemaSync.
Restart ==
    /\ restarts < MaxRestarts
    /\ restarts' = restarts + 1
    /\ pc' = "idle"
    /\ currentMax' = 0
    /\ lastSeen' = 0
    /\ cache' = {}
    /\ spans' = {}
    /\ missed' = FALSE
    /\ synced' = 0
    /\ UNCHANGED <<sourceVars, targetVersion, putFailed>>

Tick ==
    \/ \E ok \in Outcome : QueryMax(ok) \/ Bootstrap(ok) \/ Refresh(ok)
    \/ \E readOk, putOk \in Outcome : BumpSchema(readOk, putOk)

Next ==
    \/ CreateTable \/ DropTable \/ TruncateTable \/ AlterTable
    \/ Tick
    \/ Restart

Spec == Init /\ [][Next]_vars

\* The interval timer keeps ticking, and a query that is asked again and again is
\* answered now and then.
FairSpec ==
    /\ Spec
    /\ WF_vars(Tick)
    /\ SF_vars(QueryMax(TRUE))
    /\ SF_vars(Bootstrap(TRUE))
    /\ SF_vars(\E putOk \in Outcome : BumpSchema(TRUE, putOk))

-----------------------------------------------------------------------------
(* Properties *)

UpToDate == pc # "refresh" /\ lastSeen = jobs /\ ~missed

\* Discovery never takes itself to be up to date while a table has no span, however
\* DDL and the queries of a tick interleave: the job id is read before the tables,
\* so a table the query was too early for has a later job.  The exception is the
\* refresh whose query failed.
SeenMeansCovered == UpToDate => tables \subseteq spans

\* When DDL stops, every table gets its span and the target its schema version,
\* through failing queries and restarts, unless the last refresh or put failed.
EventuallyInSync ==
    <>[](/\ tables \subseteq spans \/ missed
         /\ targetVersion = jobs \/ putFailed)

\* What the registry says of a changed job id: it triggers the comparison.  So no
\* table stays without a span.
EveryTableCovered == <>[](tables \subseteq spans)

\* The table cache detects DROP and TRUNCATE: no span outlives its table once
\* discovery is up to date.
DroppedTablesForgotten == UpToDate => spans \subseteq tables

\* format_key_prefix: the decimal digits of the table id, then an underscore,
\* which sorts after every digit.
KeyPrefix(n) ==
    LET digits == IF n < DecBase THEN <<n>> ELSE <<n \div DecBase, n % DecBase>>
    IN  Append(digits, DecBase)

\* The order of keys.
Before(k1, k2) ==
    \/ Len(k1) < Len(k2) /\ SubSeq(k2, 1, Len(k1)) = k1
    \/ \E i \in 1..Len(k1) :
        /\ i <= Len(k2)
        /\ k1[i] < k2[i]
        /\ \A j \in 1..(i - 1) : k1[j] = k2[j]

\* make_span_for_table covers the table's key range: a key of the table, which
\* starts with its prefix, lies in the span.
SpanHoldsTable ==
    \A t \in spans :
        LET key == Append(KeyPrefix(t), 0)
        IN  ~Before(key, KeyPrefix(t)) /\ Before(key, KeyPrefix(t + 1))

\* The version as a TiDB reads it back: hexadecimal digits read as decimal ones, 0
\* when a digit is not one.
ReadBack(v) ==
    LET high == v \div HexBase
        low == v % HexBase
    IN  IF high < DecBase /\ low < DecBase THEN high * DecBase + low ELSE 0

\* bump_schema syncs the source's version to the target's key.
VersionReadable == ReadBack(targetVersion) = targetVersion
=============================================================================
