SPECIFICATION FairSpec
CONSTANTS
    NumWorkers = 2
    RegionId = {0, 1, 2, 3}
    Key = {1, 2}
    Cf <- MCCf
    Batch <- MCBatch
    KeyRange = {{1}}
    MaxKvBuffer = 3
    MaxRangeBuffer = 2
    MaxEvents = 3
    IngestOutcome = {TRUE, FALSE}
CHECK_DEADLOCK FALSE
INVARIANT TypeOK
INVARIANT NothingVanishes
 
INVARIANT BufferBounded
PROPERTY KvBufferDrains
PROPERTY ClosedWorkersExit
