SPECIFICATION FairSpec
CONSTANTS
    r1 = r1
    r2 = r2
    b1 = b1
    None = None
    Region = {r1, r2}
    InitRegion = {r1, r2}
    Feed = {}
    Bridge = {b1}
    MergeCap = 1
    MaxTs = 1
    MaxTicks = 1
    MaxObserveId = 3
    MaxTasks = 6
    SourceEngine = TRUE
    StreamBreaks = {FALSE}
    PdOutcome = {TRUE}
PROPERTY SubscribedRegionsCaptured
PROPERTY StoredWritesDelivered
PROPERTY HandedWritesDelivered
CHECK_DEADLOCK FALSE
