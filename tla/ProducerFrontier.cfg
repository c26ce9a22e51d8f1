SPECIFICATION Spec
CONSTANTS
    r1 = r1
    r2 = r2
    b1 = b1
    None = None
    Region = {r1, r2}
    InitRegion = {r1}
    Feed = {}
    Bridge = {b1}
    MergeCap = 1
    MaxTs = 1
    MaxTicks = 2
    MaxObserveId = 2
    MaxTasks = 3
    SourceEngine = FALSE
    StreamBreaks = {FALSE}
    PdOutcome = {TRUE, FALSE}
INVARIANT TypeOK
INVARIANT CheckpointsMonotone
INVARIANT LiveStreamKeepsEvents
INVARIANT RegistryAgreement
CHECK_DEADLOCK FALSE
