SPECIFICATION Spec
CONSTANTS
    r1 = r1
    r2 = r2
    b1 = b1
    b2 = b2
    None = None
    Region = {r1, r2}
    InitRegion = {r1, r2}
    Feed = {r1}
    Bridge = {b1, b2}
    MergeCap = 1
    MaxTs = 1
    MaxTicks = 0
    MaxObserveId = 3
    MaxTasks = 4
    SourceEngine = FALSE
    StreamBreaks = {TRUE, FALSE}
    PdOutcome = {TRUE}
INVARIANT LiveStreamKeepsEvents
INVARIANT RegistryAgreement
SYMMETRY Symmetry
CHECK_DEADLOCK FALSE
