CONSTANTS
    Region = {r1}
    Loop = {l1, l2}
    NoLoop = NoLoop
    MaxTs = 2
    Enabled = TRUE
    DiskOutcome = {TRUE}
VIEW WithoutEndedLoops
SYMMETRY Interchangeable
SPECIFICATION Spec
INVARIANTS
    TypeOK
    SingleEventLoop
PROPERTIES
    GuardReleasedWhenQuiet
    CheckpointNeverRegresses
