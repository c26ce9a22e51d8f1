CONSTANTS
    Region = {r1, r2}
    Loop = {l1}
    NoLoop = NoLoop
    MaxTs = 2
    Enabled = TRUE
    DiskOutcome = {TRUE, FALSE}
VIEW WithoutEndedLoops
SYMMETRY Interchangeable
SPECIFICATION Spec
INVARIANTS
    CutoverReachesFreshTarget
    StartCoversFrontier
    ExitPersistsFrontier
