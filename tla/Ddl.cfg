SPECIFICATION FairSpec
CONSTANTS
    MaxTable = 3
    MaxJobs = 4
    MaxRestarts = 1
    Outcome = {TRUE, FALSE}
    HexBase = 4
    DecBase = 3
INVARIANT TypeOK
INVARIANT SeenMeansCovered
PROPERTY EventuallyInSync
