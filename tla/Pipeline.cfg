SPECIFICATION FairSpec
CONSTANTS
    NumWorkers = 2
    MaxTs = 2
    MaxWire = 2
    MaxCrashes = 1
    FlushOutcome = {TRUE, FALSE}
    DiskOutcome = {TRUE, FALSE}
INVARIANT TypeOK
 
 
 
