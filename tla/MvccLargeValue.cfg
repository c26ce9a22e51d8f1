SPECIFICATION Spec
CONSTANTS
    k1 = k1
    Key = {k1}
    Mutation <- AllMutations
    NumWorkers = 2
    MaxTs = 4
    VarintBase = 3
    KeyRange = {}
    MaxRanges = 0
CHECK_DEADLOCK FALSE
INVARIANT LargeValuesCopied
