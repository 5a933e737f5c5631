SPECIFICATION FairSpec
CONSTANTS
    Models = {"a"}
    Lengths = {1, 5}
    Buckets <- MCBuckets
    MaxSeqLen = 4
    MaxBatch = 3
    MinSplit = 2
    HasDispatchFn = FALSE
    MaxRequests = 2
    MaxLoops = 1
PROPERTY
    OverlongIsBatched
