SPECIFICATION FairSpec
CONSTANTS
    Models = {"a", "b"}
    Lengths = {1, 3, 5}
    Buckets <- MCBuckets
    MaxSeqLen = 4
    MaxBatch = 3
    MinSplit = 2
    HasDispatchFn = FALSE
    MaxRequests = 4
    MaxLoops = 2
INVARIANTS
    TypeOK
    EachRequestOnce
    BatchesFit
    LateRequestsShareBucket
PROPERTIES
    ImplementsPool
    EventuallyBatched
    StopEndsLoops
