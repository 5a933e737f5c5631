SPECIFICATION Spec
CONSTANTS
    GPUs <- MCGPUs
    Sources = {0}
    Groups <- MCGroups
    Operations = {"sum", "max"}
    Tensors <- MCTensors
    Shards <- MCShards
    Junk = Junk
    MaxCalls = 2
    MaxRequests = 3
INVARIANTS
    TypeOK
    ReturnedCopiesAreTrue
    LedgerIsTrue
    SumsCountEveryShard
CHECK_DEADLOCK FALSE
