SPECIFICATION Spec
CONSTANTS
    GPUs = {0, 1}
    Models <- MCModels
    SeqIds <- MCSeqIds
    Layers <- MCLayers
    DefaultCapacity = 2
    NumGpus = 1
    Cluster = {0, 1}
    KvSharing = TRUE
    EntrySizes = {1, 2}
    MaxRequests = 3
    MaxRestarts = 1
    MaxRelief = 2
INVARIANTS
    TypeOK
    HomesComeFromMisses
    OneHome
CHECK_DEADLOCK FALSE
