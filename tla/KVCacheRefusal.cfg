SPECIFICATION Spec
CONSTANTS
    GPUs = {0, 1}
    Models <- MCModels
    SeqIds <- MCSeqIds
    Layers <- MCLayers
    DefaultCapacity = 4
    Capacities = {0, 2}
    EntrySizes = {1, 3}
    ExtendSizes = {}
    MaxEntry = 3
    MaxUneven = 1
INVARIANT
    RefusedOnlyWhenTooLarge
