SPECIFICATION Spec
CONSTANTS
    GPUs = {g0, g1}
    Models <- MCModels
    SeqIds <- MCSeqIds
    Layers <- MCLayers
    DefaultCapacity = 2
    Capacities = {2}
    EntrySizes = {1, 2}
    ExtendSizes = {1}
    MaxEntry = 3
    MaxUneven = 1
INVARIANTS
    TypeOK
    OrderOK
    NeverUndercounts
    LeakBelowCapacity
    SmallestIsStored
    LookupNamesTheSequence
PROPERTIES
    OnlyExtensionOverflows
    ExpiryIsFinal
SYMMETRY MCSymmetry
