SPECIFICATION Spec
CONSTANTS
    Devices = {0, 1}
    Models = {"m"}
    Machines <- MCMachines
    MockGpus = 2
    MaxLoops = 2
    Descriptors <- MCDescriptors
    Window = 3
    MaxPrefetch = 1
    MaxRoutes = 4
INVARIANTS
    TypeOK
    PlacementsAgree
    NgramsCoverHistory
    PlacementFollowsSnapshot
PROPERTIES
    SnapshotRecovers
    StopEndsPolling
    StaysReady
