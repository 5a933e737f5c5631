SPECIFICATION Spec
CONSTANTS
    Slots <- MCSlots
    Preloaded = {0, 3}
    MaxOps = 3
INVARIANTS
    TypeOK
    SettledIsOnFile
    ReadsAreWhole
CHECK_DEADLOCK FALSE
