SPECIFICATION Spec
CONSTANTS
    Keys = {"k"}
    Dtypes <- MCDtypes
    Size <- MCSize
    Readable <- MCReadable
    MayFail = TRUE
    MayDelete = TRUE
    MaxOps = 3
    MaxRestarts = 1
INVARIANTS
    TypeOK
    IndexedIsWhole
    ReadsAreWhole
    IndexMatchesDisk
CHECK_DEADLOCK FALSE
