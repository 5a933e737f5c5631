SPECIFICATION Spec
CONSTANTS
    Keys = {"k"}
    Dtypes <- MCDtypes
    Size <- MCSize
    Readable <- MCReadable
    MayFail = FALSE
    MayDelete = FALSE
    MaxOps = 2
    MaxRestarts = 0
INVARIANT
    DtypesAreApart
CHECK_DEADLOCK FALSE
