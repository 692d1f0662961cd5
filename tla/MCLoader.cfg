SPECIFICATION Spec
CONSTANTS
    Words <- SomeWords
    Directories <- SomeDirectories
    Word = 16
INVARIANTS
    LoadedAsWritten
    RowsInPlace
CHECK_DEADLOCK FALSE
