SPECIFICATION LogSpec
CONSTANTS
    Den = 20
    Instants <- SomeInstants
    Durations <- SomeDurations
    MaxLines = 2
INVARIANTS
    LogTellsThisRun
    FaceTellsTime
CHECK_DEADLOCK FALSE
