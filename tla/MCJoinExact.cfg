\* Five objects are needed for a class to get lost.
SPECIFICATION Spec
CONSTANTS
    Objects = {0, 1, 2, 3, 4}
    Supports <- FullSupport
    Word = 8
INVARIANTS JoinIsJoin
CHECK_DEADLOCK FALSE
