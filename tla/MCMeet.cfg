\* Operands on any of the objects, both ways of accumulating.
SPECIFICATION Spec
CONSTANTS
    Objects = {0, 1, 2, 3}
    Supports <- AllSupports
    Modes = {TRUE, FALSE}
INVARIANTS TypeOK LoopSound MeetIsMeet
PROPERTIES OnlyRenames PromiseKept
CHECK_DEADLOCK FALSE
