\* The left operand is what the top constructor builds.
SPECIFICATION SpecTop
CONSTANTS
    Objects = {0, 1, 2}
    Supports <- FullSupport
    Modes = {FALSE}
INVARIANTS TopIsNeutral
CHECK_DEADLOCK FALSE
