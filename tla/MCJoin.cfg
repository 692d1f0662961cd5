\* Operands on the same objects and on different ones, five objects for a
\* class to get lost.
SPECIFICATION Spec
CONSTANTS
    Objects = {0, 1, 2, 3, 4}
    Supports <- SomeSupports
    Word = 8
INVARIANTS ForestWithinJoin ExactUpToFour JoinSound AnchorsAlive CountLags
PROPERTIES Termination Descends
CHECK_DEADLOCK FALSE
