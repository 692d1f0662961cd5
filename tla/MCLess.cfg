\* Operands on the same objects and on different ones.
SPECIFICATION Spec
CONSTANTS
    Objects = {0, 1, 2, 3, 4}
    Supports <- SomeSupports
INVARIANTS CountDecidesEquality LessIsLess
PROPERTIES PromiseKept Returns
CHECK_DEADLOCK FALSE
