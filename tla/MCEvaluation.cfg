\* Every expression of up to five operands, the assigned variable among them
\* anywhere.
SPECIFICATION Spec
CONSTANTS
    MaxOperands = 5
INVARIANTS AssignsMeaning OperandsIntact SavesTemporaries
CHECK_DEADLOCK FALSE
