SPECIFICATION Spec
CONSTANTS
    Limit = 8
    Scale = 4
    Floats <- MCFloats
    MaxDuration = 7
    Operands <- MCOperands
INVARIANTS
    NumbersExact
    IntegersExact
CHECK_DEADLOCK FALSE
