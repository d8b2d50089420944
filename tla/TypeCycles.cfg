SPECIFICATION Spec
CONSTANTS
    Names = {"A", "B", "C", "int"}
    Primitives = {"int"}
    Unknown = {}
INVARIANT
    AnswerIsRight
PROPERTY
    Ends
CHECK_DEADLOCK FALSE
