SPECIFICATION Spec
CONSTANTS
    Limit = 8
    Scale = 2
    Floats <- MCFloats
    MaxDuration = 7
    Builtins <- MCBuiltins
    Listen <- MCListen
    Bind <- MCBind
    Analyser <- Analyze
    Parts <- MCParts
    Cases <- MCCases
    Nesting = 4
INVARIANTS
    NamesAsAnalysed
    ErrorsAsAnalysed
    ControlStaysInside
    AnnotationsHold
    StateKept
PROPERTY
    Terminates
CHECK_DEADLOCK FALSE
