SPECIFICATION BothSpec
CONSTANTS
    Limit = 8
    Scale = 2
    Floats <- MCFloats
    MaxDuration = 7
    Builtins <- MCBuiltins
    Listen <- MCListen
    Bind <- MCBind
    Analyser <- Analyze
    Parts <- MCParts
    Cases <- EquivalenceCases
    Nesting = 4
    Rewriting <- MCRewriting
INVARIANTS
    ParallelAsFor
    AssignmentsInOrder
CHECK_DEADLOCK FALSE
