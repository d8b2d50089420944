\* Fewer steps than the statements need: the limit strikes the parent or any
\* worker, also the ones that loop for ever.
SPECIFICATION Spec
CONSTANTS
    Bodies <- BudgetBodies
    Steps = 7
    Workers = 2
    OutputLimit = 4
    Faults = {}
INVARIANTS
    BudgetShared
    OutputSurvivesErrors
PROPERTIES
    Termination
