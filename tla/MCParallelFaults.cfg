\* Forks, thread creation and the parent's output may fail, with three workers.
SPECIFICATION Spec
CONSTANTS
    Bodies <- FaultBodies
    Steps = 8
    Workers = 3
    OutputLimit = 4
    Faults = {"fork", "spawn", "print"}
INVARIANTS
    BarrierHolds
    FirstErrorInOrder
PROPERTIES
    ImplementsForkJoin
