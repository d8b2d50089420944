\* Three workers, steps to spare, a host that never fails.
SPECIFICATION Spec
CONSTANTS
    Bodies <- WorkerBodies
    Steps = 20
    Workers = 3
    OutputLimit = 4
    Faults = {}
INVARIANTS
    ScheduleIndependence
    BufferWithinLimit
PROPERTIES
    EffectsInsideBarrier
