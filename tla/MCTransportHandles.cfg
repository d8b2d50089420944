\* The main runtime, two workers, which may be forked from one another, and four
\* handles; no peers.
SPECIFICATION Spec
CONSTANTS
    m = m
    w1 = w1
    w2 = w2
    p1 = p1
    p2 = p2
    Main <- m
    Workers <- TwoWorkers
    MaxId = 5
    Capacity = 2
    Default = 1
    Timeouts = {1}
    Peers = {}
    NoPeer = NoPeer
    Kinds = {"udp"}
    Faults = {"open"}
SYMMETRY WorkerSymmetry
INVARIANTS
    CapacityRespected
PROPERTIES
    ParentUntouched
    ImplementsHandles
