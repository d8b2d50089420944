\* Listeners and accepted streams in the main runtime and in one worker.
SPECIFICATION Spec
CONSTANTS
    m = m
    w1 = w1
    w2 = w2
    p1 = p1
    p2 = p2
    Main <- m
    Workers <- OneWorker
    MaxId = 4
    Capacity = 2
    Default = 1
    Timeouts = {1, 2}
    Peers <- TwoPeers
    NoPeer = NoPeer
    Kinds = {"listener"}
    Faults = {"open", "accept", "configure", "timeout"}
INVARIANTS
    TypeOK
    TimeoutsAgree
    ConnectionsAccountedFor
PROPERTIES
    NoSilentLoss
    CallsReturn
