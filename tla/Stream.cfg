SPECIFICATION Spec
CONSTANTS
    Kinds = {"tcp", "udp", "unconnected", "listener"}
    Partner = partner
    Strangers = {stranger}
    NoAddress = none
    Longest = 1
    Buffer = 2
    MaxSends = 2
    MaxReceives = 3
    MaxWrites = 2
    MaxSignals = 1
INVARIANTS
    SentWholeOrCut
    DeliveredAsSent
PROPERTY
    CallsReturn
CHECK_DEADLOCK FALSE
