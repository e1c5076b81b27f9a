SPECIFICATION FairSpec

CONSTANTS
    Slots = {s1, s2}
    MaxParallel = 3
    MaxOpens = 2
    AcceptFaults = {"deny", "error"}

INVARIANTS
    LimitRespected
    ActiveAcceptsAccounted
    NoLostWakeup

PROPERTIES
    KeepsAccepting

CHECK_DEADLOCK FALSE
