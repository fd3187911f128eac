SPECIFICATION FairSpec
CHECK_DEADLOCK FALSE
CONSTANTS
    r1 = r1
    r2 = r2
    r3 = r3
    Requests = {r1, r2, r3}
    Body <- TwoBodies
    FaultKinds = {"handler", "process", "database", "network"}
    MaxFaults = 1
INVARIANTS
    TypeOK
    OneHolder
    EffectOnce
    ReplaysAgree
    ReplayIsOfBody
PROPERTIES
    EveryoneAnswered
