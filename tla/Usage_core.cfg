SPECIFICATION FairSpec
CHECK_DEADLOCK FALSE
CONSTANTS
    Subs = {1, 2}
    Events = {e1}
    Contents <- NamedOrNot
    Modes = {"sync", "jetstream"}
    BatchSize = 2
    MaxDeliver = 2
    MaxPeriod = 2
    MaxSends = 2
    MaxChanges = 1
INVARIANTS
    TypeOK
    BilledOnce
    CatchAllIsBilled
    AnsweredIsKept
PROPERTIES
    QueueDrains
