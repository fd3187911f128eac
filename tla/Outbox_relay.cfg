SPECIFICATION FairSpec
CHECK_DEADLOCK FALSE
CONSTANTS
    s1 = s1
    s2 = s2
    MaxEvents = 2
    Servers = {s1, s2}
    MaxAttempts = 2
    BackoffBase = 1
    BackoffCap = 3
    Retention = 1
    MaxFaults = 1
INVARIANTS
    TypeOK
    OnlyCommittedSent
    DuplicatesAreFaults
    PublishedIsOnItsWay
PROPERTIES
    QueueSpec
    EventuallySettled
