SPECIFICATION Spec
CHECK_DEADLOCK FALSE
CONSTANTS
    r1 = r1
    r2 = r2
    Cycles = 2
    Period = 1
    TrialLength = 0
    RetryAttempts = 1
    RetryPeriod = 1
    FailureAction = "cancel"
    Orders = {"unpaid"}
    ApiCalls = {"activate", "pause", "resume", "cancel"}
    Outstanding = {"uncollectible"}
    Answers = {"declined", "refused", "reply_lost", "gateway_error"}
    Runners = {r1, r2}
    MaxTime = 2
    MaxCycle = 2
    MaxRequests = 1
    MaxWebhooks = 0
    MaxCalls = 2
    MaxFaults = 1
SYMMETRY RunnerSymmetry
INVARIANTS
    TypeOK
    LedgerIsDense
    AttemptReportedOnce
    RecordedWasAccepted
PROPERTIES
    LedgerSpec
