SPECIFICATION Spec
CHECK_DEADLOCK FALSE
CONSTANTS
    r1 = r1
    Cycles = 2
    Period = 1
    TrialLength = 0
    RetryAttempts = 1
    RetryPeriod = 1
    FailureAction = "cancel"
    Orders = {"unpaid"}
    ApiCalls = {"update", "anchor", "cancel"}
    Outstanding = {"void", "keep"}
    Answers = {"captured", "refused"}
    Runners = {r1}
    MaxTime = 2
    MaxCycle = 2
    MaxRequests = 1
    MaxWebhooks = 0
    MaxCalls = 2
    MaxFaults = 1
INVARIANTS
    OneSettlementPerCycle
