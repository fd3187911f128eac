SPECIFICATION Spec
CHECK_DEADLOCK FALSE
CONSTANTS
    r1 = r1
    r2 = r2
    Cycles = 2
    Period = 1
    TrialLength = 0
    RetryAttempts = 1
    RetryPeriod = 1
    FailureAction = "cancel"
    Orders = {"unpaid"}
    ApiCalls = {}
    Outstanding = {"keep"}
    Answers = {"captured"}
    Runners = {r1, r2}
    MaxTime = 3
    MaxCycle = 2
    MaxRequests = 1
    MaxWebhooks = 0
    MaxCalls = 0
    MaxFaults = 0
INVARIANTS
    NoDoubleCapture
