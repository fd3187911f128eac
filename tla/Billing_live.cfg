SPECIFICATION FairSpec
CHECK_DEADLOCK FALSE
CONSTANTS
    r1 = r1
    Cycles = 2
    Period = 1
    TrialLength = 1
    RetryAttempts = 1
    RetryPeriod = 1
    FailureAction = "cancel"
    Orders = {"unpaid", "checkout_trial", "paid", "checkout_paid"}
    ApiCalls = {}
    Outstanding = {"keep"}
    Answers = {"captured", "queued", "declined", "refused", "gateway_error", "pending", "reply_lost"}
    Runners = {r1}
    MaxTime = 3
    MaxCycle = 2
    MaxRequests = 1
    MaxWebhooks = 1
    MaxCalls = 0
    MaxFaults = 1
INVARIANTS
    TermRespected
PROPERTIES
    DueIsResolved
