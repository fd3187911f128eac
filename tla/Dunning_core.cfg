SPECIFICATION FairSpec
CHECK_DEADLOCK FALSE
CONSTANTS
    c1 = c1
    c2 = c2
    k1 = k1
    Campaigns = {c1, c2}
    Policy <- TwoSchedules
    PassesCampaignId = TRUE
    Retries = 1
    ApiCalls = {"pause", "resume", "cancel", "manual", "cancel subscription"}
    Callers = {k1}
    FaultKinds = {"process", "engine", "database"}
    MaxCalls = 1
    MaxFaults = 1
INVARIANTS
    TypeOK
    RecoveredWasAccepted
    GivenUpIsUncollectable
    SuspensionEnds
    RunnerClosesCampaign
PROPERTIES
    RunnersEnd
