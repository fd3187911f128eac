SPECIFICATION FairSpec
CHECK_DEADLOCK FALSE
CONSTANTS
    c1 = c1
    c2 = c2
    k1 = k1
    Campaigns = {c1}
    Policy <- TwoSchedules
    PassesCampaignId = FALSE
    Retries = 1
    ApiCalls = {"pause", "resume", "cancel", "manual", "cancel subscription"}
    Callers = {k1}
    FaultKinds = {"process", "engine", "database"}
    MaxCalls = 0
    MaxFaults = 0
PROPERTIES
    CampaignIsWorked
