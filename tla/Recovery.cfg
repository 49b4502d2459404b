CONSTANTS
    r1 = r1
    w1 = w1
    w2 = w2
    None = None
    Runs <- OneRun
    Workers <- TwoWorkers
    Skills <- SyncSkills
    StepBudget = 2
    MaxAttempts = 2
    MaxFaults = 2
    MaxLapses = 4
    ApprovalsExpire = FALSE

SPECIFICATION FairSpec
PROPERTIES
    RunsEnd
    IntentsDispatched
