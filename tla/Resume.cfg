CONSTANTS
    r1 = r1
    w1 = w1
    w2 = w2
    None = None
    Runs <- OneRun
    Workers <- TwoWorkers
    Skills <- BothSkills
    StepBudget = 3
    MaxAttempts = 2
    MaxFaults = 0
    MaxLapses = 8
    ApprovalsExpire = FALSE

SPECIFICATION FairSpec
PROPERTIES
    WaitsResume
    ApprovedIsExecuted
