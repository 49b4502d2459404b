CONSTANTS
    r1 = r1
    w1 = w1
    w2 = w2
    None = None
    Runs <- OneRun
    Workers <- OneWorker
    Skills <- EmailSkills
    StepBudget = 2
    MaxAttempts = 2
    MaxFaults = 1
    MaxLapses = 3
    ApprovalsExpire = FALSE

SPECIFICATION FairSpec
PROPERTY
    ApprovedIsExecuted
