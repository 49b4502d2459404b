CONSTANTS
    r1 = r1
    s1 = s1
    s2 = s2
    None = None
    Runs <- OneRun
    Slots <- TwoSlots
    Skills <- ReportSkills
    StepBudget = 2
    ActivityAttempts = 3
    MaxFaults = 0
    ApprovalsExpire = FALSE

SPECIFICATION FairSpec
PROPERTY
    CompletedReportsAreTold
CHECK_DEADLOCK FALSE
