CONSTANTS
    r1 = r1
    s1 = s1
    s2 = s2
    None = None
    Runs <- OneRun
    Slots <- TwoSlots
    Skills <- BothSkills
    StepBudget = 3
    ActivityAttempts = 3
    MaxFaults = 1
    ApprovalsExpire = FALSE

SPECIFICATION FairSpec
INVARIANTS
    WorkflowFollowsRun
PROPERTIES
    AcceptedSignalsApplied
    SignalsDispatched
    RunsAdvance
CHECK_DEADLOCK FALSE
