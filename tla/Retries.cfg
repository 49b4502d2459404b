CONSTANTS
    r1 = r1
    s1 = s1
    s2 = s2
    None = None
    Runs <- OneRun
    Slots <- TwoSlots
    Skills <- BothSkills
    StepBudget = 3
    ActivityAttempts = 3
    MaxFaults = 3
    ApprovalsExpire = TRUE

SPECIFICATION Spec
SYMMETRY SlotSymmetry
INVARIANTS
    TypeOK
    OneEmailPerApproval
    ResultsTold
    WaitAgreement
PROPERTIES
    LegalCallTransitions
    RunPromise
CHECK_DEADLOCK FALSE
