CONSTANTS
    r1 = r1
    w1 = w1
    w2 = w2
    None = None
    Runs <- OneRun
    Workers <- TwoWorkers
    Skills <- BothSkills
    StepBudget = 3
    MaxAttempts = 2
    MaxFaults = 1
    MaxLapses = 3
    ApprovalsExpire = TRUE

SPECIFICATION Spec
SYMMETRY WorkerSymmetry
INVARIANTS
    TypeOK
    OneEmailPerApproval
    SingleWriter
    WaitAgreement
    NoLostWakeup
    ResultsTold
PROPERTIES
    LegalRunTransitions
    LegalCallTransitions
    RunPromise
    StrandedForever
