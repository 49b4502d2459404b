CONSTANTS
    r1 = r1
    e1 = e1
    e2 = e2
    None = None
    Runs <- OneRun
    Executors <- TwoExecutors
    Submissions = 2
    StepBudget = 3
    MaxFaults = 1
    MaxOverlaps = 1

CHECK_DEADLOCK FALSE
SPECIFICATION Spec
INVARIANTS
    TypeOK
    GuidanceIsBound
    HeardOncePerLoss
PROPERTIES
    GuidanceGoesWithItsStep
    StoredGuidanceIsHeard
    LostForGood
