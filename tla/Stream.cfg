CONSTANTS
    w1 = w1
    w2 = w2
    Writers <- TwoWriters
    MaxBatch = 2
    MaxLog = 5
    MaxDrops = 2

SPECIFICATION FairSpec
INVARIANTS
    TypeOK
    NumbersAreFree
PROPERTIES
    DeliveredInTheEnd
CHECK_DEADLOCK FALSE
