SPECIFICATION FairSpec
CONSTANTS
    NoFamily = NoFamily
    Sealed = TRUE
    Repair = TRUE
    RingDepth = 2
    ReorderWindow = 3
    BitmapBits = 8
    PendingMax = 1
    MaxSend = 4
    MaxLoss = 1
    MaxCopy = 1
    MaxEvict = 1
INVARIANT BusInOrder
PROPERTIES GapRepaired
