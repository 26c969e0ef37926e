SPECIFICATION Spec
CONSTANTS
    NoFamily = NoFamily
    Sealed = TRUE
    Repair = TRUE
    RingDepth = 2
    ReorderWindow = 2
    BitmapBits = 8
    PendingMax = 1
    MaxSend = 3
    MaxLoss = 0
    MaxCopy = 0
    MaxEvict = 0
INVARIANTS OverflowIsFinal
