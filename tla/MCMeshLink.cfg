SPECIFICATION FairSpec
CONSTANTS
    NoFamily = NoFamily
    DataBound = 1
    EventBound = 1
    PendingMax = 1
    ReorderWindow = 2
    BitmapBits = 4
    Loads <- MCLoads
    MaxLoss = 1
    MaxEvict = 1
INVARIANTS PayloadsInOrder 
 
