CONSTANTS
    s1 = s1
    s2 = s2
    c1 = c1
    Session = {s1, s2}
    Snapshot = {c1}
    Faulty = {s2}
    MaxFrames = 2
    Permits = 1
    SubmitCap = 1
    NoFrame = NoFrame
SPECIFICATION FairSpec
INVARIANT DispatchAccounting
INVARIANT SessionSerial
PROPERTY SnapshotAnswered
 
CHECK_DEADLOCK FALSE
