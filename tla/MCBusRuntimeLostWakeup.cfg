CONSTANTS
    s1 = s1
    c1 = c1
    Session = {s1}
    Snapshot = {c1}
    Faulty = {}
    MaxFrames = 1
    Permits = 1
    SubmitCap = 1
    NoFrame = NoFrame
SPECIFICATION FairSpec
PROPERTY ShutdownReturns
CHECK_DEADLOCK FALSE
