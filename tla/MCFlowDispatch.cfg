CONSTANTS
    s1 = s1
    e1 = e1
    e2 = e2
    Session = {s1}
    Exit = {e1, e2}
    NoExit = NoExit
    NoSession = NoSession
    Dispatcher = Dispatcher
    src = src
    Source <- MCSource
    SourceOf <- MCSourceOf
    MaxData = 1
    MaxPayload = 2
    ReturnCap = 1
SPECIFICATION FairSpec
INVARIANT ActivityMatchesFlows
INVARIANT FlowEventsOrdered
 
INVARIANT PayloadsContiguous
PROPERTY CloseLostByAbortOnly
PROPERTY ConnectAnswered
PROPERTY AbortReleases
CHECK_DEADLOCK FALSE
