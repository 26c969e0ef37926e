CONSTANTS
    s1 = s1
    s2 = s2
    e1 = e1
    e2 = e2
    Session = {s1, s2}
    Exit = {e1, e2}
    NoExit = NoExit
    NoSession = NoSession
    src = src
    Source <- MCSource
    SourceOf <- MCSourceOf
    Relay = {"select", "join", "peer", "splice"}
SPECIFICATION FairSpec
INVARIANT ActivityMatchesFlows
INVARIANT FlowClosedOnce
PROPERTY EofReleases
CHECK_DEADLOCK FALSE
