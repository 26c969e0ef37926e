CONSTANTS
    s1 = s1
    e1 = e1
    Session = {s1}
    Exit = {e1}
    NoExit = NoExit
    NoSession = NoSession
    src = src
    Source <- MCSource
    SourceOf <- MCSourceOf
    Relay = {"select", "join", "peer", "splice"}
SPECIFICATION Spec
INVARIANT DropCleans
CHECK_DEADLOCK FALSE
