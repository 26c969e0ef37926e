SPECIFICATION ServicesSpec
CONSTANTS
    Callers = {q1, q2}
    Conns = {c1, c2}
    TxIds = {1, 2}
    MAX_JUMP_DEPTH = 2
    Type = {t1}
    s1 = s1
    s2 = s2
    Subscriber = {s1, s2}
    Scoped = {s2}
    Wired <- TwoWired
    Publisher = {p1, p2}
    MaxTimeouts = 2
    QueueCap = 1
    MaxPublish = 3
    MaxRevoke = 1
INVARIANTS
    
    SessionWasGranted
    
    PairedSourceIsTrue
    
    
    
    ForwardDecisionHonored
    FirstRemovedIsWedged
    ChoiceHasCause
PROPERTIES
    CompiledImplements
    WaitsEnd
CHECK_DEADLOCK FALSE
