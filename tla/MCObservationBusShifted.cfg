SPECIFICATION Spec
CONSTANTS
    Type = {t1}
    s1 = s1
    s2 = s2
    Subscriber = {s1, s2}
    Scoped = {s2}
    Wired <- TwoWired
    Publisher = {p1}
    MaxTimeouts = 2
    QueueCap = 1
    MaxPublish = 4
    MaxRevoke = 0
INVARIANT WedgedIsRemoved
CHECK_DEADLOCK FALSE
