SPECIFICATION FairSpec
CONSTANTS
    Exits <- MCExits
    Groups <- MCGroups
    Weight <- MCWeight
    Tasks = {k1, k2}
    Configs <- MCConfigs
    failure_threshold = 2
    recovery_window_ms = 1
    probe_after_ms = 1
    ttl_ms = 1
    idle_timeout_ms = 1
    max_age_ms = 1
    switch_cooldown_ms = 1
    Generations = 2
    Hash <- mc_Hash
    Score <- mc_Score
    QueueCap = 1
PROPERTY ProbedAgain
CHECK_DEADLOCK FALSE
