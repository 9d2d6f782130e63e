SPECIFICATION Spec
CONSTANTS
    Processes = {p1}
    Lanes = {s1, s2}
    Configs <- MCConfigs
    Ttl <- MCTtl
    Limit <- MCLimit
    Cooldown = 2
    MaxCount = 2
INVARIANTS
    CountsAreRecent
    FallbackNeverFails
    ReleaseSharesItsLimits
PROPERTY
    RecoversToPrimary
