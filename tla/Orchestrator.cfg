SPECIFICATION Spec
CONSTANTS
    Account = {a1, a2}
    Lease = {l1, l2}
    Provider = {p1}
    ProviderOf <- MCProviderOf
    p1 = p1
    Caller = {c1}
    NoAccount = NoAccount
    NoEvent = NoEvent
    NoLease = NoLease
    TTL = 1
    LongCooldown = 1
    ShortCooldown = 1
    JailAfter = 1
    CooldownAfter = 1
    RateLimitAfter = 1
    WarmupSteps = 1
    Task = {t1, t2}
    Action = {h1}
    LoopLimit = 2
    MaxRetries = 1
PROPERTIES JailReachesHolders JailEndsLate
