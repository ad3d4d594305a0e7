SPECIFICATION PoolSpec
CONSTANTS
    a1 = a1
    a2 = a2
    p1 = p1
    p2 = p2
    Account = {a1, a2}
    Lease = {l1, l2, l3}
    Provider = {p1, p2}
    ProviderOf <- MCProviderOf
    Caller = {c1, c2}
    NoAccount = NoAccount
    NoEvent = NoEvent
    TTL = 2
    LongCooldown = 2
    ShortCooldown = 1
    JailAfter = 3
    CooldownAfter = 2
    RateLimitAfter = 2
    WarmupSteps = 2
INVARIANT Exclusive
PROPERTY NoSilentExpiry
PROPERTY ImplementsExclusiveLeases
