SPECIFICATION Spec
CONSTANTS
    a1 = a1
    a2 = a2
    p1 = p1
    p2 = p2
    Account = {a1}
    Lease = {l1, l2}
    Provider = {p1}
    ProviderOf <- MCOneProvider
    Caller = {c1}
    NoAccount = NoAccount
    NoEvent = NoEvent
    TTL = 2
    LongCooldown = 2
    ShortCooldown = 1
    JailAfter = 3
    CooldownAfter = 2
    RateLimitAfter = 2
    WarmupSteps = 2
PROPERTY DeadStaysDead
