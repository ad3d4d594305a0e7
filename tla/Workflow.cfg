SPECIFICATION FairSpec
CONSTANTS
    Task = {t1, t2}
    Account = {a1, a2}
    NoAccount = NoAccount
    Action = {h1}
    LoopLimit = 3
    MaxRetries = 2
INVARIANT FsmAgreesWithStatus
PROPERTY DrivenTasksRest
