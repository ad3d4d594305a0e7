CONSTANTS
    Caller = {c1, c2, c3, c4}
    Threshold = 2
    RecoveryTimeout = 2
    MaxProbes = 2
SPECIFICATION FairSpec
INVARIANTS SlotsAreHeldByProbes
PROPERTIES OpenIsProbed
CHECK_DEADLOCK FALSE
