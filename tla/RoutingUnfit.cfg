SPECIFICATION RoutingSpec
CONSTANTS
  a1 = a1
  a2 = a2
  p1 = p1
  p2 = p2
  Accounts <- MCAccounts
  ProviderOf <- MCProviderOf
  ContextLimit <- MCContextLimit
  Capability <- MCCapability
  UnknownProvider = unknown
  Nobody = nobody
  Context = {1, 2, 3}
  Ram = {1, 2, 3, 4, 5}
  Latency = {0, 300, 900}
  MaxDrop = 150
  MaxSamples = 2
INVARIANT NobodyWhenNothingFits
CHECK_DEADLOCK FALSE
