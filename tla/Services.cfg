SPECIFICATION ServicesSpec
CONSTANTS
  t1 = t1
  t2 = t2
  i1 = i1
  i2 = i2
  Thread <- MCThread
  Instance <- MCInstance
  Owners <- MCOwners
  Path = {f1}
  Mark = {m1, m2}
  MaxLen = 2
  MaxCrashes = 1
  Half = Half
  Absent = Absent
  None = None
  JTask = {j1, j2}
  Writer = {w1, w2}
  Reader = {r1}
  MaxBulkFetch = 1
  MaxSteps = 2
  Key = {k1, k2}
  Field = {x1}
  MaxItems = 2
  MaxTime = 4
  DTask = {d1, d2, d3}
  MaxEntries = 2
  MaxAlerts = 2
  MaxPushes = 4
  MaxDepth = 2
  Caller = {c1, c2}
  Burst = 2
  MaxAsk = 2
  MaxClock = 2
  MaxBuckets = 2
  a1 = a1
  a2 = a2
  p1 = p1
  p2 = p2
  Accounts <- MCAccounts
  ProviderOf <- MCProviderOf
  ContextLimit <- MCContextLimit
  Capability <- MCCapability
  UnknownProvider = unknown
  Context = {1, 2, 3}
  Nobody = nobody
  MaxSamples = 2
  Ram = {1, 2, 3, 4, 5}
  Latency = {0, 300, 900}
  MaxDrop = 150
  CascadeStep = {1, 4, 8}
  Runner = {b1}
  MaxHistory = 1
INVARIANTS SameAnswers EveryStepIsGlobal OneEntryPerTask NeverOverdrawn RoutersAgree CheapestFirst
PROPERTIES CheckpointsNeverGoBack LosesNoUpdate
CHECK_DEADLOCK FALSE
