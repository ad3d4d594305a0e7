SPECIFICATION SensingSpec
CONSTANTS
  Stream = {s1, s2}
  Url = {u1}
  NoUrl = none
  IDLE_THRESHOLD_STREAM_END = 1
  IDLE_THRESHOLD_HARD_TIMEOUT = 2
  MaxQueue = 1
  PoolCaller = {c1, c2}
  Page = {g1, g2}
  MaxSize = 1
  NoEngine = 0
  MaxEngines = 3
  Handler = {h1, h2, h3}
  Async = {h3}
  HistoryLimit = 2
  MaxPublished = 2
  MaxSubscribed = 2
  Target = {t1, t2}
  MaxCount = 1
  Absent = Absent
  Half = Half
  Caller = {c1, c2}
  Threshold = 2
  RecoveryTimeout = 1
  MaxProbes = 1
  Validates = TRUE
  Call = {f1, f2, f3}
  Driver = {d1, d2, d3}
  Browser = {b1, b2}
  None = None
INVARIANTS ActiveIsLive OneListenerPerPage ListenersArePooled SharedDriverRuns NoLeftoverBrowser
PROPERTIES CompletesInSilence SilenceCompletes EveryoneHears SavesSurvive OpensOnRaises
CHECK_DEADLOCK FALSE
