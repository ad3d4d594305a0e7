SPECIFICATION Spec
CONSTANTS
  f = f
  v1 = v1
  v2 = v2
  task = task
  l1 = l1
  c1 = c1
  File <- MCFile
  Value = {v1, v2}
  Markers = Markers
  Absent = Absent
  Main = main
  Branch <- MCBranch
  Found <- MCFound
  Loop <- MCLoop
  Caller <- MCCaller
  Actor <- MCActor
  Ops = {"init", "commit", "branch", "checkout", "merge", "abort_merge", "rollback", "reset_soft", "restore", "unstage", "stash", "unstash"}
  MaxMoves = 2
  fix_callback = TRUE
  MAX_ITERATIONS = 2
  Requested <- MCRequested
INVARIANTS TestedIsRecorded MarkersAnnounced
PROPERTY LoopEnds
