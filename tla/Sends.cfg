SPECIFICATION SendsSpec
CONSTANTS
  Adapter = {r1, r2}
  Request = {q1, q2}
  Provider = {p1, p2}
  Unknown = none
  MaxJobs = 2
  w3 = w3
  w4 = w4
  Nothing = Nothing
  Junk = Junk
  Screen = Screen
  MaxFrames = 3
  MinBody = 2
INVARIANTS NoDriverLeaks BrowsersAreClosed HealthIsTheProvidersOwn
PROPERTIES SendsEnd AnswerIsTheContent
CHECK_DEADLOCK FALSE
