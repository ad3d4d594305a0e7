CONSTANTS
    Response = {r1, r2, r3}
    Hooked = {r1}
    None = None
    Dom = Dom
    MaxTracked = 2
    MaxClosed = 1
SPECIFICATION FairSpec
INVARIANTS AnswersThePrompt 
PROPERTIES PollutionGoesFirst FinishedIsFetched
VIEW Essential
