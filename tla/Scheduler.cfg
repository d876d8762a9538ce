SPECIFICATION Spec
CONSTANTS
    None = None
    Ids = {a, b}
    Period = 2
    RunTimes = {2}
    Limit = 1
    MaxConcurrent = 1
    MaxTime = 6
    MaxStops = 1
    EditorsWait = TRUE
INVARIANTS ActiveIsInFlight OneShotOnce NoBurst OvertakenOnce
PROPERTIES EditsSurvive
