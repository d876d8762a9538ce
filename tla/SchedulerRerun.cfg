SPECIFICATION Spec
CONSTANTS
    None = None
    Ids = {a}
    Period = 2
    RunTimes = {1}
    Limit = 1
    MaxConcurrent = 1
    MaxTime = 2
    MaxStops = 1
    EditorsWait = TRUE
CHECK_DEADLOCK FALSE
PROPERTY CompletedNotRerun
