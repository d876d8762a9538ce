SPECIFICATION Spec
CONSTANTS
    NoKey = NoKey
    Keys = {k}
    Versions = {1}
    MaxRuns = 1
    MaxResumes = 1
    MaxCrashes = 0
    CallersWait = FALSE
CHECK_DEADLOCK FALSE
PROPERTY TerminalIsFinal
