SPECIFICATION FairSpec
CONSTANTS
    NoKey = NoKey
    Keys = {k}
    Versions = {1}
    MaxRuns = 2
    MaxResumes = 1
    MaxCrashes = 1
    CallersWait = TRUE
CHECK_DEADLOCK FALSE
INVARIANTS EffectBounded OneRunPerKey TimelineFaithful
PROPERTIES TerminalIsFinal DecisionKept EveryRunLeavesPending
