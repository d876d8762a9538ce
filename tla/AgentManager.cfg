SPECIFICATION FairSpec
CONSTANTS
    Ids = {a}
    MaxAttempts = 2
    MaxLaunches = 3
    MaxCalls = 2
    MaxStops = 1
CHECK_DEADLOCK FALSE
INVARIANTS StoreFollows TablesMatch
PROPERTIES OutcomeKept StopsHonoured EveryCallReturns EveryRunEnds
