SPECIFICATION FairSpec
CONSTANTS
    None = None
    N = 3
    Deps <- TimedDeps
    ErrorPolicy <- TimedErrors
    Retries <- TimedRetries
    Delay <- TimedDelay
    StepTimeout <- TimedTimeouts
    Conditional = {2}
    Approval = {}
    Unregistered = {3}
    OwnTimeout = {}
    AutoApprove = {}
    DefaultTimeout = None
    OverallTimeout = 3
    MaxConcurrency = 1
    MaxBegins = 2
CHECK_DEADLOCK FALSE
PROPERTIES TimedOutMeansLate EngineTerminates
