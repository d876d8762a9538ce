SPECIFICATION Spec
CONSTANTS
    None = None
    N = 3
    Deps <- TimedDeps
    ErrorPolicy <- TimedErrors
    Retries <- TimedRetries
    Delay <- TimedDelay
    StepTimeout <- TimedTimeouts
    Conditional = {}
    Approval = {}
    Unregistered = {}
    OwnTimeout = {}
    AutoApprove = {}
    DefaultTimeout = None
    OverallTimeout = 3
    MaxConcurrency = 1
    MaxBegins = 1
CHECK_DEADLOCK FALSE
INVARIANT OverrunIsTimedOut
