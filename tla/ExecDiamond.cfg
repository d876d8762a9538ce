SPECIFICATION Spec
CONSTANTS
    None = None
    N = 4
    Deps <- DiamondDeps
    ErrorPolicy <- DiamondErrors
    Retries <- DiamondRetries
    Delay <- DiamondDelay
    StepTimeout <- DiamondTimeouts
    Conditional = {2}
    Approval = {2, 3}
    Unregistered = {}
    OwnTimeout = {}
    AutoApprove = {2}
    DefaultTimeout = None
    OverallTimeout = None
    MaxConcurrency = 2
    MaxBegins = 3
CHECK_DEADLOCK FALSE
INVARIANTS DependencyOrder StoredNeverRerun WaitingIsActionable SucceededMeansAllDone
PROPERTIES FailureNotMasked RefinesDurableRun
