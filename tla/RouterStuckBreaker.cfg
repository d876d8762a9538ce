SPECIFICATION Spec
CONSTANTS
    a = a
    b = b
    r1 = r1
    r2 = r2
    Providers = {a, b}
    Prompts = {x}
    Requests = {r1, r2}
    KindsOf <- MCKindsOf
    PinsOf <- MCPinsOf
    Fallbacks <- MCFallbacks
    Managed = {b}
    Rpm <- MCRpm
    GlobalLimit = 1
    MaxChanges = 1
    FailureThreshold = 1
    RecoveryThreshold = 1
    CacheSize = 1
CHECK_DEADLOCK FALSE
INVARIANT ProbesTestProvider
