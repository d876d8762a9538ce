SPECIFICATION Spec
CONSTANTS
    Plugins = {"p", "q"}
    Discovered = {"p", "q"}
    Acceptable = {"p", "q"}
    TypeOf <- PluginTypes
    DependsOn <- PluginNeeds
    MaxEnables = 2
    Main = "main"
    Stoppers = {"s1", "s2"}
    Calls = {"c"}
    Tools = {"t"}
    Params <- ToolParams
    Decisions <- ToolDecisions
    ToolRetries = 1
    ToolDelay = 1
    MaxRules = 1
    KernelRetries = 2
    KernelIntents = {"debug", "unknown"}
    KernelRules <- TwoRules
    KernelTurns = 2
    KernelFailures = 1
    Requests = {"r1", "r2"}
    RequestSession <- OneSession
    PipelineStages = 4
    PolicyOf <- FourPolicies
    MissingEngines = {}
    AgentRuns = {"r1", "r2"}
    RunSession <- OneSession
    AgentPlan = 2
    MaxIterations = 2
    MaxRetries = 1
    PolicyRetries = 2
    WithRouter = TRUE
    Branches <- TwoBranches
    Body <- FirstBranch
    MaxItems = 2
    Approvals = {"y"}
    OuterRetries = 1
    GraphSteps = 3
    UnknownStep = 0
    DefinitionVersions = {1, 2}
    MaxRevisions = 3
    DocumentIds = {1, 2}
    Versions = {1, 2}
    MaxSaves = 4
    Sessions = {"a", "b"}
    MaxVersions = 4
    Handlers = {"h1", "h2"}
    Topics = {"t"}
    MaxEvents = 2
    MaxChanges = 3
    KernelNotes <- TwoNotes
    MemoryPromotes = 7
    MemoryAccesses = 1
    MemoryCapacity = 1
    MemoryWindow = 2
    MemoryRecords = 3
CHECK_DEADLOCK FALSE
INVARIANTS ResultsAreOwn
