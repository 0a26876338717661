\* Task: two iterations, one retry of the model, two attempts and two retries
\* of the output, so that each limit is met with the next one still open.
\* Stores: two crews, the name of one the beginning of the other's, three
\* saves, one checkpoint kept.  Flow: two nodes, two events, a crash and a
\* second kickoff.  Engine: a router, a fork, a race and a map over seven
\* nodes, runs of at most three nodes, so that the limit is met.
SPECIFICATION MCSpec
CONSTANTS
    MaxIterations = 2
    MaxRetryLimit = 1
    MaxRetries = 2
    GuardRetries = 2
    x = x
    xy = xy
    Crews = {x, xy}
    Shadows <- MCShadows
    MaxCheckpoints = 1
    MaxSaves = 3
    MaxTime = 3
    FlowNodes = 2
    Events = {1, 2}
    MaxKickoffs = 2
    GNodes = {"router", "race", "fork", "b", "d", "reduce", "map"}
    Kind <- MCKind
    NextOf <- MCNextOf
    Branches <- MCBranches
    Routes = {"", "router", "race", "fork", "nowhere"}
    Initial = "router"
    End = ""
    MaxFlowDepth = 3
CHECK_DEADLOCK FALSE
INVARIANTS GuardedOutput ToolRunsApproved ProgressDurable
PROPERTIES StoreRefines ExecuteReturns EngineReturns
