\* A2A: two sends of two attempts against a threshold of three.  Mesh: two
\* callers, two roles.  MCP: the three requests of a discovery and two that
\* overlap.  Dashboard: an agent and two tasks, one round of the engine.
\* Events: a client with a channel of one, two publishers.  Limits: two hits
\* per window, a table with room for one address.  Server: two kickoffs.
\* Sandboxes: two jobs, two binaries.  ADK: two invokers, three invocations.
SPECIFICATION MCSpec
CONSTANTS
    s1 = s1
    s2 = s2
    c1 = c1
    c2 = c2
    p1 = p1
    p2 = p2
    i1 = i1
    i2 = i2
    k1 = k1
    k2 = k2
    j1 = j1
    j2 = j2
    Senders = {s1, s2}
    MaxSends = 2
    TokenCap = 1
    Threshold = 3
    Retries = 2
    MaxDelegationDepth = 1
    Callers = {c1, c2}
    Roles = {r1, r2}
    NoRole = none
    MaxRpcs = 3
    Launches = {"server", "standalone"}
    Agent = agent
    Clients = {agent, t1}
    MaxRequests = 5
    MaxTies = 1
    Transports = {"http", "stdio", "sse"}
    Owners = {"new", "equip", "app"}
    StageRoles = {"r1", "r2"}
    ProcessTypes = {"hierarchical"}
    MaxMadeAgents = 1
    MaxMadeTasks = 2
    MaxRounds = 1
    Streams = {v1}
    StreamSessions = {"A", "B"}
    Publishers = {p1, p2}
    ChanCap = 1
    MaxEvents = 2
    Ips = {i1, i2}
    Limit = 2
    Window = 3
    IdleTtl = 1
    MaxStall = 1
    TableCap = 1
    LastTick = 5
    KickoffIds = {k1, k2}
    Jobs = {j1, j2}
    Binaries = {1, 2}
    Invokers = {1, 2}
    MaxInvokes = 3
    MaxHistory = 2
SYMMETRY Symmetry
CHECK_DEADLOCK FALSE
INVARIANTS CircuitHolds SentIsHandled AgentExclusive AnswerMine ReaderFree BoundToItsAgent
    DeletedNotRun NoSendOnClosed WindowBounded ShutdownDrains SandboxReleased GrantsScoped
