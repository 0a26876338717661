\* Sequential: three tasks, the second async, two kickoffs in the life of a
\* process, any number of crashes.  Graph: every graph on three tasks, two
\* slots, four rounds.  The others: two tasks, three agents, two slots, and
\* every bound of the code small enough to be met.  Pause: three callers, one
\* of which may be cancelled, and two handlers.
SPECIFICATION MCSpec
CONSTANTS
    N = 3
    Async = {2}
    MaxKickoffs = 2
    MaxRows = 2
    Tasks = {t1, t2, t3}
    Concurrency = 2
    MaxCycles = 4
    NumTasks = 2
    NumAgents = 3
    Cap = 2
    MaxReplans = 2
    MaxReviews = 2
    MaxTransitions = 4
    TaskCycles = 1
    Iterations = 2
    Managers = {"default", "agent"}
    Callers = {c1, c2, c3}
    Cancellable = {c1}
    Handlers = {h1, h2}
CHECK_DEADLOCK FALSE
INVARIANTS ProcessedWasRun ProcessedHasOutput NoneAbandonedOnSuccess RunsAfterDeps SuccessIsComplete
    CircularNeverRuns HierarchicalComplete WorkersContained
    LockHandedOver
PROPERTIES KickoffReturns NoReturnWhilePaused ResumeUnblocksAll
