\* Two users of one store, with a Close, a Forget or a Reset against the write
\* of the other; two callers of the providers, so that one is in flight when
\* the other spends the budget; three calls of the client, so that two are
\* still in flight when the third becomes the breaker's trial.
SPECIFICATION MCSpec
CONSTANTS
    Stacks <- MCStacks
    Users = {u1, u2}
    MaxUses = 3
    MaxCalls = 2
    Paths <- MCPaths
    Labels <- MCLabels
    RecallOptions <- MCRecallOptions
    QueueCap = 1
    Page = 1
    Attempts = 2
    Askers = {k1, k2}
    InUse <- MCInUse
    MaxAsks = 3
    MaxSpend = 1
    MaxCost = 1
    MaxPrices = 1
    Calls = {c1, c2, c3}
    Threshold = 2
    Cooldown = 2
    MaxTokens = 2
    MaxFailures = 5
CHECK_DEADLOCK FALSE
INVARIANTS ErasureHolds RecallIsolated BudgetBounded TrippedIffThreshold TrialHasOwner
PROPERTIES WritesDrained
