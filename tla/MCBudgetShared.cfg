\* Two callers of the entry points that ask AdmitBudget, and a budget that
\* the first charge spends.
SPECIFICATION ProvSpec
CONSTANTS
    Askers = {k1, k2}
    InUse <- Admitted
    MaxAsks = 3
    MaxSpend = 1
    MaxCost = 1
    MaxPrices = 1
CHECK_DEADLOCK FALSE
INVARIANT NoOverspend
