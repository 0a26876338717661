\* Two goroutines for one slot.
CONSTANTS
    Requests = {r1, r2}
    Keys = {k1, k2}
    NoKey = NoKey
    Sessions = {s1, s2}
    Owners = {o1}
    NoOwner = NoOwner
    SemCap = 1
    NoEntry = NoEntry
    NoSession = NoSession
SYMMETRY Symmetry
SPECIFICATION Spec
INVARIANT RunningHasWorker
