\* Two requests for one session under two keys.
CONSTANTS
    Requests = {r1, r2}
    Keys = {k1, k2}
    NoKey = NoKey
    Sessions = {s1}
    Owners = {o1}
    NoOwner = NoOwner
    SemCap = 2
    NoEntry = NoEntry
    NoSession = NoSession
SYMMETRY Symmetry
SPECIFICATION Spec
INVARIANT FinishedIsReplayed
