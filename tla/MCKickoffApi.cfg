\* Three goroutines of two tenants, so that one request may find another's
\* key reserved and another's session taken while a third holds the last slot;
\* one key, two sessions, two slots.
CONSTANTS
    Requests = {r1, r2, r3}
    Keys = {k1}
    NoKey = NoKey
    Sessions = {s1, s2}
    Owners = {o1, o2}
    NoOwner = NoOwner
    SemCap = 2
    NoEntry = NoEntry
    NoSession = NoSession
SYMMETRY Symmetry
SPECIFICATION Spec
INVARIANTS KeyLaunchesOnce SlotsAccounted
PROPERTIES OwnerKept KickoffRefines
