\* Two kickoffs, one signal.
SPECIFICATION LifeSpec
CONSTANTS
    KickoffIds = {k1, k2}
PROPERTY SignalEndsProcess
CHECK_DEADLOCK FALSE
