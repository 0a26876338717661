\* A cancelled call of WaitIfPaused.
CONSTANTS
    Callers = {c1, c2}
    Cancellable = {c1}
    Handlers = {h1}
SPECIFICATION ControllerSpec
INVARIANT UnlockOnlyLocked
CHECK_DEADLOCK FALSE
