\* The comment in addConnection, taken at its word.
CONSTANTS
    Fds = {4, 5}
    Conns = {c1, c2}
    MaxData = 1
    MaxEvents = 2
    None = None
SPECIFICATION Spec
INVARIANTS ReuseIsHandled
CHECK_DEADLOCK FALSE
