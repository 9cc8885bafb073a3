\* Two connections over two descriptors, both threads and the handler fair.
CONSTANTS
    Fds = {4, 5}
    Conns = {c1, c2}
    MaxData = 1
    MaxEvents = 2
    None = None
SPECIFICATION FairSpec
INVARIANTS NoLostWakeup TableMatchesKernel DiesOnlyOfRaces
PROPERTIES   ShutdownEnds
CHECK_DEADLOCK FALSE
