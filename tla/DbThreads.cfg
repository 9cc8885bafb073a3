\* Two threads, every operation, the one that reads without a lock included.
CONSTANTS
    Users = {alice, bob}
    Groups = {g1}
    Keys = {k1, k2}
    Threads = {t1, t2}
    NoCall = NoCall
    Free = Free
    Requests <- AllRequests
SPECIFICATION Spec
INVARIANTS EnvelopeNeverEmpty HaltsOnlyOnLockInversion MembersKnown
PROPERTIES KeyIsStable ReadsAddNobody
CHECK_DEADLOCK FALSE
