\* The server as built: N = 1 service thread, every operation.
CONSTANTS
    Users = {alice, bob}
    Groups = {g1, g2}
    Keys = {k1, k2}
    Threads = {t1}
    NoCall = NoCall
    Free = Free
    Requests <- AllRequests
SPECIFICATION FairSpec
PROPERTIES ImplementsDatabase EveryCallReturns
