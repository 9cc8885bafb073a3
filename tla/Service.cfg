\* One service thread; the administration client and another one.
CONSTANTS
    Users = {alice}
    Groups = {g1}
    Keys = {k1, k2}
    Threads = {t1}
    Clients <- TwoClients
    MaxFaults = 1
    NoCall = NoCall
    None = None
    Requests <- AllDbRequests
    HttpRequests <- SentBy
SPECIFICATION FairSpec
INVARIANTS KeysGivenAreRegistered
PROPERTIES RevokedKeysStayOut RetryEnds
CHECK_DEADLOCK FALSE
