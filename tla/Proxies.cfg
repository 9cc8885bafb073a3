\* Two proxies, one without an identity server; two removals, two failures.
CONSTANTS
    Proxies = {p1, p2}
    Buckets = {b1}
    NoBucket = NoBucket
    WithIdentity = {p1}
    MaxAttempts = 2
    MaxRemovals = 2
    MaxFaults = 2
SPECIFICATION FairSpec
INVARIANTS OkMeansDone RetriesArePaidFor
 
