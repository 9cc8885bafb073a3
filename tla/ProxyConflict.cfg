\* Two proxies, nothing fails and nothing is removed.
CONSTANTS
    Proxies = {p1, p2}
    Buckets = {b1}
    NoBucket = NoBucket
    WithIdentity = {p1, p2}
    MaxAttempts = 1
    MaxRemovals = 0
    MaxFaults = 0
SYMMETRY ProxySymmetry
SPECIFICATION Spec
INVARIANTS MissingBucketIsHandled
