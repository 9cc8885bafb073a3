\* One proxy, one failed call to minio.
CONSTANTS
    Proxies = {p1}
    Buckets = {b1}
    NoBucket = NoBucket
    WithIdentity = {p1}
    MaxAttempts = 1
    MaxRemovals = 0
    MaxFaults = 1
SPECIFICATION Spec
INVARIANTS AcknowledgedIsStored
