SPECIFICATION Spec
CONSTANTS
    Leaves <- MCLeaves
    Scalars <- MCScalars
    Keys <- MCKeys
    Pointers <- MCPointers
    Targets <- MCTargets
    MaxSize <- MCMaxSize
    MaxInner <- MCMaxInner
INVARIANTS
    
    DiffLeadsToTarget
    MergeIsIdempotent
    OrderIsTotal
    IteratorsCover
    EncodingsRoundTrip
