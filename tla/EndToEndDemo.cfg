SPECIFICATION FairSpec
CONSTANTS
    Demos = {d1, d2}
    AttemptsLeft = 2
    None = None
INVARIANTS
    ReturnsOwnData
    FailsOnlyForOthers
    BucketIsNotRaced
    NothingStaysBehind
PROPERTIES
    DemosEnd
