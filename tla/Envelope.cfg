\* Every group of up to four keys, both formats, every reader.
CONSTANTS
    Keys <- FourKeys
    Nonces <- TwoNonces
    Hash <- TwoHashes
SPECIFICATION FairSpec
INVARIANTS OpensForMembersOnly
PROPERTIES OpenReturns
