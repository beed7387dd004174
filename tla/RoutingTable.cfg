SPECIFICATION Spec
CONSTANTS
    MaxID = 7
    SelfID = 5
    BucketSize = 2
    MaxPeerFails = 1
    a1 = a1
    a2 = a2
    Addr = {a1, a2}
    Known <- KnownFar
    Xor <- XorBits
INVARIANTS
    Partition
    PeersInRange
    NoDuplicates
PROPERTIES
    GoodPeersStay
    UpdateReturns
    NeighbourhoodKept
