SPECIFICATION Spec
CONSTANTS
    ID = {n1}
    Addr = {a1, a2}
    Slot = {s1, s2, s3}
    MaxMoves = 2
INVARIANTS
    ListMatchesMap
    ListedAnswered
PROPERTY
    AddressHeals
