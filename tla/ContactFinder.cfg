SPECIFICATION Spec
CONSTANTS
    Node <- Nodes
    Self = 0
    Table = {3, 4}
    Knows <- Tree
    Holders = {1}
    FindValue = TRUE
    Alpha = 2
    BucketSize = 3
    Cycle = {c1, c2}
INVARIANTS
    AskedOnce
PROPERTIES
    ClosestImproves
    SearchEnds
    ResultImproves
CHECK_DEADLOCK FALSE
