SPECIFICATION MCSpec
CONSTANTS
    Call = {c1, c2}
    c1 = c1
    c2 = c2
    self = self
    n1 = n1
    n2 = n2
    here = here
    a1 = a1
    NodeID = {self, n1, n2}
    SelfID = self
    Addr = {here, a1}
    Requests <- Queries
    Senders <- Lives
    UdpRetry = 2
    Seeds = {s1, s2}
    Calls = {c1}
    MaxAnnouncing = 2
    DhtMaxLeak = 1
INVARIANT
    ResponseMatches
    TransactionsMatch
    OwnIDGuarded
    NodeClosedLast
PROPERTIES
    CallsEnd
    ShutdownEnds
    ComesToRest
CHECK_DEADLOCK FALSE
