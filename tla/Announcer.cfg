SPECIFICATION Spec
CONSTANTS
    Hash = {h1, h2}
    Callers = {c1, c2}
    Workers = {w1}
    Reannounce = 2
    NotifyCh = TRUE
    MaxLeak = 1
INVARIANTS
    RingMatchesMap
    NoOversleep
    ShutdownWaits
PROPERTIES
    CallsReturn
    DueAnnounced
    ShutdownEndsUnlessLeaked
