SPECIFICATION Spec
CONSTANTS
    Hash = {h1}
    Callers = {c1}
    Workers = {w1}
    Reannounce = 2
    NotifyCh = FALSE
    MaxLeak = 1
PROPERTY
    ShutdownEnds
