SPECIFICATION StorageSpec
CONSTANTS
    Client = {a}
    Self = self
    ZeroID = zero
    Hash = {h1}
    Interval = 3
    MaxFlight = 2
    MaxRestarts = 1
INVARIANTS
    TokenLasts
PROPERTIES
    AnnouncedIsListed
