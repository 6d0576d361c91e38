\* Everything at once: connections that overlap, frames that do not wait.
SPECIFICATION Spec
CONSTANTS
    Socket = {s1, s2}
    Agent = {a1, a2}
    Token = {t1}
    Name = {n1}
    StaticToken = {st}
    WrongToken = wrong
    Slot = {k1, k2}
    TTL = 0
    NoToken = NoToken
    NoAgent = NoAgent
    NoHandshake = NoHandshake
    NoEntry = NoEntry
    Pipelined = TRUE
    Overlapping = TRUE
SYMMETRY Symmetry
INVARIANTS
    TypeOK
    OfflineMeansOwnerClosed
PROPERTIES
    OnlineIsNeverDropped
    SnapshotSurvives
    GhostsHaveThreeOrigins
