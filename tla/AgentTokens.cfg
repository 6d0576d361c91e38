\* Two tokens and two names: creating, renaming and revoking between the read
\* and the re-read of two handshakes that run at once.
SPECIFICATION Spec
CONSTANTS
    Socket = {s1}
    Agent = {a1}
    Token = {t1, t2}
    Name = {n1, n2}
    StaticToken = {}
    WrongToken = wrong
    Slot = {k1, k2}
    TTL = 0
    NoToken = NoToken
    NoAgent = NoAgent
    NoHandshake = NoHandshake
    NoEntry = NoEntry
    Pipelined = TRUE
    Overlapping = TRUE
SYMMETRY Symmetry
PROPERTIES
    RegistrationsAreAuthorized
    KeepsTheLedger
