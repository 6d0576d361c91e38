\* A static token, no early frames, connections that overlap: the owner of the
\* entry closes first and the socket it replaced speaks once more.
SPECIFICATION Spec
CONSTANTS
    Socket = {s1, s2}
    Agent = {a1}
    Token = {}
    Name = {n1}
    StaticToken = {st}
    WrongToken = wrong
    Slot = {k1}
    TTL = 0
    NoToken = NoToken
    NoAgent = NoAgent
    NoHandshake = NoHandshake
    NoEntry = NoEntry
    Pipelined = FALSE
    Overlapping = TRUE
INVARIANT
    OnlineHasConnection
