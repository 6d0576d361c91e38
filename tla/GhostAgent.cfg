\* One connection at a time, every frame waits for its answer: the agent does
\* nothing but hang up while its token is being compared.
SPECIFICATION Spec
CONSTANTS
    Socket = {s1}
    Agent = {a1}
    Token = {t1}
    Name = {n1}
    StaticToken = {}
    WrongToken = wrong
    Slot = {k1}
    TTL = 0
    NoToken = NoToken
    NoAgent = NoAgent
    NoHandshake = NoHandshake
    NoEntry = NoEntry
    Pipelined = FALSE
    Overlapping = FALSE
INVARIANT
    OnlineHasConnection
