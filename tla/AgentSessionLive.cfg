\* Under the fairness of the event loop and of the dashboard's poll.
SPECIFICATION FairSpec
CONSTANTS
    Socket = {s1, s2}
    Agent = {a1}
    Token = {t1}
    Name = {n1}
    StaticToken = {st}
    WrongToken = wrong
    Slot = {k1}
    TTL = 0
    NoToken = NoToken
    NoAgent = NoAgent
    NoHandshake = NoHandshake
    NoEntry = NoEntry
    Pipelined = TRUE
    Overlapping = TRUE
PROPERTIES
    AuthIsAnswered
    OfflineIsTransient
