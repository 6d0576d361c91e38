\* Three /64s of one /48 and a table that holds them all: nothing is evicted.
SPECIFICATION Spec
CONSTANTS
    home = home
    mob = mob
    bot = bot
    k1 = k1
    k2 = k2
    k3 = k3
    p = p
    Client = {home, mob, bot}
    Key = {k1, k2, k3}
    Parent = {p}
    KeyOf <- MCKeyOf
    ParentOf <- MCSameParent
    NoParent = NoParent
    Legit = {}
    MaxAttempts = 1
    MaxParentAttempts = 2
    Window = 2
    MaxKeys = 4
    OverflowRefill = 2
    OverflowBurst = 1
    KnownMaxKeys = 2
    KnownTtl = 3
    KnownRefill = 2
    KnownGlobalRefill = 1
    NoEntry = NoEntry
    NoKey = NoKey
    Horizon = 3
    MaxPending = 2
INVARIANT
    OneParentLocksFew
\* the clock stops at Horizon
CHECK_DEADLOCK FALSE
