\* Two clients that know the password, so that the known-good set overflows.
SPECIFICATION Spec
CONSTANTS
    home = home
    mob = mob
    bot = bot
    k1 = k1
    k2 = k2
    k3 = k3
    p = p
    Client = {home, mob, bot}
    Key = {k1, k2, k3}
    Parent = {p}
    KeyOf <- MCKeyOf
    ParentOf <- MCParentOf
    NoParent = NoParent
    Legit = {home, bot}
    MaxAttempts = 2
    MaxParentAttempts = 3
    Window = 2
    MaxKeys = 2
    OverflowRefill = 2
    OverflowBurst = 1
    KnownMaxKeys = 2
    KnownTtl = 3
    KnownRefill = 2
    KnownGlobalRefill = 1
    NoEntry = NoEntry
    NoKey = NoKey
    Horizon = 3
    MaxPending = 1
INVARIANT
    KnownIsBounded
PROPERTY
    KnownIsEarned
\* the clock stops at Horizon
CHECK_DEADLOCK FALSE
