\* A table for two keys and three clients, so that it is often full.
SPECIFICATION Spec
CONSTANTS
    home = home
    mob = mob
    bot = bot
    k1 = k1
    k2 = k2
    k3 = k3
    p = p
    Client = {home, mob, bot}
    Key = {k1, k2, k3}
    Parent = {p}
    KeyOf <- MCKeyOf
    ParentOf <- MCParentOf
    NoParent = NoParent
    Legit = {home}
    MaxAttempts = 2
    MaxParentAttempts = 3
    Window = 2
    MaxKeys = 2
    OverflowRefill = 2
    OverflowBurst = 1
    KnownMaxKeys = 1
    KnownTtl = 2
    KnownRefill = 2
    KnownGlobalRefill = 1
    NoEntry = NoEntry
    NoKey = NoKey
    Horizon = 3
    MaxPending = 2
INVARIANTS
    TypeOK
    TableIsBounded
    ParentCountsItsChildren
    UntrackedGuessesAreCapped
PROPERTY
    LockoutIsFixed
\* the clock stops at Horizon
CHECK_DEADLOCK FALSE
