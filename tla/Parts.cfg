SPECIFICATION PartsSpec
CONSTANTS
    p1 = p1  p2 = p2  envHash = envHash  envPlain = envPlain  devDefault = devDefault
    PwRequest = {r1, r2}
    Browser = {b1}
    Chosen = {p1, p2}
    EnvHash = envHash
    EnvPlain = envPlain
    DevDefault = devDefault
    Environments <- MCEnvironments
    NoPassword = noPassword
    Unreadable = unreadable
    NoRequest = noRequest
    AttemptLimit = 1
CONSTANTS
    h1 = h1  a4 = a4  private = private
    Call = {c1, c2}
    HostName = {h1}
    Address = {a4, private}
    PublicAddress = {a4}
    IPv4 = {a4}
    AllowedEntry <- MCAllowedEntry
    GatewayUrl <- MCGatewayUrl
    DefaultUrl <- MCDefaultUrl
    NoUrl = noUrl
    NoPort = noPort
    NoCall = noCall
    NoAttempt = noAttempt
CONSTANTS
    HostText <- MCHostText
    NoHost = noHost
CONSTANTS
    Written <- MCWritten
    Forged <- MCForged
    MaxEntries = 2
    NoAddress = noAddress
    NoClient = noClient
CONSTANTS
    Stream = {s1, s2}
    Container = {o1}
    Agent = {m1}
    NoContainer = noContainer
    NoAgent = noAgent
    NoStream = noStream
    GivenUp = givenUp
    NoChild = noChild
    Idle = idle
CONSTANTS
    Feed = {f1, f2}
    Monitored = {m1}
    MaxSamples = 2
    Local = local
    NoFeed = noFeed
    NoReading = noReading
CONSTANTS
    Request = {q1, q2}
    Repo = {e1, e2}
    NamedRepo = {e1}
    Commit = {x1, x2, x3}
    CheckRuns <- MCCheckRuns
    CacheMax = 2
    CacheTtl = 2
    MaxNow = 3
CONSTANTS
    Peer = {m1}
    Poll = {l1, l2}
    Removal = {d1}
    NoPeer = noPeer
CONSTANTS
    AgentInMenu = {m1, m2}
    RowLists <- MCRowLists
CONSTANTS
    w1 = w1  w2 = w2  gone = gone
    WidgetId = {w1, w2}
    StrayId = {gone}
    DefaultIds <- MCDefaultIds
    Breakpoints <- MCBreakpoints
    ColCounts = {2, 4}
    DefaultCols = 4
    StoredValues <- MCStoredValues
CONSTANTS
    TokenId = {t1}
    MaxRenames = 2
    Load = {l1}
    Revocation = {v1, v2}
    NoToken = noToken
CONSTANTS
    FreshToken = {t1, t2}
    Ask = {q1, q2}
    NoFresh = noFresh
CONSTANTS
    k1 = k1  k2 = k2  k3 = k3  g1 = g1  g2 = g2
    Package = {k1, k2, k3}
    Advisory = {g1, g2}
    NoId = noId
    Inputs <- MCInputs
    MaxReviewHorizon = 90
INVARIANTS
    PartsTypeOK
    RetiredStaysRetired
    PinnedIsPublic
    ExemptionIsTheOperators
    BodiesAreReleased
    PolicyMatchesRegistries
    ForgeryIsIgnored
    OneClientOneKey
    RunningChildIsKnown
    LinesAreOfTheSelection
    CiCacheIsSound
    RemovedStaysRemoved
    RevocationIsExclusive
    VerdictIsJustified
PROPERTIES
    OrphansHaveThreeOrigins
    EveryFeedHasItsWindow
    SuccessIsRecent
    DropsOnlyTheRemoved
    RemovalHandsFocusOn
CHECK_DEADLOCK FALSE
