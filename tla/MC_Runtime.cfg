SPECIFICATION RuntimeSpec
CONSTANTS
    Malformed = Malformed
    Absent = Absent
    Connections = {"c1"}
    MessageSizes = {0, 2}
    MaxTotalBytes = 2
    Kinds = {"static", "dynamic", "proxy", "container"}
    Ambient <- MC_Ambient
    Exports <- MC_Exports
    Keyrings = {"me", Absent}
    LeaseTtl = 4
    LeaseLife = 5
    RenewalLatency = 1
    LocalConnections = {"c1"}
    ClientStreams <- MC_ClientStreams
    RemoteStreams <- MC_RemoteStreams
    ReadSize = 3
    MaxProxyHeader = 9
    Terminals = {"t1", "t2"}
    ExpiresIn = 3
    PollIntervals = {0, 2}
    SlowDown = 1
    MaxSlowDowns = 1
    SigningKeyIds = {"k1", "k2"}
    BearerRequests = {"r1", "r2"}
    BearerTokens <- MC_Tokens
    AllowedAlgorithms = {"RS256"}
    AllowedGroups = {"ops"}
    JwksCooldown = 2
    Fetches = {"f1", "f2"}
    Sources <- MC_Sources
    Answers <- MC_Answers
    TokenLifetimes = {1, 4, 7}
    OpenBaoMargin = 3
    InfisicalMargin = 5
    ClientTimeout = 2
    MaxLeaseDuration = 4
    LeaseSlack = 1
    CredentialVersions = {"v1", "v2"}
    StoreOperations = {"o1"}
    MaxGeneration = 4
INVARIANTS
    CheckedAndAudited
    NothingLeftBehind
    KeptAlive
    ChildEnvironmentClean
    AcquiredWithinProfile
PROPERTIES
    RelaysTerminate
    ChildEndsWithLease
    HelperFaithful
    LoginsSettle
    KeysFollowIssuer
    AuthenticationSound
    PoolFollowsFile
CHECK_DEADLOCK FALSE
