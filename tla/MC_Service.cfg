SPECIFICATION ServiceSpec
CONSTANTS
    Malformed = Malformed
    Absent = Absent
    Configurations <- MC_Configurations
    Connects <- MC_Connects
    Resolutions <- MC_Resolutions
    Requests <- MC_Requests
    Credentials <- MC_Credentials
    Bytes = {0, 1, 2}
    Marker <- MC_Marker
    Encodings <- MC_Encodings
    SecretLists <- MC_SecretLists
    MaxResponseBytes = 5
    MaxBody = 6
    MaxChunk = 3
    BasicNames = {"b"}
    AgentNames = {"a", "c"}
    OidcNames = {"o"}
    GithubNames = {"7"}
    ConfiguredProfiles <- MC_Profiles
    Passwords = {11, 12, 13}
    RpcHandlers = {"h1"}
    FormHandlers = {"h2"}
    MaxCalls = 2
    Bootstrapped <- MC_Bootstrapped
    RoleBindings <- MC_RoleBindings
    RpcGrants <- MC_RpcGrants
    FormGrants <- MC_FormGrants
    Identities <- MC_Identities
    Usernames <- MC_Usernames
    Agentnames <- MC_Agentnames
    SubjectTexts <- MC_SubjectTexts
    ProfileTexts <- MC_ProfileTexts
    Browsers = {"x", "y"}
    Accounts = {"a1", "a2", "a3"}
    Logins = {1, 2}
    AllowedUsers = {"a1"}
    AllowedOrganizations = {"org"}
    Membership <- MC_Membership
    Callbacks = {"c1", "c2"}
    AuthTtl = 1
    SessionTtlBrowser = 1
    MaxBrowserTime = 2
    BasicRequests = {"q1", "q2", "q3"}
    FileUsers <- MC_Users
    StoreUsers = {"u2"}
    Strangers = {}
    BasicPermits = 2
    Acceptors = {"a1", "a2"}
    MaxIssue = 3
    TokenParts = 3
    RateParts = 2
    Burst = 2
    MaxLimiterTime = 7
INVARIANTS
    SentWithinPolicy
    InjectedIsRedacted
    TunnelsWhereConfigured
    NoCredentialReturned
    StreamingFaithful
    AuthorizedWithinCall
    AuditTrailMatches
    PanelFaithful
    BasicSound
    TransportPairSound
    BucketExact
PROPERTIES
    BrowserSessionsRightful
CHECK_DEADLOCK FALSE
