SPECIFICATION Spec
CONSTANTS
    None = None
    Agents = {builder}
    Users = {}
    Profiles = {dev}
    Sessions = {s1}
    Calls = {c1, c2}
    SessionTtl = 2
    SessionMaxLifetime = 3
    LegacyGrants <- NoLegacy
    Backend = "postgres"
    GrantChoices <- TwoGrants
    MaxTime = 3
    MaxMint = 2
    MaxStarts = 0
SYMMETRY CallSymmetry
INVARIANTS
    LateUseRefused
    ServedUnderLiveGrant
PROPERTIES
    ImplementsPromise
    WithdrawalEndsSessions
    ExpiryUndoneOnlyByRenewalInFlight
