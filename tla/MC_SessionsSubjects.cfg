SPECIFICATION FairSpec
CONSTANTS
    None = None
    Agents = {}
    Users = {alice, bob}
    Profiles = {dev}
    Sessions = {s1}
    Calls = {c1, c2}
    SessionTtl = 2
    SessionMaxLifetime = 3
    LegacyGrants <- NoLegacy
    Backend = "postgres"
    GrantChoices <- BothGrant
    MaxTime = 3
    MaxMint = 0
    MaxStarts = 1
PROPERTIES
    SessionsChangedForTheirSubject
    SessionsEnd
