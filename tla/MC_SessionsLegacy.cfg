SPECIFICATION Spec
CONSTANTS
    None = None
    Agents = {}
    Users = {alice}
    Profiles = {dev}
    Sessions = {s1}
    Calls = {c1}
    SessionTtl = 2
    SessionMaxLifetime = 3
    LegacyGrants <- UserLegacy
    Backend = "sqlite"
    GrantChoices <- TwoGrants
    MaxTime = 3
    MaxMint = 0
    MaxStarts = 1
INVARIANT GrantsFollowDecisions
