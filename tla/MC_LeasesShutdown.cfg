SPECIFICATION FairSpec
CONSTANTS
    None = None
    Leases = {l1, l2}
    Subjects = {alice}
    Tasks = {t1, t2, t3}
    Tunnel = {t3}
    MaxActive = 1
    Faults <- Drops
CHECK_DEADLOCK FALSE
INVARIANT LiveLeasesOwned
PROPERTIES
    ShutdownRevokesAll
    OwnersRelease
