SPECIFICATION FairSpec
CONSTANTS
    None = None
    Leases = {l1}
    Subjects = {alice}
    Tasks = {t1, t2}
    Tunnel = {}
    MaxActive = 1
    Faults <- NoFaults
CHECK_DEADLOCK FALSE
PROPERTY ChildRevocationEnds
