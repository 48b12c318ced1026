SPECIFICATION Spec
CONSTANTS
    None = None
    Leases = {l1, l2, l3}
    Subjects = {alice, bob}
    Tasks = {t1, t2}
    Tunnel = {t2}
    MaxActive = 1
    Faults <- FaultKinds
SYMMETRY Symmetry
INVARIANTS
    OnePlace
    RevokedLeavesAV
    OvershootBounded
CHECK_DEADLOCK FALSE
