SPECIFICATION Spec
CONSTANTS
    None = None
    Subjects = {alice, bob}
    Pods = {p1, p2}
    Calls = {c1, c2}
    Backend = "sqlite"
SYMMETRY Symmetry
INVARIANTS
    OwnersAreBootstrappedOrAppointed
PROPERTIES
    OwnerNeverLost
