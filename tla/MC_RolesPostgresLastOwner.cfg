SPECIFICATION Spec
CONSTANTS
    None = None
    Subjects = {alice, bob}
    Pods = {p1}
    Calls = {c1, c2}
    Backend = "postgres"
SYMMETRY Symmetry
PROPERTY OwnerNeverLost
