SPECIFICATION Spec
CONSTANTS
    None = None
    Subjects = {alice, bob, carol}
    Pods = {p1}
    Calls = {c1}
    Backend = "postgres"
SYMMETRY Symmetry
INVARIANTS
    ServingMeansOwned
