SPECIFICATION Spec
CONSTANTS
    None = None
    Subjects = {alice, bob}
    Pods = {p1}
    Calls = {c1}
    Backend = "sqlite"
SYMMETRY Symmetry
INVARIANT ServingMeansOwned
