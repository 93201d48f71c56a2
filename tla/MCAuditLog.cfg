SPECIFICATION Spec
CONSTANTS
    Calls = {c1, c2}
    Policies <- AllPolicies
    MaxId = 4
SYMMETRY Symmetry
PROPERTIES
    PruneSuffices
    KeptUnlessRaced
