SPECIFICATION Spec
SYMMETRY Symmetry
CONSTANTS
    Handles = {h1, h2}
    Databases = {d1, d2}
    Names = {n1, n2}
    Absent = Absent
    None = None
    MaxCount = 4
INVARIANTS
    TypeOK
    InternalWhileConnected
    InternalOnlyWhileConnected
    FeatureNamesFresh
