SPECIFICATION Spec
CONSTANTS
    Users = {u1, u2}
    MaxType = 2
    MaxFeature = 1
    MaxBlank = 0
INVARIANTS
    ParentFeatureExists
