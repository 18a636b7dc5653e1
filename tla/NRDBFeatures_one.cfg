SPECIFICATION Spec
CONSTANTS
    Users = {u1}
    MaxType = 3
    MaxFeature = 2
    MaxBlank = 1
INVARIANTS
    TypeOK
    ParentOlder
    ParentFound
    ParentFeatureExists
    DeletionCompletes
