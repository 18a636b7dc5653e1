SPECIFICATION Spec
CONSTANTS
    Names = {a, b}
    Types = {"number"}
    Links = {l1}
    MaxAttrs = 2
    DDLUndone = TRUE
INVARIANTS
    TypeOK
    TableMatchesDefinition
PROPERTIES
    TidyUpdateRetainsData
