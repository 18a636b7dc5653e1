SPECIFICATION Spec
CONSTANTS
    Names = {a, b}
    Types = {"number"}
    Links = {}
    MaxAttrs = 2
    DDLUndone = TRUE
PROPERTIES
    UpdateRetainsData
