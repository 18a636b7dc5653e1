SPECIFICATION Spec
CONSTANTS
    Rows = {r1, r2}
    Backend = "mysql"
    CanTransact = TRUE
    MaxLevel = 2
    Disciplined = FALSE
PROPERTIES
    CancelledImportLeavesNothing
