SPECIFICATION Spec
CONSTANTS
    Rows = {r1, r2}
    Backend = "odbc"
    CanTransact = TRUE
    MaxLevel = 3
    Disciplined = FALSE
INVARIANTS
    TypeOK
    CommitsMatchBegins
    DialogsOutsideTrans
    UndoRestores
PROPERTIES
    CancelledImportLeavesNothing
    LogoutSavesAll
