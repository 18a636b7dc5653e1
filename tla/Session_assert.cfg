SPECIFICATION Spec
CONSTANTS
    Rows = {r1, r2}
    Backend = "odbc"
    CanTransact = TRUE
    MaxLevel = 2
    Disciplined = FALSE
INVARIANTS
    LevelNeverNegative
