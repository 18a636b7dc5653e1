SPECIFICATION TransSpec
CONSTANTS
    Rows = {r1, r2, r3}
    Backend = "odbc"
    CanTransact = TRUE
    MaxLevel = 3
    Disciplined = TRUE
INVARIANTS
    TransTypeOK
    LevelNeverNegative
    LevelMatchesDriver
    AutocommitSaves
PROPERTIES
    ImplementsNestedTrans
