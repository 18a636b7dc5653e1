SPECIFICATION Spec
CONSTANTS
    Databases = {global, d1}
    Global = global
    NoDB = NoDB
    NTypes = 2
    InitLength = 4
    Lengths = {2, 8}
    Room = 12
    MaxImports = 2
    MaxLines = 2
    MaxRows = 2
    MaxFiles = 2
    MaxBatches = 2
INVARIANTS
    TypeOK
    RowsAccounted
    StatementsFit
    ExistingBatchHasDB
    GlobalUnlessLeft
    CompletedFresh
PROPERTIES
    ImplementsRecordLoad
    ImportEnds
