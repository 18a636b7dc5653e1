SPECIFICATION Spec
CONSTANTS
    Depth = 3
    MaxId = 2
    Queries <- MCQueries
    RowSets <- MCRowSets
INVARIANTS
    TypeOK
    RowsShown
    ParentsJoined
    OnAncestor
