SPECIFICATION Spec
CHECK_DEADLOCK FALSE
CONSTANTS
    NumProcess = 2
    MaxBounces = 2
INVARIANTS
    TypeOK
    FewRunning
    StopEndsAll
PROPERTIES
    EndedIsRestarted
    StopCompletes
