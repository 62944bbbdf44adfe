SPECIFICATION Spec
CONSTANTS
    Background = {t1, t2}
    Job = {j1, j2, j3, j4}
    NoJob = NoJob
    Timer = FALSE
    Nested = TRUE
    CanExit = TRUE
SYMMETRY Symmetric
INVARIANTS
    NoJobUsedAfterDelete
    NoLostWakeup
PROPERTIES
    ImplementsCalls
CHECK_DEADLOCK FALSE
