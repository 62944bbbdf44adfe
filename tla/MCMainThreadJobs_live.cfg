SPECIFICATION FairSpec
CONSTANTS
    Background = {t1, t2}
    Job = {j1, j2, j3}
    NoJob = NoJob
    Timer = TRUE
    Nested = FALSE
    CanExit = TRUE
INVARIANTS
    QueueOrder
PROPERTIES
    JobsFinish
CHECK_DEADLOCK FALSE
