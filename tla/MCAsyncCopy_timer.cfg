SPECIFICATION FairSpec
CONSTANTS
    Copy = {"c", "d"}
    MaxFiles = 1
PROPERTIES
    TimerCleansUp
CHECK_DEADLOCK FALSE
