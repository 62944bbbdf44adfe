SPECIFICATION Spec
CONSTANTS
    Parts <- TwoDigits
    MaxParts = 1
    SearchPath <- MCSearchPath
    MaxFound = 2
INVARIANTS
    LatestIsChosen
CHECK_DEADLOCK FALSE
