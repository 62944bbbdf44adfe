SPECIFICATION FairSpec
CONSTANTS
    MaxRequests = 2
    MaxParts = 1
    Patient = TRUE
INVARIANTS
    AnswerIsOwn
    HandleIsHeld
PROPERTIES
    KeepsPromise
    RequestsEnd
CHECK_DEADLOCK FALSE
