SPECIFICATION ThreadsSpec
CONSTANTS
    MaxSent = 2
    MaxPosted = 2
    MaxStarts = 2
    Copy = {"c", "d"}
    MaxFiles = 2
INVARIANTS
    QueuesInOrder
    NothingIsLost
    CancelStops
    KeptWhileRunning
PROPERTIES
    TerminateReturns
    MessagesAreTaken
    CopiesAreDeleted
CHECK_DEADLOCK FALSE
