SPECIFICATION FairSpec
CONSTANTS
    Stream = {"out"}
    MaxLaunch = 2
    MaxChunk = 2
INVARIANTS
    ExitAfterOutput
    DataInOrder
PROPERTIES
    ExitIsNoticed
