SPECIFICATION SocketsSpec
CONSTANTS
    Writer = {w1, w2}
    MaxConnects = 2
    MaxWrites = 3
    c1 = c1
    c2 = c2
    Connection = {c1, c2}
    MaxServed <- MCServed
    MaxReads <- MCReads
    Size = 2
INVARIANTS
    SentInOrder
    ServedInOrder
    HandlersAreSound
PROPERTIES
    SocketGoesOn
    ServerGoesOn
CHECK_DEADLOCK FALSE
