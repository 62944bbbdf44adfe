SPECIFICATION UISpec
CONSTANTS
    Target = {window}
    Global = GlobalObject
    Listener = {l1, l2}
    Callback = {c1}
    Fire = {f1, f2}
    a = a
    b = b
    c = c
    Window = {main, a, b, c}
    Main = main
    None = None
    Parent <- MCParent
    MaxDepth = 4
    Careful = TRUE
    Sized = {"a"}
    MaxSize = 3
    MaxEvents = 2
SYMMETRY Symmetric
INVARIANTS
    TypesOK
    EveryListenerHearsOnce
    ListIsActive
    ChildrenAreClosed
    ExitsWithLastWindow
    WidthIsReported
PROPERTIES
    StopIsFinal
CHECK_DEADLOCK FALSE
