SPECIFICATION Spec
CONSTANTS
    Target = {window}
    Global = GlobalObject
    Listener = {l1}
    Callback = {c1}
    Fire = {f1}
PROPERTIES
    RemovedIsNotCalled
CHECK_DEADLOCK FALSE
