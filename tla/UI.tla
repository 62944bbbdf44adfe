---------------------------------- MODULE UI ----------------------------------
(* Events, windows and the sizes of windows side by side.  They share nothing   *)
(* (a window's events are calls of listeners in UserWindow): in a behaviour one *)
(* of them, `part`, is at work and the others rest.                             *)
EXTENDS EventObject

CONSTANTS
    Window, Main, None, Parent, MaxDepth, Careful,  \* of UserWindow
    Sized, MaxSize, MaxEvents                       \* of WindowSize: its windows

VARIABLES
    part,
    \* UserWindow
    initialized, active, gtkWindow, children, openWindows, stack, exiting,
    refused, late, stays,
    \* WindowSize
    width, minWidth, maxWidth, resizable, isOpen, targetWidth, hints, screen, events,
    oldWidth

windowVars ==
    <<initialized, active, gtkWindow, children, openWindows, stack, exiting,
      refused, late, stays>>
sizeVars ==
    <<width, minWidth, maxWidth, resizable, isOpen, targetWidth, hints, screen, events,
      oldWidth>>

Windows == INSTANCE UserWindow
Sizes == INSTANCE WindowSize WITH Window <- Sized

ASSUME WindowsAssumption == Windows!WindowAssumption
ASSUME SizesAssumption == Sizes!SizeAssumption

\* Those that rest begin in one of their initial states only.
UIInit ==
    /\ part \in {"events", "windows", "size"}
    /\ Init /\ Windows!Init /\ Sizes!Init
    /\ part # "size" => \A w \in Sized : width[w] = 1 /\ resizable[w]

UINext ==
    \/ part = "events" /\ Next /\ UNCHANGED <<part, windowVars, sizeVars>>
    \/ part = "windows" /\ Windows!Next /\ UNCHANGED <<part, vars, sizeVars>>
    \/ part = "size" /\ Sizes!Next /\ UNCHANGED <<part, vars, windowVars>>

UISpec == UIInit /\ [][UINext]_<<part, vars, windowVars, sizeVars>>

\* The type invariants of the three.
TypesOK == TypeOK /\ Windows!TypeOK /\ Sizes!TypeOK

\* The properties of windows and sizes; see their modules.
ListIsActive == Windows!ListIsActive
ChildrenAreClosed == Windows!ChildrenAreClosed
ExitsWithLastWindow == Windows!ExitsWithLastWindow
WidthIsReported == Sizes!WidthIsReported
=============================================================================
