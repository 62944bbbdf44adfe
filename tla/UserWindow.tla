----------------------------- MODULE UserWindow -----------------------------
(***************************************************************************)
(* The life of the windows of an application                               *)
(* (src/modules/ui/user_window.cpp, gtk/gtk_user_window.cpp, and the list  *)
(* of open windows of ui_binding.cpp).                                     *)
(* Everything happens on the main thread, and nothing is concurrent: but   *)
(* opening and closing fire events whose listeners open and close windows  *)
(* in turn, while the outer call is half done.  `stack` holds the calls    *)
(* under way, the innermost last; at the stages "open", "opened", "close", *)
(* "closed" and "exit" the listeners of that event run.                    *)
(***************************************************************************)
EXTENDS Lists

CONSTANTS
    Window,   \* windows that may be created
    Main,     \* the main window
    None,     \* no window
    Parent,   \* the window a window is created from, or None: a function
    MaxDepth, \* calls under way
    Careful   \* listeners open no windows

\* What is assumed of the constants.
WindowAssumption ==
    /\ Main \in Window /\ None \notin Window
    /\ Parent \in [Window -> Window \cup {None}] /\ Parent[Main] = None
    /\ MaxDepth \in Nat \ {0} /\ Careful \in BOOLEAN

VARIABLES
    initialized, \* it was opened
    active,
    gtkWindow,   \* it has a native window
    children,    \* UserWindow::children
    openWindows, \* UIBinding::openWindows
    stack,
    exiting,     \* Host::exiting
    refused,     \* history: windows that refused to be closed with their parent
    late,        \* history: windows opened when their parent was closed already
    stays        \* history: a listener cancelled the exit

windows == <<initialized, active, gtkWindow, children, openWindows>>
history == <<refused, late, stays>>
vars == <<windows, stack, exiting, history>>

Init ==
    /\ initialized = [w \in Window |-> FALSE] /\ active = [w \in Window |-> FALSE]
    /\ gtkWindow = [w \in Window |-> FALSE] /\ children = [w \in Window |-> <<>>]
    /\ openWindows = <<>>
    /\ stack = <<>> /\ exiting = FALSE
    /\ refused = {} /\ late = {} /\ stays = FALSE

-----------------------------------------------------------------------------
(* Calls.                                                                   *)

Elements(s) == {s[k] : k \in DOMAIN s}
Idle == stack = <<>>
Top == stack[Len(stack)]
At(stage, w) == ~Idle /\ Top = [at |-> stage, w |-> w]

Call(stage, w) == Append(stack, [at |-> stage, w |-> w])
Goto(stage) == [stack EXCEPT ![Len(stack)].at = stage]
Return == SubSeq(stack, 1, Len(stack) - 1)

\* The application's code runs: called by the main loop, or as a listener.
AppRuns ==
    /\ Idle => ~exiting
    /\ ~Idle => Top.at # "children"
    /\ Len(stack) < MaxDepth

-----------------------------------------------------------------------------
(* Opening.                                                                 *)

\* The main window is opened by the UI module, the others by open(), which refuses
\* a window that was opened before.  The native window is created, and then the
\* listeners of OPEN are called.
Open(w) ==
    /\ AppRuns /\ (Careful => Idle)
    /\ w # Main => initialized[Main]
    /\ Parent[w] # None => initialized[Parent[w]]
    /\ ~active[w] /\ ~initialized[w]
    /\ gtkWindow' = [gtkWindow EXCEPT ![w] = TRUE]
    /\ stack' = Call("open", w)
    /\ UNCHANGED <<initialized, active, children, openWindows, exiting, history>>

\* The window joins the open windows and the children of its parent; the
\* listeners of OPENED are called.
Opened(w) ==
    /\ At("open", w)
    /\ openWindows' = Append(openWindows, w)
    /\ IF Parent[w] = None THEN UNCHANGED <<children, late>>
       ELSE /\ children' = [children EXCEPT ![Parent[w]] = Append(@, w)]
            /\ late' = IF active[Parent[w]] THEN late ELSE late \cup {w}
    /\ initialized' = [initialized EXCEPT ![w] = TRUE]
    /\ active' = [active EXCEPT ![w] = TRUE]
    /\ stack' = Goto("opened")
    /\ UNCHANGED <<gtkWindow, exiting, refused, stays>>

\* open() returns.
OpenReturns(w) ==
    /\ At("opened", w)
    /\ stack' = Return
    /\ UNCHANGED <<windows, exiting, history>>

-----------------------------------------------------------------------------
(* Closing.                                                                 *)

\* close(), or the user closes the window: listeners of CLOSE are called, again
\* when one of them calls close().
Close(w) ==
    /\ AppRuns /\ active[w]
    /\ stack' = Call("close", w)
    /\ UNCHANGED <<windows, exiting, history>>

\* A parent closes the window.
ClosedByParent == Len(stack) > 1 /\ stack[Len(stack) - 1].at = "children"

\* A listener has cancelled it, and the window remains ...
StaysOpen(w) ==
    /\ At("close", w) /\ active[w]
    /\ stack' = Return
    /\ refused' = IF ClosedByParent THEN refused \cup {w} ELSE refused
    /\ UNCHANGED <<windows, exiting, late, stays>>

\* ... or else, or when it was closed meanwhile, the native window is destroyed
\* if it is there; the listeners of CLOSED are called.
Closed(w) ==
    /\ At("close", w)
    /\ active' = [active EXCEPT ![w] = FALSE]
    /\ gtkWindow' = [gtkWindow EXCEPT ![w] = FALSE]
    /\ stack' = Goto("closed")
    /\ UNCHANGED <<initialized, children, openWindows, exiting, history>>

\* They have returned.
CloseChildren(w) ==
    /\ At("closed", w)
    /\ stack' = Goto("children")
    /\ UNCHANGED <<windows, exiting, history>>

\* Mutant: the iterator of the children is advanced after the erasure.
CloseEveryOtherChild(w) ==
    /\ At("children", w) /\ children[w] # <<>>
    /\ children' = [children EXCEPT ![w] = IF Len(@) > 1 THEN SubSeq(@, 3, Len(@)) ELSE <<>>]
    /\ stack' = IF active[Head(children[w])] THEN Call("close", Head(children[w])) ELSE stack
    /\ UNCHANGED <<initialized, active, gtkWindow, openWindows, exiting, history>>

\* The next child is forgotten and closed, if it lets itself be closed.
CloseChild(w) ==
    /\ At("children", w) /\ children[w] # <<>>
    /\ children' = [children EXCEPT ![w] = Tail(@)]
    /\ stack' = IF active[Head(children[w])] THEN Call("close", Head(children[w])) ELSE stack
    /\ UNCHANGED <<initialized, active, gtkWindow, openWindows, exiting, history>>

\* RemoveChild: every entry; RemoveFromOpenWindows: the first.
RemoveChild(p, w) ==
    children' = [children EXCEPT ![p] = Entries(@, {k \in DOMAIN @ : @[k] # w})]

RemoveFirst(s, w) ==
    IF w \notin Elements(s) THEN s
    ELSE LET at == CHOOSE k \in DOMAIN s : s[k] = w /\ \A j \in 1..(k - 1) : s[j] # w
         IN SubSeq(s, 1, at - 1) \o SubSeq(s, at + 1, Len(s))

\* Mutant: the list of open windows is left to the destructor.
ForgetOnlyParent(w) ==
    /\ IF Parent[w] = None THEN UNCHANGED children ELSE RemoveChild(Parent[w], w)
    /\ UNCHANGED openWindows

\* The parent and the binding are told.
Forget(w) ==
    /\ IF Parent[w] = None THEN UNCHANGED children ELSE RemoveChild(Parent[w], w)
    /\ openWindows' = RemoveFirst(openWindows, w)

\* Mutant: the open windows are counted before this one is removed.
CountWindowsFirst(w) ==
    /\ At("children", w) /\ children[w] = <<>>
    /\ Forget(w)
    /\ stack' = IF openWindows = <<>> THEN Goto("exit") ELSE Return
    /\ UNCHANGED <<initialized, active, gtkWindow, exiting, history>>

\* No child is left.  Without an open window the application is asked to exit.
CloseEnds(w) ==
    /\ At("children", w) /\ children[w] = <<>>
    /\ Forget(w)
    /\ stack' = IF openWindows' = <<>> THEN Goto("exit") ELSE Return
    /\ UNCHANGED <<initialized, active, gtkWindow, exiting, history>>

\* Host::Exit: the listeners of EXIT have returned, and one has cancelled it or not.
Exit(w) ==
    /\ At("exit", w)
    /\ stack' = Return
    /\ \/ exiting' = TRUE /\ UNCHANGED stays
       \/ stays' = TRUE /\ UNCHANGED exiting
    /\ UNCHANGED <<windows, refused, late>>

Next ==
    \E w \in Window :
        \/ Open(w) \/ Opened(w) \/ OpenReturns(w)
        \/ Close(w) \/ StaysOpen(w) \/ Closed(w) \/ CloseChildren(w) \/ CloseChild(w)
        \/ CloseEnds(w) \/ Exit(w)

Spec == Init /\ [][Next]_vars

-----------------------------------------------------------------------------
(* Properties.                                                              *)

\* Types of the variables.
TypeOK ==
    /\ {initialized, active, gtkWindow} \subseteq [Window -> BOOLEAN]
    /\ children \in [Window -> Seq(Window)] /\ openWindows \in Seq(Window)
    /\ stack \in Seq([at : {"open", "opened", "close", "closed", "children", "exit"},
                      w : Window])
    /\ refused \cup late \subseteq Window /\ {exiting, stays} \subseteq BOOLEAN

\* A window that is active is held by the list of open windows, at every moment
\* and however calls nest: else the last reference could go, and the destructor
\* would close the window, which is destroyed, and take a reference of it.
\* Between calls the list holds no other window, and none twice.
ListIsActive ==
    /\ \A w \in Window : active[w] => w \in Elements(openWindows)
    /\ Idle => /\ \A w \in Elements(openWindows) : active[w] /\ gtkWindow[w]
               /\ Len(openWindows) = Cardinality(Elements(openWindows))

\* When a window is closed its children have been closed with it, but for those
\* that refused, and those opened when it was closed already.
ChildrenAreClosed ==
    Idle => \A w \in Window \ (refused \cup late) :
        active[w] /\ Parent[w] # None => active[Parent[w]]

\* An application whose last window is gone exits, unless a listener objected.
ExitsWithLastWindow ==
    Idle /\ openWindows = <<>> /\ initialized[Main] => exiting \/ stays
=============================================================================
