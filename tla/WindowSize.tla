----------------------------- MODULE WindowSize -----------------------------
(***************************************************************************)
(* The size of windows, as the application sets and reads it, and as it    *)
(* is on the screen (src/modules/ui/user_window.cpp and                    *)
(* gtk/gtk_user_window.cpp).                                               *)
(* A window keeps the size the application asked for in its configuration. *)
(* GTK and the window manager (external) apply sizes and limits, let the   *)
(* user resize the window, and report sizes by events, which the main loop *)
(* dispatches later.  getWidth() answers from `targetWidth`, which is set  *)
(* in advance and corrected by the events.                                 *)
(* A size stands for width and height.  All code runs on the main thread.  *)
(***************************************************************************)
EXTENDS Integers, Lists

CONSTANTS
    Window,
    MaxSize,  \* sizes are 1..MaxSize
    MaxEvents \* events not dispatched yet

\* What is assumed of the constants.
SizeAssumption == MaxSize \in Nat \ {0} /\ MaxEvents \in Nat \ {0}

Unlimited == -1
Size == 1..MaxSize
Limit == Size \cup {Unlimited}

VARIABLES
    width, minWidth, maxWidth, resizable, \* WindowConfig
    isOpen,      \* it is active and has its native window
    targetWidth,
    hints,       \* the limits GTK was told
    screen,      \* the size on the screen
    events,      \* GDK_CONFIGURE events to come, <<window, size>>
    oldWidth     \* the static variable of EventCallback, one for all windows

config == <<width, minWidth, maxWidth, resizable>>
native == <<isOpen, targetWidth, hints, screen>>
vars == <<config, native, events, oldWidth>>

\* The application keeps the limits of a window consistent.
Consistent(min, max) == max = Unlimited \/ min <= max

Constrain(value, min, max) ==
    LET lifted == IF min >= 0 /\ value < min THEN min ELSE value
    IN IF max >= 0 /\ lifted > max THEN max ELSE lifted

Init ==
    /\ width \in [Window -> Size] /\ resizable \in [Window -> BOOLEAN]
    /\ minWidth = [w \in Window |-> Unlimited] /\ maxWidth = [w \in Window |-> Unlimited]
    /\ isOpen = [w \in Window |-> FALSE] /\ targetWidth = [w \in Window |-> Unlimited]
    /\ hints = [w \in Window |-> [min |-> 1, max |-> MaxSize]]
    /\ screen = [w \in Window |-> 0]
    /\ events = <<>> /\ oldWidth = Unlimited

-----------------------------------------------------------------------------
(* What the code tells GTK, and what GTK does with it.                      *)

\* SetupSizeLimits
SizeLimits(size, min, max, resize) ==
    IF ~resize THEN [min |-> size, max |-> size]
    ELSE [min |-> IF min = Unlimited THEN 1 ELSE min,
          max |-> IF max = Unlimited THEN MaxSize ELSE max]

\* GTK gives a window the size asked for within the limits, and reports a change.
Shows(w, asked, limits) ==
    LET given == Constrain(asked, limits.min, limits.max)
    IN /\ Len(events) < MaxEvents
       /\ hints' = [hints EXCEPT ![w] = limits]
       /\ screen' = [screen EXCEPT ![w] = given]
       /\ events' = IF given = screen[w] THEN events ELSE Append(events, <<w, given>>)

\* SetupSize and SetupSizeLimits with the configuration as it is now: the
\* former asks for the configured size, and takes it for the size of the window.
SetupSize(w) ==
    /\ targetWidth' = [targetWidth EXCEPT ![w] = width'[w]]
    /\ Shows(w, IF resizable'[w] THEN width'[w] ELSE screen[w],
             IF resizable'[w] THEN hints[w]
             ELSE SizeLimits(width'[w], minWidth'[w], maxWidth'[w], FALSE))

SetupSizeLimits(w) ==
    Shows(w, screen[w], SizeLimits(width'[w], minWidth'[w], maxWidth'[w], resizable'[w]))

-----------------------------------------------------------------------------
(* The application.                                                         *)

\* The native window is created, with everything the configuration says.
Open(w) ==
    /\ ~isOpen[w] /\ screen[w] = 0
    /\ isOpen' = [isOpen EXCEPT ![w] = TRUE]
    /\ targetWidth' = [targetWidth EXCEPT ![w] = width[w]]
    /\ Shows(w, width[w], SizeLimits(width[w], minWidth[w], maxWidth[w], resizable[w]))
    /\ UNCHANGED <<config, oldWidth>>

\* The native window is destroyed, and no longer sends events.
Close(w) ==
    /\ isOpen[w]
    /\ isOpen' = [isOpen EXCEPT ![w] = FALSE]
    /\ events' = Entries(events, {k \in DOMAIN events : events[k][1] # w})
    /\ UNCHANGED <<config, targetWidth, hints, screen, oldWidth>>

\* What is configured is passed on if the window is there.
IfOpen(w, Setup) == IF isOpen[w] THEN Setup ELSE UNCHANGED <<targetWidth, hints, screen, events>>

\* setWidth(), setSize() and setBounds().
SetWidth(w, size) ==
    /\ width' = [width EXCEPT ![w] = Constrain(size, minWidth[w], maxWidth[w])]
    /\ UNCHANGED <<minWidth, maxWidth, resizable, isOpen, oldWidth>>
    /\ IfOpen(w, SetupSize(w))

\* After a limit has changed: the new limit is told; the window is set to the
\* configured size if the one it is taken to have is beyond the limit.
LimitChanged(w, beyond) ==
    IfOpen(w, IF beyond
              THEN /\ targetWidth' = [targetWidth EXCEPT ![w] = width'[w]]
                   /\ Shows(w, IF resizable[w] THEN width'[w] ELSE screen[w],
                            SizeLimits(width'[w], minWidth'[w], maxWidth'[w], resizable[w]))
              ELSE SetupSizeLimits(w) /\ UNCHANGED targetWidth)

\* setMinWidth()
SetMinWidth(w, min) ==
    /\ Consistent(min, maxWidth[w])
    /\ minWidth' = [minWidth EXCEPT ![w] = min]
    /\ width' = [width EXCEPT ![w] = IF @ < min THEN min ELSE @]
    /\ UNCHANGED <<maxWidth, resizable, isOpen, oldWidth>>
    /\ LimitChanged(w, targetWidth[w] < min)

\* setMaxWidth()
SetMaxWidth(w, max) ==
    /\ Consistent(minWidth[w], max)
    /\ maxWidth' = [maxWidth EXCEPT ![w] = max]
    /\ width' = [width EXCEPT ![w] = IF max # Unlimited /\ @ > max THEN max ELSE @]
    /\ UNCHANGED <<minWidth, resizable, isOpen, oldWidth>>
    /\ LimitChanged(w, max # Unlimited /\ targetWidth[w] > max)

\* setResizable()
SetResizable(w) ==
    /\ resizable' = [resizable EXCEPT ![w] = ~@]
    /\ UNCHANGED <<width, minWidth, maxWidth, isOpen, oldWidth>>
    /\ IfOpen(w, SetupSizeLimits(w) /\ UNCHANGED targetWidth)

-----------------------------------------------------------------------------
(* The user and the main loop.                                              *)

\* The user resizes the window within its limits, or moves it: an event either way.
UserResizes(w, size) ==
    /\ isOpen[w] /\ hints[w].min <= size /\ size <= hints[w].max
    /\ Len(events) < MaxEvents
    /\ screen' = [screen EXCEPT ![w] = size]
    /\ events' = Append(events, <<w, size>>)
    /\ UNCHANGED <<config, isOpen, targetWidth, hints, oldWidth>>

\* Mutant: what an event says is compared with what is on the screen by now.
DispatchIfCurrent ==
    /\ events # <<>>
    /\ LET w == events[1][1]  size == events[1][2]
       IN targetWidth' = IF oldWidth # Unlimited /\ size # screen[w]
                         THEN [targetWidth EXCEPT ![w] = size] ELSE targetWidth
    /\ oldWidth' = events[1][2]
    /\ events' = Tail(events)
    /\ UNCHANGED <<config, isOpen, hints, screen>>

\* EventCallback: a size that differs from that of the last event, of whatever
\* window, is taken over; the first event is not.
Dispatch ==
    /\ events # <<>>
    /\ LET w == events[1][1]  size == events[1][2]
       IN targetWidth' = IF oldWidth # Unlimited /\ size # oldWidth
                         THEN [targetWidth EXCEPT ![w] = size] ELSE targetWidth
    /\ oldWidth' = events[1][2]
    /\ events' = Tail(events)
    /\ UNCHANGED <<config, isOpen, hints, screen>>

Next ==
    \/ Dispatch
    \/ \E w \in Window :
          \/ Open(w) \/ Close(w) \/ SetResizable(w)
          \/ \E size \in Size : SetWidth(w, size) \/ UserResizes(w, size)
          \/ \E limit \in Limit : SetMinWidth(w, limit) \/ SetMaxWidth(w, limit)

Spec == Init /\ [][Next]_vars

-----------------------------------------------------------------------------
(* Properties.                                                              *)

\* Types of the variables.
TypeOK ==
    /\ width \in [Window -> Size] /\ {minWidth, maxWidth} \subseteq [Window -> Limit]
    /\ {resizable, isOpen} \subseteq [Window -> BOOLEAN]
    /\ targetWidth \in [Window -> Limit] /\ screen \in [Window -> Size \cup {0}]
    /\ hints \in [Window -> [min : Size, max : Size]]
    /\ events \in Seq(Window \X Size) /\ oldWidth \in Limit

\* Documentation of getWidth: "Return this window's width in pixels."  When every
\* event is dispatched, the answer is the width on the screen.  It is so for a
\* window that is alone; of two windows, one that takes the size the other
\* reported last is not heard.
WidthIsReported ==
    events = <<>> => \A w \in Window : isOpen[w] => targetWidth[w] = screen[w]
=============================================================================
