----------------------------- MODULE EventObject -----------------------------
(***************************************************************************)
(* KEventObject (src/libtide/binding/event_object.cpp) and Event           *)
(* (src/libtide/binding/event.cpp): listeners are added, removed and       *)
(* called.  FireEvent copies the list of EventListener pointers under the  *)
(* mutex and dispatches from the copy without it; each callback runs on    *)
(* the main thread and the firing thread waits for it; an event that       *)
(* nobody stopped goes on to the GlobalObject.  Any thread adds and        *)
(* removes listeners at any time.                                          *)
(*                                                                         *)
(* Removing deletes the EventListener, also when a copy of some FireEvent  *)
(* still points to it.  What a dispatch through such a pointer does is     *)
(* undefined: here it is skipped, called as before, or crashes the         *)
(* program.                                                                *)
(***************************************************************************)
EXTENDS Naturals, Sequences, FiniteSets

CONSTANTS
    Target,     \* the objects with listeners, the GlobalObject aside
    Global,     \* GlobalObject::GetInstance()
    Listener,   \* the EventListener objects that may be allocated
    Callback,   \* the methods given to addEventListener
    Fire        \* the calls of FireEvent, one event each

ASSUME EventAssumption == Global \notin Target /\ Callback # {}

Object == Target \cup {Global}

\* What a listener was registered for: the event fired here, another, or all.
EventName == {"event", "other", "ALL"}

VARIABLES
    listeners,  \* KEventObject::listeners
    object,     \* object[l]: "unused", "live" or "deleted"
    handles,    \* handles[l]: EventListener::targetedEvent
    callback,   \* callback[l]: EventListener::callback
    fire,       \* fire[f]: the locals of a FireEvent and its Event
    mainStack,  \* the FireEvents whose callbacks are running on the main thread
    calls,      \* history: calls[f], the listeners called for f, in order
    owed,       \* history: owed[f], registered before f was fired, not removed since
    halted,     \* history: halted[f], a callback stopped the event or returned false
    crashed     \* the program has crashed

vars == <<listeners, object, handles, callback, fire, mainStack, calls, owed, halted,
          crashed>>
table == <<listeners, object, handles, callback>>

NoFire == [at |-> "idle", by |-> "main", kind |-> "event", on |-> Global,
           copy |-> <<>>, i |-> 1, stopped |-> FALSE, preventedDefault |-> FALSE,
           result |-> TRUE]

Init ==
    /\ listeners = [o \in Object |-> <<>>]
    /\ object = [l \in Listener |-> "unused"]
    /\ handles = [l \in Listener |-> "other"]
    /\ callback = [l \in Listener |-> CHOOSE c \in Callback : TRUE]
    /\ fire = [f \in Fire |-> NoFire]
    /\ mainStack = <<>>
    /\ calls = [f \in Fire |-> <<>>]
    /\ owed = [f \in Fire |-> {}]
    /\ halted = [f \in Fire |-> FALSE]
    /\ crashed = FALSE

-----------------------------------------------------------------------------
(* The table of listeners.                                                  *)

AddEventListener(o, l, e, c) ==
    /\ ~crashed
    /\ object[l] = "unused"
    /\ object' = [object EXCEPT ![l] = "live"]
    /\ handles' = [handles EXCEPT ![l] = e]
    /\ callback' = [callback EXCEPT ![l] = c]
    /\ listeners' = [listeners EXCEPT ![o] = Append(@, l)]
    /\ UNCHANGED <<fire, mainStack, calls, owed, halted, crashed>>

\* EventListener::Handles: its own event, or registered for all.
Handles(l, e) == handles[l] = e \/ handles[l] = "ALL"

Without(s, k) == SubSeq(s, 1, k - 1) \o SubSeq(s, k + 1, Len(s))

\* The first listener that handles e and has this callback is erased and deleted.
RemoveEventListener(o, e, c) ==
    LET match == {k \in 1..Len(listeners[o]) :
                    Handles(listeners[o][k], e) /\ callback[listeners[o][k]] = c}
    IN  /\ ~crashed
        /\ match # {}
        /\ LET k == CHOOSE k \in match : \A m \in match : k <= m
           IN  /\ listeners' = [listeners EXCEPT ![o] = Without(@, k)]
               /\ object' = [object EXCEPT ![listeners[o][k]] = "deleted"]
               /\ owed' = [f \in Fire |-> owed[f] \ {listeners[o][k]}]
        /\ UNCHANGED <<handles, callback, fire, mainStack, calls, halted, crashed>>

-----------------------------------------------------------------------------
(* FireEvent.                                                               *)

OnTop(f) == mainStack # <<>> /\ mainStack[Len(mainStack)] = f

\* The main thread is in its loop or in a callback, so it may fire an event.
MainRunsCode == mainStack # <<>> => fire[mainStack[Len(mainStack)]].at = "running"

Pop(s) == SubSeq(s, 1, Len(s) - 1)

\* The listeners an event fired on o will meet, were nobody to interfere.
OnPath(o, kind) == {l \in Listener : Handles(l, "event") /\
    \E p \in {o} \cup (IF kind = "event" THEN {Global} ELSE {}) :
        \E k \in 1..Len(listeners[p]) : listeners[p][k] = l}

\* FireEvent is entered: the listeners are copied under the mutex.  There is
\* the call with an Event and the call with plain arguments ("args").
FireEvent(f, o, by, kind) ==
    /\ ~crashed
    /\ fire[f].at = "idle"
    /\ fire' = [fire EXCEPT ![f] = [NoFire EXCEPT !.at = "next", !.by = by,
                    !.kind = kind, !.on = o, !.copy = listeners[o]]]
    /\ owed' = [owed EXCEPT ![f] = OnPath(o, kind)]
    /\ IF by = "main" THEN MainRunsCode /\ mainStack' = Append(mainStack, f)
                      ELSE UNCHANGED mainStack
    /\ UNCHANGED <<table, calls, halted, crashed>>

\* The firing thread may go on: a background thread always, the main thread
\* when this is its innermost call.
Proceeds(f) == ~crashed /\ (fire[f].by = "main" => OnTop(f))

AtListener(f) == Proceeds(f) /\ fire[f].at = "next" /\ fire[f].i <= Len(fire[f].copy)
Visited(f) == fire[f].copy[fire[f].i]

\* The listener is not for this event: next one.  A deleted one may look like that.
Skip(f) ==
    /\ AtListener(f)
    /\ ~Handles(Visited(f), "event") \/ object[Visited(f)] = "deleted"
    /\ fire' = [fire EXCEPT ![f].i = @ + 1]
    /\ UNCHANGED <<table, mainStack, calls, owed, halted, crashed>>

\* Dispatch: RunOnMainThread executes the callback in place on the main
\* thread; on another one it queues the callback and waits.
Dispatch(f) ==
    /\ AtListener(f)
    /\ Handles(Visited(f), "event")
    /\ fire' = [fire EXCEPT
           ![f].at = IF fire[f].by = "main" THEN "running" ELSE "queued",
           ![f].i = @ + 1]
    /\ calls' = [calls EXCEPT ![f] = Append(@, Visited(f))]
    /\ UNCHANGED <<table, mainStack, owed, halted, crashed>>

\* Reading a deleted EventListener may also crash.
Crash(f) ==
    /\ AtListener(f)
    /\ object[Visited(f)] = "deleted"
    /\ crashed' = TRUE
    /\ UNCHANGED <<table, fire, mainStack, calls, owed, halted>>

\* The main loop takes the job of a background thread's dispatch.
RunQueued(f) ==
    /\ ~crashed /\ mainStack = <<>>
    /\ fire[f].at = "queued"
    /\ fire' = [fire EXCEPT ![f].at = "running"]
    /\ mainStack' = <<f>>
    /\ UNCHANGED <<table, calls, owed, halted, crashed>>

Running(f) == ~crashed /\ fire[f].at = "running" /\ OnTop(f)

\* The callback calls event.stopPropagation() or event.preventDefault().
StopPropagation(f) ==
    /\ Running(f) /\ fire[f].kind = "event"
    /\ fire' = [fire EXCEPT ![f].stopped = TRUE, ![f].preventedDefault = TRUE]
    /\ halted' = [halted EXCEPT ![f] = TRUE]
    /\ UNCHANGED <<table, mainStack, calls, owed, crashed>>

PreventDefault(f) ==
    /\ Running(f) /\ fire[f].kind = "event"
    /\ fire' = [fire EXCEPT ![f].preventedDefault = TRUE]
    /\ UNCHANGED <<table, mainStack, calls, owed, halted, crashed>>

\* Mutant: only the event's own flag ends the loop, not the callback's result.
EndsWhenStopped(f, result) == fire[f].kind = "event" /\ fire[f].stopped

\* After a callback: does FireEvent return without looking further?
EndsHere(f, result) ==
    IF fire[f].kind = "args" THEN result # "true"
    ELSE fire[f].stopped \/ result # "true"

\* The callback returns true, false, or throws (reported; counts as false).
CallbackReturns(f) ==
    /\ Running(f)
    /\ \E result \in {"true", "false", "throws"} :
          /\ fire' = [fire EXCEPT
                 ![f].at = IF EndsHere(f, result) THEN "done" ELSE "next",
                 ![f].result = IF EndsHere(f, result) THEN ~fire[f].preventedDefault ELSE @]
          /\ halted' = [halted EXCEPT ![f] = @ \/ result # "true"]
          /\ mainStack' = IF fire[f].by = "main" /\ ~EndsHere(f, result)
                          THEN mainStack ELSE Pop(mainStack)
    /\ UNCHANGED <<table, calls, owed, crashed>>

AtEnd(f) == Proceeds(f) /\ fire[f].at = "next" /\ fire[f].i > Len(fire[f].copy)

\* Mutant: an event of the GlobalObject bubbles too.
BubblesAlways(f) == fire[f].kind = "event"

\* this != GlobalObject::GetInstance()
Bubbles(f) == fire[f].kind = "event" /\ fire[f].on # Global

\* Mutant: the second loop goes on at the first one's position.
BubbleFromHere(f) ==
    /\ AtEnd(f) /\ Bubbles(f)
    /\ fire' = [fire EXCEPT ![f].on = Global, ![f].copy = listeners[Global]]
    /\ UNCHANGED <<table, mainStack, calls, owed, halted, crashed>>

\* Every listener was called: GlobalObject::GetInstance()->FireEvent(event).
Bubble(f) ==
    /\ AtEnd(f) /\ Bubbles(f)
    /\ fire' = [fire EXCEPT ![f].on = Global, ![f].copy = listeners[Global], ![f].i = 1]
    /\ UNCHANGED <<table, mainStack, calls, owed, halted, crashed>>

\* FireEvent returns !event->preventedDefault.
FireReturns(f) ==
    /\ AtEnd(f) /\ ~Bubbles(f)
    /\ fire' = [fire EXCEPT ![f].at = "done", ![f].result = ~fire[f].preventedDefault]
    /\ mainStack' = IF fire[f].by = "main" THEN Pop(mainStack) ELSE mainStack
    /\ UNCHANGED <<table, calls, owed, halted, crashed>>

FireStep(f) ==
    \/ Skip(f) \/ Dispatch(f) \/ RunQueued(f) \/ CallbackReturns(f)
    \/ Bubble(f) \/ FireReturns(f)

Next ==
    \/ \E o \in Object, l \in Listener, e \in EventName, c \in Callback :
          AddEventListener(o, l, e, c)
    \/ \E o \in Object, e \in EventName, c \in Callback : RemoveEventListener(o, e, c)
    \/ \E f \in Fire, o \in Object, by \in {"main", "background"},
          kind \in {"event", "args"} : FireEvent(f, o, by, kind)
    \/ \E f \in Fire : FireStep(f) \/ StopPropagation(f) \/ PreventDefault(f) \/ Crash(f)

Spec == Init /\ [][Next]_vars

-----------------------------------------------------------------------------
(* Properties.                                                              *)

\* Types of the variables; what a FireEvent visits next is within its copy.
TypeOK ==
    /\ listeners \in [Object -> Seq(Listener)]
    /\ object \in [Listener -> {"unused", "live", "deleted"}]
    /\ handles \in [Listener -> EventName]
    /\ callback \in [Listener -> Callback]
    /\ fire \in [Fire ->
           [at : {"idle", "next", "queued", "running", "done"},
            by : {"main", "background"}, kind : {"event", "args"}, on : Object,
            copy : Seq(Listener), i : Nat \ {0}, stopped : BOOLEAN,
            preventedDefault : BOOLEAN, result : BOOLEAN]]
    /\ \A f \in Fire : fire[f].i <= Len(fire[f].copy) + 1
    /\ mainStack \in Seq(Fire)
    /\ calls \in [Fire -> Seq(Listener)]
    /\ owed \in [Fire -> SUBSET Listener]
    /\ halted \in [Fire -> BOOLEAN] /\ crashed \in BOOLEAN

Called(f) == {calls[f][k] : k \in 1..Len(calls[f])}

\* No listener hears one event twice, bubbling and registering for all included.
\* And unless some callback stopped the event or asked to end the dispatch, every
\* listener that was registered when the event was fired, on its target or (it
\* bubbles) on the GlobalObject, and that was not removed, has been called.
\* Listeners are added, removed and other events fired in the meantime.
EveryListenerHearsOnce ==
    \A f \in Fire :
        /\ Cardinality(Called(f)) = Len(calls[f])
        /\ fire[f].at = "done" /\ ~halted[f] => owed[f] \subseteq Called(f)

\* Once a callback has stopped an event, returned false or thrown, and has come
\* back, no further callback hears it: not those of the same object, and not
\* those of the GlobalObject.
StopIsFinal ==
    [][\A f \in Fire : halted[f] /\ fire[f].at # "running" => calls'[f] = calls[f]]_vars

\* A removed listener is not called any more (Process::SetOnRead removes the
\* old listener of a pipe while the pipe's own thread may be firing at it).
RemovedIsNotCalled ==
    [][\A f \in Fire : calls'[f] # calls[f] => object[calls'[f][Len(calls'[f])]] = "live"]_vars
=============================================================================
