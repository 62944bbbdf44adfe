------------------------------ MODULE AsyncCopy ------------------------------
(***************************************************************************)
(* Ti.Filesystem.asyncCopy (src/modules/filesystem/async_copy.cpp and      *)
(* filesystem_binding.cpp).  Every copy runs on a thread of its own, which *)
(* uses the AsyncCopy object without a reference to it.  The binding keeps *)
(* the objects in a list; a timer's thread has the main thread look for    *)
(* copies that no longer run; it is paused when none is left, and the end  *)
(* of that call is the end of its loop.                                    *)
(***************************************************************************)
EXTENDS Naturals, Sequences, SequencesExt

CONSTANTS
    Copy,     \* calls of asyncCopy()
    MaxFiles  \* files of each

\* What is assumed of the constants.
CopyAssumption == MaxFiles \in Nat

VARIABLES
    \* per copy
    thread,    \* where its thread is
    files,     \* files it is through with
    running,   \* the property `running`
    stopped,   \* AsyncCopy::stopped
    \* objects, on the main thread
    asyncOperations,
    held,      \* copies the application still refers to
    freed,     \* copies whose object is deleted
    \* the timer
    interval,  \* "none" before there is a timer, "on", "paused", or "over": its loop is
    call,      \* of DeletePendingOperations: "no", "asked", "answered"
    answer,    \* its result
    \* history
    cancelAt,  \* files the copy was through with when cancel() stopped it, in a set
    late       \* copies that began too late for the timer: see ExecuteAsyncCopy

execution == <<thread, files, running, stopped>>
objects == <<asyncOperations, held, freed>>
timing == <<interval, call, answer>>
vars == <<execution, objects, timing, cancelAt, late>>

Init ==
    /\ thread = [c \in Copy |-> "none"] /\ files = [c \in Copy |-> 0]
    /\ running = [c \in Copy |-> FALSE] /\ stopped = [c \in Copy |-> FALSE]
    /\ asyncOperations = <<>> /\ held = {} /\ freed = {}
    /\ interval = "none" /\ call = "no" /\ answer = FALSE
    /\ cancelAt = [c \in Copy |-> {}] /\ late = {}

-----------------------------------------------------------------------------
(* The main thread.                                                         *)

\* asyncCopy() starts the thread, and starts the timer or sets its interval again.
\* Set before restart(0), that is overwritten; set after the loop is over, nobody
\* looks at it any more.
ExecuteAsyncCopy(c) ==
    /\ thread[c] = "none"
    /\ thread' = [thread EXCEPT ![c] = "begun"]
    /\ running' = [running EXCEPT ![c] = TRUE]
    /\ asyncOperations' = Append(asyncOperations, c) /\ held' = held \cup {c}
    /\ interval' = IF interval = "over" THEN "over" ELSE "on"
    /\ late' = IF interval = "over" \/ (call = "answered" /\ answer)
                THEN late \cup {c} ELSE late
    /\ UNCHANGED <<files, stopped, freed, call, answer, cancelAt>>

StopCopy(c) ==
    /\ running' = [running EXCEPT ![c] = FALSE]
    /\ stopped' = [stopped EXCEPT ![c] = TRUE]

\* cancel(): the thread is asked to stop, and not waited for.
Cancel(c) ==
    /\ c \in held /\ thread[c] # "over"
    /\ StopCopy(c)
    /\ cancelAt' = [cancelAt EXCEPT ![c] = IF @ = {} THEN {files[c]} ELSE @]
    /\ UNCHANGED <<thread, files, objects, timing, late>>

\* The application drops its reference.
Drop(c) ==
    /\ c \in held
    /\ held' = held \ {c}
    /\ freed' = IF c \in ToSet(asyncOperations) THEN freed ELSE freed \cup {c}
    /\ UNCHANGED <<execution, asyncOperations, timing, cancelAt, late>>

Finished == {k \in DOMAIN asyncOperations : ~running[asyncOperations[k]]}

\* Mutant: the list is not looked at.
EraseFirst == IF asyncOperations = <<>> THEN {} ELSE {1}

\* The first operation of the list that does not run.
Erased == {k \in Finished : \A j \in Finished : k <= j}

\* DeletePendingOperations, for the timer's thread.
DeletePendingOperations ==
    /\ call = "asked" /\ call' = "answered"
    /\ IF Erased = {} THEN UNCHANGED asyncOperations
       ELSE \E k \in Erased : asyncOperations' = RemoveAt(asyncOperations, k)
    /\ freed' = freed \cup ({asyncOperations[k] : k \in Erased} \ held)
    /\ answer' = (asyncOperations' = <<>>)
    /\ UNCHANGED <<execution, held, interval, cancelAt, late>>

-----------------------------------------------------------------------------
(* The timer's thread (Poco::Timer).                                        *)

OnAsyncOperationTimer ==
    /\ interval = "on" /\ call = "no" /\ call' = "asked"
    /\ UNCHANGED <<execution, objects, interval, answer, cancelAt, late>>

\* Mutant: the timer pauses whatever the answer.
PauseAnyway ==
    /\ call = "answered" /\ call' = "no"
    /\ interval' = "paused"
    /\ UNCHANGED <<execution, objects, answer, cancelAt, late>>

\* restart(0) when the answer was that the list is empty.
PauseTimer ==
    /\ call = "answered" /\ call' = "no"
    /\ interval' = IF answer THEN "paused" ELSE interval
    /\ UNCHANGED <<execution, objects, answer, cancelAt, late>>

\* The callback has returned: the loop goes on while the interval is positive, so
\* it ends unless a copy has set the interval again in between.
LoopEnds ==
    /\ interval = "paused" /\ call = "no"
    /\ interval' = "over"
    /\ UNCHANGED <<execution, objects, call, answer, cancelAt, late>>

-----------------------------------------------------------------------------
(* The thread of a copy.                                                    *)

Goto(c, at, to) == thread[c] = at /\ thread' = [thread EXCEPT ![c] = to]

\* The destination is there, or createDirectory makes it.
Begins(c) ==
    /\ Goto(c, "begun", "loop")
    /\ UNCHANGED <<files, running, stopped, objects, timing, cancelAt, late>>

\* createDirectory throws, which ends the thread.
BeginFails(c) ==
    /\ Goto(c, "begun", "over")
    /\ UNCHANGED <<files, running, stopped, objects, timing, cancelAt, late>>

\* Mutant: the flag is not looked at before a file.
NextFileAnyway(c) ==
    /\ files[c] < MaxFiles /\ Goto(c, "loop", "copy")
    /\ UNCHANGED <<files, running, stopped, objects, timing, cancelAt, late>>

\* The next file, unless the copy is stopped.
NextFile(c) ==
    /\ ~stopped[c] /\ files[c] < MaxFiles /\ Goto(c, "loop", "copy")
    /\ UNCHANGED <<files, running, stopped, objects, timing, cancelAt, late>>

\* It is copied and the callback queued, or an exception is logged.
FileDone(c) ==
    /\ Goto(c, "copy", "loop")
    /\ files' = [files EXCEPT ![c] = @ + 1]
    /\ UNCHANGED <<running, stopped, objects, timing, cancelAt, late>>

Finishes(c) ==
    /\ stopped[c] \/ files[c] = MaxFiles
    /\ Goto(c, "loop", "flag")
    /\ running' = [running EXCEPT ![c] = FALSE]
    /\ UNCHANGED <<files, stopped, objects, timing, cancelAt, late>>

\* The last use of the object.
Over(c) ==
    /\ Goto(c, "flag", "over")
    /\ stopped' = [stopped EXCEPT ![c] = TRUE]
    /\ UNCHANGED <<files, running, objects, timing, cancelAt, late>>

ThreadStep(c) ==
    Begins(c) \/ BeginFails(c) \/ NextFile(c) \/ FileDone(c) \/ Finishes(c) \/ Over(c)
Timer == OnAsyncOperationTimer \/ DeletePendingOperations \/ PauseTimer \/ LoopEnds

Next ==
    \/ Timer
    \/ \E c \in Copy : ExecuteAsyncCopy(c) \/ Cancel(c) \/ Drop(c) \/ ThreadStep(c)

Spec == Init /\ [][Next]_vars

\* Threads run, and the main loop gets to what it is asked for.
Fairness == WF_vars(Timer) /\ \A c \in Copy : WF_vars(ThreadStep(c))

FairSpec == Spec /\ Fairness

-----------------------------------------------------------------------------
(* Properties.                                                              *)

\* Types of the variables.
TypeOK ==
    /\ thread \in [Copy -> {"none", "begun", "loop", "copy", "flag", "over"}]
    /\ files \in [Copy -> 0..MaxFiles]
    /\ {running, stopped} \subseteq [Copy -> BOOLEAN]
    /\ asyncOperations \in Seq(Copy)
    /\ held \cup freed \subseteq Copy
    /\ interval \in {"none", "on", "paused", "over"} /\ call \in {"no", "asked", "answered"}
    /\ answer \in BOOLEAN /\ late \subseteq Copy
    /\ cancelAt \in [Copy -> SUBSET (0..MaxFiles)]

\* After cancel() the copy gets through with the file it is at, and with no other.
CancelStops ==
    \A c \in Copy : \A n \in cancelAt[c] : files[c] <= n + 1

\* The list keeps the object of a copy while its thread uses it, but for the last
\* statement of the thread: unless cancel() said it no longer runs.
KeptWhileRunning ==
    \A c \in freed : thread[c] \in {"flag", "over"} \/ cancelAt[c] # {}

\* A copy that no longer runs is deleted from the list, if it began before the answer
\* that stops the timer, or before the timer's loop has seen that it is to stop: only
\* those that came later are left, once the loop is over.
CopiesAreDeleted ==
    \A c \in Copy :
        (c \in ToSet(asyncOperations) /\ ~running[c]) ~>
            (c \notin ToSet(asyncOperations) \/ (interval = "over" /\ c \in late))

\* "We need to create a timer thread that can cleanup operations": it does.
TimerCleansUp ==
    \A c \in Copy :
        (c \in ToSet(asyncOperations) /\ ~running[c]) ~> c \notin ToSet(asyncOperations)
=============================================================================
