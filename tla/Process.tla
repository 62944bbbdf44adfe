------------------------------- MODULE Process -------------------------------
(***************************************************************************)
(* A Ti.Process.Process and the output of its child (src/modules/process): *)
(* the readers of the native pipes (native_pipe.cpp), the exit monitor     *)
(* (process.cpp), the main thread, and the one thread that fires the       *)
(* events of all pipes (FireEvents of pipe.cpp).                           *)
(*                                                                         *)
(* Every launch has native pipes of its own, which pass what they read on  *)
(* to the process' stdout and stderr pipes; the application listens to the *)
(* native pipes through onRead and to the others by itself.  Callbacks run *)
(* on the main thread, for which the firing thread waits.  The application *)
(* does not launch a process that is running.                              *)
(***************************************************************************)
EXTENDS Naturals, Sequences, FiniteSets, SequencesExt

CONSTANTS
    Stream,     \* the output streams of the child, "out" among them
    MaxLaunch,  \* launches of the process
    MaxChunk    \* reads that return data, per stream and launch

ASSUME ProcessAssumption ==
    /\ "out" \in Stream /\ "onRead" \notin Stream /\ IsFiniteSet(Stream)
    /\ MaxLaunch \in Nat /\ MaxChunk \in Nat

Launch == 1..MaxLaunch

\* The pipes: one native pipe per launch and stream, and the process' own pipes.
Native(k, s) == [native |-> TRUE, launch |-> k, stream |-> s]
Own(s) == [native |-> FALSE, launch |-> 0, stream |-> s]
Pipes == {Native(k, s) : k \in Launch, s \in Stream} \cup {Own(s) : s \in Stream}

VARIABLES
    launches,   \* launches so far; the last one is the current one
    mode,       \* mode[k]: "async" (launch) or "sync" (the process was called)
    running,    \* Process::running
    exitCode,   \* Process::exitCode, "null" or "code"
    child,      \* the child: "none", "alive" or "dead"
    written,    \* written[k][s]: chunks child k has written so far
    os,         \* os[s]: how many of them are in the operating system's pipe
    reader,     \* reader[s]: where the thread that reads the native pipe is
    monitor,    \* where the exit monitor thread is
    mpc,        \* where the main thread is
    closing,    \* pipes Exited has still to close
    processOutput,          \* PosixProcess::processOutput
    returned,   \* returned[k]: what the synchronous launch k returned
    readData,               \* readData[p]: Pipe::readData
    pipesNeedingReadEvents, pipesNeedingCloseEvents, otherEvents,
    epc, closes, exits, batch, \* FireEvents: where, and what it has collected
    seen,       \* seen[l]: chunks given to listener l, "onRead" or a stream
    closed,     \* streams whose pipe has told its listeners of CLOSE, per launch
    exited,     \* exited[k]: number of EXIT events the application got
    unmonitored \* history: a launch found the last exit monitor still there

processVars == <<launches, mode, running, exitCode>>
childVars == <<child, written, os>>
outputVars == <<processOutput, returned>>
queues == <<readData, pipesNeedingReadEvents, pipesNeedingCloseEvents, otherEvents>>
firing == <<epc, closes, exits, batch>>
told == <<seen, closed, exited, unmonitored>>
vars == <<processVars, childVars, reader, monitor, mpc, closing, outputVars, queues,
          firing, told>>

Init ==
    /\ launches = 0 /\ mode = [k \in Launch |-> "none"]
    /\ running = FALSE /\ exitCode = "null"
    /\ child = "none" /\ written = [k \in Launch |-> [s \in Stream |-> 0]]
    /\ os = [s \in Stream |-> 0]
    /\ reader = [s \in Stream |-> "none"] /\ monitor = "none"
    /\ mpc = "loop" /\ closing = <<>>
    /\ processOutput = <<>> /\ returned = [k \in Launch |-> <<>>]
    /\ readData = [p \in Pipes |-> <<>>]
    /\ pipesNeedingReadEvents = <<>> /\ pipesNeedingCloseEvents = <<>>
    /\ otherEvents = <<>>
    /\ epc = "other" /\ closes = <<>> /\ exits = <<>> /\ batch = <<>>
    /\ seen = [l \in Stream \cup {"onRead"} |-> <<>>]
    /\ closed = {} /\ exited = [k \in Launch |-> 0] /\ unmonitored = FALSE

Chunk(k, s, n) == [launch |-> k, stream |-> s, n |-> n]
ChunksOf(k, s) == {Chunk(k, s, n) : n \in 1..written[k][s]}
WrittenBy(k) == UNION {ChunksOf(k, s) : s \in Stream}

-----------------------------------------------------------------------------
(* The child writes and exits.                                              *)

ChildWrites(s) ==
    /\ child = "alive"
    /\ written[launches][s] < MaxChunk
    /\ written' = [written EXCEPT ![launches][s] = @ + 1]
    /\ os' = [os EXCEPT ![s] = @ + 1]
    /\ UNCHANGED <<processVars, child, reader, monitor, mpc, closing, outputVars,
                   queues, firing, told>>

ChildExits ==
    /\ child = "alive"
    /\ child' = "dead"
    /\ UNCHANGED <<processVars, written, os, reader, monitor, mpc, closing,
                   outputVars, queues, firing, told>>

-----------------------------------------------------------------------------
(* NativePipe::PollForReads, one thread per stream.                         *)

NextChunk(s) == Chunk(launches, s, written[launches][s] - os[s] + 1)

\* Pipe::Write, its first half: the data is kept and the pipe queued.
QueueRead(p, c) ==
    /\ readData' = [readData EXCEPT ![p] = Append(@, c)]
    /\ pipesNeedingReadEvents' = Append(pipesNeedingReadEvents, p)

\* RawRead returned data: the callback of a synchronous launch, then Pipe::Write.
Read(s) ==
    /\ reader[s] = "reading"
    /\ os[s] > 0
    /\ QueueRead(Native(launches, s), NextChunk(s))
    /\ processOutput' = IF mode[launches] = "sync"
                        THEN Append(processOutput, NextChunk(s)) ELSE processOutput
    /\ reader' = [reader EXCEPT ![s] = "passing"]
    /\ UNCHANGED <<processVars, childVars, monitor, mpc, closing, returned,
                   pipesNeedingCloseEvents, otherEvents, firing, told>>

\* ... which writes the data to the attached pipe, the process' own.
PassOn(s) ==
    /\ reader[s] = "passing"
    /\ QueueRead(Own(s), NextChunk(s))
    /\ os' = [os EXCEPT ![s] = @ - 1]
    /\ reader' = [reader EXCEPT ![s] = "reading"]
    /\ UNCHANGED <<processVars, child, written, monitor, mpc, closing, outputVars,
                   pipesNeedingCloseEvents, otherEvents, firing, told>>

ReadEnds(s) ==
    /\ reader[s] = "reading"
    /\ os[s] = 0 /\ child = "dead"
    /\ reader' = [reader EXCEPT ![s] = "none"]
    /\ UNCHANGED <<processVars, childVars, monitor, mpc, closing, outputVars, queues,
                   firing, told>>

-----------------------------------------------------------------------------
(* The exit monitor: ExitMonitorAsync, on a thread of its own.              *)

Waited ==
    /\ monitor = "wait"
    /\ child = "dead"
    /\ exitCode' = "code"
    /\ monitor' = "join"
    /\ UNCHANGED <<launches, mode, running, childVars, reader, mpc, closing,
                   outputVars, queues, firing, told>>

Joined == \A s \in Stream : reader[s] = "none"

\* Mutant: the readers are not waited for.
NoStopMonitors ==
    /\ monitor = "join"
    /\ monitor' = "callback"
    /\ UNCHANGED <<processVars, childVars, reader, mpc, closing, outputVars, queues,
                   firing, told>>

\* StopMonitors on every native pipe, then RunOnMainThread(exitCallback).
StopMonitors ==
    /\ monitor = "join"
    /\ Joined
    /\ monitor' = "callback"
    /\ UNCHANGED <<processVars, childVars, reader, mpc, closing, outputVars, queues,
                   firing, told>>

MonitorEnds ==
    /\ monitor = "returned"
    /\ monitor' = "none"
    /\ UNCHANGED <<processVars, childVars, reader, mpc, closing, outputVars, queues,
                   firing, told>>

-----------------------------------------------------------------------------
(* The main thread.                                                         *)

\* AttachPipes, ForkAndExec and the start of the monitors.
Launches(m) ==
    /\ mpc = "loop"
    /\ ~running
    /\ launches < MaxLaunch
    /\ launches' = launches + 1
    /\ mode' = [mode EXCEPT ![launches + 1] = m]
    /\ running' = TRUE /\ exitCode' = "null"
    /\ child' = "alive" /\ os' = [s \in Stream |-> 0]
    /\ reader' = [s \in Stream |-> "reading"]
    /\ UNCHANGED <<written, closing, outputVars, queues, firing, seen, closed, exited>>

\* LaunchAsync.  Thread::start throws when the last monitor has not ended.
LaunchAsync ==
    /\ Launches("async")
    /\ monitor' = IF monitor = "none" THEN "wait" ELSE monitor
    /\ unmonitored' = (unmonitored \/ monitor # "none")
    /\ UNCHANGED mpc

\* LaunchSync: the main thread itself is the exit monitor.  The monitor of an
\* earlier LaunchAsync may not have ended yet: it is not needed.
LaunchSync ==
    /\ Launches("sync")
    /\ mpc' = "wait"
    /\ UNCHANGED <<monitor, unmonitored>>

\* Each native pipe, and after it the pipe it is attached to.
ToClose == [i \in 1..(2 * Cardinality(Stream)) |->
    LET s == SetToSeq(Stream)[(i + 1) \div 2]
    IN IF i % 2 = 1 THEN Native(launches, s) ELSE Own(s)]

\* exitCallback is not null: it is set by LaunchAsync and never reset.
ExitCallbackSet == \E k \in 1..launches : mode[k] = "async"

\* ExitMonitorSync, and the rest of MonitorSync.  With an exit callback
\* RunOnMainThread runs it in place: Exited(true).
SyncWaited ==
    /\ mpc = "wait"
    /\ child = "dead" /\ Joined
    /\ exitCode' = "code"
    /\ returned' = [returned EXCEPT ![launches] = processOutput]
    /\ IF ExitCallbackSet
       THEN mpc' = "closing" /\ closing' = ToClose
       ELSE mpc' = "output" /\ UNCHANGED closing
    /\ UNCHANGED <<launches, mode, running, childVars, reader, monitor,
                   processOutput, queues, firing, told>>

\* "Manually fire read events here": onRead is added to the native stdout ...
SyncRead ==
    /\ mpc = "output"
    /\ seen' = [seen EXCEPT !["onRead"] = @ \o returned[launches]]
    /\ mpc' = "listening"
    /\ UNCHANGED <<processVars, childVars, reader, monitor, closing, outputVars,
                   queues, firing, closed, exited, unmonitored>>

\* ... and removed again; then Exited(false).  After an exit callback the native
\* pipes are new ones, which nobody listens to and no pipe is attached to.
SyncExited ==
    /\ mpc = "listening"
    /\ mpc' = "closing"
    /\ closing' = IF running THEN ToClose ELSE <<>>
    /\ UNCHANGED <<processVars, childVars, reader, monitor, outputVars, queues,
                   firing, told>>

\* The main loop runs the exit callback: Exited(true).
ExitCallback ==
    /\ mpc = "loop"
    /\ monitor = "callback"
    /\ mpc' = "closing" /\ closing' = ToClose
    /\ UNCHANGED <<processVars, childVars, reader, monitor, outputVars, queues,
                   firing, told>>

\* Close of a native pipe, which closes the attached pipe next.
ClosePipe ==
    /\ mpc = "closing"
    /\ closing # <<>>
    /\ closing' = Tail(closing)
    /\ pipesNeedingCloseEvents' = 
           Append(pipesNeedingCloseEvents, [pipe |-> Head(closing), launch |-> launches])
    /\ UNCHANGED <<processVars, childVars, reader, monitor, mpc, outputVars, readData,
                   pipesNeedingReadEvents, otherEvents, firing, told>>

\* Exited(async) is the exit callback, or what LaunchSync ends with.
InCallback == running /\ (mode[launches] = "async" \/ ExitCallbackSet)

\* The rest of Exited: EXIT is queued, or fired here at the end of LaunchSync.
\* An exit callback returns to the monitor thread, or to LaunchSync.
ExitedAs(stillRunning) ==
    /\ mpc = "closing"
    /\ closing = <<>>
    /\ running' = stillRunning
    /\ IF InCallback
       THEN otherEvents' = Append(otherEvents, launches) /\ UNCHANGED exited
       ELSE exited' = [exited EXCEPT ![launches] = @ + 1] /\ UNCHANGED otherEvents
    /\ mpc' = IF InCallback /\ mode[launches] = "sync" THEN "output" ELSE "loop"
    /\ monitor' = IF mode[launches] = "async" THEN "returned" ELSE monitor
    /\ UNCHANGED <<launches, mode, exitCode, childVars, reader, closing, outputVars,
                   readData, pipesNeedingReadEvents, pipesNeedingCloseEvents, firing,
                   seen, closed, unmonitored>>

\* Mutant: the process counts as running for ever.
ExitedStillRunning == ExitedAs(TRUE)

Exited == ExitedAs(FALSE)

-----------------------------------------------------------------------------
(* FireEvents.  What is to be fired last is collected first.                *)

CollectOther ==
    /\ epc = "other"
    /\ exits' = otherEvents /\ otherEvents' = <<>>
    /\ epc' = "close"
    /\ UNCHANGED <<processVars, childVars, reader, monitor, mpc, closing, outputVars,
                   readData, pipesNeedingReadEvents, pipesNeedingCloseEvents, closes,
                   batch, told>>

CollectClose ==
    /\ epc = "close"
    /\ closes' = pipesNeedingCloseEvents /\ pipesNeedingCloseEvents' = <<>>
    /\ epc' = "read"
    /\ UNCHANGED <<processVars, childVars, reader, monitor, mpc, closing, outputVars,
                   readData, pipesNeedingReadEvents, otherEvents, exits, batch, told>>

Event(what, pipe, launch, data) ==
    [what |-> what, pipe |-> pipe, launch |-> launch, data |-> data]

\* A pipe is queued for each write, and its data is taken where it comes first.
QueuedFirst(i) ==
    \A j \in 1..(i - 1) : pipesNeedingReadEvents[j] # pipesNeedingReadEvents[i]

ReadEvents == [i \in 1..Len(pipesNeedingReadEvents) |->
    LET p == pipesNeedingReadEvents[i]
    IN Event("read", p, p.launch, IF QueuedFirst(i) THEN readData[p] ELSE <<>>)]
CloseEvents == [i \in 1..Len(closes) |-> 
    Event("close", closes[i].pipe, closes[i].launch, <<>>)]
ExitEvents == [i \in 1..Len(exits) |-> Event("exit", Own("none"), exits[i], <<>>)]

\* Mutant: pipe->readData.clear() is forgotten.
CollectReadAgain ==
    /\ epc = "read"
    /\ batch' = ReadEvents \o CloseEvents \o ExitEvents
    /\ pipesNeedingReadEvents' = <<>> /\ closes' = <<>> /\ exits' = <<>>
    /\ epc' = "fire"
    /\ UNCHANGED <<processVars, childVars, reader, monitor, mpc, closing, outputVars,
                   readData, pipesNeedingCloseEvents, otherEvents, told>>

\* Reads are fired first, then the closes, then the exits.
CollectRead ==
    /\ epc = "read"
    /\ batch' = ReadEvents \o CloseEvents \o ExitEvents
    /\ readData' = [p \in Pipes |->
           IF Contains(pipesNeedingReadEvents, p) THEN <<>> ELSE readData[p]]
    /\ pipesNeedingReadEvents' = <<>>
    /\ closes' = <<>> /\ exits' = <<>>
    /\ epc' = "fire"
    /\ UNCHANGED <<processVars, childVars, reader, monitor, mpc, closing, outputVars,
                   pipesNeedingCloseEvents, otherEvents, told>>

\* There is no event without data.
HasData(e) == e.what = "read" => e.data # <<>>

\* The application listens to the process, to the process' own pipes, and with
\* onRead to the native pipes of an asynchronous launch; to the native stdout
\* of a synchronous one while LaunchSync fires its own event (unless an exit
\* callback has replaced that pipe).
Listening(e) ==
    IF e.what = "exit" \/ ~e.pipe.native THEN TRUE
    ELSE /\ e.what = "read"
         /\ \/ mode[e.pipe.launch] = "async"
            \/ /\ mpc = "listening" /\ running
               /\ e.pipe = Native(launches, "out")

\* FireEvent copies the listeners; if there are any it waits for the main thread.
FireNext ==
    /\ epc = "fire"
    /\ IF batch = <<>> THEN epc' = "other" /\ UNCHANGED batch
       ELSE IF HasData(Head(batch)) /\ Listening(Head(batch)) THEN epc' = "dispatch" /\ UNCHANGED batch
       ELSE UNCHANGED epc /\ batch' = Tail(batch)
    /\ UNCHANGED <<processVars, childVars, reader, monitor, mpc, closing, outputVars,
                   queues, closes, exits, told>>

Hears(e) == IF e.pipe.native THEN "onRead" ELSE e.pipe.stream

\* The main loop runs the listener.
Dispatched ==
    /\ epc = "dispatch"
    /\ mpc = "loop"
    /\ LET e == Head(batch)
       IN  /\ seen' = IF e.what = "read" THEN [seen EXCEPT ![Hears(e)] = @ \o e.data]
                      ELSE seen
           /\ closed' = IF e.what = "close"
                        THEN closed \cup {<<e.launch, e.pipe.stream>>} ELSE closed
           /\ exited' = IF e.what = "exit" THEN [exited EXCEPT ![e.launch] = @ + 1]
                        ELSE exited
    /\ batch' = Tail(batch)
    /\ epc' = "fire"
    /\ UNCHANGED <<processVars, childVars, reader, monitor, mpc, closing, outputVars,
                   queues, closes, exits, unmonitored>>

-----------------------------------------------------------------------------
ReaderStep(s) == Read(s) \/ PassOn(s) \/ ReadEnds(s)
MonitorStep == Waited \/ StopMonitors \/ MonitorEnds
MainStep == SyncWaited \/ SyncRead \/ SyncExited \/ ExitCallback \/ ClosePipe \/ Exited
EventStep == CollectOther \/ CollectClose \/ CollectRead \/ FireNext \/ Dispatched

Next ==
    \/ \E s \in Stream : ChildWrites(s) \/ ReaderStep(s)
    \/ ChildExits \/ LaunchAsync \/ LaunchSync
    \/ MonitorStep \/ MainStep \/ EventStep

Spec == Init /\ [][Next]_vars

\* Threads go on and the child exits; nobody is obliged to launch or to write.
Fairness ==
    /\ \A s \in Stream : WF_vars(ReaderStep(s))
    /\ WF_vars(ChildExits) /\ WF_vars(MonitorStep) /\ WF_vars(MainStep)
    /\ WF_vars(EventStep)

FairSpec == Spec /\ Fairness

-----------------------------------------------------------------------------
(* Properties.                                                              *)

\* Types of the variables (the histories are typed by the other invariants); a
\* thread that reads or monitors belongs to a process that runs.
TypeOK ==
    /\ launches \in 0..MaxLaunch /\ running \in BOOLEAN
    /\ exitCode \in {"null", "code"} /\ child \in {"none", "alive", "dead"}
    /\ os \in [Stream -> 0..MaxChunk]
    /\ reader \in [Stream -> {"none", "reading", "passing"}]
    /\ monitor \in {"none", "wait", "join", "callback", "returned"}
    /\ mpc \in {"loop", "wait", "output", "listening", "closing"}
    /\ epc \in {"other", "close", "read", "fire", "dispatch"}
    /\ closing \in Seq(Pipes)
    /\ pipesNeedingCloseEvents \in Seq([pipe : Pipes, launch : Launch])
    /\ pipesNeedingReadEvents \in Seq(Pipes) /\ otherEvents \in Seq(Launch)
    /\ (\E s \in Stream : reader[s] # "none") => running

Saw(l, c) == \E i \in 1..Len(seen[l]) : seen[l][i] = c

\* When the application is told that a launch has exited nothing the child ever
\* wrote is missing: onRead and the listeners of stdout and stderr have got it
\* ("We want the onRead callbacks to fire before the exit event"), or, when the
\* process was called, it is in what the call returns.
OutputIsComplete ==
    \A k \in Launch : exited[k] > 0 => \A c \in WrittenBy(k) :
        IF mode[k] = "async" THEN Saw("onRead", c) /\ Saw(c.stream, c)
        ELSE Contains(returned[k], c)

\* A pipe has given all of a launch's data to its listeners when it tells them
\* of CLOSE ("a race condition where a CLOSE or EXIT event happens before READ").
CloseAfterRead ==
    \A k \in Launch, s \in Stream : <<k, s>> \in closed =>
        \A c \in ChunksOf(k, s) : Saw(s, c)

Earlier(c, d) == c.launch < d.launch \/ (c.launch = d.launch /\ c.n < d.n)

\* What the events pass on: all that the listeners of stdout and stderr get, and
\* what onRead gets of an asynchronous launch (a call hands it its output once
\* more, by hand).
Passed(l, c, s) == c.stream = s /\ (l = s \/ mode[c.launch] = "async")

\* A listener gets the data of a stream in the order it was written, each piece
\* once, over events that join several writes and over launches.
DataInOrder ==
    \A s \in Stream : \A l \in {s, "onRead"} : \A i, j \in 1..Len(seen[l]) :
        i < j /\ Passed(l, seen[l][i], s) /\ Passed(l, seen[l][j], s) =>
            Earlier(seen[l][i], seen[l][j])

\* The process is called after it has been launched: the exit callback is set.
CalledAfterLaunch(k) ==
    mode[k] = "sync" /\ \E j \in 1..(k - 1) : mode[j] = "async"

\* EXIT comes when the process is over, and once per launch (or call), except
\* when it is called after it has been launched.
ExitOnce ==
    \A k \in Launch :
        /\ exited[k] > 1 => CalledAfterLaunch(k)
        /\ exited[k] > 0 /\ k = launches => ~running

\* CLOSE and EXIT come after all output, and EXIT once: with the types these rest on.
ExitAfterOutput == TypeOK /\ OutputIsComplete /\ CloseAfterRead /\ ExitOnce

\* The exit of the child is noticed: running becomes false and EXIT is fired,
\* unless launch() came before the last exit monitor had ended.
ExitIsNoticed ==
    \A k \in Launch :
        (launches = k /\ child = "dead") ~> (unmonitored \/ (exited[k] > 0 /\ ~running))
=============================================================================
