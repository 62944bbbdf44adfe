------------------------------- MODULE Worker --------------------------------
(***************************************************************************)
(* Ti.Worker: Worker (src/modules/worker/worker.cpp) on the main thread    *)
(* and WorkerContext (worker_context.cpp) on the worker's thread.  Each    *)
(* side has a queue of messages for the other.  The worker sleeps on       *)
(* messageEvent, its script may sleep on terminateEvent (both auto-reset   *)
(* Poco::Events); terminate() clears `running`, sets both events and joins *)
(* the thread, which start() may start again.                              *)
(*                                                                         *)
(* The n-th message of a direction is the number n.                        *)
(***************************************************************************)
EXTENDS Naturals, Sequences

CONSTANTS
    MaxSent,        \* messages the application posts to the worker
    MaxPosted,      \* messages the worker's script posts back
    MaxStarts       \* calls of start()

ASSUME WorkerAssumption ==
    MaxSent \in Nat /\ MaxPosted \in Nat /\ MaxStarts \in Nat

VARIABLES
    mpc,            \* the main thread: in the loop or where in a call
    wpc,            \* the worker's thread: "dead" or where in StartWorker
    op,             \* what the script, when it runs, is inside of
    running,        \* WorkerContext::running
    messageEvent,   \* WorkerContext::messageEvent
    terminateEvent, \* WorkerContext::terminateEvent
    toWorker,       \* WorkerContext::inbox
    toMain,         \* Worker::inbox
    onmessage,      \* the property "onmessage" of the Worker is a method
    hpc, hmsg,      \* per thread: where in HandleInbox, and its local `message`
    sent, taken,    \* messages posted to the worker; the last one its script got
    posted, handed, \* messages posted by the script; those passed to onmessage
    starts,         \* calls of start()
    setLate,        \* history: onmessage was assigned while the thread lived
    broken          \* a queue was popped when empty: anything may happen

mainVars == <<mpc, onmessage, starts, setLate>>
workerVars == <<wpc, op>>
events == <<running, messageEvent, terminateEvent>>
down == <<toWorker, sent, taken>>
handling == <<hpc, hmsg>>
up == <<toMain, posted, handed, handling>>
vars == <<mainVars, workerVars, events, down, up, broken>>

Thread == {"main", "worker"}
Alive == wpc # "dead"              \* Poco::Thread::isRunning()

Init ==
    /\ mpc = "loop" /\ wpc = "dead" /\ op = "none"
    /\ running = FALSE /\ messageEvent = FALSE /\ terminateEvent = FALSE
    /\ toWorker = <<>> /\ toMain = <<>>
    /\ onmessage = FALSE
    /\ hpc = [t \in Thread |-> "none"] /\ hmsg = [t \in Thread |-> 0]
    /\ sent = 0 /\ taken = 0 /\ posted = 0 /\ handed = <<>>
    /\ starts = 0 /\ setLate = FALSE /\ broken = FALSE

-----------------------------------------------------------------------------
(* HandleInbox, on either thread.                                           *)

\* while (onmessage is a method && !inbox.empty()), without the lock
HandleCheck(t) ==
    /\ ~broken
    /\ hpc[t] = "check"
    /\ hpc' = [hpc EXCEPT ![t] = IF onmessage /\ toMain # <<>> THEN "pop" ELSE "none"]
    /\ UNCHANGED <<mainVars, workerVars, events, down, toMain, posted, handed, hmsg, broken>>

\* front() and pop() under the lock; the other thread may have been faster.
HandlePop(t) ==
    /\ ~broken
    /\ hpc[t] = "pop"
    /\ IF toMain # <<>>
       THEN /\ hmsg' = [hmsg EXCEPT ![t] = Head(toMain)]
            /\ toMain' = Tail(toMain)
            /\ UNCHANGED broken
       ELSE broken' = TRUE /\ UNCHANGED <<hmsg, toMain>>
    /\ hpc' = [hpc EXCEPT ![t] = "deliver"]
    /\ UNCHANGED <<mainVars, workerVars, events, down, posted, handed>>

\* Worker::DeliverMessage: an asynchronous RunOnMainThread.  When onmessage is
\* no longer a method the job fails and the message is lost.
HandleDeliver(t) ==
    /\ ~broken
    /\ hpc[t] = "deliver"
    /\ handed' = IF onmessage THEN Append(handed, hmsg[t]) ELSE handed
    /\ hpc' = [hpc EXCEPT ![t] = "check"]
    /\ UNCHANGED <<mainVars, workerVars, events, down, toMain, posted, hmsg, broken>>

Handle(t) == HandleCheck(t) \/ HandlePop(t) \/ HandleDeliver(t)

-----------------------------------------------------------------------------
(* The main thread.                                                         *)

MainFree == ~broken /\ mpc = "loop" /\ hpc["main"] = "none"

Start ==
    /\ MainFree
    /\ ~Alive                      \* "Worker already started" otherwise
    /\ starts < MaxStarts
    /\ starts' = starts + 1
    /\ wpc' = "starting"
    /\ UNCHANGED <<mpc, onmessage, setLate, op, events, down, up, broken>>

\* postMessage: push under the lock, then wake the worker.
PostMessage ==
    /\ MainFree
    /\ sent < MaxSent
    /\ sent' = sent + 1
    /\ toWorker' = Append(toWorker, sent + 1)
    /\ mpc' = "posting"
    /\ UNCHANGED <<onmessage, starts, setLate, workerVars, events, taken, up, broken>>

Posted ==
    /\ ~broken
    /\ mpc = "posting"
    /\ messageEvent' = TRUE
    /\ mpc' = "loop"
    /\ UNCHANGED <<onmessage, starts, setLate, workerVars, running, terminateEvent, down, up, broken>>

\* worker.onmessage = ..., a method or not: the queue is handled at once.
SetOnMessage ==
    /\ MainFree
    /\ onmessage' \in BOOLEAN
    /\ setLate' = (setLate \/ Alive)
    /\ hpc' = [hpc EXCEPT !["main"] = "check"]
    /\ UNCHANGED <<mpc, starts, workerVars, events, down, toMain, posted, handed, hmsg, broken>>

\* terminate(): nothing to do for a thread that is not running.
Terminate ==
    /\ MainFree
    /\ Alive
    /\ running' = FALSE
    /\ mpc' = "waking"
    /\ UNCHANGED <<onmessage, starts, setLate, workerVars, messageEvent, terminateEvent, down, up, broken>>

\* Mutant: only the script's sleep is interrupted.
WakeSleeper ==
    /\ ~broken /\ mpc = "waking"
    /\ terminateEvent' = TRUE
    /\ mpc' = "join"
    /\ UNCHANGED <<onmessage, starts, setLate, workerVars, running, messageEvent, down, up, broken>>

WakeAll ==
    /\ ~broken
    /\ mpc = "waking"
    /\ messageEvent' = TRUE /\ terminateEvent' = TRUE
    /\ mpc' = "join"
    /\ UNCHANGED <<onmessage, starts, setLate, workerVars, running, down, up, broken>>

Joined ==
    /\ ~broken
    /\ mpc = "join"
    /\ ~Alive
    /\ mpc' = "loop"
    /\ UNCHANGED <<onmessage, starts, setLate, workerVars, events, down, up, broken>>

\* The main loop runs the method the worker's script is waiting for.
AnswerCall ==
    /\ MainFree
    /\ op = "call"
    /\ op' = "none"
    /\ UNCHANGED <<mainVars, wpc, events, down, up, broken>>

MainStep == Posted \/ WakeAll \/ Joined \/ AnswerCall \/ Handle("main")

-----------------------------------------------------------------------------
(* The worker's thread: StartWorker, MessageLoop and the script.            *)

\* The script runs, at top level ("code") or as onmessage ("callback").
InScript == ~broken /\ wpc \in {"code", "callback"} /\ op = "none" /\ hpc["worker"] = "none"

StartWorker ==
    /\ ~broken
    /\ wpc = "starting"
    /\ running' = TRUE
    /\ wpc' = "code"
    /\ UNCHANGED <<mainVars, op, messageEvent, terminateEvent, down, up, broken>>

\* Mutant: one message is taken each time the worker wakes up.
ScriptEndsAndWaits ==
    /\ InScript
    /\ wpc' \in {IF wpc = "code" THEN "while" ELSE "wait", "dead"}
    /\ UNCHANGED <<mainVars, op, events, down, up, broken>>

\* The script comes back.  When it throws, at top level (reported through
\* onerror) or out of onmessage, the thread ends with `running` as it is.
ScriptEnds ==
    /\ InScript
    /\ wpc' \in {IF wpc = "code" THEN "while" ELSE "drain", "dead"}
    /\ UNCHANGED <<mainVars, op, events, down, up, broken>>

ScriptPosts ==
    /\ InScript
    /\ posted < MaxPosted
    /\ posted' = posted + 1
    /\ toMain' = Append(toMain, posted + 1)
    /\ hpc' = [hpc EXCEPT !["worker"] = "check"]
    /\ UNCHANGED <<mainVars, workerVars, events, down, handed, hmsg, broken>>

ScriptCallsMain ==
    /\ InScript
    /\ op' = "call"
    /\ UNCHANGED <<mainVars, wpc, events, down, up, broken>>

ScriptSleeps ==
    /\ InScript
    /\ op' = "sleep"
    /\ UNCHANGED <<mainVars, wpc, events, down, up, broken>>

\* terminateEvent.tryWait(time): set, or timed out.  A sleep that ends while
\* `running` is false throws, at the script's discretion: ScriptEnds.
ScriptWakes ==
    /\ ~broken
    /\ op = "sleep"
    /\ op' = "none"
    /\ terminateEvent' = FALSE
    /\ UNCHANGED <<mainVars, wpc, running, messageEvent, down, up, broken>>

\* while (this->running)
TestRunning ==
    /\ ~broken
    /\ wpc = "while"
    /\ wpc' = IF running THEN "drain" ELSE "ending"
    /\ UNCHANGED <<mainVars, op, events, down, up, broken>>

\* Mutant: front() without pop().
TakeAndKeep ==
    /\ ~broken /\ wpc = "drain" /\ toWorker # <<>>
    /\ taken' = Head(toWorker)
    /\ wpc' = "callback"
    /\ UNCHANGED <<mainVars, op, events, toWorker, sent, up, broken>>

\* A message is popped and given to the script's onmessage.
TakeMessage ==
    /\ ~broken
    /\ wpc = "drain"
    /\ toWorker # <<>>
    /\ taken' = Head(toWorker)
    /\ toWorker' = Tail(toWorker)
    /\ wpc' = "callback"
    /\ UNCHANGED <<mainVars, op, events, sent, up, broken>>

Drained ==
    /\ ~broken
    /\ wpc = "drain"
    /\ toWorker = <<>>
    /\ wpc' = "wait"
    /\ UNCHANGED <<mainVars, op, events, down, up, broken>>

\* messageEvent.wait(), an auto-reset event
WaitReturns ==
    /\ ~broken
    /\ wpc = "wait"
    /\ messageEvent
    /\ messageEvent' = FALSE
    /\ wpc' = "while"
    /\ UNCHANGED <<mainVars, op, running, terminateEvent, down, up, broken>>

StartWorkerReturns ==
    /\ ~broken
    /\ wpc = "ending"
    /\ running' = FALSE
    /\ wpc' = "dead"
    /\ UNCHANGED <<mainVars, op, messageEvent, terminateEvent, down, up, broken>>

LoopStep ==
    \/ StartWorker \/ ScriptWakes \/ TestRunning \/ TakeMessage \/ Drained
    \/ WaitReturns \/ StartWorkerReturns \/ Handle("worker")

Next ==
    \/ Start \/ PostMessage \/ SetOnMessage \/ Terminate \/ MainStep
    \/ ScriptEnds \/ ScriptPosts \/ ScriptCallsMain \/ ScriptSleeps \/ LoopStep

Spec == Init /\ [][Next]_vars

(***************************************************************************)
(* Both threads go on, a main loop that is not blocked gets to the jobs    *)
(* queued for it, and a script that does not stay in a call comes to an    *)
(* end however often it sleeps.  Nobody is obliged to start, post to, or   *)
(* terminate a worker.                                                     *)
(***************************************************************************)
Fairness ==
    /\ WF_vars(MainStep) /\ WF_vars(LoopStep)
    /\ SF_vars(AnswerCall) /\ SF_vars(ScriptEnds)

FairSpec == Spec /\ Fairness

-----------------------------------------------------------------------------
(* Properties.                                                              *)

\* Types of the variables; only a running script is inside a call.
TypeOK ==
    /\ mpc \in {"loop", "posting", "waking", "join"}
    /\ wpc \in {"dead", "starting", "code", "while", "drain", "callback", "wait", "ending"}
    /\ op \in {"none", "call", "sleep"}
    /\ running \in BOOLEAN /\ messageEvent \in BOOLEAN /\ terminateEvent \in BOOLEAN
    /\ toWorker \in Seq(Nat) /\ toMain \in Seq(Nat)
    /\ onmessage \in BOOLEAN
    /\ hpc \in [Thread -> {"none", "check", "pop", "deliver"}] /\ hmsg \in [Thread -> Nat]
    /\ sent \in Nat /\ taken \in Nat /\ posted \in Nat /\ handed \in Seq(Nat)
    /\ starts \in Nat /\ setLate \in BOOLEAN /\ broken \in BOOLEAN
    /\ op # "none" \/ hpc["worker"] # "none" => wpc \in {"code", "callback"}

\* The worker's script gets the messages in the order they were posted, each
\* once, over any number of terminations, failures and restarts: what is in
\* the queue is exactly what was posted and not yet taken.
MailboxInOrder ==
    /\ taken + Len(toWorker) = sent
    /\ \A k \in 1..Len(toWorker) : toWorker[k] = taken + k

\* A worker that waits has been told of whatever is in its queue, and of its
\* termination: the event is set, or the poster is about to set it.  (postMessage
\* pushes and signals in two steps, the worker tests and waits in two steps; a
\* worker that has set `running` after terminate() cleared it is not covered.)
NoWakeupLost ==
    wpc = "wait" =>
        /\ toWorker # <<>> => messageEvent \/ mpc = "posting"
        /\ mpc = "join" /\ ~running => messageEvent

\* While onmessage is only assigned before start() and after the thread ended,
\* it gets each message of the worker at most once and in order, and the queue
\* is never popped when empty.  (Assigned later, both threads handle the queue.)
OutboxInOrder ==
    ~setLate =>
        /\ ~broken
        /\ \A k, m \in 1..Len(handed) : k < m => handed[k] < handed[m]

\* Once onmessage is set and nobody is handling the queue, it is empty: what a
\* worker posted before onmessage was set is not left behind.
NothingLeftBehind ==
    onmessage /\ (\A t \in Thread : hpc[t] = "none") /\ ~broken => toMain = <<>>

\* Messages keep their order in both directions, and none comes twice.
QueuesInOrder == MailboxInOrder /\ OutboxInOrder

\* No message is overlooked by the thread it is for: not by a worker that waits,
\* nor by a queue that nobody handles.
NothingIsLost == NoWakeupLost /\ NothingLeftBehind

\* terminate() was called before the new thread set `running` to TRUE: the
\* worker does not see that it is to end.
TerminatedTooEarly == mpc = "join" /\ running

\* The script waits for the main thread, which waits for the script's thread.
JoinDeadlock == mpc = "join" /\ op = "call"

\* terminate() comes back, except in the two situations above: whatever else
\* the worker does when it is called, it is woken and it ends.
TerminateReturns ==
    (mpc = "join") ~> (mpc = "loop" \/ TerminatedTooEarly \/ JoinDeadlock \/ broken)

\* A message for a worker that keeps running is given to its script.
MessagesAreTaken ==
    (toWorker # <<>> /\ Alive) ~> (toWorker = <<>> \/ ~Alive \/ JoinDeadlock \/ broken)
=============================================================================
