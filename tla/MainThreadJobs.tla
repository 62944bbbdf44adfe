--------------------------- MODULE MainThreadJobs ----------------------------
(***************************************************************************)
(* The host's queue of main-thread jobs: Host::RunOnMainThread and         *)
(* Host::RunMainThreadJobs (src/libtide/host.cpp), MainThreadJob           *)
(* (src/libtide/main_thread_job.cpp), and the three platforms' way of      *)
(* waking the main loop (src/libtide/{linux,osx,win32}).                   *)
(*                                                                         *)
(* Background threads queue methods for the main thread and may block on   *)
(* the job's semaphore.  The main thread takes the whole queue under the   *)
(* lock and runs it without the lock, so that a method it runs may itself  *)
(* call RunOnMainThread or, where the platform dispatches jobs inside a    *)
(* modal loop, RunMainThreadJobs again: the activations form a stack.      *)
(***************************************************************************)
EXTENDS Naturals, Sequences

CONSTANTS
    Background, \* the threads other than the main thread
    Job,        \* the MainThreadJob objects that may be allocated
    NoJob,      \* a local variable `job` that holds nothing yet
    Timer,      \* Linux: a 250 ms timer runs the jobs, signalling does nothing
    Nested,     \* win32, osx: a modal loop inside a job dispatches jobs too
    CanExit     \* whether the application's exit is exercised

ASSUME JobsAssumption ==
    /\ NoJob \notin Job
    /\ Timer \in BOOLEAN /\ Nested \in BOOLEAN /\ CanExit \in BOOLEAN

VARIABLES
    mainThreadJobs, \* Host::mainThreadJobs, the queue under jobQueueMutex
    obj,            \* obj[j]: "unused", "live" (after new) or "freed" (after delete)
    waits,          \* waits[j]: MainThreadJob::waitForCompletion
    outcome,        \* outcome[j]: returnValue or exception, once Execute has run
    sem,            \* sem[j]: MainThreadJob::semaphore
    answer,         \* answer[j]: what RunOnMainThread returned or threw for j
    frames,         \* the activations of RunMainThreadJobs / Execute on the main thread
    pc, job,        \* per background thread: where it is in RunOnMainThread
    tickles,        \* wake-up messages posted to the main loop, not yet handled
    exiting,        \* Host::exiting
    stopped,        \* the main loop has returned
    posted, started \* history: the order jobs were queued and begun in

callerVars == <<pc, job>>
loopVars == <<exiting, stopped>>
history == <<posted, started>>
vars == <<mainThreadJobs, obj, waits, outcome, sem, answer, frames, pc, job,
          tickles, exiting, stopped, posted, started>>

Outcome == {"value", "exception"}

(***************************************************************************)
(* One activation on the main thread: a batch taken by RunMainThreadJobs   *)
(* (the local vector `jobs`, the index i and the flag read before Execute) *)
(* or a single job that RunOnMainThread executes in place.                 *)
(***************************************************************************)
Frame == [kind : {"batch", "inplace"}, jobs : Seq(Job), i : Nat \ {0},
          at : {"next", "call", "after"}, asynchronous : BOOLEAN]

Top == frames[Len(frames)]
Current == Top.jobs[Top.i]
Push(f) == frames' = Append(frames, f)
SetTop(f) == frames' = [frames EXCEPT ![Len(frames)] = f]
Pop == frames' = SubSeq(frames, 1, Len(frames) - 1)
MainAt(kind, at) == frames # <<>> /\ Top.kind = kind /\ Top.at = at
InMethod == frames # <<>> /\ Top.at = "call"

\* Code of the application runs on the main thread: a handler of the main
\* loop, or the method of a job.
MainRunsCode == ~stopped /\ (frames = <<>> \/ InMethod)

Init ==
    /\ mainThreadJobs = <<>>
    /\ obj = [j \in Job |-> "unused"]
    /\ waits = [j \in Job |-> FALSE]
    /\ outcome = [j \in Job |-> "none"]
    /\ sem = [j \in Job |-> 0]
    /\ answer = [j \in Job |-> "none"]
    /\ frames = <<>>
    /\ pc = [t \in Background |-> "idle"]
    /\ job = [t \in Background |-> NoJob]
    /\ tickles = 0
    /\ exiting = FALSE
    /\ stopped = FALSE
    /\ posted = <<>>
    /\ started = <<>>

\* new MainThreadJob(method, thisObject, args, waitForCompletion)
NewMainThreadJob(j, wait) ==
    /\ obj[j] = "unused"
    /\ obj' = [obj EXCEPT ![j] = "live"]
    /\ waits' = [waits EXCEPT ![j] = wait]

\* Mutant: jobs are pushed at the wrong end of the queue.
PushFront(j) ==
    /\ mainThreadJobs' = <<j>> \o mainThreadJobs
    /\ posted' = Append(posted, j)

\* mainThreadJobs.push_back(job), under jobQueueMutex
PushBack(j) ==
    /\ mainThreadJobs' = Append(mainThreadJobs, j)
    /\ posted' = Append(posted, j)

SignalNewMainThreadJob == tickles' = IF Timer THEN tickles ELSE tickles + 1

-----------------------------------------------------------------------------
(* RunOnMainThread called by a background thread.                           *)

Enqueue(t, j) ==
    /\ pc[t] = "idle"
    /\ \E wait \in BOOLEAN : NewMainThreadJob(j, wait)
    /\ PushBack(j)
    /\ pc' = [pc EXCEPT ![t] = "signal"]
    /\ job' = [job EXCEPT ![t] = j]
    /\ UNCHANGED <<outcome, sem, answer, frames, tickles, loopVars, started>>

\* Mutant: an asynchronous caller returns before it has signalled.
SignalIfWaiting(t) ==
    /\ pc[t] = "signal"
    /\ tickles' = IF Timer \/ ~waits[job[t]] THEN tickles ELSE tickles + 1
    /\ pc' = [pc EXCEPT ![t] = IF waits[job[t]] THEN "wait" ELSE "idle"]
    /\ UNCHANGED <<job, mainThreadJobs, obj, waits, outcome, sem, answer, frames,
                   loopVars, history>>

\* An asynchronous caller returns Value::Undefined here and forgets the job:
\* only the local copy of waitForCompletion is read, for the job may be gone.
Signal(t) ==
    /\ pc[t] = "signal"
    /\ SignalNewMainThreadJob
    /\ pc' = [pc EXCEPT ![t] = IF waits[job[t]] THEN "wait" ELSE "idle"]
    /\ job' = IF waits[job[t]] THEN job ELSE [job EXCEPT ![t] = NoJob]
    /\ UNCHANGED <<mainThreadJobs, obj, waits, outcome, sem, answer, frames,
                   loopVars, history>>

\* What RunOnMainThread gives back: the result, or a throw when it is NULL.
ResultOf(j) == IF outcome[j] = "value" THEN "value" ELSE "exception"

\* Wait() returns, the result is copied and the job deleted by its caller.
Collect(t) ==
    /\ pc[t] = "wait"
    /\ sem[job[t]] > 0
    /\ sem' = [sem EXCEPT ![job[t]] = @ - 1]
    /\ answer' = [answer EXCEPT ![job[t]] = ResultOf(job[t])]
    /\ obj' = [obj EXCEPT ![job[t]] = "freed"]
    /\ pc' = [pc EXCEPT ![t] = "idle"]
    /\ job' = [job EXCEPT ![t] = NoJob]
    /\ UNCHANGED <<mainThreadJobs, waits, outcome, frames, tickles, loopVars,
                   history>>

-----------------------------------------------------------------------------
(* The main thread.                                                         *)

\* RunOnMainThread(.., true) called on the main thread: executed in place.
CallInPlace(j) ==
    /\ MainRunsCode
    /\ NewMainThreadJob(j, TRUE)
    /\ Push([kind |-> "inplace", jobs |-> <<j>>, i |-> 1, at |-> "call",
             asynchronous |-> FALSE])
    /\ UNCHANGED <<mainThreadJobs, outcome, sem, answer, callerVars, tickles,
                   loopVars, history>>

\* RunOnMainThread(.., false) called on the main thread: queued like any other.
MainEnqueue(j) ==
    /\ MainRunsCode
    /\ NewMainThreadJob(j, FALSE)
    /\ PushBack(j)
    /\ SignalNewMainThreadJob
    /\ UNCHANGED <<outcome, sem, answer, frames, callerVars, loopVars, started>>

\* Mutant: the queue is copied and not cleared.
RunWithoutClear ==
    /\ ~stopped
    /\ frames = <<>> \/ (Nested /\ InMethod)
    /\ Timer \/ tickles > 0
    /\ tickles' = IF Timer THEN tickles ELSE tickles - 1
    /\ Push([kind |-> "batch", jobs |-> mainThreadJobs, i |-> 1, at |-> "next",
             asynchronous |-> FALSE])
    /\ UNCHANGED <<mainThreadJobs, obj, waits, outcome, sem, answer, callerVars,
                   loopVars, history>>

\* The loop handles a wake-up (or the timer fires): swap the queue for an
\* empty one under the lock.
RunMainThreadJobs ==
    /\ ~stopped
    /\ frames = <<>> \/ (Nested /\ InMethod)
    /\ Timer \/ tickles > 0
    /\ tickles' = IF Timer THEN tickles ELSE tickles - 1
    /\ Push([kind |-> "batch", jobs |-> mainThreadJobs, i |-> 1, at |-> "next",
             asynchronous |-> FALSE])
    /\ mainThreadJobs' = <<>>
    /\ UNCHANGED <<obj, waits, outcome, sem, answer, callerVars, loopVars, history>>

\* asynchronous = !job->ShouldWaitForCompletion(), then Execute() enters the method.
ExecuteNext ==
    /\ MainAt("batch", "next")
    /\ Top.i <= Len(Top.jobs)
    /\ SetTop([Top EXCEPT !.at = "call", !.asynchronous = ~waits[Current]])
    /\ started' = Append(started, Current)
    /\ UNCHANGED <<mainThreadJobs, obj, waits, outcome, sem, answer, callerVars,
                   tickles, loopVars, posted>>

\* Mutant: the semaphore is set inside the try block, after the call only.
SetOnSuccess ==
    /\ InMethod
    /\ \E r \in Outcome :
          /\ outcome' = [outcome EXCEPT ![Current] = r]
          /\ sem' = IF waits[Current] /\ r = "value"
                    THEN [sem EXCEPT ![Current] = 1] ELSE sem
    /\ SetTop([Top EXCEPT !.at = "after"])
    /\ UNCHANGED <<mainThreadJobs, obj, waits, answer, callerVars, tickles,
                   loopVars, history>>

\* The method returns or throws; Execute keeps the outcome and, if somebody
\* waits, sets the semaphore.
MethodReturns ==
    /\ InMethod
    /\ \E r \in Outcome : outcome' = [outcome EXCEPT ![Current] = r]
    /\ sem' = IF waits[Current] THEN [sem EXCEPT ![Current] = 1] ELSE sem
    /\ SetTop([Top EXCEPT !.at = "after"])
    /\ UNCHANGED <<mainThreadJobs, obj, waits, answer, callerVars, tickles,
                   loopVars, history>>

\* Mutant: the main thread deletes every job it has executed.
DeleteAfterExecute ==
    /\ MainAt("batch", "after")
    /\ obj' = [obj EXCEPT ![Current] = "freed"]
    /\ SetTop([Top EXCEPT !.at = "next", !.i = @ + 1])
    /\ UNCHANGED <<mainThreadJobs, waits, outcome, sem, answer, callerVars, tickles,
                   loopVars, history>>

\* Asynchronous jobs are the main thread's to delete, the others their caller's.
AfterExecute ==
    /\ MainAt("batch", "after")
    /\ obj' = IF Top.asynchronous THEN [obj EXCEPT ![Current] = "freed"] ELSE obj
    /\ SetTop([Top EXCEPT !.at = "next", !.i = @ + 1])
    /\ UNCHANGED <<mainThreadJobs, waits, outcome, sem, answer, callerVars, tickles,
                   loopVars, history>>

BatchDone ==
    /\ MainAt("batch", "next")
    /\ Top.i > Len(Top.jobs)
    /\ Pop
    /\ UNCHANGED <<mainThreadJobs, obj, waits, outcome, sem, answer, callerVars,
                   tickles, loopVars, history>>

\* The rest of RunOnMainThread after executing in place: signal, Wait (which
\* falls through, Execute has set the semaphore), copy the result, delete.
InPlaceDone ==
    /\ MainAt("inplace", "after")
    /\ SignalNewMainThreadJob
    /\ sem[Current] > 0
    /\ sem' = [sem EXCEPT ![Current] = @ - 1]
    /\ answer' = [answer EXCEPT ![Current] = ResultOf(Current)]
    /\ obj' = [obj EXCEPT ![Current] = "freed"]
    /\ Pop
    /\ UNCHANGED <<mainThreadJobs, waits, outcome, callerVars, loopVars, history>>

\* Host::Exit, when no listener of EXIT or APP_EXIT cancels it.
Exit ==
    /\ CanExit
    /\ ~exiting
    /\ exiting' = TRUE
    /\ UNCHANGED <<mainThreadJobs, obj, waits, outcome, sem, answer, frames,
                   callerVars, tickles, stopped, history>>

\* RunLoop returns once exiting: jobs still queued are never run.
LoopEnds ==
    /\ exiting /\ ~stopped
    /\ frames = <<>>
    /\ stopped' = TRUE
    /\ UNCHANGED <<mainThreadJobs, obj, waits, outcome, sem, answer, frames,
                   callerVars, tickles, exiting, history>>

Caller(t) == (\E j \in Job : Enqueue(t, j)) \/ Signal(t) \/ Collect(t)

MainStep ==
    \/ RunMainThreadJobs \/ ExecuteNext \/ MethodReturns \/ AfterExecute
    \/ BatchDone \/ InPlaceDone \/ LoopEnds

Next ==
    \/ \E t \in Background : Caller(t)
    \/ \E j \in Job : CallInPlace(j) \/ MainEnqueue(j)
    \/ MainStep
    \/ Exit

Spec == Init /\ [][Next]_vars

(***************************************************************************)
(* A running thread goes on: a background thread signals and collects, the *)
(* main loop dispatches what woke it and methods come back.  Nobody is     *)
(* obliged to call RunOnMainThread or to exit.                             *)
(***************************************************************************)
Fairness ==
    /\ \A t \in Background : WF_vars(Signal(t)) /\ WF_vars(Collect(t))
    /\ WF_vars(MainStep)

FairSpec == Spec /\ Fairness

-----------------------------------------------------------------------------
(* Properties.                                                              *)

\* The index of an activation is in its batch, unless the loop is about to end.
IndexOK(f) ==
    /\ f.i <= Len(f.jobs) + 1
    /\ f.at # "next" => f.i <= Len(f.jobs)

\* Types of the variables; a thread inside RunOnMainThread holds a job.
TypeOK ==
    /\ mainThreadJobs \in Seq(Job)
    /\ obj \in [Job -> {"unused", "live", "freed"}]
    /\ waits \in [Job -> BOOLEAN]
    /\ outcome \in [Job -> Outcome \cup {"none"}]
    /\ sem \in [Job -> {0, 1}]
    /\ answer \in [Job -> Outcome \cup {"none"}]
    /\ frames \in Seq(Frame)
    /\ \A n \in 1..Len(frames) : IndexOK(frames[n])
    /\ pc \in [Background -> {"idle", "signal", "wait"}]
    /\ job \in [Background -> Job \cup {NoJob}]
    /\ \A t \in Background : pc[t] # "idle" => job[t] \in Job
    /\ tickles \in Nat
    /\ exiting \in BOOLEAN /\ stopped \in BOOLEAN
    /\ posted \in Seq(Job) /\ started \in Seq(Job)

\* Position k of activation f is still to be executed.
Pending(f, k) == k > f.i \/ (k = f.i /\ f.at \in {"next", "call"})

\* Position k of activation f will still be read by the main thread.
StillUsed(f, k) == Pending(f, k) \/ (k = f.i /\ (f.asynchronous \/ f.kind = "inplace"))

\* A job in the queue, one an activation has yet to execute or to delete, and
\* one whose caller waits is an object that has not been deleted: neither the
\* caller of a synchronous job nor the main loop deletes it too early
\* (host.cpp "Job might be freed soon after Execute()").
NoJobUsedAfterDelete ==
    /\ \A k \in 1..Len(mainThreadJobs) : obj[mainThreadJobs[k]] = "live"
    /\ \A n \in 1..Len(frames) : \A k \in 1..Len(frames[n].jobs) :
          StillUsed(frames[n], k) => obj[frames[n].jobs[k]] = "live"
    /\ \A t \in Background : pc[t] = "wait" => obj[job[t]] = "live"

\* A synchronous caller gets the outcome of its own method: it is never let
\* through by its semaphore before Execute has kept the outcome.
AnswerIsOutcome == \A j \in Job : answer[j] # "none" => answer[j] = outcome[j]

\* No method runs twice: not from two batches, not both in place and queued.
ExecutedOnce ==
    [][\A j \in Job : outcome[j] # "none" => outcome'[j] = outcome[j]]_vars

\* Whenever jobs are queued something is going to make the main loop look: the
\* timer, a posted wake-up, or a caller that has queued and not yet signalled.
\* Wake-ups taken by nested activations are never one too many.
NoLostWakeup ==
    mainThreadJobs # <<>> =>
        Timer \/ tickles > 0 \/ \E t \in Background : pc[t] = "signal"

\* Jobs are begun in the order they were queued, whoever queued them, when no
\* modal loop dispatches jobs from inside a job.
QueueOrder == ~Nested => SubSeq(posted, 1, Len(started)) = started

\* Every job is run, handed back to a caller that waits for it, and deleted,
\* unless the main loop ended: no caller stays blocked and none is leaked.
JobsFinish ==
    \A j \in Job : obj[j] = "live" ~> (obj[j] = "freed" \/ stopped)

\* The queue, the batches and the semaphores implement MainThreadCalls.
Abstraction == INSTANCE MainThreadCalls WITH
    call <- [j \in Job |->
                IF obj[j] = "unused" THEN "new"
                ELSE IF outcome[j] = "none" THEN "called"
                ELSE IF obj[j] = "live" THEN "ran" ELSE "over"],
    waiter <- waits,
    result <- outcome,
    reply <- answer

\* Every step of the host is a step of a call, or changes nothing a caller sees.
ImplementsCalls == Abstraction!Spec
=============================================================================
