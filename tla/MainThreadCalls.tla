--------------------------- MODULE MainThreadCalls ---------------------------
(***************************************************************************)
(* What Host::RunOnMainThread promises, without queues, batches or         *)
(* semaphores: a method handed to the host is run at most once, on the     *)
(* main thread; its outcome never changes afterwards; and a caller that    *)
(* asked to wait gets exactly that outcome, after the method has run.      *)
(***************************************************************************)
CONSTANT Job        \* the MainThreadJob objects

VARIABLES
    call,       \* call[j]: "new", "called", "ran" or "over" (the object is gone)
    waiter,     \* waiter[j]: the caller of j asked to wait for completion
    result,     \* result[j]: what the method of j produced
    reply       \* reply[j]: what RunOnMainThread gave to the waiting caller

vars == <<call, waiter, result, reply>>

Outcome == {"value", "exception"}

Init ==
    /\ call = [j \in Job |-> "new"]
    /\ waiter = [j \in Job |-> FALSE]
    /\ result = [j \in Job |-> "none"]
    /\ reply = [j \in Job |-> "none"]

Call(j) ==
    /\ call[j] = "new"
    /\ call' = [call EXCEPT ![j] = "called"]
    /\ \E w \in BOOLEAN : waiter' = [waiter EXCEPT ![j] = w]
    /\ UNCHANGED <<result, reply>>

Run(j) ==
    /\ call[j] = "called"
    /\ call' = [call EXCEPT ![j] = "ran"]
    /\ \E r \in Outcome : result' = [result EXCEPT ![j] = r]
    /\ UNCHANGED <<waiter, reply>>

\* The waiting caller gets the outcome, or nobody waits and the job is dropped.
Finish(j) ==
    /\ call[j] = "ran"
    /\ call' = [call EXCEPT ![j] = "over"]
    /\ reply' = IF waiter[j] THEN [reply EXCEPT ![j] = result[j]] ELSE reply
    /\ UNCHANGED <<waiter, result>>

Next == \E j \in Job : Call(j) \/ Run(j) \/ Finish(j)

Spec == Init /\ [][Next]_vars
=============================================================================
