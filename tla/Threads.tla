------------------------------- MODULE Threads -------------------------------
(* Worker and AsyncCopy side by side: each gives the application an object   *)
(* with a thread of its own.  They share nothing: in a behaviour one of      *)
(* them, `part`, is at work and the other rests.                             *)
EXTENDS Worker

CONSTANTS Copy, MaxFiles  \* of AsyncCopy

VARIABLES
    part,
    \* AsyncCopy
    thread, files, copyRuns, stopped, asyncOperations, held, freed, interval, call,
    answer, cancelAt, late

copyVars ==
    <<thread, files, copyRuns, stopped, asyncOperations, held, freed, interval, call,
      answer, cancelAt, late>>

Copies == INSTANCE AsyncCopy WITH running <- copyRuns

ASSUME ThreadsAssumption == Copies!CopyAssumption

ThreadsInit ==
    /\ part \in {"worker", "copy"}
    /\ Init /\ Copies!Init

ThreadsNext ==
    \/ part = "worker" /\ Next /\ UNCHANGED <<part, copyVars>>
    \/ part = "copy" /\ Copies!Next /\ UNCHANGED <<part, vars>>

\* Fairness asks nothing of the one that rests: no fair step of its is enabled.
ThreadsSpec ==
    /\ ThreadsInit /\ [][ThreadsNext]_<<part, vars, copyVars>>
    /\ Fairness /\ Copies!Fairness

\* The properties of copies, and the types they rest on; see their module.
CancelStops == Copies!CancelStops
KeptWhileRunning == Copies!TypeOK /\ Copies!KeptWhileRunning
CopiesAreDeleted == Copies!CopiesAreDeleted
=============================================================================
