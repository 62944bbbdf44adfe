-------------------------- MODULE MCMainThreadJobs ---------------------------
(* Instances of MainThreadJobs for TLC.                                     *)
EXTENDS MainThreadJobs, TLC

\* Threads are alike, and so are job objects: every property quantifies over them.
Symmetric == Permutations(Background) \cup Permutations(Job)
=============================================================================
