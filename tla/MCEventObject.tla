---------------------------- MODULE MCEventObject ----------------------------
(* Instances of EventObject for TLC.                                        *)
EXTENDS EventObject, TLC

\* Listeners are alike, and so are the calls of FireEvent.
Symmetric == Permutations(Listener) \cup Permutations(Fire)
=============================================================================
