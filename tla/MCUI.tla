--------------------------------- MODULE MCUI ---------------------------------
(* Instances of UI for TLC: the main window has the children a and b, and a has *)
(* the child c.  One window has a size.                                         *)
EXTENDS UI, TLC

CONSTANTS a, b, c

MCParent == Main :> None @@ a :> Main @@ b :> Main @@ c :> a

\* Listeners are alike, and so are the calls of FireEvent.
Symmetric == Permutations(Listener) \cup Permutations(Fire)
=============================================================================
