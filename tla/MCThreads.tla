------------------------------ MODULE MCThreads ------------------------------
(* Instances of Threads for TLC; the constants are all in the .cfg file.     *)
EXTENDS Threads
=============================================================================
