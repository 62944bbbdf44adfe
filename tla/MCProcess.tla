------------------------------ MODULE MCProcess ------------------------------
(* Instances of Process for TLC; the constants are all in the .cfg files.   *)
EXTENDS Process
=============================================================================
