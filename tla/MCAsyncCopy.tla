----------------------------- MODULE MCAsyncCopy -----------------------------
(* An instance of AsyncCopy for TLC.                                         *)
EXTENDS AsyncCopy
=============================================================================
