---------------------------- MODULE MCHTTPClient ----------------------------
(* Instances of HTTPClient for TLC.                                         *)
EXTENDS HTTPClient
=============================================================================
