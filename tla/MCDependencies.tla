---------------------------- MODULE MCDependencies ---------------------------
(* Two directories, one of which comes twice in the search path, and the  *)
(* parts are 9 and 10.                                                       *)
EXTENDS Dependencies

MCSearchPath == <<"home", "opt", "home">>
TwoDigits == {<<9>>, <<1, 0>>}
=============================================================================
