-------------------------------- MODULE MCHost --------------------------------
(* Instances of Host for TLC.                                                   *)
EXTENDS Host, TLC

\* Two directories, one of which comes twice in the search path, and parts of one
\* digit or one letter.
MCParts == {<<1>>, <<2>>, <<49>>}
MCSearchPath == <<"home", "opt", "home">>

\* Two libraries and three scripts; one library brings the provider of the second
\* script, and that one the provider of the third.
MCSupports == "s1" :> "js" @@ "s2" :> "p" @@ "s3" :> "q"
MCBrings == "l" :> {"p"} @@ "m" :> {} @@ "s1" :> {} @@ "s2" :> {"q"} @@ "s3" :> {}
=============================================================================
