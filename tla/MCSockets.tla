------------------------------ MODULE MCSockets ------------------------------
(* Instances of Sockets for TLC: of two connections one is written to twice, *)
(* the other is written to and read from.                                    *)
EXTENDS Sockets, TLC

CONSTANTS c1, c2

MCServed == c1 :> 2 @@ c2 :> 1
MCReads == c1 :> 0 @@ c2 :> 1
=============================================================================
