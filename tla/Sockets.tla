------------------------------- MODULE Sockets -------------------------------
(* TCPSocket and TCPServer side by side.  They share nothing: in a behaviour *)
(* one of them, `part`, is at work and the other rests.                      *)
EXTENDS TCPSocket

CONSTANTS Connection, MaxServed, MaxReads, Size  \* of TCPServer

VARIABLES
    part,
    \* TCPServer
    listening, stop, rpc, current, server, closeHeard,
    status, closed, sendData, offset, installed, handler, written, served, dead,
    received, readStarted, reads

serverVars ==
    <<listening, stop, rpc, current, server, closeHeard,
      status, closed, sendData, offset, installed, handler, written, served, dead,
      received, readStarted, reads>>

Server == INSTANCE TCPServer WITH MaxWrites <- MaxServed, wire <- served

ASSUME SocketsAssumption == Server!ServerAssumption

SocketsInit ==
    /\ part \in {"socket", "server"}
    /\ Init /\ Server!Init

SocketsNext ==
    \/ part = "socket" /\ Next /\ UNCHANGED <<part, serverVars>>
    \/ part = "server" /\ Server!Next /\ UNCHANGED <<part, vars>>

\* Fairness asks nothing of the one that rests: no fair step of its is enabled.
SocketsSpec ==
    /\ SocketsInit /\ [][SocketsNext]_<<part, vars, serverVars>>
    /\ Fairness /\ Server!Fairness

\* The properties of the server, and the types they rest on; see its module.
ServedInOrder == Server!ServedInOrder
HandlersAreSound == Server!TypeOK /\ Server!HandlersAreSound
ServerGoesOn == Server!ServerGoesOn
=============================================================================
