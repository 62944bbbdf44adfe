---------------------------- MODULE HTTPRequest ----------------------------
(***************************************************************************)
(* What an application is promised of the requests it sends with one       *)
(* HTTPClient: a request that was sent either shows the states             *)
(* HEADERS_RECEIVED and LOADING, in this order, or fails; both end in DONE, *)
(* which is shown once.  Only a handler of the application that throws     *)
(* ends a request without DONE.                                            *)
(***************************************************************************)

CONSTANT Request

VARIABLES phase, readyState

UNSENT == 0
OPENED == 1
HEADERS_RECEIVED == 2
LOADING == 3
DONE == 4

vars == <<phase, readyState>>

Init == phase = [r \in Request |-> "unsent"] /\ readyState = UNSENT

\* A request goes from one phase to the next; the client shows a state or
\* keeps the one it has.
Goes(r, from, to) == phase[r] \in from /\ phase' = [phase EXCEPT ![r] = to]

Open == readyState' = OPENED /\ UNCHANGED phase
Send(r) == Goes(r, {"unsent"}, "sent") /\ UNCHANGED readyState
Answered(r) == Goes(r, {"sent"}, "headers") /\ readyState' = HEADERS_RECEIVED
Loaded(r) == Goes(r, {"headers"}, "loaded") /\ readyState' = LOADING
Fails(r) == Goes(r, {"sent"}, "failed") /\ UNCHANGED readyState
Done(r) == Goes(r, {"loaded", "failed"}, "done") /\ readyState' = DONE
Breaks(r) == Goes(r, {"sent", "headers", "loaded"}, "broken") /\ UNCHANGED readyState

Next ==
    \/ Open
    \/ \E r \in Request :
          \/ Send(r) \/ Answered(r) \/ Loaded(r) \/ Fails(r) \/ Done(r) \/ Breaks(r)

Spec == Init /\ [][Next]_vars
=============================================================================
