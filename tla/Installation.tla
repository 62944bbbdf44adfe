----------------------------- MODULE Installation ----------------------------
(***************************************************************************)
(* What one run of the installer promises to the boot loader that started  *)
(* it, whoever cancels and whatever fails: unzip is run on the packages in *)
(* the order of the job list; only when it was run on all of them does the *)
(* run succeed, and only then is the application marked as installed, or   *)
(* the update that was asked for removed.  It does not promise that unzip  *)
(* could unpack them; and when the run had to become root in a terminal,   *)
(* it says it has succeeded whatever it has done.                          *)
(***************************************************************************)
EXTENDS Naturals

VARIABLES
    total,    \* the packages to install: 1..total
    unpacked, \* unzip was run on 1..unpacked
    result,   \* "running", "success" or "stopped"
    terminal, \* it may have to become root in a terminal
    marker,   \* the file .installed exists
    update    \* the file .update exists

vars == <<total, unpacked, result, terminal, marker, update>>

Unpack ==
    /\ result = "running"
    /\ unpacked < total
    /\ unpacked' = unpacked + 1
    /\ UNCHANGED <<total, result, marker, update>>

Succeed ==
    /\ result = "running"
    /\ unpacked = total \/ terminal
    /\ result' = "success"
    /\ UNCHANGED <<total, unpacked, marker, update>>

Stop ==
    /\ result = "running"
    /\ result' = "stopped"
    /\ UNCHANGED <<total, unpacked, marker, update>>

\* The end of a successful run; the process may end before it has done both.
Settle ==
    /\ result = "success"
    /\ marker' \in {marker, TRUE}
    /\ update' \in {update, FALSE}
    /\ UNCHANGED <<total, unpacked, result>>

Next == (Unpack \/ Succeed \/ Stop \/ Settle) /\ UNCHANGED terminal

Begin(packages) == total = packages /\ unpacked = 0 /\ result = "running"

Spec == (total \in Nat /\ Begin(total)) /\ [][Next]_vars
=============================================================================
