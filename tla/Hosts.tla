------------------------------- MODULE Hosts --------------------------------
(***************************************************************************)
(* How a device comes to run a box: pairing and the event stream of one    *)
(* relay process over the same boxes and devices.                          *)
(***************************************************************************)
EXTENDS Pairing, BoxEvents

vars == <<boxVars, pairVars, eventVars>>

TypeOK == BoxTableOK /\ PairingOK /\ EventsOK

Init == BoxTableInit /\ PairingInit /\ EventsInit

(* The process stops and comes back. *)
Restart ==
  /\ PairingRestart /\ EventsRestart
  /\ UNCHANGED boxVars

Next ==
  \/ BoxTableNext /\ UNCHANGED <<pairVars, eventVars>>
  \/ PairingNext /\ UNCHANGED <<boxVars, eventVars>>
  \/ EventsNext /\ UNCHANGED pairVars
  \/ Restart

Spec == Init /\ [][Next]_vars

=============================================================================
