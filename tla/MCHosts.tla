------------------------------ MODULE MCHosts -------------------------------
(***************************************************************************)
(* An instance of Hosts for TLC.  Pairing and the event stream meet only   *)
(* in boxes and device: no action of one reads a variable that only the    *)
(* other writes.  The product of the two is too large, so a behaviour      *)
(* explores one of them, chosen at the start, with the other at rest; the  *)
(* restarts and the shared tables are in both.                             *)
(***************************************************************************)
EXTENDS Hosts, TLC

CONSTANTS alice, d1, b1

MCBoxOwner == [b \in Boxes |-> alice]
MCVersionBox == [v \in Versions |-> b1]
MCShown == [d \in Devices |-> b1]
Symmetry ==
  Permutations(Versions) \cup Permutations(Streams) \cup Permutations(Refreshes)

VARIABLE focus

MCInit == Init /\ focus \in {"pairing", "events"}

(* With the event stream, d1 is alice's only device.  The other one is     *)
(* there for its stream: when d1 registers, it is on its first one and     *)
(* stays there, or it never registers.                                     *)
OneEach ==
  /\ device[d1] = None
  /\ \/ /\ Register(d1, alice)
        /\ \A d \in Devices, r \in Refreshes : device[d] # None =>
             host[d].stream # None /\ host[d].first /\ refresh[d][r] = Idle
     \/ \E d \in Devices \ {d1}, u \in Users \ {alice} : Register(d, u)

Followed(d) == d # d1 /\ device[d1] # None => UNCHANGED <<host[d].stream, refresh[d]>>

MCNext ==
  /\ UNCHANGED focus
  /\ \/ /\ focus = "pairing"
        /\ \/ BoxTableNext /\ UNCHANGED <<pairVars, eventVars>>
           \/ PairingNext /\ UNCHANGED <<boxVars, eventVars>>
           \/ PairingRestart /\ UNCHANGED <<boxVars, eventVars>>
     \/ /\ focus = "events"
        /\ \/ OneEach /\ UNCHANGED <<pairVars, eventVars>>
           \/ EventsNext /\ (\A d \in Devices : Followed(d)) /\ UNCHANGED pairVars
           \/ EventsRestart /\ UNCHANGED <<boxVars, pairVars>>

MCSpec == MCInit /\ [][MCNext]_<<vars, focus>>

=============================================================================
