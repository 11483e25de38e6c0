------------------------------ MODULE BoxTable ------------------------------
(***************************************************************************)
(* What pairing and the event stream share: the rows of app_boxes          *)
(* (internal/store/boxes.go, without what BoxPublish says about them), the *)
(* devices table (internal/store/devices.go) and the device token that     *)
(* every endpoint of both asks for (internal/auth, internal/handler/box.go).*)
(***************************************************************************)
EXTENDS Integers

CONSTANTS
  Users,
  Devices,
  Boxes,
  BoxOwner,     \* the namespace a box was created in
  Versions,     \* bundle versions; each is the result of one publish
  VersionBox,   \* the box a version was built for
  None

ASSUME BoxTableAssumption ==
  /\ BoxOwner \in [Boxes -> Users]
  /\ VersionBox \in [Versions -> Boxes]
  /\ None \notin Users \cup Devices \cup Versions

VARIABLES
  boxes,    \* app_boxes: state and current_version
  device    \* devices: the user of a registered device, None before

boxVars == <<boxes, device>>

BoxTableOK ==
  /\ boxes \in [Boxes -> [state : {"published", "archived"}, current : Versions \cup {None}]]
  /\ device \in [Devices -> Users \cup {None}]

BoxTableInit ==
  /\ boxes = [b \in Boxes |-> [state |-> "published", current |-> None]]
  /\ device = [d \in Devices |-> None]

(* Service.Get finds a box under its own namespace only. *)
BoxIn(ns, b) == BoxOwner[b] = ns

(* A device token names the user the device was registered for; nothing    *)
(* revokes it, and the pair is never rewritten.                            *)
requireDevice(d) == device[d] # None

Register(d, u) ==
  /\ device[d] = None     \* no-op for the same user, a conflict for another
  /\ device' = [device EXCEPT ![d] = u]
  /\ UNCHANGED boxes

Archive(b) ==
  /\ boxes[b].state # "archived"
  /\ boxes' = [boxes EXCEPT ![b].state = "archived"]
  /\ UNCHANGED device

BoxTableNext ==
  \/ \E d \in Devices, u \in Users : Register(d, u)
  \/ \E b \in Boxes : Archive(b)

=============================================================================
