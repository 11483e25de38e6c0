------------------------------ MODULE OneShot -------------------------------
(***************************************************************************)
(* What a pairing code promises (pairing.Claim: "a code can be redeemed    *)
(* exactly once"): an offer is open until one device takes it or it        *)
(* lapses, and what happened to it never changes afterwards.               *)
(***************************************************************************)
CONSTANTS Offers, Takers

VARIABLE offer      \* "none", "open", "lapsed", or the device that took it

OneShotInit == offer = [o \in Offers |-> "none"]

Make(o) == offer[o] = "none" /\ offer' = [offer EXCEPT ![o] = "open"]
Take(o, d) == offer[o] = "open" /\ offer' = [offer EXCEPT ![o] = d]
Lapse(o) == offer[o] = "open" /\ offer' = [offer EXCEPT ![o] = "lapsed"]

OneShotNext ==
  \E o \in Offers : Make(o) \/ Lapse(o) \/ \E d \in Takers : Take(o, d)

OneShotSpec == OneShotInit /\ [][OneShotNext]_offer

=============================================================================
