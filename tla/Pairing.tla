------------------------------ MODULE Pairing -------------------------------
(***************************************************************************)
(* Pairing codes: pairing.Service (internal/pairing/pairing.go) over       *)
(* Redis, and the two handlers of internal/handler/pairing.go.  A provider *)
(* mints a short code for a box; a connector, of any account, redeems it   *)
(* for a namespace token.  SET NX and GETDEL are one atomic step each; the *)
(* lookups around them are steps of their own, and the box can be archived *)
(* or the code can expire in between.                                      *)
(***************************************************************************)
EXTENDS BoxTable

CONSTANTS
  Codes,        \* short codes newCode can draw
  MaxOffers     \* bound: successful calls of Issue

ASSUME PairingAssumption == MaxOffers \in Nat

VARIABLES
  codes,     \* Redis: the grant under each code, NoGrant when there is none
  issuing,   \* per device, the box of the Issue in progress, None otherwise
  claiming,  \* per device, the grant its claim took out of Redis
  offered,   \* grants stored so far
  takenBy,   \* the device whose claim got the n-th grant, None so far
  tokens     \* namespace tokens issued

pairVars == <<codes, issuing, claiming, offered, takenBy, tokens>>

-----------------------------------------------------------------------------
Offers == 1 .. MaxOffers
NoGrant == [box |-> None, ns |-> None, n |-> 0]
Grants == [box : Boxes, ns : Users, n : Offers]

PairingOK ==
  /\ codes \in [Codes -> Grants \cup {NoGrant}]
  /\ issuing \in [Devices -> Boxes \cup {None}]
  /\ claiming \in [Devices -> Grants \cup {NoGrant}]
  /\ offered \in 0 .. MaxOffers
  /\ takenBy \in [Offers -> Devices \cup {None}]
  /\ tokens \subseteq [box : Boxes, ns : Users, device : Devices, n : Offers]

PairingInit ==
  /\ codes = [c \in Codes |-> NoGrant]
  /\ issuing = [d \in Devices |-> None]
  /\ claiming = [d \in Devices |-> NoGrant]
  /\ offered = 0
  /\ takenBy = [n \in Offers |-> None]
  /\ tokens = {}

-----------------------------------------------------------------------------
(* POST /pair *)

(* The caller owns the box, and it is not archived now. *)
pairIssue(d, b) ==
  /\ requireDevice(d) /\ issuing[d] = None
  /\ BoxIn(device[d], b) /\ boxes[b].state # "archived"
  /\ issuing' = [issuing EXCEPT ![d] = b]
  /\ UNCHANGED <<codes, claiming, offered, takenBy, tokens>>

(* SET NX succeeds on a free code only. *)
SetNX(c) == codes[c] = NoGrant

Issue(d, c) ==
  /\ issuing[d] # None /\ offered < MaxOffers
  /\ SetNX(c)
  /\ codes' = [codes EXCEPT ![c] =
       [box |-> issuing[d], ns |-> BoxOwner[issuing[d]], n |-> offered + 1]]
  /\ offered' = offered + 1
  /\ issuing' = [issuing EXCEPT ![d] = None]
  /\ UNCHANGED <<claiming, takenBy, tokens>>

(* All five draws of newCode hit codes in use, or Redis fails. *)
IssueFails(d) ==
  /\ issuing[d] # None
  /\ issuing' = [issuing EXCEPT ![d] = None]
  /\ UNCHANGED <<codes, claiming, offered, takenBy, tokens>>

(* The TTL, at most MaxTTL, runs out in Redis. *)
Expire(c) ==
  /\ codes[c] # NoGrant
  /\ codes' = [codes EXCEPT ![c] = NoGrant]
  /\ UNCHANGED <<issuing, claiming, offered, takenBy, tokens>>

-----------------------------------------------------------------------------
(* POST /pair/:code/claim *)

GetThenLeave(c) == UNCHANGED codes

(* GETDEL *)
GetDel(c) == codes' = [codes EXCEPT ![c] = NoGrant]

Claim(d, c) ==
  /\ requireDevice(d) /\ claiming[d] = NoGrant
  /\ codes[c] # NoGrant     \* otherwise 404
  /\ GetDel(c)
  /\ claiming' = [claiming EXCEPT ![d] = codes[c]]
  /\ takenBy' = [takenBy EXCEPT ![codes[c].n] = d]
  /\ UNCHANGED <<issuing, offered, tokens>>

(* The token carries the claimer's own account instead of the grant's. *)
IssueForClaimer(d) ==
  [box |-> claiming[d].box, ns |-> device[d], device |-> d, n |-> claiming[d].n]

IssueNamespace(d) ==
  [box |-> claiming[d].box, ns |-> claiming[d].ns, device |-> d, n |-> claiming[d].n]

(* The box is looked up in the grant's namespace; its state is not read.   *)
(* An error there, or a client that has left, loses the code.              *)
pairClaim(d) ==
  /\ claiming[d] # NoGrant
  /\ \/ /\ BoxIn(claiming[d].ns, claiming[d].box)
        /\ tokens' = tokens \cup {IssueNamespace(d)}
     \/ UNCHANGED tokens
  /\ claiming' = [claiming EXCEPT ![d] = NoGrant]
  /\ UNCHANGED <<codes, issuing, offered, takenBy>>

(* The process stops: requests are lost, Redis is not. *)
PairingRestart ==
  /\ issuing' = [d \in Devices |-> None]
  /\ claiming' = [d \in Devices |-> NoGrant]
  /\ UNCHANGED <<codes, offered, takenBy, tokens>>

PairingNext ==
  \/ \E d \in Devices, b \in Boxes : pairIssue(d, b)
  \/ \E d \in Devices, c \in Codes : Issue(d, c) \/ Claim(d, c)
  \/ \E d \in Devices : pairClaim(d) \/ IssueFails(d)
  \/ \E c \in Codes : Expire(c)

-----------------------------------------------------------------------------
(* Properties *)

(* Refinement: the n-th stored grant is the n-th offer of OneShot.  It     *)
(* belongs to the device whose claim read it; before, it is open while     *)
(* Redis holds it, and has lapsed when Redis does not.                     *)
offerStatus == [n \in Offers |->
  CASE takenBy[n] # None -> takenBy[n]
    [] takenBy[n] = None /\ (\E c \in Codes : codes[c].n = n) -> "open"
    [] takenBy[n] = None /\ ~(\E c \in Codes : codes[c].n = n) ->
         IF n <= offered THEN "lapsed" ELSE "none"]

Promise == INSTANCE OneShot WITH Takers <- Devices, offer <- offerStatus

(* One-shot codes: whatever claims, expiries, repeated codes, failures and *)
(* restarts interleave, a grant is redeemed by one device at most and a    *)
(* grant that is gone never comes back (Claim, Issue).                     *)
CodesAreOneShot == Promise!OneShotSpec

(* A namespace token opens the namespace of the box's owner, to the device *)
(* that redeemed the code, and there is one per code (pairClaim).          *)
TokensAreScoped ==
  /\ \A t \in tokens : t.ns = BoxOwner[t.box] /\ takenBy[t.n] = t.device
  /\ \A t1, t2 \in tokens : t1.n = t2.n => t1 = t2

=============================================================================
