---------------------------- MODULE HostsProofs -----------------------------
(***************************************************************************)
(* Proofs about Hosts: pairing codes and tokens, and the event stream, for *)
(* any number of users, devices, boxes, versions, codes and requests.      *)
(***************************************************************************)
EXTENDS Hosts, TLAPS

-----------------------------------------------------------------------------
(* Pairing *)

\* A grant's number identifies it.  A stored grant has been offered, has not
\* been taken and names the owner of its box.
CodesInv ==
  /\ \A c \in Codes : codes[c] # NoGrant =>
       /\ codes[c].n <= offered
       /\ takenBy[codes[c].n] = None
       /\ codes[c].ns = BoxOwner[codes[c].box]
  /\ \A c, k \in Codes : codes[c] # NoGrant /\ codes[c].n = codes[k].n => c = k
  /\ \A n \in Offers : n > offered => takenBy[n] = None

\* A claim under way holds a grant that is its own and for which no token has
\* been signed yet.
ClaimsInv ==
  /\ \A d \in Devices : claiming[d] # NoGrant =>
       /\ takenBy[claiming[d].n] = d
       /\ claiming[d].ns = BoxOwner[claiming[d].box]
  /\ \A d \in Devices, t \in tokens : claiming[d] # NoGrant => t.n # claiming[d].n

PairInv == CodesInv /\ ClaimsInv /\ TokensAreScoped

\* Types and invariant at start-up: Redis is empty, nobody claims.
LEMMA PairingStart == PairingInit => PairingOK /\ PairInv
<1> USE PairingAssumption
<1>1. PairingInit => PairingOK
  BY DEF PairingInit, PairingOK, Offers
<1>2. PairingInit => PairInv
  BY DEF PairingInit, PairInv, CodesInv, ClaimsInv, TokensAreScoped, Offers, NoGrant
<1>3. QED
  BY <1>1, <1>2

\* NoGrant is not a grant: offers are numbered from 1.
LEMMA GrantFields ==
  /\ NoGrant \notin Grants /\ NoGrant.n = 0 /\ 0 \notin Offers
  /\ \A g \in Grants : g.box \in Boxes /\ g.ns \in Users /\ g.n \in Offers /\ g.n # 0
  BY PairingAssumption DEF NoGrant, Grants, Offers

\* Every step of the two handlers, and every expiry, keeps the pairing state
\* typed.
LEMMA PairingTypeStep ==
  ASSUME BoxTableOK, PairingOK, PairingNext
  PROVE  PairingOK'
<1> USE BoxTableAssumption, PairingAssumption, GrantFields
<1>1. ASSUME NEW d \in Devices, NEW b \in Boxes, pairIssue(d, b)
      PROVE  PairingOK'
  BY <1>1 DEF PairingOK, pairIssue
<1>2. ASSUME NEW d \in Devices, NEW c \in Codes, Issue(d, c)
      PROVE  PairingOK'
  <2> DEFINE g == [box |-> issuing[d], ns |-> BoxOwner[issuing[d]], n |-> offered + 1]
  <2>1. g \in Grants /\ offered + 1 \in Offers
    BY <1>2 DEF PairingOK, Issue, Grants, Offers
  <2>2. codes' = [codes EXCEPT ![c] = g]
    BY <1>2 DEF Issue
  <2> HIDE DEF g
  <2>3. QED
    BY <1>2, <2>1, <2>2 DEF PairingOK, Issue, Offers
<1>3. ASSUME NEW d \in Devices, NEW c \in Codes, Claim(d, c)
      PROVE  PairingOK'
  BY <1>3 DEF PairingOK, Claim, GetDel
<1>4. ASSUME NEW d \in Devices, pairClaim(d)
      PROVE  PairingOK'
  <2>1. claiming[d] \in Grants
    BY <1>4 DEF PairingOK, pairClaim
  <2>2. IssueNamespace(d) \in [box : Boxes, ns : Users, device : Devices, n : Offers]
    BY <2>1 DEF IssueNamespace
  <2>3. QED
    BY <1>4, <2>2 DEF PairingOK, pairClaim
<1>5. ASSUME NEW d \in Devices, IssueFails(d)
      PROVE  PairingOK'
  BY <1>5 DEF PairingOK, IssueFails
<1>6. ASSUME NEW c \in Codes, Expire(c)
      PROVE  PairingOK'
  BY <1>6 DEF PairingOK, Expire
<1>7. QED
  BY <1>1, <1>2, <1>3, <1>4, <1>5, <1>6 DEF PairingNext

\* The same steps keep the invariant: a code is issued under a new number and
\* taken out of Redis by the claim that gets it.
LEMMA PairInvStep ==
  ASSUME BoxTableOK, PairingOK, PairInv, PairingNext
  PROVE  PairInv'
<1> USE BoxTableAssumption, PairingAssumption, GrantFields DEF PairInv
<1>1. ASSUME NEW d \in Devices, NEW b \in Boxes, pairIssue(d, b)
      PROVE  PairInv'
  BY <1>1 DEF PairingOK, pairIssue, CodesInv, ClaimsInv, TokensAreScoped
<1>2. ASSUME NEW d \in Devices, NEW c \in Codes, Issue(d, c)
      PROVE  PairInv'
  <2> DEFINE g == [box |-> issuing[d], ns |-> BoxOwner[issuing[d]], n |-> offered + 1]
  <2>1. codes' = [codes EXCEPT ![c] = g] /\ offered' = offered + 1 /\ offered \in Nat
    BY <1>2 DEF PairingOK, Issue
  <2>2. g.n = offered + 1 /\ g.ns = BoxOwner[g.box] /\ offered + 1 \in Offers
    BY <1>2 DEF PairingOK, Issue, Offers
  <2> HIDE DEF g
  <2>3. CodesInv'
    BY <1>2, <2>1, <2>2 DEF PairingOK, CodesInv, Issue, SetNX, Offers
  <2>4. ClaimsInv' /\ TokensAreScoped'
    BY <1>2 DEF Issue, ClaimsInv, TokensAreScoped
  <2>5. QED
    BY <2>3, <2>4
<1>3. ASSUME NEW d \in Devices, NEW c \in Codes, Claim(d, c)
      PROVE  PairInv'
  <2> DEFINE g == codes[c]
  <2>1. g \in Grants /\ takenBy[g.n] = None /\ g.n <= offered
    BY <1>3 DEF PairingOK, Claim, CodesInv
  <2>2. CodesInv'
    <3>1. \A k \in Codes : codes'[k] = IF k = c THEN NoGrant ELSE codes[k]
      BY <1>3 DEF PairingOK, Claim, GetDel
    <3>2. \A n \in Offers : takenBy'[n] = IF n = g.n THEN d ELSE takenBy[n]
      BY <1>3, <2>1 DEF PairingOK, Claim
    <3>3. \A k \in Codes : k # c /\ codes[k] # NoGrant => codes[k] \in Grants /\ codes[k].n # g.n
      BY <2>1 DEF PairingOK, CodesInv
    <3>4. offered' = offered /\ offered \in Nat /\ g.n \in Nat
      BY <1>3, <2>1 DEF PairingOK, Claim, Offers
    <3> HIDE DEF g
    <3>5. QED
      BY <2>1, <3>1, <3>2, <3>3, <3>4 DEF CodesInv, Offers
  <2>3. \A t \in tokens : t.n # g.n
    BY <2>1 DEF PairingOK, TokensAreScoped
  <2>4. ClaimsInv'
    BY <1>3, <2>1, <2>3 DEF PairingOK, ClaimsInv, CodesInv, Claim
  <2>5. TokensAreScoped'
    BY <1>3, <2>3 DEF PairingOK, TokensAreScoped, Claim
  <2>6. QED
    BY <2>2, <2>4, <2>5
<1>4. ASSUME NEW d \in Devices, pairClaim(d)
      PROVE  PairInv'
  <2>1. CodesInv'
    BY <1>4 DEF pairClaim, CodesInv
  <2>2. claiming[d] \in Grants
    BY <1>4 DEF PairingOK, pairClaim
  <2>3. ClaimsInv'
    BY <1>4, <2>2 DEF PairingOK, ClaimsInv, pairClaim, IssueNamespace
  <2>4. TokensAreScoped'
    BY <1>4, <2>2 DEF PairingOK, ClaimsInv, TokensAreScoped, pairClaim, IssueNamespace
  <2>5. QED
    BY <2>1, <2>3, <2>4
<1>5. ASSUME NEW d \in Devices, IssueFails(d)
      PROVE  PairInv'
  BY <1>5 DEF IssueFails, CodesInv, ClaimsInv, TokensAreScoped
<1>6. ASSUME NEW c \in Codes, Expire(c)
      PROVE  PairInv'
  BY <1>6 DEF PairingOK, Expire, CodesInv, ClaimsInv, TokensAreScoped
<1>7. QED
  BY <1>1, <1>2, <1>3, <1>4, <1>5, <1>6 DEF PairingNext

-----------------------------------------------------------------------------
(* Pairing implements OneShot *)

\* The refinement mapping, an offer at a time.
Status(n, taken, stored, last) ==
  IF taken # None THEN taken
  ELSE IF stored THEN "open"
  ELSE IF n <= last THEN "lapsed" ELSE "none"

Stored(cs, n) == \E c \in Codes : cs[c].n = n

\* The mapping of Pairing is Status of what the table says of each offer.
LEMMA StatusOf ==
  offerStatus = [n \in Offers |-> Status(n, takenBy[n], Stored(codes, n), offered)]
  BY DEF offerStatus, Status, Stored

\* The same after a step.
LEMMA StatusOfNext ==
  offerStatus' = [n \in Offers |-> Status(n, takenBy'[n], Stored(codes', n), offered')]
  BY DEF offerStatus, Status, Stored

\* A step that leaves the grants in Redis, their number and their takers alone
\* leaves every offer as it was.
LEMMA SameOffers ==
  ASSUME UNCHANGED <<codes, takenBy, offered>>
  PROVE  UNCHANGED offerStatus
  BY DEF offerStatus

\* A step that gives one offer a new status, and no other, is the assignment of
\* OneShot.
LEMMA OneOffer ==
  ASSUME NEW o \in Offers, NEW st, offerStatus'[o] = st,
         \A n \in Offers \ {o} : offerStatus'[n] = offerStatus[n]
  PROVE  offerStatus' = [offerStatus EXCEPT ![o] = st]
  BY StatusOf, StatusOfNext

\* The store of Issue makes the next offer, the GETDEL of Claim takes an open
\* one, the TTL lets an open one lapse, and no other step touches an offer.
LEMMA PairingRefines ==
  ASSUME BoxTableOK, PairingOK, PairInv, PairingNext
  PROVE  Promise!OneShotNext \/ UNCHANGED offerStatus
<1> USE BoxTableAssumption, PairingAssumption, GrantFields
<1>1. ASSUME NEW d \in Devices, NEW c \in Codes, Issue(d, c)
      PROVE  Promise!OneShotNext
  <2> DEFINE o == offered + 1
  <2>1. o \in Offers /\ offered \in Nat /\ offered' = o /\ takenBy' = takenBy
    BY <1>1 DEF PairingOK, Issue, Offers
  <2>2. codes[c] = NoGrant /\ codes'[c].n = o
        /\ \A k \in Codes \ {c} : codes'[k] = codes[k]
    BY <1>1 DEF PairingOK, Issue, SetNX
  <2>3. \A k \in Codes : codes[k].n # o
    BY <2>1, <2>2 DEF PairInv, CodesInv, PairingOK, Offers
  <2>4. takenBy[o] = None
    BY <2>1 DEF PairInv, CodesInv, Offers
  <2>5. Stored(codes', o) /\ ~Stored(codes, o)
    BY <2>2, <2>3 DEF Stored
  <2>6. \A n \in Offers \ {o} : Stored(codes', n) = Stored(codes, n)
    <3> SUFFICES ASSUME NEW n \in Offers \ {o}
                 PROVE  Stored(codes', n) <=> Stored(codes, n)
      BY DEF Stored
    <3>1. QED
      BY <2>2 DEF Stored
  <2>7. \A n \in Offers \ {o} : n <= o <=> n <= offered
    BY <2>1 DEF Offers
  <2> HIDE DEF o
  <2>8. offerStatus[o] = "none" /\ offerStatus'[o] = "open"
    <3>1. ~(o <= offered)
      BY <2>1 DEF o
    <3>2. QED
      BY <2>1, <2>4, <2>5, <3>1, StatusOf, StatusOfNext DEF Status
  <2>9. \A n \in Offers \ {o} : offerStatus'[n] = offerStatus[n]
    BY <2>1, <2>6, <2>7, StatusOf, StatusOfNext DEF Status
  <2>10. Promise!Make(o)
    BY <2>1, <2>8, <2>9, OneOffer DEF Promise!Make
  <2>11. QED
    BY <2>1, <2>10 DEF Promise!OneShotNext
<1>2. ASSUME NEW d \in Devices, NEW c \in Codes, Claim(d, c)
      PROVE  Promise!OneShotNext
  <2> DEFINE o == codes[c].n
  <2>1. codes[c] \in Grants /\ o \in Offers /\ offered' = offered /\ takenBy[o] = None
    BY <1>2 DEF PairingOK, Claim, PairInv, CodesInv
  <2>2. codes'[c] = NoGrant /\ \A k \in Codes \ {c} : codes'[k] = codes[k]
    BY <1>2 DEF PairingOK, Claim, GetDel
  <2>3. takenBy'[o] = d /\ \A n \in Offers \ {o} : takenBy'[n] = takenBy[n]
    BY <1>2, <2>1 DEF PairingOK, Claim
  <2>4. Stored(codes, o) /\ \A n \in Offers \ {o} : Stored(codes', n) = Stored(codes, n)
    <3>1. Stored(codes, o)
      BY DEF Stored
    <3>2. ASSUME NEW n \in Offers \ {o}
          PROVE  Stored(codes', n) = Stored(codes, n)
      BY <2>2 DEF Stored
    <3>3. QED
      BY <3>1, <3>2
  <2> HIDE DEF o
  <2>5. offerStatus[o] = "open" /\ offerStatus'[o] = d
    BY <2>1, <2>3, <2>4, StatusOf, StatusOfNext DEF Status
  <2>6. \A n \in Offers \ {o} : offerStatus'[n] = offerStatus[n]
    BY <2>1, <2>3, <2>4, StatusOf, StatusOfNext DEF Status
  <2>7. Promise!Take(o, d)
    BY <2>1, <2>5, <2>6, OneOffer DEF Promise!Take
  <2>8. QED
    BY <2>1, <2>7 DEF Promise!OneShotNext
<1>3. ASSUME NEW c \in Codes, Expire(c)
      PROVE  Promise!OneShotNext
  <2> DEFINE o == codes[c].n
  <2>1. /\ codes[c] \in Grants /\ o \in Offers /\ offered' = offered /\ takenBy' = takenBy
        /\ takenBy[o] = None /\ o <= offered
    BY <1>3 DEF PairingOK, Expire, PairInv, CodesInv
  <2>2. codes'[c] = NoGrant /\ \A k \in Codes \ {c} : codes'[k] = codes[k]
    BY <1>3 DEF PairingOK, Expire
  <2>3. \A k \in Codes \ {c} : codes[k].n # o
    BY <1>3 DEF PairInv, CodesInv, Expire
  <2>4. /\ Stored(codes, o) /\ ~Stored(codes', o)
        /\ \A n \in Offers \ {o} : Stored(codes', n) = Stored(codes, n)
    <3>1. Stored(codes, o)
      BY DEF Stored
    <3>2. ~Stored(codes', o)
      BY <2>1, <2>2, <2>3 DEF Stored
    <3>3. ASSUME NEW n \in Offers \ {o}
          PROVE  Stored(codes', n) = Stored(codes, n)
      BY <2>2 DEF Stored
    <3>4. QED
      BY <3>1, <3>2, <3>3
  <2> HIDE DEF o
  <2>5. offerStatus[o] = "open" /\ offerStatus'[o] = "lapsed"
    BY <2>1, <2>4, StatusOf, StatusOfNext DEF Status
  <2>6. \A n \in Offers \ {o} : offerStatus'[n] = offerStatus[n]
    BY <2>1, <2>4, StatusOf, StatusOfNext DEF Status
  <2>7. Promise!Lapse(o)
    BY <2>1, <2>5, <2>6, OneOffer DEF Promise!Lapse
  <2>8. QED
    BY <2>1, <2>7 DEF Promise!OneShotNext
<1>4. ASSUME NEW d \in Devices, NEW b \in Boxes, pairIssue(d, b)
      PROVE  UNCHANGED offerStatus
  BY <1>4, SameOffers DEF pairIssue
<1>5. ASSUME NEW d \in Devices, pairClaim(d) \/ IssueFails(d)
      PROVE  UNCHANGED offerStatus
  BY <1>5, SameOffers DEF pairClaim, IssueFails
<1>6. QED
  BY <1>1, <1>2, <1>3, <1>4, <1>5 DEF PairingNext

-----------------------------------------------------------------------------
(* The event stream *)

\* A request has a registered device; a host reads no stream but its own, and the
\* relay has not given that one up.
StreamsInv ==
  /\ \A s \in Streams :
       IF stream[s].at = "unused" THEN stream[s] = Unused
       ELSE stream[s].dev \in Devices /\ device[stream[s].dev] # None
  /\ \A d \in Devices : host[d].stream # None =>
       /\ device[d] # None
       /\ stream[host[d].stream].at \in {"open", "live"}
       /\ stream[host[d].stream].dev = d

\* A publish still has to tell only streams of its own namespace.
TargetsInv ==
  \A v \in Versions : \A s \in publish[v].targets :
    /\ publish[v].at = "sending"
    /\ stream[s].at # "unused"
    /\ device[stream[s].dev] = BoxOwner[VersionBox[v]]

EventsInv == StreamsInv /\ TargetsInv /\ EventsStayInNamespace

\* At start-up there is no request and every publish is still building.
LEMMA EventsStart == BoxTableInit /\ EventsInit => EventsOK /\ EventsInv
<1> SUFFICES ASSUME BoxTableInit, EventsInit
             PROVE  EventsOK /\ EventsInv
  OBVIOUS
<1>1. Unused \in StreamRow /\ Unused.at = "unused" /\ Unused.chan = <<>>
  BY DEF Unused, StreamRow
<1>2. EventsOK
  <2>1. Stopped \in HostRow /\ Idle \in RefreshRow
    BY DEF Stopped, Idle, HostRow, RefreshRow
  <2>2. QED
    BY <1>1, <2>1, BoxEventsAssumption DEF EventsInit, EventsOK, PublishRow
<1>3. EventsInv
  BY <1>1 DEF EventsInit, EventsInv, StreamsInv, TargetsInv, EventsStayInNamespace, Stopped
<1>4. QED
  BY <1>2, <1>3

\* A step that gives one stream a well typed row keeps the streams typed.
LEMMA OneStream ==
  ASSUME EventsOK, NEW s \in Streams, NEW r \in StreamRow, Len(r.chan) <= SubBufferSize,
         stream' = [stream EXCEPT ![s] = r]
  PROVE  /\ stream' \in [Streams -> StreamRow]
         /\ \A x \in Streams : Len(stream'[x].chan) <= SubBufferSize
  BY DEF EventsOK

\* One event more in a channel.
LEMMA AppendedChannel ==
  ASSUME NEW c \in Seq(Versions), NEW v \in Versions
  PROVE  /\ Append(c, v) \in Seq(Versions) /\ Append(c, v) # <<>>
         /\ Len(Append(c, v)) = Len(c) + 1
         /\ \A i \in DOMAIN Append(c, v) :
              Append(c, v)[i] = v \/ (i \in DOMAIN c /\ Append(c, v)[i] = c[i])
<1>1. Append(c, v) \in Seq(Versions) /\ Len(Append(c, v)) = Len(c) + 1
  OBVIOUS
<1>7. Append(c, v) # <<>>
  <2>1. Len(c) \in Nat /\ Len(<<>>) = 0
    OBVIOUS
  <2>2. QED
    BY <1>1, <2>1
<1>6. DOMAIN Append(c, v) = 1 .. Len(c) + 1 /\ DOMAIN c = 1 .. Len(c)
  OBVIOUS
<1>2. \A i \in 1 .. Len(c) : Append(c, v)[i] = c[i]
  OBVIOUS
<1>3. Append(c, v)[Len(c) + 1] = v
  OBVIOUS
<1>4. \A i \in 1 .. Len(c) + 1 : i \in 1 .. Len(c) \/ i = Len(c) + 1
  OBVIOUS
<1>5. QED
  BY <1>1, <1>2, <1>3, <1>4, <1>6, <1>7

\* What Send puts into a channel: a full one drops the event.
LEMMA SendRow ==
  ASSUME EventsOK, NEW v \in Versions, NEW s \in Streams, Send(v, s)
  PROVE  \E q \in Seq(Versions) :
           /\ q # <<>> /\ Len(q) <= SubBufferSize
           /\ \A i \in DOMAIN q : q[i] = v \/ (i \in DOMAIN stream[s].chan /\ q[i] = stream[s].chan[i])
           /\ stream' = [stream EXCEPT ![s].chan = q]
<1> DEFINE c == stream[s].chan
<1>1. c \in Seq(Versions) /\ Len(c) <= SubBufferSize /\ SubBufferSize \in Nat \ {0}
  BY BoxEventsAssumption DEF EventsOK, StreamRow
<1>2. CASE Len(c) < SubBufferSize
  <2>1. /\ Append(c, v) \in Seq(Versions) /\ Append(c, v) # <<>>
        /\ Len(Append(c, v)) <= SubBufferSize
        /\ \A i \in DOMAIN Append(c, v) : Append(c, v)[i] = v \/ (i \in DOMAIN c /\ Append(c, v)[i] = c[i])
    BY <1>1, <1>2, AppendedChannel
  <2>2. stream' = [stream EXCEPT ![s].chan = Append(c, v)]
    BY <1>2 DEF Send, Enqueue
  <2>3. QED
    BY <2>1, <2>2
<1>3. CASE ~(Len(c) < SubBufferSize)
  <2>1. c # <<>>
    BY <1>1, <1>3
  <2>2. stream' = stream
    BY <1>3 DEF Send
  <2>3. stream = [stream EXCEPT ![s].chan = c]
    BY DEF EventsOK, StreamRow
  <2>4. QED
    BY <1>1, <2>1, <2>2, <2>3
<1>4. QED
  BY <1>2, <1>3

\* A step that gives one call of refresh() a well typed row keeps them typed.
LEMMA OneRefresh ==
  ASSUME EventsOK, NEW d \in Devices, NEW r \in Refreshes, NEW row \in RefreshRow,
         refresh' = [refresh EXCEPT ![d][r] = row]
  PROVE  refresh' \in [Devices -> [Refreshes -> RefreshRow]]
  BY DEF EventsOK

\* Asking and forgetting are such steps, and so is an answer: it holds a version
\* or none.
LEMMA RefreshTyped ==
  ASSUME BoxTableOK, EventsOK, NEW d \in Devices, NEW r \in Refreshes,
         Ask(d, r) \/ Answer(d, r) \/ RefreshFails(d, r) \/ RefreshLands(d, r)
  PROVE  refresh' \in [Devices -> [Refreshes -> RefreshRow]]
<1>1. CASE Ask(d, r)
  <2>1. [at |-> "asked", got |-> None] \in RefreshRow
    BY DEF RefreshRow
  <2>2. QED
    BY <1>1, <2>1, OneRefresh DEF Ask
<1>2. CASE Answer(d, r)
  <2> DEFINE w == IF BoxIn(device[d], Shown[d]) THEN boxes[Shown[d]].current ELSE None
  <2>1. w \in Versions \cup {None}
    BY BoxEventsAssumption DEF BoxTableOK
  <2>2. refresh' = [refresh EXCEPT ![d][r] = [at |-> "answered", got |-> w]]
    BY <1>2 DEF Answer
  <2> HIDE DEF w
  <2>3. [at |-> "answered", got |-> w] \in RefreshRow
    BY <2>1 DEF RefreshRow
  <2>4. QED
    BY <2>2, <2>3, OneRefresh
<1>3. CASE RefreshFails(d, r) \/ RefreshLands(d, r)
  <2>1. Idle \in RefreshRow
    BY DEF Idle, RefreshRow
  <2>2. QED
    BY <1>3, <2>1, OneRefresh DEF RefreshFails, RefreshLands
<1>4. QED
  BY <1>1, <1>2, <1>3

\* Every step of a publish, a request or a host keeps its state typed.
LEMMA EventsTypeStep ==
  ASSUME BoxTableOK, EventsOK, StreamsInv, EventsNext
  PROVE  BoxTableOK' /\ EventsOK'
<1> USE BoxTableAssumption, BoxEventsAssumption DEF EventsOK
<1>t. /\ \A v \in Versions : publish[v] \in PublishRow
      /\ \A s \in Streams : stream[s] \in StreamRow
      /\ \A d \in Devices : host[d] \in HostRow
  OBVIOUS
<1>1. ASSUME NEW v \in Versions, SetCurrentVersion(v)
      PROVE  BoxTableOK' /\ EventsOK'
  <2>1. EventsOK'
    BY <1>1, <1>t DEF SetCurrentVersion, PublishRow
  <2>2. BoxTableOK'
    BY <1>1 DEF SetCurrentVersion, BoxTableOK
  <2>3. QED
    BY <2>1, <2>2
<1>2. ASSUME NEW v \in Versions, Publish(v)
      PROVE  BoxTableOK' /\ EventsOK'
  <2>1. Snapshot(BoxOwner[VersionBox[v]]) \subseteq Streams
    BY DEF Snapshot, Registered
  <2>2. QED
    BY <1>2, <1>t, <2>1, ZenonT(60) DEF Publish, PublishRow, BoxTableOK, boxVars
<1>3. ASSUME NEW v \in Versions, NEW s \in Streams, Send(v, s)
      PROVE  BoxTableOK' /\ EventsOK'
  <2>1. PICK q \in Seq(Versions) : Len(q) <= SubBufferSize /\ stream' = [stream EXCEPT ![s].chan = q]
    BY <1>3, SendRow
  <2>2. stream' \in [Streams -> StreamRow] /\ \A x \in Streams : Len(stream'[x].chan) <= SubBufferSize
    BY <1>t, <2>1 DEF StreamRow
  <2>3. QED
    BY <1>3, <1>t, <2>2 DEF Send, PublishRow, BoxTableOK, boxVars
<1>4. ASSUME NEW v \in Versions, NEW s \in Streams, SendPanics(v, s)
      PROVE  BoxTableOK' /\ EventsOK'
  <2>1. boxVars' = boxVars /\ UNCHANGED <<host, refresh>>
    BY <1>4 DEF SendPanics, boxVars
  <2>2. publish' \in [Versions -> PublishRow]
    BY <1>4, <1>t DEF SendPanics, PublishRow
  <2>3. stream' = stream
    BY <1>4 DEF SendPanics
  <2>4. EventsOK'
    BY <2>1, <2>2, <2>3
  <2>5. QED
    BY <2>1, <2>4 DEF BoxTableOK, boxVars
<1>5. ASSUME NEW v \in Versions, PublishReturns(v)
      PROVE  BoxTableOK' /\ EventsOK'
  <2>1. boxVars' = boxVars /\ UNCHANGED <<host, refresh>>
    BY <1>5 DEF PublishReturns, boxVars
  <2>2. publish' \in [Versions -> PublishRow]
    BY <1>5, <1>t DEF PublishReturns, PublishRow
  <2>3. stream' = stream
    BY <1>5 DEF PublishReturns
  <2>4. EventsOK'
    BY <2>1, <2>2, <2>3
  <2>5. QED
    BY <2>1, <2>4 DEF BoxTableOK, boxVars
<1>6. ASSUME NEW s \in Streams, Subscribe(s) \/ Unsubscribe(s) \/ StreamDies(s)
      PROVE  BoxTableOK' /\ EventsOK'
  <2>1. stream' \in [Streams -> StreamRow] /\ \A x \in Streams : Len(stream'[x].chan) <= SubBufferSize
    <3>1. CASE Subscribe(s)
      BY <3>1, <1>t DEF Subscribe, StreamRow
    <3>2. CASE Unsubscribe(s)
      BY <3>2, <1>t DEF Unsubscribe, StreamRow
    <3>3. CASE StreamDies(s)
      <4> DEFINE a == IF stream[s].at = "live" THEN "gone" ELSE "closed"
                 r == [stream[s] EXCEPT !.at = a, !.chan = <<>>]
      <4>1. a \in {"gone", "closed"} /\ stream' = [stream EXCEPT ![s] = r]
        <5>1. stream' = [stream EXCEPT ![s].at = a, ![s].chan = <<>>]
          BY <3>3, <1>t DEF StreamDies
        <5> HIDE DEF a
        <5>2. stream' = [stream EXCEPT ![s] = r]
          BY <5>1
        <5>3. QED
          BY <5>2 DEF a
      <4> HIDE DEF a
      <4>2. r \in StreamRow /\ r.chan = <<>>
        <5>1. <<>> \in Seq(Versions)
          OBVIOUS
        <5>2. QED
          BY <1>t, <4>1, <5>1 DEF StreamRow
      <4> HIDE DEF r
      <4>3. QED
        BY <4>1, <4>2, OneStream, Len(<<>>) = 0
    <3>4. QED
      BY <1>6, <3>1, <3>2, <3>3
  <2>2. QED
    BY <1>6, <2>1 DEF Subscribe, Unsubscribe, StreamDies, BoxTableOK, boxVars
<1>7. ASSUME NEW s \in Streams, Forward(s)
      PROVE  BoxTableOK' /\ EventsOK'
  <2>1. stream[s].dev \in Devices
    BY <1>7 DEF Forward, StreamsInv
  <2>2. /\ Tail(stream[s].chan) \in Seq(Versions)
        /\ Len(Tail(stream[s].chan)) <= SubBufferSize
    BY <1>7, <1>t DEF Forward, StreamRow
  <2>3. stream' \in [Streams -> StreamRow] /\ \A x \in Streams : Len(stream'[x].chan) <= SubBufferSize
    BY <1>7, <1>t, <2>2 DEF Forward, StreamRow
  <2>4. host' \in [Devices -> HostRow]
    BY <1>7, <1>t, <2>1, ZenonT(60) DEF Forward, HostRow
  <2>5. QED
    BY <1>7, <2>3, <2>4 DEF Forward, BoxTableOK, boxVars
<1>8. ASSUME NEW d \in Devices, NEW s \in Streams, Open(d, s)
      PROVE  BoxTableOK' /\ EventsOK'
  <2>1. stream' \in [Streams -> StreamRow] /\ \A x \in Streams : Len(stream'[x].chan) <= SubBufferSize
    BY <1>8, <1>t, ZenonT(60) DEF Open, StreamRow
  <2>2. host' \in [Devices -> HostRow]
    BY <1>8, <1>t, ZenonT(60) DEF Open, HostRow
  <2>3. refresh' \in [Devices -> [Refreshes -> RefreshRow]]
    <3>1. refresh' = refresh \/ \E r \in Refreshes : Ask(d, r)
      BY <1>8 DEF Open
    <3>2. QED
      BY <3>1, RefreshTyped
  <2>4. QED
    BY <1>8, <2>1, <2>2, <2>3 DEF Open, BoxTableOK, boxVars
<1>9. ASSUME NEW d \in Devices, HostStops(d) \/ HostLoses(d)
      PROVE  BoxTableOK' /\ EventsOK'
  <2>1. host' \in [Devices -> HostRow]
    <3>1. CASE HostStops(d)
      <4>1. Stopped \in HostRow
        BY DEF Stopped, HostRow
      <4>2. QED
        BY <3>1, <4>1 DEF HostStops
    <3>2. CASE HostLoses(d)
      <4>1. PICK e \in BOOLEAN :
              host' = [host EXCEPT ![d].stream = None, ![d].wire = FALSE, ![d].first = @ /\ ~e]
        BY <3>2 DEF HostLoses
      <4> DEFINE f == host[d].first /\ ~e
                 h1 == [host[d] EXCEPT !.stream = None, !.wire = FALSE]
                 h == [h1 EXCEPT !.first = f]
      <4>2. host' = [host EXCEPT ![d] = h]
        BY <4>1
      <4>3. h1 \in HostRow
        BY <1>t DEF HostRow
      <4>4. f \in BOOLEAN
        OBVIOUS
      <4> HIDE DEF f, h1
      <4>5. h \in HostRow
        BY <4>3, <4>4 DEF HostRow
      <4> HIDE DEF h
      <4>6. QED
        BY <1>t, <4>2, <4>5
    <3>3. QED
      BY <1>9, <3>1, <3>2
  <2>2. refresh' \in [Devices -> [Refreshes -> RefreshRow]]
    <3>1. Idle \in RefreshRow
      BY DEF Idle, RefreshRow
    <3>2. QED
      BY <1>9, <3>1 DEF HostStops, HostLoses
  <2>3. QED
    BY <1>9, <2>1, <2>2 DEF HostStops, HostLoses, BoxTableOK, boxVars
<1>10. ASSUME NEW d \in Devices, NEW r \in Refreshes,
              \/ HostStarts(d, r) \/ HostHears(d, r)
              \/ Answer(d, r) \/ RefreshFails(d, r) \/ RefreshLands(d, r)
       PROVE  BoxTableOK' /\ EventsOK'
  <2>1. refresh' \in [Devices -> [Refreshes -> RefreshRow]]
    BY <1>10, RefreshTyped DEF HostStarts, HostHears
  <2>2. host' \in [Devices -> HostRow]
    <3>1. CASE HostStarts(d, r)
      <4> DEFINE h == [Stopped EXCEPT !.up = TRUE, !.shows = host[d].shows]
      <4>1. h \in HostRow
        BY <1>t DEF Stopped, HostRow
      <4>2. host' = [host EXCEPT ![d] = h]
        BY <3>1 DEF HostStarts
      <4> HIDE DEF h
      <4>3. QED
        BY <4>1, <4>2
    <3>2. CASE HostHears(d, r)
      BY <3>2, <1>t, ZenonT(60) DEF HostHears, HostRow
    <3>3. CASE Answer(d, r) \/ RefreshFails(d, r)
      BY <3>3 DEF Answer, RefreshFails
    <3>4. CASE RefreshLands(d, r)
      <4>1. refresh[d][r].got \in Versions \cup {None}
        BY DEF RefreshRow
      <4> DEFINE h == [host[d] EXCEPT !.shows = refresh[d][r].got]
      <4>2. host' = [host EXCEPT ![d] = h]
        BY <3>4 DEF RefreshLands
      <4>3. h \in HostRow
        BY <4>1, <1>t DEF HostRow
      <4> HIDE DEF h
      <4>4. QED
        BY <1>t, <4>2, <4>3
    <3>5. QED
      BY <1>10, <3>1, <3>2, <3>3, <3>4
  <2>3. QED
    BY <1>10, <2>1, <2>2
       DEF HostStarts, HostHears, Answer, RefreshFails, RefreshLands, BoxTableOK, boxVars
<1>11. QED
  BY <1>1, <1>2, <1>3, <1>4, <1>5, <1>6, <1>7, <1>8, <1>9, <1>10
     DEF EventsNext, PublishStep, StreamStep, HostStep

\* No step of the event stream registers or moves a device.
LEMMA EventsKeepDevices == EventsNext => device' = device
  BY DEF EventsNext, PublishStep, StreamStep, HostStep, SetCurrentVersion, Publish,
         PublishReturns, Send, SendPanics, Subscribe, Forward, StreamDies, Unsubscribe,
         HostStarts, HostStops, HostLoses, HostHears, Answer, RefreshFails, RefreshLands,
         Open, boxVars

\* The invariant survives every step that leaves devices, hosts and the owners of
\* streams alone and neither adds a target nor an event of another namespace.
LEMMA EventsFrame ==
  ASSUME EventsInv, UNCHANGED device,
         \A s \in Streams :
           /\ stream'[s].at = "unused" <=> stream[s].at = "unused"
           /\ stream[s].at = "unused" => stream'[s] = stream[s]
           /\ stream'[s].dev = stream[s].dev
           /\ stream[s].at \in {"open", "live"} /\ host[stream[s].dev].stream = s
                => stream'[s].at \in {"open", "live"}
           /\ \A i \in DOMAIN stream'[s].chan :
                BoxOwner[VersionBox[stream'[s].chan[i]]] = device[stream[s].dev],
         \A v \in Versions : \A s \in publish'[v].targets :
           /\ publish'[v].at = "sending" /\ s \in Streams
           /\ s \in publish[v].targets \/ (s \in Registered /\ device[stream[s].dev] = BoxOwner[VersionBox[v]]),
         \A d \in Devices : host'[d].stream \in {host[d].stream, None},
         \A d \in Devices : host[d].stream \in Streams \cup {None}
  PROVE  EventsInv'
<1>1. StreamsInv'
  <2>1. ASSUME NEW s \in Streams
        PROVE  IF stream'[s].at = "unused" THEN stream'[s] = Unused
               ELSE stream'[s].dev \in Devices /\ device'[stream'[s].dev] # None
    BY DEF EventsInv, StreamsInv
  <2>2. ASSUME NEW d \in Devices, host'[d].stream # None
        PROVE  /\ device'[d] # None
               /\ stream'[host'[d].stream].at \in {"open", "live"}
               /\ stream'[host'[d].stream].dev = d
    <3>1. host'[d].stream = host[d].stream /\ host[d].stream \in Streams
      BY <2>2
    <3>2. QED
      BY <2>2, <3>1 DEF EventsInv, StreamsInv
  <2>3. QED
    BY <2>1, <2>2 DEF StreamsInv
<1>2. TargetsInv'
  BY DEF EventsInv, TargetsInv, Registered
<1>3. EventsStayInNamespace'
  BY DEF EventsStayInNamespace
<1>4. QED
  BY <1>1, <1>2, <1>3 DEF EventsInv

\* A host that starts, stops or loses its stream gets a row without one.
LEMMA OffStream ==
  ASSUME EventsOK, NEW d \in Devices,
         HostStops(d) \/ HostLoses(d) \/ \E r \in Refreshes : HostStarts(d, r)
  PROVE  \E h : h.stream = None /\ host' = [host EXCEPT ![d] = h]
<1>1. CASE HostStops(d)
  BY <1>1 DEF HostStops, Stopped
<1>2. CASE \E r \in Refreshes : HostStarts(d, r)
  <2> DEFINE h == [Stopped EXCEPT !.up = TRUE, !.shows = host[d].shows]
  <2>1. h.stream = None
    BY DEF Stopped
  <2>2. host' = [host EXCEPT ![d] = h]
    BY <1>2 DEF HostStarts
  <2> HIDE DEF h
  <2>3. QED
    BY <2>1, <2>2
<1>3. CASE HostLoses(d)
  <2>1. PICK e \in BOOLEAN :
          host' = [host EXCEPT ![d].stream = None, ![d].wire = FALSE, ![d].first = @ /\ ~e]
    BY <1>3 DEF HostLoses
  <2> DEFINE f == host[d].first /\ ~e
             h == [host[d] EXCEPT !.stream = None, !.wire = FALSE, !.first = f]
  <2>2. host[d] \in HostRow /\ host \in [Devices -> HostRow]
    BY DEF EventsOK
  <2>3. host' = [host EXCEPT ![d] = h]
    BY <2>1, <2>2, Zenon DEF HostRow
  <2>4. h.stream = None
    <3> HIDE DEF f
    <3>1. QED
      BY <2>2 DEF HostRow
  <2> HIDE DEF h
  <2>5. QED
    BY <2>3, <2>4
<1>4. QED
  BY <1>1, <1>2, <1>3

\* Every step keeps the invariant.  Publish picks the registered streams of the
\* namespace, so Send puts the event into no other.
LEMMA EventsInvStep ==
  ASSUME BoxTableOK, EventsOK, EventsInv, EventsNext
  PROVE  EventsInv'
<1> USE BoxTableAssumption, BoxEventsAssumption DEF EventsOK
<1>t. /\ \A v \in Versions : publish[v] \in PublishRow
      /\ \A s \in Streams : stream[s] \in StreamRow
      /\ \A d \in Devices : host[d] \in HostRow
  OBVIOUS
<1>d. device' = device
  BY EventsKeepDevices
<1>h. \A d \in Devices : host[d].stream \in Streams \cup {None}
  BY <1>t DEF HostRow
<1>p. \A v \in Versions : \A s \in publish[v].targets : publish[v].at = "sending" /\ s \in Streams
  BY <1>t DEF PublishRow, EventsInv, TargetsInv
<1>e. \A s \in Streams : \A i \in DOMAIN stream[s].chan :
        BoxOwner[VersionBox[stream[s].chan[i]]] = device[stream[s].dev]
  BY DEF EventsInv, EventsStayInNamespace
<1>1. ASSUME NEW v \in Versions,
             SetCurrentVersion(v) \/ Publish(v) \/ PublishReturns(v)
               \/ \E s \in Streams : SendPanics(v, s)
      PROVE  EventsInv'
  <2>1. stream' = stream /\ host' = host
    BY <1>1 DEF SetCurrentVersion, Publish, PublishReturns, SendPanics
  <2>2. \A w \in Versions : \A s \in publish'[w].targets :
          /\ publish'[w].at = "sending" /\ s \in Streams
          /\ s \in publish[w].targets \/ (s \in Registered /\ device[stream[s].dev] = BoxOwner[VersionBox[w]])
    <3>1. CASE SetCurrentVersion(v)
      BY <3>1, <1>t, <1>p DEF SetCurrentVersion, PublishRow
    <3>2. CASE Publish(v)
      <4>1. /\ publish'[v].at = "sending"
            /\ publish'[v].targets = Snapshot(BoxOwner[VersionBox[v]])
            /\ \A w \in Versions \ {v} : publish'[w] = publish[w]
        BY <3>2, <1>t DEF Publish, PublishRow
      <4>2. QED
        BY <4>1, <1>p DEF Snapshot, Registered
    <3>3. CASE PublishReturns(v) \/ \E s \in Streams : SendPanics(v, s)
      <4>1. publish'[v].targets = {} /\ \A w \in Versions \ {v} : publish'[w] = publish[w]
        BY <3>3, <1>t DEF PublishReturns, SendPanics, PublishRow
      <4>2. QED
        BY <4>1, <1>p
    <3>4. QED
      BY <1>1, <3>1, <3>2, <3>3
  <2>3. QED
    BY <2>1, <2>2, <1>d, <1>h, <1>e, EventsFrame
<1>2. ASSUME NEW v \in Versions, NEW s \in Streams, Send(v, s)
      PROVE  EventsInv'
  <2>1. s \in publish[v].targets /\ device[stream[s].dev] = BoxOwner[VersionBox[v]] /\ host' = host
    BY <1>2 DEF Send, EventsInv, TargetsInv
  <2>2. stream[s].at # "unused"
    BY <2>1 DEF EventsInv, TargetsInv
  <2>3. PICK q \in Seq(Versions) :
          /\ \A i \in DOMAIN q : q[i] = v \/ (i \in DOMAIN stream[s].chan /\ q[i] = stream[s].chan[i])
          /\ stream' = [stream EXCEPT ![s].chan = q]
    BY <1>2, SendRow, SMTT(30)
  <2>4. /\ stream'[s].at = stream[s].at /\ stream'[s].dev = stream[s].dev /\ stream'[s].chan = q
        /\ \A x \in Streams \ {s} : stream'[x] = stream[x]
    BY <1>t, <2>3 DEF StreamRow
  <2>5. \A i \in DOMAIN q : BoxOwner[VersionBox[q[i]]] = device[stream[s].dev]
    <3>1. \A i \in DOMAIN stream[s].chan :
            BoxOwner[VersionBox[stream[s].chan[i]]] = device[stream[s].dev]
      BY <1>e
    <3>2. QED
      BY <2>1, <2>3, <3>1, ZenonT(60)
  <2>6. /\ publish'[v].targets \subseteq publish[v].targets /\ publish'[v].at = publish[v].at
        /\ \A w \in Versions \ {v} : publish'[w] = publish[w]
    BY <1>2, <1>t DEF Send, PublishRow
  <2>7. \A w \in Versions : publish'[w].at = publish[w].at /\ publish'[w].targets \subseteq publish[w].targets
    BY <2>6
  <2>8. \A x \in Streams : \A i \in DOMAIN stream'[x].chan :
          BoxOwner[VersionBox[stream'[x].chan[i]]] = device[stream[x].dev]
    BY <2>4, <2>5, <1>e
  <2>9. \A x \in Streams :
          /\ stream'[x].at = "unused" <=> stream[x].at = "unused"
          /\ stream[x].at = "unused" => stream'[x] = stream[x]
          /\ stream'[x].dev = stream[x].dev /\ stream'[x].at = stream[x].at
    BY <2>2, <2>4
  <2>10. \A w \in Versions : \A x \in publish'[w].targets :
           publish'[w].at = "sending" /\ x \in Streams /\ x \in publish[w].targets
    BY <2>7, <1>p
  <2>11. QED
    BY <2>1, <2>8, <2>9, <2>10, <1>d, <1>h, EventsFrame
<1>3. ASSUME NEW s \in Streams, StreamStep(s)
      PROVE  EventsInv'
  <2>1. /\ stream'[s].at # "unused" /\ stream[s].at # "unused"
        /\ stream'[s].dev = stream[s].dev
        /\ \A x \in Streams \ {s} : stream'[x] = stream[x]
        /\ stream'[s].chan \in {<<>>, stream[s].chan} \/ Forward(s)
        /\ stream[s].at \in {"open", "live"} /\ host[stream[s].dev].stream = s
             => stream'[s].at \in {"open", "live"}
    <3>1. CASE Subscribe(s) \/ Unsubscribe(s)
      BY <3>1, <1>t DEF Subscribe, Unsubscribe, StreamRow
    <3>2. CASE StreamDies(s)
      BY <3>2, <1>t DEF StreamDies, StreamRow, IsRead
    <3>3. CASE Forward(s)
      BY <3>3, <1>t DEF Forward, StreamRow
    <3>4. QED
      BY <1>3, <3>1, <3>2, <3>3 DEF StreamStep
  <2>2. \A i \in DOMAIN stream'[s].chan :
          BoxOwner[VersionBox[stream'[s].chan[i]]] = device[stream[s].dev]
    <3>1. CASE stream'[s].chan \in {<<>>, stream[s].chan}
      <4>1. DOMAIN <<>> = {}
        OBVIOUS
      <4>2. QED
        BY <3>1, <4>1, <1>e
    <3>2. CASE Forward(s)
      <4> DEFINE c == stream[s].chan
      <4>1. c \in Seq(Versions) /\ c # <<>> /\ stream'[s].chan = Tail(c)
        BY <3>2, <1>t DEF Forward, StreamRow
      <4> HIDE DEF c
      <4>2. \A i \in DOMAIN Tail(c) : i + 1 \in DOMAIN c /\ Tail(c)[i] = c[i + 1]
        BY <4>1
      <4>3. QED
        BY <4>1, <4>2, <1>e DEF c
    <3>3. QED
      BY <2>1, <3>1, <3>2
  <2>3. publish' = publish /\ \A d \in Devices : host'[d].stream = host[d].stream
    <3>1. CASE Forward(s)
      <4>1. stream[s].dev \in Devices
        BY <3>1, <2>1 DEF EventsInv, StreamsInv
      <4>2. QED
        BY <3>1, <1>t, <4>1 DEF Forward, HostRow
    <3>2. CASE ~Forward(s)
      BY <1>3, <3>2 DEF StreamStep, Subscribe, Unsubscribe, StreamDies
    <3>3. QED
      BY <3>1, <3>2
  <2>4. QED
    BY <2>1, <2>2, <2>3, <1>d, <1>h, <1>p, <1>e, EventsFrame
<1>4. ASSUME NEW d \in Devices,
             \/ HostStops(d) \/ HostLoses(d)
             \/ \E r \in Refreshes :
                  \/ HostStarts(d, r) \/ HostHears(d, r)
                  \/ Answer(d, r) \/ RefreshFails(d, r) \/ RefreshLands(d, r)
      PROVE  EventsInv'
  <2>1. \A x \in Devices : host'[x].stream \in {host[x].stream, None}
    <3>1. CASE HostStops(d) \/ \E r \in Refreshes : HostStarts(d, r)
      <4>1. PICK h : h.stream = None /\ host' = [host EXCEPT ![d] = h]
        BY <3>1, OffStream
      <4>2. QED
        BY <4>1
    <3>2. CASE HostLoses(d) \/ \E r \in Refreshes : HostHears(d, r) \/ RefreshLands(d, r)
      <4>1. CASE HostLoses(d)
        <5>1. PICK h : h.stream = None /\ host' = [host EXCEPT ![d] = h]
          BY <4>1, OffStream
        <5>2. QED
          BY <5>1
      <4>2. CASE \E r \in Refreshes : HostHears(d, r) \/ RefreshLands(d, r)
        <5>1. PICK h : h.stream = host[d].stream /\ host' = [host EXCEPT ![d] = h]
          <6>1. host[d] \in HostRow
            BY <1>t
          <6>2. /\ [host[d] EXCEPT !.wire = FALSE].stream = host[d].stream
                /\ \A v : [host[d] EXCEPT !.shows = v].stream = host[d].stream
            BY <6>1 DEF HostRow
          <6>3. \/ host' = [host EXCEPT ![d] = [host[d] EXCEPT !.wire = FALSE]]
                \/ \E v : host' = [host EXCEPT ![d] = [host[d] EXCEPT !.shows = v]]
            BY <4>2 DEF HostHears, RefreshLands
          <6>4. QED
            BY <6>2, <6>3
        <5>2. QED
          BY <1>t, <5>1
      <4>3. QED
        BY <3>2, <4>1, <4>2
    <3>3. CASE \E r \in Refreshes : Answer(d, r) \/ RefreshFails(d, r)
      BY <3>3 DEF Answer, RefreshFails
    <3>4. QED
      BY <1>4, <3>1, <3>2, <3>3
  <2>2. stream' = stream /\ publish' = publish
    BY <1>4 DEF HostStops, HostLoses, HostStarts, HostHears, Answer, RefreshFails, RefreshLands
  <2>3. QED
    BY <2>1, <2>2, <1>d, <1>h, <1>p, <1>e, EventsFrame
<1>5. ASSUME NEW d \in Devices, NEW s \in Streams, Open(d, s)
      PROVE  EventsInv'
  <2>1. /\ stream[s] = Unused /\ stream[s].at = "unused" /\ stream[s].chan = <<>>
        /\ device[d] # None /\ publish' = publish
    BY <1>5 DEF Open, Unused, requireDevice
  <2>2. /\ stream'[s].at = "open" /\ stream'[s].dev = d /\ stream'[s].chan = <<>>
        /\ \A x \in Streams \ {s} : stream'[x] = stream[x]
    BY <1>5, <1>t, <2>1 DEF Open, StreamRow
  <2>3. host'[d].stream = s /\ \A x \in Devices \ {d} : host'[x] = host[x]
    <3> DEFINE h == [host[d] EXCEPT !.stream = s]
    <3>1. host' = [host EXCEPT ![d] = h]
      BY <1>5 DEF Open
    <3>2. h.stream = s
      BY <1>t DEF HostRow
    <3> HIDE DEF h
    <3>3. QED
      BY <1>t, <3>1, <3>2
  <2>4. \A x \in Devices \ {d} : host[x].stream # None => host[x].stream \in Streams \ {s}
    BY <2>1, <1>h DEF EventsInv, StreamsInv
  <2>5. StreamsInv'
    <3>1. \A x \in Streams : IF stream'[x].at = "unused" THEN stream'[x] = Unused
            ELSE stream'[x].dev \in Devices /\ device[stream'[x].dev] # None
      <4>1. device[stream'[s].dev] # None /\ stream'[s].at # "unused"
        BY <2>1, <2>2
      <4>2. \A x \in Streams \ {s} : stream'[x] = stream[x]
        BY <2>2
      <4>3. \A x \in Streams : IF stream[x].at = "unused" THEN stream[x] = Unused
              ELSE stream[x].dev \in Devices /\ device[stream[x].dev] # None
        BY DEF EventsInv, StreamsInv
      <4>4. QED
        BY <2>2, <4>1, <4>2, <4>3
    <3>2. ASSUME NEW x \in Devices, host'[x].stream # None
          PROVE  /\ device[x] # None /\ stream'[host'[x].stream].at \in {"open", "live"}
                 /\ stream'[host'[x].stream].dev = x
      <4>1. CASE x = d
        BY <4>1, <2>1, <2>2, <2>3
      <4>2. CASE x # d
        BY <4>2, <3>2, <2>2, <2>3, <2>4 DEF EventsInv, StreamsInv
      <4>3. QED
        BY <4>1, <4>2
    <3>3. QED
      BY <3>1, <3>2, <1>d DEF StreamsInv
  <2>6. TargetsInv'
    BY <2>1, <2>2, <1>d, <1>p DEF EventsInv, TargetsInv
  <2>7. EventsStayInNamespace'
    <3>1. DOMAIN <<>> = {}
      OBVIOUS
    <3>2. QED
      BY <2>2, <3>1, <1>d, <1>e DEF EventsStayInNamespace
  <2>8. QED
    BY <2>5, <2>6, <2>7 DEF EventsInv
<1>6. QED
  BY <1>1, <1>2, <1>3, <1>4, <1>5 DEF EventsNext, PublishStep, HostStep

-----------------------------------------------------------------------------
(* The whole of Hosts *)

Inv == PairInv /\ EventsInv

\* Registering a device and archiving a box disturb neither protocol.
LEMMA BoxTableStep ==
  ASSUME TypeOK, Inv, BoxTableNext, UNCHANGED <<pairVars, eventVars>>
  PROVE  TypeOK' /\ Inv'
<1> USE BoxTableAssumption DEF TypeOK
<1>1. PairingOK' /\ PairInv'
  BY DEF pairVars, Inv, PairingOK, PairInv, CodesInv, ClaimsInv, TokensAreScoped
<1>2. EventsOK'
  BY DEF eventVars, EventsOK
<1>3. \A d \in Devices : device[d] # None => device'[d] = device[d]
  BY DEF BoxTableNext, Register, Archive, BoxTableOK
<1>4. BoxTableOK'
  BY SMTT(30) DEF BoxTableNext, Register, Archive, BoxTableOK
<1>5. EventsInv'
  <2>1. stream' = stream /\ host' = host /\ publish' = publish
    BY DEF eventVars
  <2>2. StreamsInv'
    <3>1. \A d \in Devices : host[d].stream # None => host[d].stream \in Streams
      BY DEF EventsOK, HostRow
    <3>2. QED
      BY <1>3, <2>1, <3>1 DEF Inv, EventsInv, StreamsInv
  <2>3. \A s \in Streams : stream[s].at # "unused" => device'[stream[s].dev] = device[stream[s].dev]
    BY <1>3 DEF Inv, EventsInv, StreamsInv
  <2>4. TargetsInv'
    BY <2>1, <2>3 DEF Inv, EventsInv, TargetsInv, EventsOK, PublishRow
  <2>5. EventsStayInNamespace'
    <3>1. \A s \in Streams : stream[s].at = "unused" => DOMAIN stream[s].chan = {}
      BY DEF Inv, EventsInv, StreamsInv, Unused
    <3>2. QED
      BY <2>1, <2>3, <3>1 DEF Inv, EventsInv, EventsStayInNamespace
  <2>6. QED
    BY <2>2, <2>4, <2>5 DEF EventsInv
<1>6. QED
  BY <1>1, <1>2, <1>4, <1>5 DEF Inv

\* A restart forgets requests and subscriptions and keeps what Redis holds.
LEMMA RestartStep ==
  ASSUME TypeOK, Inv, Restart
  PROVE  TypeOK' /\ Inv' /\ UNCHANGED offerStatus
<1> USE DEF TypeOK, Restart
<1>1. PairingOK'
  BY DEF PairingRestart, PairingOK
<1>2. PairInv' /\ UNCHANGED offerStatus
  BY SameOffers DEF PairingRestart, Inv, PairInv, CodesInv, ClaimsInv, TokensAreScoped
<1>3. BoxTableOK' /\ device' = device
  BY DEF boxVars, BoxTableOK
<1>4. /\ \A s \in Streams : stream'[s] =
           IF stream[s] = Unused THEN Unused ELSE [stream[s] EXCEPT !.at = "closed", !.chan = <<>>]
      /\ \A s \in Streams : stream[s] \in StreamRow
      /\ DOMAIN stream' = Streams
  BY DEF EventsRestart, EventsOK
<1>5. \A s \in Streams : /\ stream'[s] \in StreamRow /\ stream'[s].chan = <<>>
                         /\ stream'[s].dev = stream[s].dev
                         /\ stream'[s].at = "unused" => (stream'[s] = Unused /\ stream[s].at = "unused")
                         /\ stream[s].at = "unused" => stream'[s] = Unused
  <2>1. <<>> \in Seq(Versions)
    OBVIOUS
  <2>2. \A s \in Streams : stream[s].at = "unused" => stream[s] = Unused
    BY DEF Inv, EventsInv, StreamsInv
  <2>3. SUFFICES ASSUME NEW s \in Streams
                 PROVE  /\ stream'[s] \in StreamRow /\ stream'[s].chan = <<>>
                        /\ stream'[s].dev = stream[s].dev
                        /\ stream'[s].at = "unused" => (stream'[s] = Unused /\ stream[s].at = "unused")
                        /\ stream[s].at = "unused" => stream'[s] = Unused
    OBVIOUS
  <2>4. CASE stream[s] = Unused
    <3>1. stream'[s] = Unused /\ stream[s] \in StreamRow
      BY <1>4, <2>4
    <3>2. QED
      BY <2>4, <3>1 DEF Unused
  <2>5. CASE stream[s] # Unused
    <3>1. stream[s].at # "unused" /\ stream[s] \in StreamRow
      BY <1>4, <2>2, <2>5
    <3>2. stream'[s] = [stream[s] EXCEPT !.at = "closed", !.chan = <<>>]
      BY <1>4, <2>5
    <3>3. QED
      BY <2>1, <3>1, <3>2 DEF StreamRow
  <2>6. QED
    BY <2>4, <2>5
<1>6. EventsOK'
  <2>1. publish' \in [Versions -> PublishRow] /\ host' \in [Devices -> HostRow]
    BY DEF EventsRestart, EventsOK, PublishRow, HostRow
  <2>2. stream' \in [Streams -> StreamRow]
    BY <1>5 DEF EventsRestart
  <2>3. \A s \in Streams : Len(stream'[s].chan) <= SubBufferSize
    BY <1>5, BoxEventsAssumption, Len(<<>>) = 0
  <2>4. refresh' = refresh
    BY DEF EventsRestart
  <2>5. QED
    BY <2>1, <2>2, <2>3, <2>4 DEF EventsOK
<1>7. EventsInv'
  <2>1. \A d \in Devices : host'[d].stream = None
    BY DEF EventsRestart, EventsOK, HostRow
  <2>2. StreamsInv'
    BY <1>3, <1>5, <2>1 DEF Inv, EventsInv, StreamsInv
  <2>3. \A v \in Versions : publish'[v].targets = {}
    BY DEF EventsRestart, EventsOK, PublishRow, Inv, EventsInv, TargetsInv
  <2>4. DOMAIN <<>> = {}
    OBVIOUS
  <2>5. QED
    BY <1>5, <2>2, <2>3, <2>4 DEF EventsInv, TargetsInv, EventsStayInNamespace
<1>8. QED
  BY <1>1, <1>2, <1>3, <1>6, <1>7 DEF Inv

\* Types and invariant are preserved together: a claim is typed because the grant
\* it holds is, a forwarded event because its stream has a device.
LEMMA HostsStep == TypeOK /\ Inv /\ [Next]_vars => TypeOK' /\ Inv'
<1> SUFFICES ASSUME TypeOK, Inv, [Next]_vars
             PROVE  TypeOK' /\ Inv'
  OBVIOUS
<1>1. CASE BoxTableNext /\ UNCHANGED <<pairVars, eventVars>>
  BY <1>1, BoxTableStep
<1>2. CASE PairingNext /\ UNCHANGED <<boxVars, eventVars>>
  <2>1. PairingOK' /\ PairInv'
    BY <1>2, PairingTypeStep, PairInvStep DEF TypeOK, Inv
  <2>2. BoxTableOK' /\ EventsOK'
    BY <1>2 DEF TypeOK, BoxTableOK, EventsOK, boxVars, eventVars
  <2>3. EventsInv'
    BY <1>2 DEF Inv, EventsInv, StreamsInv, TargetsInv, EventsStayInNamespace, boxVars, eventVars
  <2>4. QED
    BY <2>1, <2>2, <2>3 DEF TypeOK, Inv
<1>3. CASE EventsNext /\ UNCHANGED pairVars
  <2>1. BoxTableOK' /\ EventsOK' /\ EventsInv'
    BY <1>3, EventsTypeStep, EventsInvStep DEF TypeOK, Inv, EventsInv
  <2>2. PairingOK' /\ PairInv'
    BY <1>3 DEF TypeOK, Inv, PairingOK, PairInv, CodesInv, ClaimsInv, TokensAreScoped, pairVars
  <2>3. QED
    BY <2>1, <2>2 DEF TypeOK, Inv
<1>4. CASE Restart
  BY <1>4, RestartStep
<1>5. CASE UNCHANGED vars
  <2>1. TypeOK'
    BY <1>5 DEF vars, boxVars, pairVars, eventVars, TypeOK, BoxTableOK, PairingOK, EventsOK
  <2>2. PairInv'
    BY <1>5 DEF vars, pairVars, Inv, PairInv, CodesInv, ClaimsInv, TokensAreScoped
  <2>3. EventsInv'
    BY <1>5 DEF vars, boxVars, eventVars, Inv, EventsInv, StreamsInv, TargetsInv, EventsStayInNamespace
  <2>4. QED
    BY <2>1, <2>2, <2>3 DEF Inv
<1>6. QED
  BY <1>1, <1>2, <1>3, <1>4, <1>5 DEF Next

\* The inductive invariant of pairing and of the event stream holds in every
\* state, whatever claims, expiries, streams, publishes and restarts interleave
\* (pairing.Claim, box.Events).
THEOREM HostsCorrect == Spec => [](TypeOK /\ Inv)
<1>1. Init => TypeOK /\ Inv
  <2> SUFFICES ASSUME Init
               PROVE  TypeOK /\ Inv
    OBVIOUS
  <2>1. BoxTableOK
    BY BoxTableAssumption DEF Init, BoxTableInit, BoxTableOK
  <2>2. QED
    BY <2>1, PairingStart, EventsStart DEF Init, TypeOK, Inv
<1>2. QED
  BY <1>1, HostsStep, PTL DEF Spec

\* Rows, codes, tokens, channels and the hosts' state keep their types; no channel
\* of a subscription exceeds subBufferSize (events.go).
THEOREM HostsTypes == Spec => []TypeOK
  BY HostsCorrect, PTL

\* A namespace token opens the namespace of the box's owner, only to the device
\* whose claim took the code, and a code yields one token at most (pairClaim).
THEOREM TokensScoped == Spec => []TokensAreScoped
<1>1. TypeOK /\ Inv => TokensAreScoped
  BY DEF Inv, PairInv
<1>2. QED
  BY <1>1, HostsCorrect, PTL

\* Events of a box are never in the channel of another user's device (Publish).
THEOREM EventsInNamespace == Spec => []EventsStayInNamespace
<1>1. TypeOK /\ Inv => EventsStayInNamespace
  BY DEF Inv, EventsInv
<1>2. QED
  BY <1>1, HostsCorrect, PTL

\* Pairing implements OneShot: "a code can be redeemed exactly once"
\* (pairing.Claim), also across expiry, reuse of a code, failures and restarts.
THEOREM PairingImplementsOneShot == Spec => CodesAreOneShot
<1>1. Init => Promise!OneShotInit
  <2> SUFFICES ASSUME Init
               PROVE  offerStatus = [o \in Offers |-> "none"]
    BY DEF Promise!OneShotInit
  <2>1. \A n \in Offers : takenBy[n] = None /\ ~Stored(codes, n) /\ ~(n <= offered)
    BY PairingAssumption DEF Init, PairingInit, Stored, Offers, NoGrant
  <2>2. QED
    BY <2>1, StatusOf DEF Status
<1>2. TypeOK /\ Inv /\ [Next]_vars => [Promise!OneShotNext]_offerStatus
  <2> SUFFICES ASSUME TypeOK, Inv, [Next]_vars
               PROVE  Promise!OneShotNext \/ UNCHANGED offerStatus
    OBVIOUS
  <2>1. CASE PairingNext
    BY <2>1, PairingRefines DEF TypeOK, Inv
  <2>2. CASE Restart
    BY <2>2, RestartStep
  <2>3. CASE UNCHANGED pairVars
    BY <2>3, SameOffers DEF pairVars
  <2>4. QED
    BY <2>1, <2>2, <2>3 DEF Next, vars
<1>3. QED
  BY <1>1, <1>2, HostsCorrect, PTL DEF Spec, CodesAreOneShot, Promise!OneShotSpec

-----------------------------------------------------------------------------
(* Which steps can leave a live host on an old version *)

\* The publish of v has not reached stream s yet.
StillOwes(v, s) ==
  \/ publish[v].at = "set"
  \/ (publish[v].at = "sending" /\ s \in publish[v].targets)

\* A step that leaves a device, its refreshes, its channel and its box alone, and the
\* publishes of that box still owing it their event, leaves it told.
LEMMA ToldFrame ==
  ASSUME NEW d \in Devices, Told(d),
         host'[d] = host[d], refresh'[d] = refresh[d], device'[d] = device[d],
         boxes'[Shown[d]].current = boxes[Shown[d]].current,
         host[d].stream # None => stream'[host[d].stream].chan = stream[host[d].stream].chan,
         \A v \in Versions :
           host[d].stream # None /\ BoxIn(device[d], Shown[d]) /\ VersionBox[v] = Shown[d]
             /\ StillOwes(v, host[d].stream)
           => StillOwes(v, host[d].stream)'
  PROVE  Told(d)'
  BY DEF Told, BoxIn, Pending, StillOwes

\* A stream a host reads is one of the requests, open or live, and the host's own.
LEMMA ReadStream ==
  ASSUME TypeOK, Inv, NEW d \in Devices, host[d].stream # None
  PROVE  /\ host[d].stream \in Streams /\ stream[host[d].stream].at \in {"open", "live"}
         /\ stream[host[d].stream].dev = d
  BY DEF TypeOK, EventsOK, HostRow, Inv, EventsInv, StreamsInv

\* The end of a publish: the new version is "set" until every registered stream of
\* the namespace is a target, and a stream is a target until it has the event.
LEMMA ToldByPublish ==
  ASSUME TypeOK, Inv, NEW d \in Devices, Told(d), NEW v \in Versions, PublishStep(v),
         ~PublishedUnheard(d), ~PublishPanicked(d)
  PROVE  Told(d)'
<1> USE BoxTableAssumption, BoxEventsAssumption DEF TypeOK, EventsOK
<1>t. \A w \in Versions : publish[w] \in PublishRow
  OBVIOUS
<1>d. /\ device' = device /\ host' = host /\ refresh' = refresh
      /\ \A w \in Versions \ {v} : publish'[w] = publish[w]
  BY <1>t DEF PublishStep, SetCurrentVersion, Publish, PublishReturns, Send, SendPanics, boxVars
<1>1. CASE SetCurrentVersion(v)
  <2>1. /\ stream' = stream /\ publish[v].at = "building" /\ publish'[v].at = "set"
        /\ boxes' = [boxes EXCEPT ![VersionBox[v]].current = v]
    BY <1>1, <1>t DEF SetCurrentVersion, PublishRow
  <2>2. CASE VersionBox[v] = Shown[d]
    BY <2>1, <2>2 DEF Told, Pending
  <2>3. CASE VersionBox[v] # Shown[d]
    <3>1. boxes'[Shown[d]].current = boxes[Shown[d]].current
      BY <2>1, <2>3 DEF BoxTableOK
    <3>2. QED
      BY <1>d, <2>1, <2>3, <3>1, ToldFrame DEF StillOwes
  <2>4. QED
    BY <2>2, <2>3
<1>2. CASE Publish(v)
  <2>1. /\ stream' = stream /\ boxes' = boxes /\ publish[v].at = "set"
        /\ publish'[v].at = "sending" /\ publish'[v].targets = Snapshot(BoxOwner[VersionBox[v]])
    BY <1>2, <1>t DEF Publish, PublishRow, boxVars
  <2>2. ASSUME host[d].stream # None, BoxIn(device[d], Shown[d]), VersionBox[v] = Shown[d]
        PROVE  host[d].stream \in publish'[v].targets
    <3>1. host[d].stream \in Streams /\ stream[host[d].stream].dev = d
          /\ stream[host[d].stream].at = "live"
      BY <1>2, <2>2, ReadStream DEF PublishedUnheard
    <3>2. QED
      BY <2>1, <2>2, <3>1 DEF BoxIn, Snapshot, Registered
  <2>3. QED
    BY <1>d, <2>1, <2>2, ToldFrame DEF StillOwes
<1>3. CASE PublishReturns(v)
  <2>1. /\ stream' = stream /\ boxes' = boxes
        /\ publish[v].at = "sending" /\ publish[v].targets = {}
    BY <1>3 DEF PublishReturns, boxVars
  <2>2. QED
    BY <1>d, <2>1, ToldFrame DEF StillOwes
<1>4. ASSUME NEW s \in Streams, Send(v, s)
      PROVE  Told(d)'
  <2>1. PICK q \in Seq(Versions) : q # <<>> /\ stream' = [stream EXCEPT ![s].chan = q]
    BY <1>4, SendRow
  <2>2. CASE host[d].stream = s
    <3>1. stream'[s].chan # <<>>
      BY <2>1 DEF StreamRow
    <3>2. QED
      BY <1>d, <2>2, <3>1 DEF Told, Pending
  <2>3. CASE host[d].stream # s
    <3>1. boxes' = boxes /\ publish'[v].at = publish[v].at /\ publish'[v].targets = publish[v].targets \ {s}
      BY <1>4, <1>t DEF Send, PublishRow, boxVars
    <3>2. host[d].stream # None => stream'[host[d].stream].chan = stream[host[d].stream].chan
      <4>1. host[d].stream \in Streams \cup {None}
        BY DEF HostRow
      <4>2. QED
        BY <2>1, <2>3, <4>1
    <3>3. QED
      BY <1>d, <2>3, <3>1, <3>2, ToldFrame DEF StillOwes
  <2>4. QED
    BY <2>2, <2>3
<1>5. ASSUME NEW s \in Streams, SendPanics(v, s)
      PROVE  Told(d)'
  <2>1. /\ stream' = stream /\ boxes' = boxes /\ publish[v].at = "sending"
        /\ VersionBox[v] = Shown[d] => host[d].stream \notin publish[v].targets
    BY <1>5 DEF SendPanics, PublishPanicked, boxVars
  <2>2. QED
    BY <1>d, <2>1, ToldFrame DEF StillOwes
<1>6. QED
  BY <1>1, <1>2, <1>3, <1>4, <1>5 DEF PublishStep

\* The requests: a record taken from the channel of a stream that is read is on the
\* wire, and a stream dies only when its host reads it no more.
LEMMA ToldByStream ==
  ASSUME TypeOK, Inv, NEW d \in Devices, Told(d), NEW s \in Streams, StreamStep(s)
  PROVE  Told(d)'
<1> USE DEF TypeOK, EventsOK
<1>d. device' = device /\ boxes' = boxes /\ publish' = publish /\ refresh' = refresh
  BY DEF StreamStep, Subscribe, Forward, StreamDies, Unsubscribe, boxVars
<1>s. \A x \in Streams \ {s} : stream'[x] = stream[x]
  BY DEF StreamStep, Subscribe, Forward, StreamDies, Unsubscribe
<1>1. CASE Forward(s) /\ IsRead(s)
  <2>1. stream[s].dev \in Devices
    BY <1>1 DEF Forward, Inv, EventsInv, StreamsInv
  <2>2. CASE stream[s].dev = d
    BY <1>1, <2>2 DEF Forward, HostRow, Told, Pending
  <2>3. CASE stream[s].dev # d
    <3>1. host'[d] = host[d]
      BY <1>1, <2>1, <2>3 DEF Forward
    <3>2. host[d].stream # None => (host[d].stream \in Streams /\ host[d].stream # s)
      BY <2>3, ReadStream
    <3>3. QED
      BY <1>d, <1>s, <3>1, <3>2, ToldFrame DEF StillOwes
  <2>4. QED
    BY <2>2, <2>3
<1>2. CASE ~(Forward(s) /\ IsRead(s))
  <2>1. host' = host
    BY <1>2 DEF StreamStep, Subscribe, Forward, StreamDies, Unsubscribe
  <2>2. ASSUME host[d].stream # None
        PROVE  stream'[host[d].stream].chan = stream[host[d].stream].chan
    <3>1. /\ host[d].stream \in Streams /\ stream[host[d].stream].at \in {"open", "live"}
          /\ stream[host[d].stream].dev = d
      BY <2>2, ReadStream
    <3>2. CASE host[d].stream # s
      BY <1>s, <3>1, <3>2
    <3>3. CASE host[d].stream = s
      <4>1. IsRead(s) /\ stream[s].at \in {"open", "live"}
        BY <3>1, <3>3 DEF IsRead
      <4>2. Subscribe(s)
        BY <1>2, <4>1 DEF StreamStep, StreamDies, Unsubscribe
      <4>3. QED
        BY <3>3, <4>2 DEF Subscribe, StreamRow
    <3>4. QED
      BY <3>2, <3>3
  <2>3. QED
    BY <1>d, <2>1, <2>2, ToldFrame DEF StillOwes
<1>3. QED
  BY <1>1, <1>2

\* A host that runs anew, stops or loses its stream is on none.
LEMMA ToldOffStream ==
  ASSUME TypeOK, Inv, NEW d \in Devices, NEW e \in Devices, Told(d),
         HostStops(e) \/ HostLoses(e) \/ \E r \in Refreshes : HostStarts(e, r)
  PROVE  Told(d)'
<1> USE DEF TypeOK, EventsOK
<1>d. device' = device /\ boxes' = boxes /\ publish' = publish /\ stream' = stream
  BY DEF HostStops, HostLoses, HostStarts, boxVars
<1>1. CASE e = d
  <2>1. PICK h : h.stream = None /\ host' = [host EXCEPT ![d] = h]
    BY <1>1, OffStream
  <2>2. host'[d].stream = None
    BY <2>1
  <2>3. QED
    BY <2>2 DEF Told
<1>2. CASE e # d
  <2>1. host'[d] = host[d] /\ refresh'[d] = refresh[d]
    BY <1>2 DEF HostStops, HostLoses, HostStarts, Ask
  <2>2. QED
    BY <1>d, <2>1, ToldFrame DEF StillOwes
<1>3. QED
  BY <1>1, <1>2

\* A call that is asked is going to read the current version.
LEMMA AskedIsPending ==
  ASSUME EventsOK, NEW d \in Devices, NEW r \in Refreshes, Ask(d, r)
  PROVE  Told(d)'
<1>1. refresh'[d][r].at = "asked"
  BY DEF Ask, EventsOK
<1>2. QED
  BY <1>1 DEF Told, Pending

\* The calls of refresh(): a record heard starts one, its answer is the current
\* version, and it lands.
LEMMA ToldByRefresh ==
  ASSUME TypeOK, Inv, NEW d \in Devices, NEW e \in Devices, NEW r \in Refreshes, Told(d),
         HostHears(e, r) \/ Answer(e, r) \/ RefreshFails(e, r) \/ RefreshLands(e, r),
         ~RefreshLost(d), ~RefreshOvertaken(d)
  PROVE  Told(d)'
<1> USE DEF TypeOK, EventsOK
<1>d. device' = device /\ boxes' = boxes /\ publish' = publish /\ stream' = stream
  BY DEF HostHears, Answer, RefreshFails, RefreshLands, boxVars
<1>1. CASE e # d
  <2>1. host'[d] = host[d] /\ refresh'[d] = refresh[d]
    BY <1>1 DEF HostHears, Answer, RefreshFails, RefreshLands, Ask
  <2>2. QED
    BY <1>d, <2>1, ToldFrame DEF StillOwes
<1>2. CASE HostHears(d, r)
  BY <1>2, AskedIsPending DEF HostHears
<1>3. CASE Answer(d, r)
  <2>1. BoxIn(device[d], Shown[d]) =>
          refresh'[d][r] = [at |-> "answered", got |-> boxes'[Shown[d]].current]
    BY <1>3, <1>d DEF Answer
  <2>2. QED
    BY <1>d, <2>1 DEF Told, Pending, BoxIn
<1>4. CASE RefreshLands(d, r)
  <2>1. refresh[d][r].got = boxes[Shown[d]].current
    BY <1>4 DEF RefreshOvertaken
  <2>2. host'[d].shows = boxes'[Shown[d]].current
    BY <1>4, <1>d, <2>1 DEF RefreshLands, HostRow
  <2>3. QED
    BY <2>2 DEF Told
<1>5. QED
  BY <1>1, <1>2, <1>3, <1>4 DEF RefreshLost

\* A reconnect reads the list; a stream that another device opens is another one.
LEMMA ToldByOpen ==
  ASSUME TypeOK, Inv, NEW d \in Devices, NEW e \in Devices, NEW s \in Streams, Told(d),
         Open(e, s), ~OpenedUnread(d)
  PROVE  Told(d)'
<1> USE DEF TypeOK, EventsOK
<1>1. CASE e = d
  <2>1. \E r \in Refreshes : Ask(d, r)
    BY <1>1 DEF Open, OpenedUnread
  <2>2. QED
    BY <2>1, AskedIsPending
<1>2. CASE e # d
  <2>1. /\ device' = device /\ boxes' = boxes /\ publish' = publish
        /\ host'[d] = host[d] /\ refresh'[d] = refresh[d]
        /\ \A x \in Streams \ {s} : stream'[x] = stream[x]
        /\ stream[s].at = "unused"
    BY <1>2 DEF Open, Ask, Unused, boxVars
  <2>2. host[d].stream # None => (host[d].stream \in Streams /\ host[d].stream # s)
    BY <2>1, ReadStream
  <2>3. QED
    BY <2>1, <2>2, ToldFrame DEF StillOwes
<1>3. QED
  BY <1>1, <1>2

\* The shared tables and the restart: a device on a stream is registered, and after
\* a restart no host has a stream.
LEMMA ToldElsewhere ==
  ASSUME TypeOK, Inv, NEW d \in Devices, Told(d),
         (BoxTableNext /\ UNCHANGED eventVars) \/ Restart
  PROVE  Told(d)'
<1> USE BoxEventsAssumption DEF TypeOK, EventsOK
<1>1. CASE Restart
  BY <1>1 DEF Restart, EventsRestart, HostRow, Told
<1>2. CASE BoxTableNext /\ UNCHANGED eventVars
  <2>1. stream' = stream /\ host' = host /\ publish' = publish /\ refresh' = refresh
    BY <1>2 DEF eventVars
  <2>2. boxes'[Shown[d]].current = boxes[Shown[d]].current
    <3>1. CASE boxes' = boxes
      BY <3>1
    <3>2. ASSUME NEW b \in Boxes, Archive(b)
          PROVE  boxes'[Shown[d]].current = boxes[Shown[d]].current
      <4>1. Shown[d] \in Boxes /\ \A x \in Boxes : boxes[x] \in [state : {"published", "archived"}, current : Versions \cup {None}]
        BY DEF BoxTableOK
      <4>2. boxes' = [boxes EXCEPT ![b].state = "archived"]
        BY <3>2 DEF Archive
      <4>3. QED
        BY <4>1, <4>2 DEF BoxTableOK
    <3>3. QED
      BY <1>2, <3>1, <3>2 DEF BoxTableNext, Register
  <2>3. device[d] # None => device'[d] = device[d]
    BY <1>2 DEF BoxTableNext, Register, Archive, BoxTableOK
  <2>4. CASE host[d].stream = None
    BY <2>1, <2>4 DEF Told
  <2>5. CASE host[d].stream # None
    <3>1. device'[d] = device[d]
      BY <2>3, <2>5 DEF Inv, EventsInv, StreamsInv
    <3>2. QED
      BY <2>1, <2>2, <3>1, ToldFrame DEF StillOwes
  <2>6. QED
    BY <2>4, <2>5
<1>3. QED
  BY <1>1, <1>2

\* A host on a stream comes to show an old version with nothing under way in the five
\* ways of OnlyFiveWaysToMiss only: a full channel, a stream that ends or lingers,
\* concurrent publishes, another host's failure and a restart never leave it so
\* (Events.Publish, boxEvents, BoxEventsClient, BoxRepo.refresh).
THEOREM MissedOnlyFiveWays == Spec => OnlyFiveWaysToMiss
<1> DEFINE Way(d) == \/ OpenedUnread(d) \/ PublishedUnheard(d) \/ PublishPanicked(d)
                     \/ RefreshLost(d) \/ RefreshOvertaken(d)
           A == \A d \in Devices : Told(d) /\ ~Told(d)' => Way(d)
<1>1. TypeOK /\ Inv /\ [Next]_vars => [A]_<<boxVars, eventVars>>
  <2> SUFFICES ASSUME TypeOK, Inv, Next, NEW d \in Devices, Told(d), ~Way(d),
                      ~UNCHANGED <<boxVars, eventVars>>
               PROVE  Told(d)'
    BY DEF vars
  <2>1. CASE \E v \in Versions : PublishStep(v)
    BY <2>1, ToldByPublish
  <2>2. CASE \E s \in Streams : StreamStep(s)
    BY <2>2, ToldByStream
  <2>3. CASE \E e \in Devices : HostStep(e)
    <3>1. PICK e \in Devices : HostStep(e)
      BY <2>3
    <3>2. CASE HostStops(e) \/ HostLoses(e) \/ \E r \in Refreshes : HostStarts(e, r)
      BY <3>2, ToldOffStream
    <3>3. CASE \E r \in Refreshes :
                 HostHears(e, r) \/ Answer(e, r) \/ RefreshFails(e, r) \/ RefreshLands(e, r)
      BY <3>3, ToldByRefresh
    <3>4. CASE \E s \in Streams : Open(e, s)
      BY <3>4, ToldByOpen
    <3>5. QED
      BY <3>1, <3>2, <3>3, <3>4 DEF HostStep
  <2>4. CASE (BoxTableNext /\ UNCHANGED eventVars) \/ Restart
    BY <2>4, ToldElsewhere
  <2>5. CASE UNCHANGED <<boxVars, eventVars>>
    BY <2>5
  <2>6. QED
    BY <2>1, <2>2, <2>3, <2>4, <2>5 DEF Next, EventsNext
<1>2. QED
  BY <1>1, HostsCorrect, PTL DEF Spec, OnlyFiveWaysToMiss

=============================================================================
