--------------------------- MODULE BoxQuotaProofs ---------------------------
(***************************************************************************)
(* Proofs about the two quota gates of BoxPublish (internal/box/quota.go). *)
(* A gate counts what is there and lets the call go on; the call adds to   *)
(* the count later.  What bounds the overshoot is the count together with  *)
(* the calls that may still add to it.                                     *)
(***************************************************************************)
EXTENDS BoxPublishProofs, FiniteSetTheorems

-----------------------------------------------------------------------------
(* Two sets counted together *)

\* Neither grows.
LEMMA CountShrinks ==
  ASSUME NEW A, NEW B, IsFiniteSet(A), IsFiniteSet(B), NEW C \in SUBSET A, NEW D \in SUBSET B
  PROVE  /\ IsFiniteSet(C) /\ IsFiniteSet(D)
         /\ Cardinality(C) + Cardinality(D) <= Cardinality(A) + Cardinality(B)
<1>1. /\ IsFiniteSet(C) /\ Cardinality(C) <= Cardinality(A)
      /\ IsFiniteSet(D) /\ Cardinality(D) <= Cardinality(B)
  BY FS_Subset
<1>2. /\ Cardinality(A) \in Nat /\ Cardinality(B) \in Nat
      /\ Cardinality(C) \in Nat /\ Cardinality(D) \in Nat
  BY <1>1, FS_CardinalityType
<1>3. QED
  BY <1>1, <1>2

\* One grows by an element while the other loses one.
LEMMA CountMoves ==
  ASSUME NEW A, NEW B, IsFiniteSet(A), IsFiniteSet(B), NEW x, NEW y \in B,
         NEW C \in SUBSET (A \cup {x}), NEW D \in SUBSET (B \ {y})
  PROVE  /\ IsFiniteSet(C) /\ IsFiniteSet(D)
         /\ Cardinality(C) + Cardinality(D) <= Cardinality(A) + Cardinality(B)
<1>1. /\ IsFiniteSet(A \cup {x}) /\ Cardinality(A) \in Nat
      /\ Cardinality(A \cup {x}) <= Cardinality(A) + 1
  <2>1. CASE x \in A
    <3>1. A \cup {x} = A /\ Cardinality(A) \in Nat
      BY <2>1, FS_CardinalityType
    <3>2. QED
      BY <3>1
  <2>2. CASE x \notin A
    <3>1. IsFiniteSet(A \cup {x}) /\ Cardinality(A \cup {x}) = Cardinality(A) + 1
      BY <2>2, FS_AddElement
    <3>2. Cardinality(A) \in Nat
      BY FS_CardinalityType
    <3>3. QED
      BY <3>1, <3>2
  <2>3. QED
    BY <2>1, <2>2
<1>2. /\ IsFiniteSet(B \ {y}) /\ Cardinality(B) \in Nat
      /\ Cardinality(B \ {y}) = Cardinality(B) - 1
  BY FS_RemoveElement, FS_CardinalityType
<1>3. /\ IsFiniteSet(C) /\ IsFiniteSet(D)
      /\ Cardinality(C) + Cardinality(D) <= Cardinality(A \cup {x}) + Cardinality(B \ {y})
  BY <1>1, <1>2, CountShrinks
<1>4. /\ Cardinality(A \cup {x}) \in Nat /\ Cardinality(B \ {y}) \in Nat
      /\ Cardinality(C) \in Nat /\ Cardinality(D) \in Nat
  BY <1>1, <1>2, <1>3, FS_CardinalityType
<1>5. QED
  BY <1>1, <1>2, <1>3, <1>4

\* One gains at most an element for each element of the other.
LEMMA CountCovers ==
  ASSUME NEW A, NEW B, IsFiniteSet(A), IsFiniteSet(B), NEW f,
         NEW C \in SUBSET (A \cup {f[y] : y \in B})
  PROVE  IsFiniteSet(C) /\ Cardinality(C) <= Cardinality(A) + Cardinality(B)
<1> DEFINE I == {f[y] : y \in B}
<1>1. IsFiniteSet(I) /\ Cardinality(I) <= Cardinality(B)
  <2>1. PICK g : g = [y \in B |-> f[y]]
    OBVIOUS
  <2>2. g \in Surjection(B, I)
    BY <2>1 DEF Surjection
  <2>3. QED
    BY <2>2, FS_Surjection
<1> HIDE DEF I
<1>2. /\ IsFiniteSet(A \cup I)
      /\ Cardinality(A \cup I) = Cardinality(A) + Cardinality(I) - Cardinality(A \cap I)
  BY <1>1, FS_Union
<1>3. IsFiniteSet(A \cap I)
  BY FS_Intersection
<1>4. /\ Cardinality(A) \in Nat /\ Cardinality(I) \in Nat /\ Cardinality(B) \in Nat
      /\ Cardinality(A \cap I) \in Nat /\ Cardinality(A \cup I) \in Nat
  BY <1>1, <1>2, <1>3, FS_CardinalityType
<1>5. IsFiniteSet(C) /\ Cardinality(C) <= Cardinality(A \cup I)
  BY <1>2, FS_Subset DEF I
<1>6. Cardinality(C) \in Nat
  BY <1>5, FS_CardinalityType
<1>7. QED
  BY <1>1, <1>2, <1>4, <1>5, <1>6

\* A month never starts earlier than it did: it starts a whole number of months after 0,
\* and that number does not fall.
LEMMA MonthsPass ==
  ASSUME NEW t \in Nat
  PROVE  MonthStart(t) \in Int /\ MonthStart(t) <= MonthStart(t + 1)
<1>1. PICK M \in Nat \ {0} : M = MonthLength
  BY ConstantsAssumption
<1>2. PICK q \in Int, r \in 0..(M - 1) : t = M * q + r /\ r = t % M
  <2>1. t \div M \in Int /\ t % M \in 0..(M - 1) /\ t = M * (t \div M) + (t % M)
    OBVIOUS
  <2>2. QED
    BY <2>1
<1>3. PICK p \in Int, s \in 0..(M - 1) : t + 1 = M * p + s /\ s = (t + 1) % M
  <2>1. PICK u \in Nat : u = t + 1
    OBVIOUS
  <2>2. u \div M \in Int /\ u % M \in 0..(M - 1) /\ u = M * (u \div M) + (u % M)
    OBVIOUS
  <2>3. QED
    BY <2>1, <2>2
<1>4. q <= p
  <2> SUFFICES ASSUME p <= q - 1
               PROVE  FALSE
    OBVIOUS
  <2>1. PICK d \in Nat : d = q - 1 - p
    OBVIOUS
  <2>2. M * d \in Nat /\ M * q = M * p + M + M * d
    BY <2>1
  <2>3. M * q \in Int /\ M * p \in Int
    OBVIOUS
  <2>4. QED
    BY <1>2, <1>3, <2>2, <2>3
<1>5. M * q \in Int /\ M * p \in Int /\ M * q <= M * p
  BY <1>4
<1>6. MonthStart(t) = M * q /\ MonthStart(t + 1) = M * p
  <2>1. MonthStart(t) = t - r /\ MonthStart(t + 1) = (t + 1) - s
    BY <1>1, <1>2, <1>3 DEF MonthStart
  <2>2. QED
    BY <1>2, <1>3, <1>5, <2>1
<1>7. QED
  BY <1>5, <1>6

-----------------------------------------------------------------------------
(* What is counted *)

\* A call on its way from the gate to the last write of its bundle row.
Counted == {"get"} \cup Pending \cup Building

\* The calls of a namespace that the gate let through and whose row may still come into
\* the month, and the rows of the month that no such call holds any more.
Waiting(n) == {c \in Callers : call[c].ns = n /\ call[c].pc \in Counted}
BuiltNow(n) ==
  {v \in Versions :
    /\ bundles[v].state # "absent"
    /\ boxes[bundles[v].box].ns = n
    /\ bundles[v].built >= MonthStart(now)}
Left(n) == {v \in BuiltNow(n) : \A c \in Callers : call[c].pc \in Building => call[c].version # v}

\* A call that holds a box row it read before the box was published, and so will set its
\* state, whatever the state is then.
Holds(c, b) ==
  /\ call[c].box = b /\ call[c].state # "published"
  /\ call[c].pc \in Pending \cup Building \cup {"set_current", "set_state"}

\* The boxes of a namespace that are active or may become so, and its pending inserts.
Active(n) == {b \in Boxes : boxes[b].ns = n /\ boxes[b].state # "archived"}
Revivable(n) ==
  {b \in Boxes : /\ boxes[b].ns = n
                 /\ boxes[b].state # "archived" \/ \E c \in Callers : Holds(c, b)}
Inserting(n) == {k \in Creators : creating[k] = n}

\* A row belongs to a box that is there; a call works in the namespace of its box, and
\* the row it has written says so.
HomeInv ==
  /\ \A v \in Versions : bundles[v].state # "absent" => boxes[bundles[v].box].state # "absent"
  /\ \A c \in Callers :
       /\ call[c].pc \in Pending \cup Building => boxes[call[c].box].ns = call[c].ns
       /\ call[c].pc \in Building => bundles[call[c].version].box = call[c].box
       /\ call[c].pc = "set_state" => call[c].state # "published"

\* The overshoot: at a gate the count is below the cap, and every caller but the one at
\* the gate may be on its way already.
RunsBounded(n) ==
  /\ IsFiniteSet(Left(n))
  /\ Cardinality(Left(n)) + Cardinality(Waiting(n)) <= SandboxCap + Cardinality(Callers) - 1

SlotsBounded(n) ==
  /\ IsFiniteSet(Revivable(n))
  /\ Cardinality(Revivable(n)) + Cardinality(Inserting(n))
       <= ActiveBoxCap + Cardinality(Creators) + Cardinality(Callers) - 1

RunsInv == SandboxCap >= 0 => \A n \in Namespaces : RunsBounded(n)
SlotsInv == ActiveBoxCap >= 0 => \A n \in Namespaces : SlotsBounded(n)

QuotaInv == HomeInv /\ RunsInv /\ SlotsInv

-----------------------------------------------------------------------------
(* What a step of BuildAndPublish means for the counts *)

\* The call keeps its place among those that are counted: before the row, while it is
\* running, or neither.
Onward(c) ==
  /\ call[c].pc \in Counted <=> call'[c].pc \in Counted
  /\ call[c].pc \in Building <=> call'[c].pc \in Building
  /\ call'[c].ns = call[c].ns /\ call'[c].box = call[c].box
  /\ call[c].pc = "get" \/ call'[c].version = call[c].version
  /\ call[c].pc = "get" => boxes[call[c].box].ns = call[c].ns
  /\ UNCHANGED bundles

\* It writes the row it will hold from now on.
Starts(c) ==
  /\ call[c].pc = "put_running" /\ call'[c].pc = "build"
  /\ call'[c].ns = call[c].ns /\ call'[c].box = call[c].box /\ call'[c].version = call[c].version
  /\ \E row \in BundleRow : /\ row.box = call[c].box /\ row.state = "running"
                            /\ bundles' = [bundles EXCEPT ![call[c].version] = row]

\* It is not counted any more, and may have written its row a last time.
Settles(c) ==
  /\ call[c].pc \in Counted
  /\ \/ call'[c].pc = "idle"
     \/ call'[c].pc = "set_current" /\ call'[c].box = call[c].box
  /\ \/ UNCHANGED bundles
     \/ /\ call[c].pc \in Building
        /\ \E row \in BundleRow : /\ row.box = call[c].box /\ row.state # "absent"
                                  /\ bundles' = [bundles EXCEPT ![call[c].version] = row]

\* It was not counted.
After(c) ==
  /\ call[c].pc \notin Counted /\ call'[c].pc \notin Counted
  /\ UNCHANGED bundles

\* What it means for the box: a call takes hold of a box that is not archived, and only
\* a call that has hold of a box brings it back.
HoldsStep(c) ==
  /\ call'[c].pc = "set_state" => call'[c].state # "published"
  /\ \A b \in Boxes : Holds(c, b)' => Holds(c, b) \/ boxes[b].state # "archived"
  /\ \A b \in Boxes : /\ boxes'[b].ns = boxes[b].ns
                      /\ boxes'[b].state # "archived" => boxes[b].state # "archived" \/ Holds(c, b)

\* One step of a call is one of these.
LEMMA StepShape ==
  ASSUME TypeOK, TypeOK', PublishInv, HomeInv, NEW c \in Callers, PublishStep(c)
  PROVE  /\ \A d \in Callers \ {c} : call'[d] = call[d]
         /\ UNCHANGED <<creating, now>>
         /\ Onward(c) \/ Starts(c) \/ Settles(c) \/ After(c)
         /\ HoldsStep(c)
<1> DEFINE p == call[c]
<1>p. p \in Call /\ call \in [Callers -> Call] /\ call' \in [Callers -> Call]
  BY DEF TypeOK
<1>i. CallInv(c)
  BY DEF PublishInv
<1>r. Return(c) => /\ \A d \in Callers \ {c} : call'[d] = call[d]
                   /\ call'[c].pc = "idle" /\ call'[c].box = None
  BY <1>p DEF Return, Become, NoCall
<1>g. \A x \in PCs : Goto(c, x) =>
        /\ \A d \in Callers \ {c} : call'[d] = call[d]
        /\ call'[c].pc = x /\ call'[c].ns = p.ns /\ call'[c].box = p.box
        /\ call'[c].version = p.version /\ call'[c].state = p.state
  BY <1>p DEF Goto, Become, Call
<1>b. UNCHANGED boxes /\ (call'[c].pc = "idle" \/
        (/\ call'[c].box = p.box /\ call'[c].state = p.state /\ call'[c].pc # "set_state"
         /\ p.pc \in Pending \cup Building))
        => HoldsStep(c)
  BY DEF HoldsStep, Holds, Pending, Building
<1>q. UNCHANGED bundles /\ p.pc \in Counted /\ Return(c) => Settles(c) /\ (UNCHANGED boxes => HoldsStep(c))
  BY <1>r, <1>b DEF Settles
<1>1. CASE GetBox(c)
  <2>1. p.pc = "get" /\ UNCHANGED <<boxes, bundles, creating, now>> /\ p.pc \in Counted
    BY <1>1 DEF GetBox, At, Counted
  <2>2. CASE Return(c)
    BY <1>q, <1>r, <2>1, <2>2
  <2>3. CASE ~Return(c)
    <3>1. PICK v \in Versions, x \in {"snapshot", "commit"} :
            /\ boxes[p.box].ns = p.ns /\ boxes[p.box].state # "archived"
            /\ Become(c, [p EXCEPT !.pc = x, !.state = boxes[p.box].state, !.version = v])
      BY <1>1, <2>3 DEF GetBox, Fail
    <3>2. /\ \A d \in Callers \ {c} : call'[d] = call[d]
          /\ call'[c].pc = x /\ call'[c].ns = p.ns /\ call'[c].box = p.box
      BY <1>p, <3>1 DEF Become, Call
    <3>3. Onward(c)
      BY <2>1, <3>1, <3>2 DEF Onward, Counted, Pending, Building
    <3>4. HoldsStep(c)
      BY <2>1, <3>1, <3>2 DEF HoldsStep, Holds
    <3>5. QED
      BY <2>1, <3>2, <3>3, <3>4
  <2>4. QED
    BY <2>2, <2>3
<1>2. CASE CommitFiles(c)
  <2>1. p.pc = "commit" /\ UNCHANGED <<boxes, bundles, creating, now>> /\ p.pc \in Counted
    BY <1>2 DEF CommitFiles, At, Counted, Pending
  <2>2. CASE Return(c)
    BY <1>q, <1>r, <2>1, <2>2
  <2>3. CASE Goto(c, "snapshot")
    BY <1>b, <1>g, <2>1, <2>3 DEF Onward, Counted, Pending, Building, PCs
  <2>4. QED
    BY <1>2, <2>2, <2>3 DEF CommitFiles, Fail
<1>3. CASE Snapshot(c)
  <2>1. p.pc = "snapshot" /\ UNCHANGED <<boxes, bundles, creating, now>> /\ p.pc \in Counted
    BY <1>3 DEF Snapshot, At, Counted, Pending
  <2>2. CASE Return(c)
    BY <1>q, <1>r, <2>1, <2>2
  <2>3. CASE ~Return(c)
    <3>1. Become(c, [p EXCEPT !.pc = "put_running", !.files = repo[p.box].head])
      BY <1>3, <2>3 DEF Snapshot, Fail
    <3>2. /\ \A d \in Callers \ {c} : call'[d] = call[d]
          /\ call'[c].pc = "put_running" /\ call'[c].ns = p.ns /\ call'[c].box = p.box
          /\ call'[c].version = p.version /\ call'[c].state = p.state
      BY <1>p, <3>1 DEF Become, Call
    <3>3. QED
      BY <1>b, <2>1, <3>2 DEF Onward, Counted, Pending, Building
  <2>4. QED
    BY <2>2, <2>3
<1>4. CASE PutRunning(c)
  <2>1. p.pc = "put_running" /\ UNCHANGED <<boxes, creating, now>> /\ p.pc \in Counted
    BY <1>4 DEF PutRunning, At, Counted, Pending
  <2>2. CASE Return(c) /\ UNCHANGED bundles
    BY <1>q, <1>r, <2>1, <2>2
  <2>3. CASE PutBundle(c, "running", None) /\ Goto(c, "build")
    <3>1. PICK row : row = [box |-> p.box, state |-> "running", hash |-> None, built |-> now]
      OBVIOUS
    <3>2. row \in BundleRow
      BY <1>i, <2>1, <3>1 DEF CallInv, BundleRow, BuildStates, TypeOK
    <3>3. bundles' = [bundles EXCEPT ![p.version] = row]
      BY <2>3, <3>1 DEF PutBundle
    <3>4. Starts(c)
      BY <1>g, <2>1, <2>3, <3>1, <3>2, <3>3 DEF Starts, PCs
    <3>5. HoldsStep(c)
      BY <1>b, <1>g, <2>1, <2>3 DEF PCs, Pending
    <3>6. QED
      BY <1>g, <2>1, <2>3, <3>4, <3>5 DEF PCs
  <2>4. QED
    BY <1>4, <2>2, <2>3 DEF PutRunning, Fail
<1>5. CASE Build(c)
  <2>1. p.pc = "build" /\ UNCHANGED <<boxes, bundles, creating, now>> /\ p.pc \in Counted
    BY <1>5 DEF Build, At, Counted, Building
  <2>2. CASE Goto(c, "put_failed")
    BY <1>b, <1>g, <2>1, <2>2 DEF Onward, Counted, Pending, Building, PCs
  <2>3. CASE ~Goto(c, "put_failed")
    <3>1. Become(c, [p EXCEPT !.pc = "upload", !.bytes = Bundle(p.files)])
      BY <1>5, <2>3 DEF Build
    <3>2. /\ \A d \in Callers \ {c} : call'[d] = call[d]
          /\ call'[c].pc = "upload" /\ call'[c].ns = p.ns /\ call'[c].box = p.box
          /\ call'[c].version = p.version /\ call'[c].state = p.state
      BY <1>p, <3>1 DEF Become, Call
    <3>3. QED
      BY <1>b, <2>1, <3>2 DEF Onward, Counted, Pending, Building
  <2>4. QED
    BY <2>2, <2>3
<1>6. CASE Upload(c)
  <2>1. p.pc = "upload" /\ UNCHANGED <<boxes, bundles, creating, now>> /\ p.pc \in Counted
    BY <1>6 DEF Upload, At, Counted, Building
  <2>2. CASE Goto(c, "put_failed")
    BY <1>b, <1>g, <2>1, <2>2 DEF Onward, Counted, Pending, Building, PCs
  <2>3. CASE Goto(c, "sign")
    BY <1>b, <1>g, <2>1, <2>3 DEF Onward, Counted, Pending, Building, PCs
  <2>4. QED
    BY <1>6, <2>2, <2>3 DEF Upload
<1>7. CASE PutFailed(c)
  <2>1. /\ p.pc = "put_failed" /\ UNCHANGED <<boxes, creating, now>> /\ p.pc \in Counted
        /\ p.pc \in Building /\ Return(c)
    BY <1>7 DEF PutFailed, At, Counted, Building
  <2>2. CASE UNCHANGED bundles
    BY <1>q, <1>r, <2>1, <2>2
  <2>3. CASE PutBundle(c, "failed", None)
    <3>1. PICK row : row = [box |-> p.box, state |-> "failed", hash |-> None, built |-> now]
      OBVIOUS
    <3>2. row \in BundleRow
      BY <1>i, <2>1, <3>1 DEF CallInv, BundleRow, BuildStates, TypeOK
    <3>3. bundles' = [bundles EXCEPT ![p.version] = row]
      BY <2>3, <3>1 DEF PutBundle
    <3>4. Settles(c)
      BY <1>r, <2>1, <3>1, <3>2, <3>3 DEF Settles
    <3>5. QED
      BY <1>b, <1>r, <2>1, <3>4
  <2>4. QED
    BY <1>7, <2>2, <2>3 DEF PutFailed
<1>8. CASE SignURL(c)
  <2>1. p.pc = "sign" /\ UNCHANGED <<boxes, bundles, creating, now>> /\ p.pc \in Counted
    BY <1>8 DEF SignURL, At, Counted, Building
  <2>2. CASE Return(c)
    BY <1>q, <1>r, <2>1, <2>2
  <2>3. CASE Goto(c, "put_succeeded")
    BY <1>b, <1>g, <2>1, <2>3 DEF Onward, Counted, Pending, Building, PCs
  <2>4. QED
    BY <1>8, <2>2, <2>3 DEF SignURL, Fail
<1>9. CASE PutSucceeded(c)
  <2>1. /\ p.pc = "put_succeeded" /\ UNCHANGED <<boxes, creating, now>> /\ p.pc \in Counted
        /\ p.pc \in Building
    BY <1>9 DEF PutSucceeded, At, Counted, Building
  <2>2. CASE Return(c) /\ UNCHANGED bundles
    BY <1>q, <1>r, <2>1, <2>2
  <2>3. CASE PutBundle(c, "succeeded", p.bytes) /\ Goto(c, "set_current")
    <3>1. PICK row : row = [box |-> p.box, state |-> "succeeded", hash |-> p.bytes, built |-> now]
      OBVIOUS
    <3>2. row \in BundleRow
      BY <1>i, <1>p, <2>1, <3>1 DEF CallInv, BundleRow, BuildStates, TypeOK, Call
    <3>3. bundles' = [bundles EXCEPT ![p.version] = row]
      BY <2>3, <3>1 DEF PutBundle
    <3>4. Settles(c)
      BY <1>g, <2>1, <2>3, <3>1, <3>2, <3>3 DEF Settles, PCs
    <3>5. HoldsStep(c)
      BY <1>b, <1>g, <2>1, <2>3 DEF PCs
    <3>6. QED
      BY <1>g, <2>1, <2>3, <3>4, <3>5 DEF PCs
  <2>4. QED
    BY <1>9, <2>2, <2>3 DEF PutSucceeded, Fail
<1>10. CASE SetCurrentVersion(c)
  <2>1. p.pc = "set_current" /\ UNCHANGED <<bundles, creating, now>> /\ p.pc \notin Counted
    BY <1>10 DEF SetCurrentVersion, At, Counted, Pending, Building
  <2>2. CASE Return(c) /\ UNCHANGED boxes
    BY <1>b, <1>r, <2>1, <2>2 DEF After, Counted, Pending, Building
  <2>3. CASE ~(Return(c) /\ UNCHANGED boxes)
    <3>1. PICK x \in {"set_state", "announce"} :
            /\ Goto(c, x) /\ x = IF p.state # "published" THEN "set_state" ELSE "announce"
            /\ boxes' = [boxes EXCEPT ![p.box].current = p.version]
      BY <1>10, <2>3 DEF SetCurrentVersion, Fail
    <3>2. /\ \A d \in Callers \ {c} : call'[d] = call[d]
          /\ call'[c].pc = x /\ call'[c].box = p.box /\ call'[c].state = p.state
      BY <1>g, <3>1 DEF PCs
    <3>3. \A b \in Boxes : boxes'[b].ns = boxes[b].ns /\ boxes'[b].state = boxes[b].state
      BY <3>1 DEF TypeOK, BoxRow
    <3>4. After(c)
      BY <2>1, <3>2 DEF After, Counted, Pending, Building
    <3>5. HoldsStep(c)
      BY <2>1, <3>1, <3>2, <3>3 DEF HoldsStep, Holds
    <3>6. QED
      BY <2>1, <3>2, <3>4, <3>5
  <2>4. QED
    BY <2>2, <2>3
<1>11. CASE SetPublished(c)
  <2>1. p.pc = "set_state" /\ UNCHANGED <<bundles, creating, now>> /\ p.pc \notin Counted
    BY <1>11 DEF SetPublished, At, Counted, Pending, Building
  <2>2. CASE Return(c) /\ UNCHANGED boxes
    BY <1>b, <1>r, <2>1, <2>2 DEF After, Counted, Pending, Building
  <2>3. CASE ~(Return(c) /\ UNCHANGED boxes)
    <3>1. Goto(c, "announce") /\ boxes' = [boxes EXCEPT ![p.box].state = "published"]
      BY <1>11, <2>3 DEF SetPublished, Fail
    <3>2. /\ \A d \in Callers \ {c} : call'[d] = call[d]
          /\ call'[c].pc = "announce"
      BY <1>g, <3>1 DEF PCs
    <3>3. Holds(c, p.box)
      BY <2>1 DEF HomeInv, Holds
    <3>4. \A b \in Boxes : /\ boxes'[b].ns = boxes[b].ns
                           /\ b # p.box => boxes'[b].state = boxes[b].state
      BY <3>1 DEF TypeOK, BoxRow
    <3>5. After(c)
      BY <2>1, <3>2 DEF After, Counted, Pending, Building
    <3>6. HoldsStep(c)
      BY <3>2, <3>3, <3>4 DEF HoldsStep, Holds, Pending, Building
    <3>7. QED
      BY <2>1, <3>2, <3>5, <3>6
  <2>4. QED
    BY <2>2, <2>3
<1>12. CASE Announce(c)
  <2>1. /\ p.pc = "announce" /\ UNCHANGED <<boxes, bundles, creating, now>> /\ p.pc \notin Counted
        /\ Return(c)
    BY <1>12 DEF Announce, At, Counted, Pending, Building
  <2>2. QED
    BY <1>b, <1>r, <2>1 DEF After, Counted, Pending, Building
<1>13. QED
  BY <1>1, <1>2, <1>3, <1>4, <1>5, <1>6, <1>7, <1>8, <1>9, <1>10, <1>11, <1>12 DEF PublishStep

-----------------------------------------------------------------------------
(* Where rows and calls belong *)

\* A step of a call.
LEMMA HomeStep ==
  ASSUME TypeOK, TypeOK', PublishInv, HomeInv, BoxesGrow, NEW c \in Callers, PublishStep(c)
  PROVE  HomeInv'
<1>1. /\ \A d \in Callers \ {c} : call'[d] = call[d]
      /\ Onward(c) \/ Starts(c) \/ Settles(c) \/ After(c)
      /\ HoldsStep(c)
  BY StepShape
<1>2. \A b \in Boxes : boxes'[b].ns = boxes[b].ns
  BY <1>1 DEF HoldsStep
<1>3. \A d \in Callers : call[d].pc \in Counted =>
        /\ call[d].box \in Boxes
        /\ call[d].pc \in Pending \cup Building => /\ call[d].version \in Versions
                                                   /\ boxes[call[d].box].state # "absent"
  BY DEF PublishInv, CallInv, Counted, Pending, Building
<1>4. bundles' = bundles \/ \E row \in BundleRow :
        /\ row.box = call[c].box /\ row.state # "absent"
        /\ call[c].pc \in Pending \cup Building
        /\ bundles' = [bundles EXCEPT ![call[c].version] = row]
  BY <1>1 DEF Onward, Starts, Settles, After, Pending
<1>5. \A v \in Versions : bundles'[v].state # "absent" => boxes'[bundles'[v].box].state # "absent"
  <2> SUFFICES ASSUME NEW v \in Versions, bundles'[v].state # "absent"
               PROVE  boxes'[bundles'[v].box].state # "absent"
    OBVIOUS
  <2>1. CASE bundles'[v] = bundles[v]
    <3>1. bundles[v].box \in Boxes /\ boxes[bundles[v].box].state # "absent"
      BY <2>1 DEF HomeInv, PublishInv
    <3>2. QED
      BY <2>1, <3>1 DEF BoxesGrow
  <2>2. CASE bundles'[v] # bundles[v]
    <3>1. PICK row \in BundleRow :
            /\ row.box = call[c].box /\ call[c].pc \in Pending \cup Building
            /\ bundles' = [bundles EXCEPT ![call[c].version] = row]
      BY <1>4, <2>2
    <3>2. v = call[c].version /\ bundles'[v].box = call[c].box
      BY <2>2, <3>1 DEF TypeOK
    <3>3. boxes[call[c].box].state # "absent" /\ call[c].box \in Boxes
      BY <1>3, <3>1 DEF Counted
    <3>4. QED
      BY <3>2, <3>3 DEF BoxesGrow
  <2>3. QED
    BY <2>1, <2>2
<1>6. ASSUME NEW d \in Callers, d # c
      PROVE  /\ call'[d].pc \in Pending \cup Building => boxes'[call'[d].box].ns = call'[d].ns
             /\ call'[d].pc \in Building => bundles'[call'[d].version].box = call'[d].box
             /\ call'[d].pc = "set_state" => call'[d].state # "published"
  <2>1. call'[d] = call[d]
    BY <1>1, <1>6
  <2>2. call[d].pc \in Pending \cup Building => boxes'[call[d].box].ns = call[d].ns
    BY <1>2, <1>3 DEF HomeInv, Counted
  <2>3. ASSUME call[d].pc \in Building
        PROVE  bundles'[call[d].version].box = call[d].box
    <3>1. call[d].version \in Versions /\ call[d].version # call[c].version
      BY <1>3, <1>6, <2>3, ConstantsAssumption DEF PublishInv, DistinctVersions, Counted
    <3>2. bundles'[call[d].version] = bundles[call[d].version]
      BY <1>4, <3>1 DEF TypeOK
    <3>3. QED
      BY <2>3, <3>2 DEF HomeInv
  <2>4. QED
    BY <2>1, <2>2, <2>3 DEF HomeInv
<1>7. /\ call'[c].pc \in Pending \cup Building => boxes'[call'[c].box].ns = call'[c].ns
      /\ call'[c].pc \in Building => bundles'[call'[c].version].box = call'[c].box
  <2>1. CASE Onward(c)
    <3>1. call'[c].pc \in Pending \cup Building => call[c].pc \in Counted
      BY <2>1 DEF Onward, Counted
    <3>2. call[c].pc \in Counted => boxes[call[c].box].ns = call[c].ns
      BY <2>1 DEF Onward, Counted, HomeInv
    <3>3. call'[c].pc \in Building => call[c].pc \in Building /\ call[c].pc # "get"
      BY <2>1 DEF Onward, Building
    <3>4. QED
      BY <1>2, <1>3, <2>1, <3>1, <3>2, <3>3 DEF Onward, HomeInv
  <2>2. CASE Starts(c)
    <3>1. call[c].pc \in Pending /\ call[c].pc \in Counted /\ call'[c].pc = "build"
      BY <2>2 DEF Starts, Pending, Counted
    <3>2. boxes'[call'[c].box].ns = call'[c].ns
      BY <1>2, <1>3, <2>2, <3>1 DEF Starts, HomeInv
    <3>3. call[c].version \in Versions
      BY <1>3, <3>1
    <3>4. bundles'[call'[c].version].box = call'[c].box
      BY <2>2, <3>3 DEF Starts, TypeOK
    <3>5. QED
      BY <3>2, <3>4
  <2>3. CASE Settles(c)
    BY <2>3 DEF Settles, Pending, Building
  <2>4. CASE After(c)
    BY <2>4 DEF After, Counted
  <2>5. QED
    BY <1>1, <2>1, <2>2, <2>3, <2>4
<1>8. call'[c].pc = "set_state" => call'[c].state # "published"
  BY <1>1 DEF HoldsStep
<1>9. QED
  BY <1>5, <1>6, <1>7, <1>8 DEF HomeInv

\* A step that writes no bundle row and moves no call out of "idle" or "get".
LEMMA HomeFrame ==
  ASSUME TypeOK, TypeOK', PublishInv, HomeInv, BoxesGrow, UNCHANGED bundles,
         \A b \in Boxes : boxes[b].state # "absent" => boxes'[b].ns = boxes[b].ns,
         \A d \in Callers : call'[d] = call[d] \/ call'[d].pc \in {"idle", "get"}
  PROVE  HomeInv'
<1>1. \A v \in Versions : bundles'[v].state # "absent" => boxes'[bundles'[v].box].state # "absent"
  <2> SUFFICES ASSUME NEW v \in Versions, bundles[v].state # "absent"
               PROVE  boxes'[bundles[v].box].state # "absent"
    OBVIOUS
  <2>1. bundles[v].box \in Boxes /\ boxes[bundles[v].box].state # "absent"
    BY DEF HomeInv, PublishInv
  <2>2. QED
    BY <2>1 DEF BoxesGrow
<1>2. ASSUME NEW d \in Callers
      PROVE  /\ call'[d].pc \in Pending \cup Building => boxes'[call'[d].box].ns = call'[d].ns
             /\ call'[d].pc \in Building => bundles'[call'[d].version].box = call'[d].box
             /\ call'[d].pc = "set_state" => call'[d].state # "published"
  <2>1. CASE call'[d].pc \in {"idle", "get"}
    BY <2>1 DEF Pending, Building
  <2>2. CASE call'[d] = call[d]
    <3>1. call[d].pc \in Pending \cup Building =>
            call[d].box \in Boxes /\ boxes[call[d].box].state # "absent"
      BY DEF PublishInv, CallInv, Pending, Building
    <3>2. QED
      BY <2>2, <3>1 DEF HomeInv
  <2>3. QED
    BY <2>1, <2>2
<1>3. QED
  BY <1>1, <1>2 DEF HomeInv

-----------------------------------------------------------------------------
(* Builds of a month *)

\* Every row of the month is one that no call holds, or the version of a waiting call.
LEMMA RowsCovered ==
  ASSUME TypeOK, HomeInv, NEW n \in Namespaces
  PROVE  BuiltNow(n) \subseteq Left(n) \cup {call[c].version : c \in Waiting(n)}
<1> SUFFICES ASSUME NEW v \in BuiltNow(n), v \notin Left(n)
             PROVE  v \in {call[c].version : c \in Waiting(n)}
  OBVIOUS
<1>1. PICK c \in Callers : call[c].pc \in Building /\ call[c].version = v
  BY DEF Left
<1>2. bundles[v].box = call[c].box /\ boxes[call[c].box].ns = call[c].ns
  BY <1>1 DEF HomeInv
<1>3. c \in Waiting(n)
  BY <1>1, <1>2 DEF Waiting, Counted, BuiltNow
<1>4. QED
  BY <1>1, <1>3

\* So the sum bounds the count that the gate makes.
LEMMA RunsCounted ==
  ASSUME TypeOK, HomeInv, NEW n \in Namespaces, IsFiniteSet(Left(n))
  PROVE  /\ IsFiniteSet(BuiltNow(n)) /\ IsFiniteSet(Waiting(n))
         /\ SandboxRuns(n) = Cardinality(BuiltNow(n)) /\ SandboxRuns(n) \in Nat
         /\ SandboxRuns(n) <= Cardinality(Left(n)) + Cardinality(Waiting(n))
<1>1. IsFiniteSet(Waiting(n))
  <2>1. Waiting(n) \subseteq Callers
    BY DEF Waiting
  <2>2. QED
    BY <2>1, ConcurrencyAssumption, FS_Subset
<1>2. PICK f : f = [c \in Callers |-> call[c].version]
  OBVIOUS
<1>3. {call[c].version : c \in Waiting(n)} = {f[c] : c \in Waiting(n)}
  BY <1>2 DEF Waiting
<1>4. BuiltNow(n) \in SUBSET (Left(n) \cup {f[c] : c \in Waiting(n)})
  BY <1>3, RowsCovered
<1>5. /\ IsFiniteSet(BuiltNow(n))
      /\ Cardinality(BuiltNow(n)) <= Cardinality(Left(n)) + Cardinality(Waiting(n))
  BY <1>1, <1>4, CountCovers
<1>6. SandboxRuns(n) = Cardinality(BuiltNow(n))
  BY DEF SandboxRuns, BuiltNow
<1>7. QED
  BY <1>1, <1>5, <1>6, FS_CardinalityType

\* The callers are some, but finitely many.
LEMMA CallersCounted ==
  /\ Cardinality(Callers) \in Nat /\ Cardinality(Callers) >= 1
  /\ Cardinality(Creators) \in Nat
<1>1. Cardinality(Callers) \in Nat /\ Cardinality(Creators) \in Nat
  BY ConcurrencyAssumption, FS_CardinalityType
<1>2. Cardinality(Callers) # 0
  BY ConcurrencyAssumption, FS_EmptySet
<1>3. QED
  BY <1>1, <1>2

\* The bound is kept when neither set grows ...
LEMMA RunsShrink ==
  ASSUME NEW n, RunsBounded(n),
         Left(n)' \subseteq Left(n), Waiting(n)' \subseteq Waiting(n)
  PROVE  RunsBounded(n)'
<1>1. IsFiniteSet(Left(n)) /\ IsFiniteSet(Waiting(n))
  <2>1. Waiting(n) \subseteq Callers
    BY DEF Waiting
  <2>2. QED
    BY <2>1, ConcurrencyAssumption, FS_Subset DEF RunsBounded
<1>2. /\ IsFiniteSet(Left(n)') /\ IsFiniteSet(Waiting(n)')
      /\ Cardinality(Left(n)') + Cardinality(Waiting(n)') <= Cardinality(Left(n)) + Cardinality(Waiting(n))
  BY <1>1, CountShrinks
<1>3. /\ Cardinality(Left(n)) \in Nat /\ Cardinality(Waiting(n)) \in Nat
      /\ Cardinality(Left(n)') \in Nat /\ Cardinality(Waiting(n)') \in Nat
      /\ Cardinality(Callers) \in Nat /\ SandboxCap \in Int
  BY <1>1, <1>2, FS_CardinalityType, CallersCounted, ConstantsAssumption
<1>4. QED
  BY <1>2, <1>3 DEF RunsBounded

\* ... and when a call stops waiting and leaves a row.
LEMMA RunsMove ==
  ASSUME NEW n, RunsBounded(n), NEW v, NEW c \in Waiting(n),
         Left(n)' \subseteq Left(n) \cup {v}, Waiting(n)' \subseteq Waiting(n) \ {c}
  PROVE  RunsBounded(n)'
<1>1. IsFiniteSet(Left(n)) /\ IsFiniteSet(Waiting(n))
  <2>1. Waiting(n) \subseteq Callers
    BY DEF Waiting
  <2>2. QED
    BY <2>1, ConcurrencyAssumption, FS_Subset DEF RunsBounded
<1>2. /\ IsFiniteSet(Left(n)') /\ IsFiniteSet(Waiting(n)')
      /\ Cardinality(Left(n)') + Cardinality(Waiting(n)') <= Cardinality(Left(n)) + Cardinality(Waiting(n))
  BY <1>1, CountMoves
<1>3. /\ Cardinality(Left(n)) \in Nat /\ Cardinality(Waiting(n)) \in Nat
      /\ Cardinality(Left(n)') \in Nat /\ Cardinality(Waiting(n)') \in Nat
      /\ Cardinality(Callers) \in Nat /\ SandboxCap \in Int
  BY <1>1, <1>2, FS_CardinalityType, CallersCounted, ConstantsAssumption
<1>4. QED
  BY <1>2, <1>3 DEF RunsBounded

\* Through the gate: the count was below the cap, and at most all callers are waiting.
LEMMA RunsGate ==
  ASSUME TypeOK, HomeInv, NEW n \in Namespaces, RunsBounded(n), SandboxCap >= 0,
         CheckSandbox(n), Left(n)' \subseteq Left(n)
  PROVE  RunsBounded(n)'
<1>1. /\ IsFiniteSet(BuiltNow(n)) /\ SandboxRuns(n) = Cardinality(BuiltNow(n))
      /\ SandboxRuns(n) < SandboxCap
  BY RunsCounted, ConstantsAssumption DEF RunsBounded, CheckSandbox
<1>2. Left(n)' \in SUBSET BuiltNow(n) /\ Waiting(n)' \in SUBSET Callers
  BY DEF Left, Waiting
<1>3. /\ IsFiniteSet(Left(n)') /\ Cardinality(Left(n)') <= Cardinality(BuiltNow(n))
      /\ IsFiniteSet(Waiting(n)') /\ Cardinality(Waiting(n)') <= Cardinality(Callers)
  BY <1>1, <1>2, ConcurrencyAssumption, FS_Subset
<1>4. /\ Cardinality(Left(n)') \in Nat /\ Cardinality(Waiting(n)') \in Nat
      /\ Cardinality(BuiltNow(n)) \in Nat /\ Cardinality(Callers) \in Nat /\ SandboxCap \in Int
  BY <1>1, <1>3, FS_CardinalityType, CallersCounted, ConstantsAssumption
<1>5. QED
  BY <1>1, <1>3, <1>4 DEF RunsBounded

\* A step of a call: it keeps its place, or leaves its row behind.
LEMMA RunsStep ==
  ASSUME TypeOK, TypeOK', PublishInv, HomeInv, NEW c \in Callers, PublishStep(c),
         NEW n \in Namespaces, RunsBounded(n)
  PROVE  RunsBounded(n)'
<1>1. /\ \A d \in Callers \ {c} : call'[d] = call[d]
      /\ UNCHANGED now
      /\ Onward(c) \/ Starts(c) \/ Settles(c) \/ After(c)
      /\ \A b \in Boxes : boxes'[b].ns = boxes[b].ns
  BY StepShape DEF HoldsStep
<1> DEFINE v == call[c].version
<1>2. bundles' = bundles \/ \E row \in BundleRow :
        /\ row.box = call[c].box /\ row.state # "absent"
        /\ call[c].pc \in Pending \cup Building
        /\ bundles' = [bundles EXCEPT ![v] = row]
  BY <1>1 DEF Onward, Starts, Settles, After, Pending
<1>3. \A w \in Versions : w # v => bundles'[w] = bundles[w]
  BY <1>2 DEF TypeOK
<1>4. \A w \in Versions : w \in BuiltNow(n)' /\ bundles'[w] = bundles[w] => w \in BuiltNow(n)
  <2> SUFFICES ASSUME NEW w \in Versions, w \in BuiltNow(n)', bundles'[w] = bundles[w]
               PROVE  w \in BuiltNow(n)
    OBVIOUS
  <2>1. /\ bundles[w].state # "absent" /\ boxes'[bundles[w].box].ns = n
        /\ bundles[w].built >= MonthStart(now)
    BY <1>1 DEF BuiltNow, MonthStart
  <2>2. bundles[w].box \in Boxes
    BY <2>1 DEF PublishInv
  <2>3. QED
    BY <1>1, <2>1, <2>2 DEF BuiltNow
<1>5. \A w \in Versions : w \in Left(n)' /\ w # v => w \in Left(n)
  <2> SUFFICES ASSUME NEW w \in Versions, w \in Left(n)', w # v
               PROVE  w \in Left(n)
    OBVIOUS
  <2>1. w \in BuiltNow(n)
    BY <1>3, <1>4 DEF Left
  <2>2. \A d \in Callers : call[d].pc \in Building => call[d].version # w
    BY <1>1 DEF Left
  <2>3. QED
    BY <2>1, <2>2 DEF Left
<1>6. Left(n)' \subseteq Left(n) \cup {v}
  BY <1>5 DEF Left, BuiltNow
<1>7. CASE Onward(c) \/ After(c)
  <2>1. bundles' = bundles /\ (call[c].pc \in Building => call'[c].pc \in Building /\ call'[c].version = v)
    BY <1>7 DEF Onward, After, Counted, Building
  <2>2. Left(n)' \subseteq Left(n)
    <3> SUFFICES ASSUME NEW w \in Left(n)'
                 PROVE  w \in Left(n)
      OBVIOUS
    <3>1. w \in Versions /\ w \in BuiltNow(n)
      BY <1>4, <2>1 DEF Left, BuiltNow
    <3>2. \A d \in Callers : call[d].pc \in Building => call[d].version # w
      BY <1>1, <2>1 DEF Left
    <3>3. QED
      BY <3>1, <3>2 DEF Left
  <2>3. Waiting(n)' \subseteq Waiting(n)
    BY <1>1, <1>7 DEF Waiting, Onward, After
  <2>4. QED
    BY <2>2, <2>3, RunsShrink
<1>8. CASE Starts(c)
  <2>1. v \notin Left(n)'
    BY <1>8 DEF Left, Starts, Building
  <2>2. Waiting(n)' \subseteq Waiting(n)
    BY <1>1, <1>8 DEF Waiting, Starts, Counted, Pending
  <2>3. QED
    BY <1>6, <2>1, <2>2, RunsShrink
<1>9. CASE Settles(c)
  <2>1. Waiting(n)' \subseteq Waiting(n) \ {c}
    BY <1>1, <1>9 DEF Waiting, Settles, Counted, Pending, Building
  <2>2. CASE call[c].ns = n
    <3>1. c \in Waiting(n)
      BY <1>9, <2>2 DEF Waiting, Settles
    <3>2. QED
      BY <1>6, <2>1, <3>1, RunsMove
  <2>3. CASE call[c].ns # n
    <3>1. v \in Left(n)' => v \in Left(n)
      <4> SUFFICES ASSUME v \in Left(n)'
                   PROVE  v \in Left(n)
        OBVIOUS
      <4>1. CASE call[c].pc \in Building
        <5>1. bundles[v].box = call[c].box /\ boxes[call[c].box].ns = call[c].ns
          BY <4>1 DEF HomeInv
        <5>2. call[c].box \in Boxes /\ v \in Versions
          BY <4>1 DEF PublishInv, CallInv, Building
        <5>3. bundles'[v].box = call[c].box
          BY <1>2, <5>1, <5>2 DEF TypeOK
        <5>4. boxes'[bundles'[v].box].ns # n
          BY <1>1, <2>3, <5>1, <5>2, <5>3
        <5>5. QED
          BY <5>4 DEF Left, BuiltNow
      <4>2. CASE call[c].pc \notin Building
        <5>1. bundles' = bundles
          BY <1>9, <4>2 DEF Settles
        <5>2. v \in Versions /\ v \in BuiltNow(n)
          BY <1>4, <5>1 DEF Left, BuiltNow
        <5>3. \A d \in Callers : call[d].pc \in Building => call[d].version # v
          BY <1>1, <4>2 DEF Left
        <5>4. QED
          BY <5>2, <5>3 DEF Left
      <4>3. QED
        BY <4>1, <4>2
    <3>2. Left(n)' \subseteq Left(n) /\ Waiting(n)' \subseteq Waiting(n)
      BY <1>6, <2>1, <3>1
    <3>3. QED
      BY <3>2, RunsShrink
  <2>4. QED
    BY <2>2, <2>3
<1>10. QED
  BY <1>1, <1>7, <1>8, <1>9

\* A step of the environment, or of Create, that writes no bundle row and moves no call
\* that counts.
LEMMA RunsFrame ==
  ASSUME TypeOK, TypeOK', PublishInv, HomeInv, NEW n \in Namespaces, UNCHANGED bundles,
         \A b \in Boxes : boxes[b].state # "absent" => boxes'[b].ns = boxes[b].ns,
         now' \in {now, now + 1},
         \A d \in Callers : call[d].pc \in Building => call'[d] = call[d]
  PROVE  Left(n)' \subseteq Left(n)
<1> SUFFICES ASSUME NEW w \in Left(n)'
             PROVE  w \in Left(n)
  OBVIOUS
<1>1. /\ w \in Versions /\ bundles[w].state # "absent" /\ boxes'[bundles[w].box].ns = n
      /\ bundles[w].built >= MonthStart(now)'
  BY DEF Left, BuiltNow
<1>2. bundles[w].box \in Boxes /\ boxes[bundles[w].box].state # "absent"
  BY <1>1 DEF PublishInv, HomeInv
<1>3. bundles[w].built >= MonthStart(now)
  <2>1. now \in Nat /\ bundles[w].built \in Nat
    BY <1>1 DEF TypeOK, BundleRow
  <2>2. MonthStart(now)' = MonthStart(now')
    BY DEF MonthStart
  <2>3. MonthStart(now) \in Int /\ MonthStart(now + 1) \in Int /\ MonthStart(now) <= MonthStart(now + 1)
    <3>1. now + 1 \in Nat
      BY <2>1
    <3>2. QED
      BY <2>1, <3>1, MonthsPass
  <2>4. CASE now' = now
    BY <1>1, <2>2, <2>4
  <2>5. CASE now' = now + 1
    <3>1. bundles[w].built >= MonthStart(now + 1)
      BY <1>1, <2>2, <2>5
    <3>2. QED
      BY <2>1, <2>3, <3>1
  <2>6. QED
    BY <2>4, <2>5
<1>4. w \in BuiltNow(n)
  BY <1>1, <1>2, <1>3 DEF BuiltNow
<1>5. \A d \in Callers : call[d].pc \in Building => call[d].version # w
  BY DEF Left
<1>6. QED
  BY <1>4, <1>5 DEF Left

\* The bound of every namespace is inductive.
LEMMA RunsNext ==
  ASSUME TypeOK, TypeOK', PublishInv, HomeInv, [Next]_vars,
         NEW n \in Namespaces, RunsBounded(n), SandboxCap >= 0
  PROVE  RunsBounded(n)'
<1>1. ASSUME NEW k \in Creators, CreateGate(k)
      PROVE  RunsBounded(n)'
  <2>1. UNCHANGED <<boxes, bundles, call, now>>
    BY <1>1 DEF CreateGate
  <2>2. Left(n)' \subseteq Left(n)
    BY <2>1, RunsFrame
  <2>3. Waiting(n)' \subseteq Waiting(n)
    BY <2>1 DEF Waiting
  <2>4. QED
    BY <2>2, <2>3, RunsShrink
<1>2. ASSUME NEW k \in Creators, CreateInsert(k)
      PROVE  RunsBounded(n)'
  <2>1. UNCHANGED <<bundles, call, now>>
    BY <1>2 DEF CreateInsert
  <2>2. \A b \in Boxes : boxes[b].state # "absent" => boxes'[b].ns = boxes[b].ns
    BY <1>2 DEF CreateInsert, TypeOK
  <2>3. Left(n)' \subseteq Left(n)
    BY <2>1, <2>2, RunsFrame
  <2>4. Waiting(n)' \subseteq Waiting(n)
    BY <2>1 DEF Waiting
  <2>5. QED
    BY <2>3, <2>4, RunsShrink
<1>3. ASSUME NEW m \in Namespaces, NEW b \in Boxes, Archive(m, b)
      PROVE  RunsBounded(n)'
  <2>1. UNCHANGED <<bundles, call, now>>
    BY <1>3 DEF Archive
  <2>2. \A a \in Boxes : boxes'[a].ns = boxes[a].ns
    BY <1>3 DEF Archive, TypeOK, BoxRow
  <2>3. Left(n)' \subseteq Left(n)
    BY <2>1, <2>2, RunsFrame
  <2>4. Waiting(n)' \subseteq Waiting(n)
    BY <2>1 DEF Waiting
  <2>5. QED
    BY <2>3, <2>4, RunsShrink
<1>4. CASE UNCHANGED <<boxes, bundles, call>> /\ now' \in {now, now + 1}
  <2>1. Left(n)' \subseteq Left(n)
    BY <1>4, RunsFrame
  <2>2. Waiting(n)' \subseteq Waiting(n)
    BY <1>4 DEF Waiting
  <2>3. QED
    BY <2>1, <2>2, RunsShrink
<1>5. ASSUME NEW c \in Callers, BeginPublish(c)
      PROVE  RunsBounded(n)'
  <2>1. PICK m \in Namespaces :
          /\ CheckSandbox(m)
          /\ \A d \in Callers \ {c} : call'[d] = call[d]
          /\ call[c].pc = "idle" /\ call'[c].ns = m
    <3>1. PICK m \in Namespaces, b \in Boxes, files \in Trees :
            CheckSandbox(m) /\ Become(c, [NoCall EXCEPT !.pc = "get", !.ns = m, !.box = b, !.files = files])
      BY <1>5 DEF BeginPublish
    <3>2. call'[c].ns = m /\ \A d \in Callers \ {c} : call'[d] = call[d]
      BY <3>1 DEF Become, NoCall, TypeOK
    <3>3. QED
      BY <1>5, <3>1, <3>2 DEF BeginPublish, At
  <2>2. UNCHANGED <<boxes, bundles, now>>
    BY <1>5 DEF BeginPublish
  <2>3. \A d \in Callers : call[d].pc \in Building => call'[d] = call[d]
    BY <2>1 DEF Building
  <2>4. Left(n)' \subseteq Left(n)
    BY <2>2, <2>3, RunsFrame
  <2>5. CASE n = m
    BY <2>1, <2>4, <2>5, RunsGate
  <2>6. CASE n # m
    <3>1. Waiting(n)' \subseteq Waiting(n)
      BY <2>1, <2>6 DEF Waiting
    <3>2. QED
      BY <2>4, <3>1, RunsShrink
  <2>7. QED
    BY <2>5, <2>6
<1>6. ASSUME NEW c \in Callers, PublishStep(c)
      PROVE  RunsBounded(n)'
  BY <1>6, RunsStep
<1>7. CASE Crash
  <2>1. BuiltNow(n)' = BuiltNow(n)
    BY <1>7 DEF Crash, BuiltNow, MonthStart
  <2>2. Left(n)' \in SUBSET BuiltNow(n)
    BY <2>1 DEF Left
  <2>3. Waiting(n)' = {}
    BY <1>7 DEF Crash, Waiting, NoCall, Counted, Pending, Building
  <2>4. /\ IsFiniteSet(BuiltNow(n)) /\ IsFiniteSet(Waiting(n))
        /\ Cardinality(BuiltNow(n)) <= Cardinality(Left(n)) + Cardinality(Waiting(n))
    BY RunsCounted DEF RunsBounded
  <2>5. IsFiniteSet(Left(n)') /\ Cardinality(Left(n)') <= Cardinality(BuiltNow(n))
    BY <2>2, <2>4, FS_Subset
  <2>6. Cardinality(Waiting(n)') = 0
    BY <2>3, FS_EmptySet
  <2>7. /\ Cardinality(Left(n)') \in Nat /\ Cardinality(BuiltNow(n)) \in Nat
        /\ Cardinality(Left(n)) \in Nat /\ Cardinality(Waiting(n)) \in Nat
        /\ Cardinality(Callers) \in Nat /\ SandboxCap \in Int
    BY <2>4, <2>5, FS_CardinalityType, CallersCounted, ConstantsAssumption DEF RunsBounded
  <2>8. QED
    BY <2>4, <2>5, <2>6, <2>7 DEF RunsBounded
<1>8. QED
  BY <1>1, <1>2, <1>3, <1>4, <1>5, <1>6, <1>7 DEF Next, FsWrite, Tick, vars

-----------------------------------------------------------------------------
(* Active boxes *)

\* What the storage gate counts is among what may be active.
LEMMA ActiveCounted ==
  ASSUME NEW n \in Namespaces, IsFiniteSet(Revivable(n))
  PROVE  /\ IsFiniteSet(Active(n)) /\ IsFiniteSet(Inserting(n))
         /\ ActiveBoxes(n) = Cardinality(Active(n)) /\ ActiveBoxes(n) \in Nat
         /\ ActiveBoxes(n) <= Cardinality(Revivable(n))
         /\ Cardinality(Revivable(n)) \in Nat /\ Cardinality(Inserting(n)) \in Nat
         /\ Cardinality(Revivable(n)) <= Cardinality(Active(n)) + Cardinality(Callers)
<1>1. Active(n) \in SUBSET Revivable(n) /\ Inserting(n) \in SUBSET Creators
  BY DEF Active, Revivable, Inserting
<1>2. /\ IsFiniteSet(Active(n)) /\ Cardinality(Active(n)) <= Cardinality(Revivable(n))
      /\ IsFiniteSet(Inserting(n))
  BY <1>1, FS_Subset, ConcurrencyAssumption
<1>3. ActiveBoxes(n) = Cardinality(Active(n))
  BY DEF ActiveBoxes, Active
<1>4. PICK f : f = [c \in Callers |-> call[c].box]
  OBVIOUS
<1>5. Revivable(n) \in SUBSET (Active(n) \cup {f[c] : c \in Callers})
  BY <1>4 DEF Revivable, Active, Holds
<1>6. Cardinality(Revivable(n)) <= Cardinality(Active(n)) + Cardinality(Callers)
  BY <1>2, <1>5, ConcurrencyAssumption, CountCovers
<1>7. QED
  BY <1>2, <1>3, <1>6, FS_CardinalityType

\* The bound is kept when neither set grows ...
LEMMA SlotsShrink ==
  ASSUME NEW n \in Namespaces, SlotsBounded(n),
         Revivable(n)' \subseteq Revivable(n), Inserting(n)' \subseteq Inserting(n)
  PROVE  SlotsBounded(n)'
<1>1. IsFiniteSet(Revivable(n)) /\ IsFiniteSet(Inserting(n))
  BY ActiveCounted DEF SlotsBounded
<1>2. /\ IsFiniteSet(Revivable(n)') /\ IsFiniteSet(Inserting(n)')
      /\ Cardinality(Revivable(n)') + Cardinality(Inserting(n)')
           <= Cardinality(Revivable(n)) + Cardinality(Inserting(n))
  BY <1>1, CountShrinks
<1>3. /\ Cardinality(Revivable(n)) \in Nat /\ Cardinality(Inserting(n)) \in Nat
      /\ Cardinality(Revivable(n)') \in Nat /\ Cardinality(Inserting(n)') \in Nat
      /\ Cardinality(Callers) \in Nat /\ Cardinality(Creators) \in Nat /\ ActiveBoxCap \in Int
  BY <1>1, <1>2, FS_CardinalityType, CallersCounted, ConstantsAssumption
<1>4. QED
  BY <1>2, <1>3 DEF SlotsBounded

\* ... and when a pending insert becomes a box.
LEMMA SlotsMove ==
  ASSUME NEW n \in Namespaces, SlotsBounded(n), NEW b, NEW k \in Inserting(n),
         Revivable(n)' \subseteq Revivable(n) \cup {b}, Inserting(n)' \subseteq Inserting(n) \ {k}
  PROVE  SlotsBounded(n)'
<1>1. IsFiniteSet(Revivable(n)) /\ IsFiniteSet(Inserting(n))
  BY ActiveCounted DEF SlotsBounded
<1>2. /\ IsFiniteSet(Revivable(n)') /\ IsFiniteSet(Inserting(n)')
      /\ Cardinality(Revivable(n)') + Cardinality(Inserting(n)')
           <= Cardinality(Revivable(n)) + Cardinality(Inserting(n))
  BY <1>1, CountMoves
<1>3. /\ Cardinality(Revivable(n)) \in Nat /\ Cardinality(Inserting(n)) \in Nat
      /\ Cardinality(Revivable(n)') \in Nat /\ Cardinality(Inserting(n)') \in Nat
      /\ Cardinality(Callers) \in Nat /\ Cardinality(Creators) \in Nat /\ ActiveBoxCap \in Int
  BY <1>1, <1>2, FS_CardinalityType, CallersCounted, ConstantsAssumption
<1>4. QED
  BY <1>2, <1>3 DEF SlotsBounded

\* Through the gate: fewer boxes than the cap are active, each caller revives at most
\* one and each creator inserts at most one.
LEMMA SlotsGate ==
  ASSUME NEW n \in Namespaces, SlotsBounded(n), ActiveBoxCap >= 0, CheckStorage(n),
         Revivable(n)' = Revivable(n), Inserting(n)' \subseteq Creators
  PROVE  SlotsBounded(n)'
<1>1. IsFiniteSet(Inserting(n)') /\ Cardinality(Inserting(n)') <= Cardinality(Creators)
  BY ConcurrencyAssumption, FS_Subset
<1>2. /\ Cardinality(Revivable(n)) \in Nat /\ ActiveBoxes(n) \in Nat
      /\ Cardinality(Revivable(n)) <= ActiveBoxes(n) + Cardinality(Callers)
  BY ActiveCounted DEF SlotsBounded
<1>3. ActiveBoxes(n) < ActiveBoxCap
  BY ConstantsAssumption DEF CheckStorage
<1>4. /\ Cardinality(Inserting(n)') \in Nat /\ Cardinality(Callers) \in Nat
      /\ Cardinality(Creators) \in Nat /\ ActiveBoxCap \in Int
  BY <1>1, FS_CardinalityType, CallersCounted, ConstantsAssumption
<1>5. QED
  BY <1>1, <1>2, <1>3, <1>4 DEF SlotsBounded

\* The bound of every namespace is inductive.
LEMMA SlotsNext ==
  ASSUME TypeOK, TypeOK', PublishInv, HomeInv, [Next]_vars,
         NEW n \in Namespaces, SlotsBounded(n), ActiveBoxCap >= 0
  PROVE  SlotsBounded(n)'
<1>1. ASSUME NEW k \in Creators, CreateGate(k)
      PROVE  SlotsBounded(n)'
  <2>1. PICK m \in Namespaces : CheckStorage(m) /\ creating' = [creating EXCEPT ![k] = m]
    BY <1>1 DEF CreateGate
  <2>2. UNCHANGED <<boxes, call>>
    BY <1>1 DEF CreateGate
  <2>3. Revivable(n)' = Revivable(n)
    BY <2>2 DEF Revivable, Holds
  <2>4. CASE n = m
    <3>1. Inserting(n)' \subseteq Creators
      BY DEF Inserting
    <3>2. QED
      BY <2>1, <2>3, <2>4, <3>1, SlotsGate
  <2>5. CASE n # m
    <3>1. Inserting(n)' \subseteq Inserting(n)
      BY <2>1, <2>5 DEF Inserting, TypeOK
    <3>2. QED
      BY <2>3, <3>1, SlotsShrink
  <2>6. QED
    BY <2>4, <2>5
<1>2. ASSUME NEW k \in Creators, CreateInsert(k)
      PROVE  SlotsBounded(n)'
  <2>1. /\ creating[k] # None /\ creating' = [creating EXCEPT ![k] = None] /\ call' = call
    BY <1>2 DEF CreateInsert
  <2>2. Inserting(n)' \subseteq Inserting(n) \ {k}
    BY <2>1, ConstantsAssumption DEF Inserting, TypeOK
  <2>3. CASE boxes' = boxes
    <3>1. Revivable(n)' = Revivable(n)
      BY <2>1, <2>3 DEF Revivable, Holds
    <3>2. QED
      BY <2>2, <3>1, SlotsShrink
  <2>4. CASE boxes' # boxes
    <3>1. PICK b \in Boxes : boxes' = [boxes EXCEPT ![b] =
            [ns |-> creating[k], state |-> "draft", current |-> None]]
      BY <1>2, <2>4 DEF CreateInsert
    <3>2. boxes'[b].ns = creating[k] /\ \A a \in Boxes \ {b} : boxes'[a] = boxes[a]
      BY <3>1 DEF TypeOK
    <3>3. \A a \in Boxes, c \in Callers : Holds(c, a)' <=> Holds(c, a)
      BY <2>1 DEF Holds
    <3>4. CASE creating[k] = n
      <4>1. k \in Inserting(n)
        BY <3>4 DEF Inserting
      <4>2. Revivable(n)' \subseteq Revivable(n) \cup {b}
        BY <3>2, <3>3 DEF Revivable
      <4>3. QED
        BY <2>2, <4>1, <4>2, SlotsMove
    <3>5. CASE creating[k] # n
      <4>1. Revivable(n)' \subseteq Revivable(n)
        BY <3>2, <3>3, <3>5 DEF Revivable
      <4>2. Inserting(n)' \subseteq Inserting(n)
        BY <2>2
      <4>3. QED
        BY <4>1, <4>2, SlotsShrink
    <3>6. QED
      BY <3>4, <3>5
  <2>5. QED
    BY <2>3, <2>4
<1>3. ASSUME NEW m \in Namespaces, NEW b \in Boxes, Archive(m, b)
      PROVE  SlotsBounded(n)'
  <2>1. call' = call /\ creating' = creating
    BY <1>3 DEF Archive
  <2>2. \A a \in Boxes : /\ boxes'[a].ns = boxes[a].ns
                         /\ boxes'[a].state = boxes[a].state \/ boxes'[a].state = "archived"
    BY <1>3 DEF Archive, TypeOK, BoxRow
  <2>3. \A a \in Boxes, c \in Callers : Holds(c, a)' <=> Holds(c, a)
    BY <2>1 DEF Holds
  <2>4. Revivable(n)' \subseteq Revivable(n)
    BY <2>2, <2>3 DEF Revivable
  <2>5. Inserting(n)' \subseteq Inserting(n)
    BY <2>1 DEF Inserting
  <2>6. QED
    BY <2>4, <2>5, SlotsShrink
<1>4. CASE UNCHANGED <<boxes, creating, call>>
  <2>1. Revivable(n)' = Revivable(n) /\ Inserting(n)' = Inserting(n)
    BY <1>4 DEF Revivable, Holds, Inserting
  <2>2. QED
    BY <2>1, SlotsShrink
<1>5. ASSUME NEW c \in Callers, BeginPublish(c)
      PROVE  SlotsBounded(n)'
  <2>1. /\ \A d \in Callers \ {c} : call'[d] = call[d]
        /\ call'[c].pc = "get"
        /\ UNCHANGED <<boxes, creating>>
    <3>1. PICK m \in Namespaces, b \in Boxes, files \in Trees :
            Become(c, [NoCall EXCEPT !.pc = "get", !.ns = m, !.box = b, !.files = files])
      BY <1>5 DEF BeginPublish
    <3>2. call'[c].pc = "get" /\ \A d \in Callers \ {c} : call'[d] = call[d]
      BY <3>1 DEF Become, NoCall, TypeOK
    <3>3. QED
      BY <1>5, <3>2 DEF BeginPublish
  <2>2. \A a \in Boxes, d \in Callers : Holds(d, a)' => Holds(d, a)
    BY <2>1 DEF Holds, Pending, Building
  <2>3. Revivable(n)' \subseteq Revivable(n) /\ Inserting(n)' \subseteq Inserting(n)
    BY <2>1, <2>2 DEF Revivable, Inserting
  <2>4. QED
    BY <2>3, SlotsShrink
<1>6. ASSUME NEW c \in Callers, PublishStep(c)
      PROVE  SlotsBounded(n)'
  <2>1. /\ \A d \in Callers \ {c} : call'[d] = call[d]
        /\ creating' = creating /\ HoldsStep(c)
    BY <1>6, StepShape
  <2>2. \A a \in Boxes, d \in Callers : Holds(d, a)' => Holds(d, a) \/ boxes[a].state # "archived"
    <3> SUFFICES ASSUME NEW a \in Boxes, NEW d \in Callers, Holds(d, a)'
                 PROVE  Holds(d, a) \/ boxes[a].state # "archived"
      OBVIOUS
    <3>1. CASE d = c
      BY <2>1, <3>1 DEF HoldsStep
    <3>2. CASE d # c
      BY <2>1, <3>2 DEF Holds
    <3>3. QED
      BY <3>1, <3>2
  <2>3. Revivable(n)' \subseteq Revivable(n)
    BY <2>1, <2>2 DEF Revivable, HoldsStep
  <2>4. Inserting(n)' \subseteq Inserting(n)
    BY <2>1 DEF Inserting
  <2>5. QED
    BY <2>3, <2>4, SlotsShrink
<1>7. CASE Crash
  <2>1. \A a \in Boxes, d \in Callers : ~Holds(d, a)'
    BY <1>7 DEF Crash, Holds, NoCall, Pending, Building
  <2>2. Revivable(n)' \subseteq Revivable(n)
    BY <1>7, <2>1 DEF Crash, Revivable
  <2>3. Inserting(n)' \subseteq Inserting(n)
    BY <1>7, ConstantsAssumption DEF Crash, Inserting
  <2>4. QED
    BY <2>2, <2>3, SlotsShrink
<1>8. QED
  BY <1>1, <1>2, <1>3, <1>4, <1>5, <1>6, <1>7 DEF Next, FsWrite, Tick, vars

-----------------------------------------------------------------------------
(* Theorems *)

\* Initially there is no row, no box and no call.
LEMMA QuotaInit ==
  ASSUME Init
  PROVE  QuotaInv
<1>1. HomeInv
  BY DEF Init, HomeInv, NoBundleRow, NoCall, Pending, Building
<1>2. ASSUME NEW n \in Namespaces
      PROVE  Left(n) = {} /\ Waiting(n) = {} /\ Revivable(n) = {} /\ Inserting(n) = {}
  BY <1>2, ConstantsAssumption
     DEF Init, Left, BuiltNow, Waiting, Revivable, Holds, Inserting, NoBundleRow, NoBoxRow, NoCall,
         Counted, Pending, Building
<1>3. IsFiniteSet({}) /\ Cardinality({}) = 0
  BY FS_EmptySet
<1>4. /\ Cardinality(Callers) \in Nat /\ Cardinality(Callers) >= 1
      /\ Cardinality(Creators) \in Nat /\ SandboxCap \in Int /\ ActiveBoxCap \in Int
  BY CallersCounted, ConstantsAssumption
<1>5. ASSUME SandboxCap >= 0, NEW n \in Namespaces
      PROVE  RunsBounded(n)
  <2>1. 0 + 0 <= SandboxCap + Cardinality(Callers) - 1
    BY <1>4, <1>5
  <2>2. QED
    BY <1>2, <1>3, <2>1 DEF RunsBounded
<1>6. ASSUME ActiveBoxCap >= 0, NEW n \in Namespaces
      PROVE  SlotsBounded(n)
  <2>1. 0 + 0 <= ActiveBoxCap + Cardinality(Creators) + Cardinality(Callers) - 1
    BY <1>4, <1>6
  <2>2. QED
    BY <1>2, <1>3, <2>1 DEF SlotsBounded
<1>7. QED
  BY <1>1, <1>5, <1>6 DEF QuotaInv, RunsInv, SlotsInv

\* What any step does to the homes of rows and calls.
LEMMA HomeNext ==
  ASSUME TypeOK, TypeOK', PublishInv, HomeInv, [Next]_vars
  PROVE  HomeInv'
<1>1. BoxesGrow
  BY Grows
<1>2. ASSUME NEW k \in Creators, CreateGate(k)
      PROVE  HomeInv'
  BY <1>1, <1>2, HomeFrame DEF CreateGate
<1>3. ASSUME NEW k \in Creators, CreateInsert(k)
      PROVE  HomeInv'
  <2>1. \A b \in Boxes : boxes[b].state # "absent" => boxes'[b].ns = boxes[b].ns
    BY <1>3 DEF CreateInsert, TypeOK
  <2>2. QED
    BY <1>1, <1>3, <2>1, HomeFrame DEF CreateInsert
<1>4. ASSUME NEW m \in Namespaces, NEW b \in Boxes, Archive(m, b)
      PROVE  HomeInv'
  <2>1. \A a \in Boxes : boxes'[a].ns = boxes[a].ns
    BY <1>4 DEF Archive, TypeOK, BoxRow
  <2>2. QED
    BY <1>1, <1>4, <2>1, HomeFrame DEF Archive
<1>5. CASE UNCHANGED <<boxes, bundles, call>>
  BY <1>1, <1>5, HomeFrame
<1>6. ASSUME NEW c \in Callers, BeginPublish(c)
      PROVE  HomeInv'
  <2>1. \A d \in Callers : call'[d] = call[d] \/ call'[d].pc = "get"
    <3>1. PICK m \in Namespaces, b \in Boxes, files \in Trees :
            Become(c, [NoCall EXCEPT !.pc = "get", !.ns = m, !.box = b, !.files = files])
      BY <1>6 DEF BeginPublish
    <3>2. QED
      BY <3>1 DEF Become, NoCall, TypeOK
  <2>2. UNCHANGED <<boxes, bundles>>
    BY <1>6 DEF BeginPublish
  <2>3. QED
    BY <1>1, <2>1, <2>2, HomeFrame
<1>7. ASSUME NEW c \in Callers, PublishStep(c)
      PROVE  HomeInv'
  BY <1>1, <1>7, HomeStep
<1>8. CASE Crash
  <2>1. \A d \in Callers : call'[d].pc = "idle"
    BY <1>8 DEF Crash, NoCall
  <2>2. QED
    BY <1>1, <1>8, <2>1, HomeFrame DEF Crash
<1>9. QED
  BY <1>2, <1>3, <1>4, <1>5, <1>6, <1>7, <1>8 DEF Next, FsWrite, Tick, vars

(* The two sums are inductive, together with the types and the order of a call's writes
   that PublishCorrect shows. *)
THEOREM QuotaCorrect == Spec => []QuotaInv
<1>1. Init => QuotaInv
  BY QuotaInit
<1>2. TypeOK /\ PublishInv /\ (TypeOK /\ PublishInv)' /\ QuotaInv /\ [Next]_vars => QuotaInv'
  <2> SUFFICES ASSUME TypeOK, PublishInv, TypeOK', QuotaInv, [Next]_vars
               PROVE  QuotaInv'
    OBVIOUS
  <2>1. HomeInv'
    BY HomeNext DEF QuotaInv
  <2>2. ASSUME SandboxCap >= 0, NEW n \in Namespaces
        PROVE  RunsBounded(n)'
    BY <2>2, RunsNext DEF QuotaInv, RunsInv
  <2>3. ASSUME ActiveBoxCap >= 0, NEW n \in Namespaces
        PROVE  SlotsBounded(n)'
    BY <2>3, SlotsNext DEF QuotaInv, SlotsInv
  <2>4. QED
    BY <2>1, <2>2, <2>3 DEF QuotaInv, RunsInv, SlotsInv
<1>3. QED
  BY <1>1, <1>2, PublishCorrect, PTL DEF Spec

(* However many publishes pass the gate at once, and however the months change while
   they build, a namespace exceeds its cap on builds a month by less than one for each
   publisher (gateSandbox, service.go; CheckSandbox, quota.go). *)
THEOREM SandboxOvershoot == Spec => []SandboxOvershootBounded
<1>1. TypeOK /\ PublishInv /\ QuotaInv => SandboxOvershootBounded
  <2> SUFFICES ASSUME TypeOK, QuotaInv, SandboxCap >= 0, NEW n \in Namespaces
               PROVE  SandboxRuns(n) <= SandboxCap + Cardinality(Callers) - 1
    BY DEF SandboxOvershootBounded
  <2>1. RunsBounded(n)
    BY DEF QuotaInv, RunsInv
  <2>2. /\ SandboxRuns(n) \in Nat /\ IsFiniteSet(Waiting(n))
        /\ SandboxRuns(n) <= Cardinality(Left(n)) + Cardinality(Waiting(n))
    BY <2>1, RunsCounted DEF QuotaInv, RunsBounded
  <2>3. /\ Cardinality(Left(n)) \in Nat /\ Cardinality(Waiting(n)) \in Nat
        /\ Cardinality(Callers) \in Nat /\ SandboxCap \in Int
    BY <2>1, <2>2, FS_CardinalityType, CallersCounted, ConstantsAssumption DEF RunsBounded
  <2>4. QED
    BY <2>1, <2>2, <2>3 DEF RunsBounded
<1>2. QED
  BY <1>1, QuotaCorrect, PublishCorrect, PTL

(* Creates that pass the gate at once and publishes that bring back an archived box
   exceed the cap on active boxes by less than one for each creator and publisher
   together (Service.Create and BuildAndPublish, service.go). *)
THEOREM ActiveOvershoot == Spec => []ActiveOvershootBounded
<1>1. QuotaInv => ActiveOvershootBounded
  <2> SUFFICES ASSUME QuotaInv, ActiveBoxCap >= 0, NEW n \in Namespaces
               PROVE  ActiveBoxes(n) <= ActiveBoxCap + Cardinality(Creators) + Cardinality(Callers) - 1
    BY DEF ActiveOvershootBounded
  <2>1. SlotsBounded(n)
    BY DEF QuotaInv, SlotsInv
  <2>2. /\ ActiveBoxes(n) \in Nat /\ ActiveBoxes(n) <= Cardinality(Revivable(n))
        /\ Cardinality(Revivable(n)) \in Nat /\ Cardinality(Inserting(n)) \in Nat
    BY <2>1, ActiveCounted DEF SlotsBounded
  <2>3. /\ Cardinality(Callers) \in Nat /\ Cardinality(Creators) \in Nat /\ ActiveBoxCap \in Int
    BY CallersCounted, ConstantsAssumption
  <2>4. QED
    BY <2>1, <2>2, <2>3 DEF SlotsBounded
<1>2. QED
  BY <1>1, QuotaCorrect, PTL

=============================================================================
