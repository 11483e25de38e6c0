-------------------------- MODULE BoxPublishProofs --------------------------
(***************************************************************************)
(* Proofs about BoxPublish, for any number of boxes, versions, callers and *)
(* creators, any plan caps and any set of faults.                          *)
(***************************************************************************)
EXTENDS BoxPublish, TLAPS

\* The values a row or a call can hold, in the form the typing proof uses.
LEMMA RowTypes ==
  /\ EmptyTree \in Trees
  /\ NoBoxRow \in BoxRow
  /\ NoBundleRow \in BundleRow
  /\ NoCall \in Call
  /\ \A t \in Trees : Bundle(t) \in BundleBytes
<1>1. EmptyTree \in Trees
  BY DEF EmptyTree, Trees
<1>2. QED
  BY <1>1 DEF NoBoxRow, BoxRow, BoxStates, NoBundleRow, BundleRow, BuildStates,
              NoCall, Call, PCs, BundleBytes

\* The empty tables and the idle calls of Init are well typed.
LEMMA TypeInit == Init => TypeOK
  BY RowTypes DEF Init, TypeOK

\* Writing files over a tree gives a tree (Repo.Commit starts from HEAD's tree).
LEMMA MergeType ==
  ASSUME NEW t \in Trees, NEW f \in Trees
  PROVE  Merge(t, f) \in Trees
  BY DEF Merge, Trees

\* A commit keeps the workspace typed and every tree of its history.
LEMMA CommitStep ==
  ASSUME TypeOK, NEW b \in Boxes, NEW f \in Trees, Commit(b, f),
         \A a \in Boxes : repo[a].head \in repo[a].trees
  PROVE  /\ repo' \in [Boxes -> [head : Trees, trees : SUBSET Trees]]
         /\ \A a \in Boxes : repo[a].trees \subseteq repo'[a].trees
         /\ \A a \in Boxes : repo'[a].head \in repo'[a].trees
<1> DEFINE t == Merge(repo[b].head, f)
<1>1. repo[b].head \in Trees /\ repo[b].trees \subseteq Trees
  BY DEF TypeOK
<1>2. t \in Trees
  BY <1>1, MergeType
<1> HIDE DEF t
<1>3. repo' = [repo EXCEPT ![b] = [head |-> t, trees |-> repo[b].trees \cup {t}]]
  BY DEF Commit, t
<1>4. QED
  BY <1>1, <1>2, <1>3 DEF TypeOK

\* The locals of one call, field by field.
LEMMA CallFields ==
  ASSUME NEW p \in Call
  PROVE  /\ p.pc \in PCs /\ p.ns \in Namespaces \cup {None}
         /\ p.box \in Boxes \cup {None} /\ p.files \in Trees
         /\ p.state \in BoxStates /\ p.version \in Versions \cup {None}
         /\ p.bytes \in BundleBytes \cup {None}
         /\ \A x \in PCs : [p EXCEPT !.pc = x] \in Call
  BY DEF Call

\* Assigning a well typed record to one call keeps the calls typed.
LEMMA BecomeType ==
  ASSUME TypeOK, NEW c \in Callers, NEW r \in Call, Become(c, r)
  PROVE  call' \in [Callers -> Call]
  BY DEF TypeOK, Become

\* A call that returns is idle, which is well typed.
LEMMA ReturnType ==
  ASSUME TypeOK, NEW c \in Callers, Return(c)
  PROVE  call' \in [Callers -> Call]
  BY BecomeType, RowTypes DEF Return

\* Moving a call to another of its control points keeps it well typed.
LEMMA GotoType ==
  ASSUME TypeOK, NEW c \in Callers, NEW x \in PCs, Goto(c, x)
  PROVE  call' \in [Callers -> Call]
<1>1. call[c] \in Call
  BY DEF TypeOK
<1>2. [call[c] EXCEPT !.pc = x] \in Call
  BY <1>1, CallFields
<1>3. QED
  BY <1>2, BecomeType DEF Goto

\* A call that has drawn a version writes well typed bundle rows.
LEMMA PutBundleType ==
  ASSUME TypeOK, NEW c \in Callers, call[c].version \in Versions, call[c].box \in Boxes,
         NEW s \in BuildStates, NEW h \in BundleBytes \cup {None},
         PutBundle(c, s, h)
  PROVE  bundles' \in [Versions -> BundleRow]
<1> DEFINE r == [box |-> call[c].box, state |-> s, hash |-> h, built |-> now]
<1>1. r \in BundleRow
  BY DEF TypeOK, BundleRow
<1>2. bundles' = [bundles EXCEPT ![call[c].version] = r]
  BY DEF PutBundle
<1> HIDE DEF r
<1>3. QED
  BY <1>1, <1>2 DEF TypeOK

\* Every step of BuildAndPublish, Create, Archive and the environment keeps the
\* types; what a call in flight knows of its box and version is needed for it.
LEMMA TypeStep == TypeOK /\ PublishInv /\ [Next]_vars => TypeOK'
<1> SUFFICES ASSUME TypeOK, PublishInv, [Next]_vars
             PROVE  TypeOK'
  OBVIOUS
<1> USE RowTypes, ConstantsAssumption
<1>h. \A a \in Boxes : repo[a].head \in repo[a].trees
  BY DEF PublishInv
<1>1. ASSUME NEW k \in Creators, CreateGate(k)
      PROVE  TypeOK'
  BY <1>1 DEF TypeOK, CreateGate
<1>2. ASSUME NEW k \in Creators, CreateInsert(k)
      PROVE  TypeOK'
  BY <1>2 DEF TypeOK, CreateInsert, BoxRow, BoxStates
<1>3. ASSUME NEW n \in Namespaces, NEW b \in Boxes, Archive(n, b)
      PROVE  TypeOK'
  <2>1. [boxes[b] EXCEPT !.state = "archived"] \in BoxRow
    BY DEF TypeOK, BoxRow, BoxStates
  <2>2. boxes' \in [Boxes -> BoxRow]
    BY <1>3, <2>1 DEF TypeOK, Archive
  <2>3. QED
    BY <1>3, <2>2 DEF TypeOK, Archive
<1>5. ASSUME NEW b \in Boxes, FsWrite(b)
      PROVE  TypeOK'
  <2>1. PICK p \in Paths, t \in Contents : Commit(b, [EmptyTree EXCEPT ![p] = t])
    BY <1>5 DEF FsWrite
  <2>2. [EmptyTree EXCEPT ![p] = t] \in Trees
    BY DEF EmptyTree, Trees
  <2>3. QED
    BY <1>5, <1>h, <2>1, <2>2, CommitStep DEF TypeOK, FsWrite
<1>6. ASSUME NEW c \in Callers, BeginPublish(c)
      PROVE  TypeOK'
  <2>1. PICK n \in Namespaces, b \in Boxes, files \in Trees :
          Become(c, [NoCall EXCEPT !.pc = "get", !.ns = n, !.box = b, !.files = files])
    BY <1>6 DEF BeginPublish
  <2>2. [NoCall EXCEPT !.pc = "get", !.ns = n, !.box = b, !.files = files] \in Call
    BY DEF Call, NoCall, PCs
  <2>3. call' \in [Callers -> Call]
    BY <2>1, <2>2, BecomeType
  <2>4. QED
    BY <1>6, <2>3 DEF TypeOK, BeginPublish
<1>7. ASSUME NEW c \in Callers, PublishStep(c)
      PROVE  TypeOK'
  <2> DEFINE p == call[c]
  <2>p. p \in Call
    BY DEF TypeOK
  <2>i. CallInv(c)
    BY DEF PublishInv
  <2>b. p.pc # "idle" => p.box \in Boxes
    BY <2>i DEF CallInv
  <2>v. p.pc \in Pending \cup Building \cup Recorded => p.version \in Versions
    BY <2>i DEF CallInv
  <2>y. p.pc \in {"upload", "sign", "put_succeeded"} => p.bytes \in BundleBytes
    BY <2>i, <2>p, CallFields DEF CallInv
  <2>1. CASE GetBox(c)
    <3>1. call' \in [Callers -> Call]
      <4>1. CASE Return(c)
        BY <4>1, ReturnType
      <4>2. ASSUME NEW v \in Versions, NEW x \in PCs,
                   Become(c, [p EXCEPT !.pc = x, !.state = boxes[p.box].state, !.version = v])
            PROVE  call' \in [Callers -> Call]
        <5>1. boxes[p.box].state \in BoxStates
          BY <2>1, <2>b DEF TypeOK, BoxRow, GetBox, At
        <5>2. [p EXCEPT !.pc = x, !.state = boxes[p.box].state, !.version = v] \in Call
          BY <2>p, <5>1 DEF Call
        <5>3. QED
          BY <4>2, <5>2, BecomeType
      <4>3. (IF p.files = EmptyTree THEN "snapshot" ELSE "commit") \in PCs
        BY DEF PCs
      <4>4. QED
        BY <2>1, <4>1, <4>2, <4>3 DEF GetBox, Fail
    <3>2. QED
      BY <2>1, <3>1 DEF TypeOK, GetBox
  <2>2. CASE CommitFiles(c)
    <3>1. call' \in [Callers -> Call]
      BY <2>2, GotoType, ReturnType DEF CommitFiles, Fail, PCs
    <3>2. repo' \in [Boxes -> [head : Trees, trees : SUBSET Trees]]
      <4>1. p.files \in Trees /\ p.box \in Boxes
        BY <2>2, <2>p, <2>b, CallFields DEF CommitFiles, At
      <4>2. CASE Commit(p.box, p.files)
        BY <4>1, <4>2, <1>h, CommitStep
      <4>3. CASE UNCHANGED repo
        BY <4>3 DEF TypeOK
      <4>4. QED
        BY <2>2, <4>2, <4>3 DEF CommitFiles
    <3>3. QED
      BY <2>2, <3>1, <3>2 DEF TypeOK, CommitFiles
  <2>3. CASE Snapshot(c)
    <3>1. call' \in [Callers -> Call]
      <4>1. CASE Return(c)
        BY <4>1, ReturnType
      <4>2. CASE Become(c, [p EXCEPT !.pc = "put_running", !.files = repo[p.box].head])
        <5>1. repo[p.box].head \in Trees
          BY <2>3, <2>b DEF TypeOK, Snapshot, At
        <5>2. [p EXCEPT !.pc = "put_running", !.files = repo[p.box].head] \in Call
          BY <2>p, <5>1 DEF Call, PCs
        <5>3. QED
          BY <4>2, <5>2, BecomeType
      <4>3. QED
        BY <2>3, <4>1, <4>2 DEF Snapshot, Fail
    <3>2. QED
      BY <2>3, <3>1 DEF TypeOK, Snapshot
  <2>4. CASE PutRunning(c)
    <3>1. call' \in [Callers -> Call]
      BY <2>4, GotoType, ReturnType DEF PutRunning, Fail, PCs
    <3>2. p.version \in Versions /\ p.box \in Boxes
      BY <2>4, <2>b, <2>v DEF PutRunning, At, Pending
    <3>3. bundles' \in [Versions -> BundleRow]
      <4>1. CASE PutBundle(c, "running", None)
        BY <3>2, <4>1, PutBundleType DEF BuildStates
      <4>2. QED
        BY <2>4, <4>1 DEF PutRunning, TypeOK
    <3>4. QED
      BY <2>4, <3>1, <3>3 DEF TypeOK, PutRunning
  <2>5. CASE Build(c)
    <3>1. call' \in [Callers -> Call]
      <4>1. CASE Goto(c, "put_failed")
        BY <4>1, GotoType DEF PCs
      <4>2. CASE Become(c, [p EXCEPT !.pc = "upload", !.bytes = Bundle(p.files)])
        <5>1. Bundle(p.files) \in BundleBytes
          BY <2>p, CallFields
        <5>2. [p EXCEPT !.pc = "upload", !.bytes = Bundle(p.files)] \in Call
          BY <2>p, <5>1 DEF Call, PCs
        <5>3. QED
          BY <4>2, <5>2, BecomeType
      <4>3. QED
        BY <2>5, <4>1, <4>2 DEF Build
    <3>2. QED
      BY <2>5, <3>1 DEF TypeOK, Build
  <2>6. CASE Upload(c)
    <3>1. call' \in [Callers -> Call]
      BY <2>6, GotoType DEF Upload, PCs
    <3>2. QED
      BY <2>6, <2>y, <3>1 DEF TypeOK, Upload, At
  <2>7. CASE PutFailed(c)
    <3>1. call' \in [Callers -> Call]
      BY <2>7, ReturnType DEF PutFailed
    <3>2. p.version \in Versions /\ p.box \in Boxes
      BY <2>7, <2>b, <2>v DEF PutFailed, At, Building
    <3>3. bundles' \in [Versions -> BundleRow]
      <4>1. CASE PutBundle(c, "failed", None)
        BY <3>2, <4>1, PutBundleType DEF BuildStates
      <4>2. QED
        BY <2>7, <4>1 DEF PutFailed, TypeOK
    <3>4. QED
      BY <2>7, <3>1, <3>3 DEF TypeOK, PutFailed
  <2>8. CASE SignURL(c)
    <3>1. call' \in [Callers -> Call]
      BY <2>8, GotoType, ReturnType DEF SignURL, Fail, PCs
    <3>2. QED
      BY <2>8, <3>1 DEF TypeOK, SignURL
  <2>9. CASE PutSucceeded(c)
    <3>1. call' \in [Callers -> Call]
      BY <2>9, GotoType, ReturnType DEF PutSucceeded, Fail, PCs
    <3>2. p.version \in Versions /\ p.box \in Boxes /\ p.bytes \in BundleBytes
      BY <2>9, <2>b, <2>v, <2>y, <2>p, CallFields DEF PutSucceeded, At, Building
    <3>3. bundles' \in [Versions -> BundleRow]
      <4>1. CASE PutBundle(c, "succeeded", p.bytes)
        BY <3>2, <4>1, PutBundleType DEF BuildStates
      <4>2. QED
        BY <2>9, <4>1 DEF PutSucceeded, TypeOK
    <3>4. QED
      BY <2>9, <3>1, <3>3 DEF TypeOK, PutSucceeded
  <2>10. CASE SetCurrentVersion(c)
    <3>1. call' \in [Callers -> Call]
      <4>1. (IF p.state # "published" THEN "set_state" ELSE "announce") \in PCs
        BY DEF PCs
      <4>2. QED
        BY <2>10, <4>1, GotoType, ReturnType DEF SetCurrentVersion, Fail
    <3>2. p.version \in Versions /\ p.box \in Boxes
      BY <2>10, <2>b, <2>v DEF SetCurrentVersion, At, Recorded
    <3>3. [boxes[p.box] EXCEPT !.current = p.version] \in BoxRow
      BY <3>2 DEF TypeOK, BoxRow
    <3>4. boxes' \in [Boxes -> BoxRow]
      BY <2>10, <3>2, <3>3 DEF TypeOK, SetCurrentVersion
    <3>5. QED
      BY <2>10, <3>1, <3>4 DEF TypeOK, SetCurrentVersion
  <2>11. CASE SetPublished(c)
    <3>1. call' \in [Callers -> Call]
      BY <2>11, GotoType, ReturnType DEF SetPublished, Fail, PCs
    <3>2. p.box \in Boxes
      BY <2>11, <2>b DEF SetPublished, At
    <3>3. [boxes[p.box] EXCEPT !.state = "published"] \in BoxRow
      BY <3>2 DEF TypeOK, BoxRow, BoxStates
    <3>4. boxes' \in [Boxes -> BoxRow]
      BY <2>11, <3>2, <3>3 DEF TypeOK, SetPublished
    <3>5. QED
      BY <2>11, <3>1, <3>4 DEF TypeOK, SetPublished
  <2>12. CASE Announce(c)
    <3>1. call' \in [Callers -> Call]
      BY <2>12, ReturnType DEF Announce
    <3>2. p.version \in Versions
      BY <2>12, <2>v DEF Announce, At, Recorded
    <3>3. QED
      BY <2>12, <3>1, <3>2 DEF TypeOK, Announce
  <2> QED
    BY <1>7, <2>1, <2>2, <2>3, <2>4, <2>5, <2>6, <2>7, <2>8, <2>9, <2>10, <2>11, <2>12
       DEF PublishStep
<1>8. CASE Crash
  BY <1>8 DEF TypeOK, Crash
<1>9. CASE Tick
  BY <1>9 DEF TypeOK, Tick
<1>10. CASE UNCHANGED vars
  BY <1>10 DEF TypeOK, vars
<1> QED
  BY <1>1, <1>2, <1>3, <1>5, <1>6, <1>7, <1>8, <1>9, <1>10 DEF Next

-----------------------------------------------------------------------------
(* What every step leaves standing, whoever takes it *)

\* A box row, once inserted, stays; it never returns to draft from published or
\* archived, and never loses its current version.
BoxesGrow ==
  \A b \in Boxes :
    /\ boxes[b].state # "absent" => boxes'[b].state # "absent"
    /\ boxes[b].state \in {"published", "archived"} =>
         boxes'[b].state \in {"published", "archived"}
    /\ boxes[b].current # None => boxes'[b].current # None

\* The artifact store and the history of a workspace only grow.
StoresGrow ==
  /\ artifacts \subseteq artifacts'
  /\ \A b \in Boxes : repo[b].trees \subseteq repo'[b].trees

\* A final bundle row is not written again.
SettledStay ==
  \A v \in Versions : bundles[v].state \in {"succeeded", "failed"} => bundles'[v] = bundles[v]

\* The conjuncts of PublishInv that speak of the tables and stores only.
TablesInv ==
  /\ \A b \in Boxes : boxes[b].state = "absent" \/ boxes[b].ns = None => boxes[b] = NoBoxRow
  /\ \A b \in Boxes : repo[b].head \in repo[b].trees
  /\ \A v \in Versions : bundles[v].state # "absent" => bundles[v].box \in Boxes
  /\ CurrentIsDownloadable
  /\ PublishedHasCurrent
  /\ AnnouncedAfterPersistence
  /\ BuiltFromCommittedTree

\* PublishInv is a part about the tables and stores and a part about the calls.
LEMMA PublishInvParts ==
  PublishInv <=> TablesInv /\ DistinctVersions /\ \A c \in Callers : CallInv(c)
  BY DEF PublishInv, TablesInv

\* The two parts put together again in the next state.
LEMMA PublishInvPartsNext ==
  TablesInv' /\ DistinctVersions' /\ (\A c \in Callers : CallInv(c)') => PublishInv'
  BY DEF PublishInv, TablesInv

\* The properties of the tables and stores carry over to a state with the same
\* tables and stores.
LEMMA TablesFrame ==
  ASSUME TypeOK, TablesInv, UNCHANGED <<boxes, bundles, announced>>, StoresGrow,
         \A b \in Boxes : repo'[b].head \in repo'[b].trees
  PROVE  TablesInv'
<1>1. BuiltFromCommittedTree'
  <2> SUFFICES ASSUME NEW v \in Versions, bundles[v].state = "succeeded"
               PROVE  bundles[v].hash.source \in repo'[bundles[v].box].trees
    BY DEF BuiltFromCommittedTree
  <2>1. bundles[v].hash.source \in repo[bundles[v].box].trees
    BY DEF TablesInv, BuiltFromCommittedTree
  <2>2. bundles[v].box \in Boxes
    BY DEF TablesInv
  <2>3. QED
    BY <2>1, <2>2 DEF StoresGrow
<1>2. QED
  BY <1>1 DEF TablesInv, CurrentIsDownloadable, PublishedHasCurrent,
              AnnouncedAfterPersistence, StoresGrow

\* Every step of Next only moves the tables and stores forward.
LEMMA Grows == TypeOK /\ TypeOK' /\ PublishInv /\ [Next]_vars
                 => BoxesGrow /\ StoresGrow /\ SettledStay
<1> SUFFICES ASSUME TypeOK, TypeOK', PublishInv, [Next]_vars
             PROVE  BoxesGrow /\ StoresGrow /\ SettledStay
  OBVIOUS
<1>h. \A a \in Boxes : repo[a].head \in repo[a].trees
  BY DEF PublishInv
<1>s. UNCHANGED <<boxes, bundles, artifacts, repo>> => BoxesGrow /\ StoresGrow /\ SettledStay
  BY DEF BoxesGrow, StoresGrow, SettledStay
<1>b. UNCHANGED boxes => BoxesGrow
  BY DEF BoxesGrow
<1>r. UNCHANGED <<artifacts, repo>> => StoresGrow
  BY DEF StoresGrow
<1>u. UNCHANGED bundles => SettledStay
  BY DEF SettledStay
<1>1. ASSUME NEW k \in Creators, CreateGate(k)
      PROVE  BoxesGrow /\ StoresGrow /\ SettledStay
  BY <1>1, <1>s DEF CreateGate
<1>2. ASSUME NEW k \in Creators, CreateInsert(k)
      PROVE  BoxesGrow /\ StoresGrow /\ SettledStay
  <2>1. BoxesGrow
    <3>1. CASE UNCHANGED boxes
      BY <3>1, <1>b
    <3>2. ASSUME NEW b \in Boxes, boxes[b].state = "absent",
                 boxes' = [boxes EXCEPT ![b] =
                   [ns |-> creating[k], state |-> "draft", current |-> None]]
          PROVE  BoxesGrow
      <4>1. boxes[b].current = None
        BY <3>2 DEF PublishInv, NoBoxRow
      <4>2. QED
        BY <3>2, <4>1 DEF BoxesGrow, TypeOK
    <3>3. QED
      BY <1>2, <3>1, <3>2 DEF CreateInsert
  <2>2. QED
    BY <1>2, <1>r, <1>u, <2>1 DEF CreateInsert
<1>3. ASSUME NEW n \in Namespaces, NEW b \in Boxes, Archive(n, b)
      PROVE  BoxesGrow /\ StoresGrow /\ SettledStay
  <2>1. BoxesGrow
    BY <1>3 DEF Archive, BoxesGrow, TypeOK, BoxRow
  <2>2. QED
    BY <1>3, <1>r, <1>u, <2>1 DEF Archive
<1>5. ASSUME NEW b \in Boxes, FsWrite(b)
      PROVE  BoxesGrow /\ StoresGrow /\ SettledStay
  <2>1. PICK p \in Paths, t \in Contents : Commit(b, [EmptyTree EXCEPT ![p] = t])
    BY <1>5 DEF FsWrite
  <2>2. [EmptyTree EXCEPT ![p] = t] \in Trees
    BY DEF EmptyTree, Trees
  <2>3. StoresGrow
    BY <1>5, <1>h, <2>1, <2>2, CommitStep DEF StoresGrow, FsWrite
  <2>4. QED
    BY <1>5, <1>b, <1>u, <2>3 DEF FsWrite
<1>6. ASSUME NEW c \in Callers, BeginPublish(c)
      PROVE  BoxesGrow /\ StoresGrow /\ SettledStay
  BY <1>6, <1>s DEF BeginPublish
<1>7. ASSUME NEW c \in Callers, PublishStep(c)
      PROVE  BoxesGrow /\ StoresGrow /\ SettledStay
  <2> DEFINE p == call[c]
  <2>p. p \in Call
    BY DEF TypeOK
  <2>i. CallInv(c)
    BY DEF PublishInv
  <2>1. CASE GetBox(c)
    BY <2>1, <1>s DEF GetBox
  <2>2. CASE CommitFiles(c)
    <3>1. p.files \in Trees /\ p.box \in Boxes
      BY <2>2, <2>p, <2>i, CallFields DEF CommitFiles, At, CallInv
    <3>2. StoresGrow
      BY <2>2, <1>h, <1>r, <3>1, CommitStep DEF CommitFiles, StoresGrow
    <3>3. QED
      BY <2>2, <1>b, <1>u, <3>2 DEF CommitFiles
  <2>3. CASE Snapshot(c)
    BY <2>3, <1>s DEF Snapshot
  <2>4. CASE PutRunning(c)
    <3>1. bundles[p.version].state = "absent" /\ p.version \in Versions
      BY <2>4, <2>i DEF PutRunning, At, CallInv, Pending
    <3>2. SettledStay
      BY <2>4, <3>1 DEF PutRunning, PutBundle, SettledStay, TypeOK
    <3>3. QED
      BY <2>4, <1>b, <1>r, <3>2 DEF PutRunning
  <2>5. CASE Build(c)
    BY <2>5, <1>s DEF Build
  <2>6. CASE Upload(c)
    <3>1. StoresGrow
      BY <2>6 DEF Upload, StoresGrow
    <3>2. QED
      BY <2>6, <1>b, <1>u, <3>1 DEF Upload
  <2>7. CASE PutFailed(c)
    <3>1. bundles[p.version].state = "running" /\ p.version \in Versions
      BY <2>7, <2>i DEF PutFailed, At, CallInv, Building
    <3>2. SettledStay
      BY <2>7, <3>1 DEF PutFailed, PutBundle, SettledStay, TypeOK
    <3>3. QED
      BY <2>7, <1>b, <1>r, <3>2 DEF PutFailed
  <2>8. CASE SignURL(c)
    BY <2>8, <1>s DEF SignURL
  <2>9. CASE PutSucceeded(c)
    <3>1. bundles[p.version].state = "running" /\ p.version \in Versions
      BY <2>9, <2>i DEF PutSucceeded, At, CallInv, Building
    <3>2. SettledStay
      BY <2>9, <3>1 DEF PutSucceeded, PutBundle, SettledStay, TypeOK
    <3>3. QED
      BY <2>9, <1>b, <1>r, <3>2 DEF PutSucceeded
  <2>10. CASE SetCurrentVersion(c)
    <3>1. p.version \in Versions /\ p.version # None /\ p.box \in Boxes
      BY <2>10, <2>i, ConstantsAssumption DEF SetCurrentVersion, At, CallInv, Recorded
    <3>2. BoxesGrow
      BY <2>10, <3>1 DEF SetCurrentVersion, BoxesGrow, TypeOK, BoxRow
    <3>3. QED
      BY <2>10, <1>r, <1>u, <3>2 DEF SetCurrentVersion
  <2>11. CASE SetPublished(c)
    <3>1. p.box \in Boxes
      BY <2>11, <2>i DEF SetPublished, At, CallInv
    <3>2. BoxesGrow
      BY <2>11, <3>1 DEF SetPublished, BoxesGrow, TypeOK, BoxRow
    <3>3. QED
      BY <2>11, <1>r, <1>u, <3>2 DEF SetPublished
  <2>12. CASE Announce(c)
    BY <2>12, <1>s DEF Announce
  <2> QED
    BY <1>7, <2>1, <2>2, <2>3, <2>4, <2>5, <2>6, <2>7, <2>8, <2>9, <2>10, <2>11, <2>12
       DEF PublishStep
<1>8. CASE Crash
  BY <1>8, <1>s DEF Crash
<1>9. CASE Tick
  BY <1>9, <1>s DEF Tick
<1>10. CASE UNCHANGED vars
  BY <1>10, <1>s DEF vars
<1> QED
  BY <1>1, <1>2, <1>3, <1>5, <1>6, <1>7, <1>8, <1>9, <1>10 DEF Next

-----------------------------------------------------------------------------
(* The calls *)

\* A call that does not move keeps its invariant while the tables and stores grow
\* and nobody writes the row of its version.
LEMMA CallFrame ==
  ASSUME NEW d \in Callers, CallInv(d), call'[d] = call[d], BoxesGrow, StoresGrow,
         call[d].version \in Versions =>
           bundles'[call[d].version] = bundles[call[d].version]
  PROVE  CallInv(d)'
<1> DEFINE p == call[d]
<1>1. p.pc \in Pending \cup Building \cup Recorded =>
        /\ p.version \in Versions /\ p.box \in Boxes
        /\ bundles'[p.version] = bundles[p.version]
        /\ boxes'[p.box].state # "absent"
        /\ p.state = "published" => boxes'[p.box].state \in {"published", "archived"}
        /\ boxes[p.box].current # None => boxes'[p.box].current # None
        /\ boxes[p.box].state \in {"published", "archived"} =>
             boxes'[p.box].state \in {"published", "archived"}
        /\ repo[p.box].trees \subseteq repo'[p.box].trees
  BY DEF CallInv, BoxesGrow, StoresGrow, Pending, Building, Recorded
<1>2. artifacts \subseteq artifacts'
  BY DEF StoresGrow
<1>3. QED
  BY <1>1, <1>2 DEF CallInv, Pending, Building, Recorded

\* A call that returned, failed or died has no obligations left.
LEMMA IdleCallInv ==
  ASSUME NEW d \in Callers, call'[d] = NoCall
  PROVE  CallInv(d)'
  BY DEF CallInv, NoCall, Pending, Building, Recorded

\* A step of call c that keeps its version, or drops it, keeps versions distinct.
LEMMA DistinctFrame ==
  ASSUME TypeOK, DistinctVersions, NEW c \in Callers, NEW r \in Call, Become(c, r),
         r.version = None \/ r.version = call[c].version
  PROVE  DistinctVersions'
  BY DEF TypeOK, DistinctVersions, Become

\* What a step of call c means for all the calls, when it writes no bundle row but
\* its own.
LEMMA CallsStep ==
  ASSUME TypeOK, PublishInv, BoxesGrow, StoresGrow,
         NEW c \in Callers, NEW r \in Call, Become(c, r),
         r.version = None \/ r.version = call[c].version,
         \A v \in Versions : v # call[c].version => bundles'[v] = bundles[v],
         CallInv(c)'
  PROVE  DistinctVersions' /\ \A d \in Callers : CallInv(d)'
<1>1. DistinctVersions'
  BY DistinctFrame DEF PublishInv
<1>2. ASSUME NEW d \in Callers, d # c
      PROVE  CallInv(d)'
  <2>1. call'[d] = call[d]
    BY <1>2 DEF Become, TypeOK
  <2>2. call[d].version \in Versions => call[d].version # call[c].version
    BY <1>2, ConstantsAssumption DEF PublishInv, DistinctVersions
  <2>3. CallInv(d)
    BY DEF PublishInv
  <2>4. QED
    BY <2>1, <2>2, <2>3, CallFrame
<1>3. QED
  BY <1>1, <1>2

\* The same for a call that returns without writing a row.
LEMMA ReturnStep ==
  ASSUME TypeOK, PublishInv, BoxesGrow, StoresGrow,
         NEW c \in Callers, Return(c),
         \A v \in Versions : v # call[c].version => bundles'[v] = bundles[v]
  PROVE  DistinctVersions' /\ \A d \in Callers : CallInv(d)'
<1>1. NoCall \in Call /\ NoCall.version = None
  BY RowTypes DEF NoCall
<1>2. call'[c] = NoCall
  BY DEF Return, Become, TypeOK
<1>3. CallInv(c)'
  BY <1>2, IdleCallInv
<1>4. QED
  BY <1>1, <1>3, CallsStep DEF Return

\* When no call moves and no row is written the calls keep their invariants.
LEMMA CallsFrame ==
  ASSUME PublishInv, BoxesGrow, StoresGrow, UNCHANGED <<call, bundles>>
  PROVE  DistinctVersions' /\ \A d \in Callers : CallInv(d)'
<1>1. DistinctVersions'
  BY DEF PublishInv, DistinctVersions
<1>2. ASSUME NEW d \in Callers
      PROVE  CallInv(d)'
  BY CallFrame DEF PublishInv
<1>3. QED
  BY <1>1, <1>2

-----------------------------------------------------------------------------
(* The publish invariant is inductive *)

\* Init satisfies the invariant: no rows, no calls, nothing announced.
LEMMA PublishInvInit == Init => PublishInv
<1> SUFFICES ASSUME Init PROVE PublishInv
  OBVIOUS
<1>1. ASSUME NEW c \in Callers PROVE CallInv(c)
  BY DEF Init, CallInv, NoCall, Pending, Building, Recorded
<1>2. DistinctVersions
  BY DEF Init, DistinctVersions, NoCall
<1>3. CurrentIsDownloadable /\ PublishedHasCurrent /\ AnnouncedAfterPersistence
  BY DEF Init, CurrentIsDownloadable, PublishedHasCurrent, AnnouncedAfterPersistence, NoBoxRow
<1>4. BuiltFromCommittedTree
  BY DEF Init, BuiltFromCommittedTree, NoBundleRow
<1>5. QED
  BY <1>1, <1>2, <1>3, <1>4 DEF PublishInv, Init, NoBoxRow, NoBundleRow

\* Steps of one call.  Each shows the call's own invariant at the next statement
\* and what the step did to the tables.
LEMMA PublishStepInv ==
  ASSUME TypeOK, TypeOK', PublishInv, BoxesGrow, StoresGrow, SettledStay,
         NEW c \in Callers, PublishStep(c)
  PROVE  PublishInv'
<1> DEFINE p == call[c]
<1> DEFINE Calls == DistinctVersions /\ \A d \in Callers : CallInv(d)
<1>p. p \in Call
  BY DEF TypeOK
<1>i. CallInv(c) /\ TablesInv
  BY PublishInvParts
<1>h. \A b \in Boxes : repo[b].head \in repo[b].trees
  BY DEF PublishInv
<1>t. UNCHANGED <<boxes, bundles, announced, repo>> => TablesInv'
  BY <1>i, <1>h, TablesFrame
<1>u. UNCHANGED bundles /\ Return(c) => Calls'
  BY ReturnStep
<1>1. CASE GetBox(c)
  <2>1. CASE Return(c)
    BY <1>1, <1>t, <1>u, <2>1, PublishInvPartsNext DEF GetBox
  <2>2. ASSUME NEW v \in Versions, Fresh(v),
               boxes[p.box].ns = p.ns, boxes[p.box].state # "archived",
               NEW x \in {"snapshot", "commit"},
               Become(c, [p EXCEPT !.pc = x, !.state = boxes[p.box].state, !.version = v])
        PROVE  Calls'
    <3> DEFINE r == [p EXCEPT !.pc = x, !.state = boxes[p.box].state, !.version = v]
    <3>1. /\ r.pc = x /\ r.box = p.box /\ r.ns = p.ns /\ r.version = v
          /\ r.state = boxes[p.box].state
      BY <1>p DEF Call
    <3>2. call' = [call EXCEPT ![c] = r]
      BY <2>2 DEF Become
    <3> HIDE DEF r
    <3>3. call'[c] = r /\ \A d \in Callers : d # c => call'[d] = call[d]
      BY <3>2 DEF TypeOK
    <3>4. p.ns \in Namespaces /\ p.box \in Boxes
      BY <1>1, <1>i DEF GetBox, At, CallInv
    <3>5. boxes[p.box].state # "absent"
      BY <2>2, <3>4, <1>i, ConstantsAssumption DEF TablesInv, NoBoxRow
    <3>6. UNCHANGED <<boxes, bundles, artifacts, repo>>
      BY <1>1 DEF GetBox
    <3>7. CallInv(c)'
      BY <2>2, <3>1, <3>3, <3>4, <3>5, <3>6 DEF CallInv, Pending, Building, Recorded, Fresh
    <3>8. DistinctVersions'
      BY <2>2, <3>1, <3>3 DEF PublishInv, DistinctVersions, Fresh
    <3>9. ASSUME NEW d \in Callers, d # c
          PROVE  CallInv(d)'
      BY <3>3, <3>6, <3>9, CallFrame DEF PublishInv
    <3>10. QED
      BY <3>7, <3>8, <3>9
  <2>3. (IF p.files = EmptyTree THEN "snapshot" ELSE "commit") \in {"snapshot", "commit"}
    OBVIOUS
  <2>4. Return(c) \/ Calls'
    BY <1>1, <2>2, <2>3 DEF GetBox, Fail
  <2>5. QED
    BY <1>1, <1>t, <2>1, <2>4, PublishInvPartsNext DEF GetBox
<1>2. CASE CommitFiles(c)
  <2>1. \A b \in Boxes : repo'[b].head \in repo'[b].trees
    <3>1. p.files \in Trees /\ p.box \in Boxes
      BY <1>2, <1>p, <1>i, CallFields DEF CommitFiles, At, CallInv
    <3>2. QED
      BY <1>2, <1>h, <3>1, CommitStep DEF CommitFiles
  <2>2. TablesInv'
    BY <1>2, <1>i, <2>1, TablesFrame DEF CommitFiles
  <2>3. ASSUME Goto(c, "snapshot") PROVE Calls'
    <3> DEFINE r == [p EXCEPT !.pc = "snapshot"]
    <3>1. r \in Call /\ r.pc = "snapshot" /\ r.box = p.box /\ r.ns = p.ns
          /\ r.version = p.version /\ r.state = p.state
      BY <1>p DEF Call, PCs
    <3>2. Become(c, r)
      BY <2>3 DEF Goto
    <3> HIDE DEF r
    <3>3. call'[c] = r
      BY <3>2 DEF Become, TypeOK
    <3>4. CallInv(c)'
      BY <1>2, <1>i, <3>1, <3>3 DEF CommitFiles, At, CallInv, Pending, Building, Recorded
    <3>5. QED
      BY <1>2, <3>1, <3>2, <3>4, CallsStep DEF CommitFiles
  <2>4. QED
    BY <1>2, <1>u, <2>2, <2>3, PublishInvPartsNext DEF CommitFiles, Fail
<1>3. CASE Snapshot(c)
  <2>1. ASSUME Become(c, [p EXCEPT !.pc = "put_running", !.files = repo[p.box].head])
        PROVE  Calls'
    <3> DEFINE r == [p EXCEPT !.pc = "put_running", !.files = repo[p.box].head]
    <3>0. p.box \in Boxes
      BY <1>3, <1>i DEF Snapshot, At, CallInv
    <3>1. r \in Call /\ r.pc = "put_running" /\ r.box = p.box /\ r.ns = p.ns
          /\ r.version = p.version /\ r.state = p.state /\ r.files = repo[p.box].head
      <4>1. repo[p.box].head \in Trees
        BY <3>0 DEF TypeOK
      <4>2. QED
        BY <4>1, <1>p DEF Call, PCs
    <3>2. Become(c, r)
      BY <2>1
    <3> HIDE DEF r
    <3>3. call'[c] = r
      BY <3>2 DEF Become, TypeOK
    <3>4. r.files \in repo'[p.box].trees
      BY <1>3, <3>0, <3>1, <1>h DEF Snapshot
    <3>5. CallInv(c)'
      BY <1>3, <1>i, <3>1, <3>3, <3>4 DEF Snapshot, At, CallInv, Pending, Building, Recorded
    <3>6. QED
      BY <1>3, <3>1, <3>2, <3>5, CallsStep DEF Snapshot
  <2>2. QED
    BY <1>3, <1>t, <1>u, <2>1, PublishInvPartsNext DEF Snapshot, Fail
<1>4. CASE PutRunning(c)
  <2>1. CASE Return(c) /\ UNCHANGED bundles
    BY <1>4, <1>t, <1>u, <2>1, PublishInvPartsNext DEF PutRunning
  <2>2. CASE PutBundle(c, "running", None) /\ Goto(c, "build")
    <3> DEFINE r == [p EXCEPT !.pc = "build"]
    <3>1. r \in Call /\ r.pc = "build" /\ r.box = p.box /\ r.ns = p.ns
          /\ r.version = p.version /\ r.state = p.state /\ r.files = p.files
      BY <1>p DEF Call, PCs
    <3>2. Become(c, r)
      BY <2>2 DEF Goto
    <3> HIDE DEF r
    <3>3. call'[c] = r
      BY <3>2 DEF Become, TypeOK
    <3>4. p.version \in Versions /\ p.box \in Boxes /\ bundles[p.version].state = "absent"
      BY <1>4, <1>i DEF PutRunning, At, CallInv, Pending
    <3>5. /\ bundles'[p.version].state = "running" /\ bundles'[p.version].box = p.box
          /\ \A v \in Versions : v # p.version => bundles'[v] = bundles[v]
      BY <2>2, <3>4 DEF PutBundle, TypeOK
    <3>6. CallInv(c)'
      BY <1>4, <1>i, <3>1, <3>3, <3>5
         DEF PutRunning, At, CallInv, Pending, Building, Recorded
    <3>7. Calls'
      BY <3>1, <3>2, <3>5, <3>6, CallsStep
    <3>8. TablesInv'
      <4>1. UNCHANGED <<boxes, artifacts, repo, announced>>
        BY <1>4 DEF PutRunning
      <4>2. CurrentIsDownloadable'
        BY <1>i, <3>4, <3>5, <4>1 DEF TablesInv, CurrentIsDownloadable, TypeOK, BoxRow
      <4>3. AnnouncedAfterPersistence'
        BY <1>i, <3>4, <3>5, <4>1 DEF TablesInv, AnnouncedAfterPersistence, TypeOK
      <4>4. BuiltFromCommittedTree'
        BY <1>i, <3>5, <4>1 DEF TablesInv, BuiltFromCommittedTree
      <4>5. QED
        BY <1>i, <3>4, <3>5, <4>1, <4>2, <4>3, <4>4 DEF TablesInv, PublishedHasCurrent
    <3>9. QED
      BY <3>7, <3>8, PublishInvPartsNext
  <2>3. QED
    BY <1>4, <2>1, <2>2 DEF PutRunning, Fail
<1>5. CASE Build(c)
  <2>1. ASSUME Become(c, [p EXCEPT !.pc = "upload", !.bytes = Bundle(p.files)])
        PROVE  Calls'
    <3> DEFINE r == [p EXCEPT !.pc = "upload", !.bytes = Bundle(p.files)]
    <3>1. r \in Call /\ r.pc = "upload" /\ r.box = p.box /\ r.ns = p.ns
          /\ r.version = p.version /\ r.state = p.state /\ r.files = p.files
          /\ r.bytes = Bundle(p.files)
      <4>1. Bundle(p.files) \in BundleBytes
        BY <1>p, RowTypes, CallFields
      <4>2. QED
        BY <4>1, <1>p DEF Call, PCs
    <3>2. Become(c, r)
      BY <2>1
    <3> HIDE DEF r
    <3>3. call'[c] = r
      BY <3>2 DEF Become, TypeOK
    <3>4. CallInv(c)'
      BY <1>5, <1>i, <3>1, <3>3 DEF Build, At, CallInv, Pending, Building, Recorded
    <3>5. QED
      BY <1>5, <3>1, <3>2, <3>4, CallsStep DEF Build
  <2>2. ASSUME Goto(c, "put_failed") PROVE Calls'
    <3> DEFINE r == [p EXCEPT !.pc = "put_failed"]
    <3>1. r \in Call /\ r.pc = "put_failed" /\ r.box = p.box /\ r.ns = p.ns
          /\ r.version = p.version /\ r.state = p.state /\ r.files = p.files
      BY <1>p DEF Call, PCs
    <3>2. Become(c, r)
      BY <2>2 DEF Goto
    <3> HIDE DEF r
    <3>3. call'[c] = r
      BY <3>2 DEF Become, TypeOK
    <3>4. CallInv(c)'
      BY <1>5, <1>i, <3>1, <3>3 DEF Build, At, CallInv, Pending, Building, Recorded
    <3>5. QED
      BY <1>5, <3>1, <3>2, <3>4, CallsStep DEF Build
  <2>3. QED
    BY <1>5, <1>t, <2>1, <2>2, PublishInvPartsNext DEF Build
<1>6. CASE Upload(c)
  <2>1. ASSUME NEW x \in {"sign", "put_failed"}, Goto(c, x),
               x = "sign" => p.bytes \in artifacts'
        PROVE  Calls'
    <3> DEFINE r == [p EXCEPT !.pc = x]
    <3>1. r \in Call /\ r.pc = x /\ r.box = p.box /\ r.ns = p.ns /\ r.bytes = p.bytes
          /\ r.version = p.version /\ r.state = p.state /\ r.files = p.files
      BY <1>p DEF Call, PCs
    <3>2. Become(c, r)
      BY <2>1 DEF Goto
    <3> HIDE DEF r
    <3>3. call'[c] = r
      BY <3>2 DEF Become, TypeOK
    <3>4. CallInv(c)'
      BY <1>6, <1>i, <2>1, <3>1, <3>3 DEF Upload, At, CallInv, Pending, Building, Recorded
    <3>5. QED
      BY <1>6, <3>1, <3>2, <3>4, CallsStep DEF Upload
  <2>2. Calls'
    BY <1>6, <2>1 DEF Upload
  <2>3. QED
    BY <1>6, <1>t, <2>2, PublishInvPartsNext DEF Upload
<1>7. CASE PutFailed(c)
  <2>1. p.version \in Versions /\ p.box \in Boxes /\ bundles[p.version].state = "running"
    BY <1>7, <1>i DEF PutFailed, At, CallInv, Building
  <2>2. UNCHANGED <<boxes, artifacts, repo, announced>> /\ Return(c)
    BY <1>7 DEF PutFailed
  <2>3. CASE UNCHANGED bundles
    BY <1>t, <1>u, <2>2, <2>3, PublishInvPartsNext
  <2>4. CASE PutBundle(c, "failed", None)
    <3>1. /\ bundles'[p.version].state = "failed" /\ bundles'[p.version].box = p.box
          /\ \A v \in Versions : v # p.version => bundles'[v] = bundles[v]
      BY <2>1, <2>4 DEF PutBundle, TypeOK
    <3>2. Calls'
      BY <2>2, <3>1, ReturnStep
    <3>3. CurrentIsDownloadable'
      BY <1>i, <2>1, <2>2, <3>1 DEF TablesInv, CurrentIsDownloadable, TypeOK, BoxRow
    <3>4. AnnouncedAfterPersistence'
      BY <1>i, <2>1, <2>2, <3>1 DEF TablesInv, AnnouncedAfterPersistence, TypeOK
    <3>5. BuiltFromCommittedTree'
      BY <1>i, <2>2, <3>1 DEF TablesInv, BuiltFromCommittedTree
    <3>6. TablesInv'
      BY <1>i, <2>1, <2>2, <3>1, <3>3, <3>4, <3>5 DEF TablesInv, PublishedHasCurrent
    <3>7. QED
      BY <3>2, <3>6, PublishInvPartsNext
  <2>5. QED
    BY <1>7, <2>3, <2>4 DEF PutFailed
<1>8. CASE SignURL(c)
  <2>1. ASSUME p.bytes \in artifacts, Goto(c, "put_succeeded")
        PROVE  Calls'
    <3> DEFINE r == [p EXCEPT !.pc = "put_succeeded"]
    <3>1. r \in Call /\ r.pc = "put_succeeded" /\ r.box = p.box /\ r.ns = p.ns
          /\ r.version = p.version /\ r.state = p.state /\ r.files = p.files
          /\ r.bytes = p.bytes
      BY <1>p DEF Call, PCs
    <3>2. Become(c, r)
      BY <2>1 DEF Goto
    <3> HIDE DEF r
    <3>3. call'[c] = r
      BY <3>2 DEF Become, TypeOK
    <3>4. CallInv(c)'
      BY <1>8, <1>i, <2>1, <3>1, <3>3 DEF SignURL, At, CallInv, Pending, Building, Recorded
    <3>5. QED
      BY <1>8, <3>1, <3>2, <3>4, CallsStep DEF SignURL
  <2>2. QED
    BY <1>8, <1>t, <1>u, <2>1, PublishInvPartsNext DEF SignURL, Fail
<1>9. CASE PutSucceeded(c)
  <2>1. CASE Return(c) /\ UNCHANGED bundles
    BY <1>9, <1>t, <1>u, <2>1, PublishInvPartsNext DEF PutSucceeded
  <2>2. CASE PutBundle(c, "succeeded", p.bytes) /\ Goto(c, "set_current")
    <3> DEFINE r == [p EXCEPT !.pc = "set_current"]
    <3>1. r \in Call /\ r.pc = "set_current" /\ r.box = p.box /\ r.ns = p.ns
          /\ r.version = p.version /\ r.state = p.state
      BY <1>p DEF Call, PCs
    <3>2. Become(c, r)
      BY <2>2 DEF Goto
    <3> HIDE DEF r
    <3>3. call'[c] = r
      BY <3>2 DEF Become, TypeOK
    <3>4. /\ p.version \in Versions /\ p.box \in Boxes
          /\ bundles[p.version].state = "running"
          /\ p.bytes \in artifacts /\ p.bytes = Bundle(p.files)
          /\ p.files \in repo[p.box].trees
      BY <1>9, <1>i DEF PutSucceeded, At, CallInv, Building
    <3>5. /\ bundles'[p.version].state = "succeeded" /\ bundles'[p.version].box = p.box
          /\ bundles'[p.version].hash = p.bytes
          /\ \A v \in Versions : v # p.version => bundles'[v] = bundles[v]
      BY <2>2, <3>4 DEF PutBundle, TypeOK
    <3>6. UNCHANGED <<boxes, artifacts, repo, announced>>
      BY <1>9 DEF PutSucceeded
    <3>7. CallInv(c)'
      BY <1>9, <1>i, <3>1, <3>3, <3>4, <3>5, <3>6
         DEF PutSucceeded, At, CallInv, Pending, Building, Recorded
    <3>8. Calls'
      BY <3>1, <3>2, <3>5, <3>7, CallsStep
    <3>9. CurrentIsDownloadable'
      BY <1>i, <3>4, <3>5, <3>6 DEF TablesInv, CurrentIsDownloadable, TypeOK, BoxRow
    <3>10. AnnouncedAfterPersistence'
      BY <1>i, <3>4, <3>5, <3>6 DEF TablesInv, AnnouncedAfterPersistence, TypeOK
    <3>11. BuiltFromCommittedTree'
      BY <1>i, <3>4, <3>5, <3>6 DEF TablesInv, BuiltFromCommittedTree, Bundle
    <3>12. TablesInv'
      BY <1>i, <3>4, <3>5, <3>6, <3>9, <3>10, <3>11 DEF TablesInv, PublishedHasCurrent
    <3>13. QED
      BY <3>8, <3>12, PublishInvPartsNext
  <2>3. QED
    BY <1>9, <2>1, <2>2 DEF PutSucceeded, Fail
<1>10. CASE SetCurrentVersion(c)
  <2>1. CASE Return(c) /\ UNCHANGED boxes
    BY <1>10, <1>t, <1>u, <2>1, PublishInvPartsNext DEF SetCurrentVersion
  <2>2. ASSUME NEW x \in {"set_state", "announce"}, Goto(c, x),
               x = "announce" => p.state = "published",
               boxes' = [boxes EXCEPT ![p.box].current = p.version]
        PROVE  PublishInv'
    <3> DEFINE r == [p EXCEPT !.pc = x]
    <3>1. r \in Call /\ r.pc = x /\ r.box = p.box /\ r.ns = p.ns
          /\ r.version = p.version /\ r.state = p.state
      BY <1>p DEF Call, PCs
    <3>2. Become(c, r)
      BY <2>2 DEF Goto
    <3> HIDE DEF r
    <3>3. call'[c] = r
      BY <3>2 DEF Become, TypeOK
    <3>4. /\ p.version \in Versions /\ p.version # None /\ p.box \in Boxes
          /\ p.ns \in Namespaces
          /\ bundles[p.version].state = "succeeded" /\ bundles[p.version].box = p.box
          /\ bundles[p.version].hash \in artifacts
          /\ boxes[p.box].state # "absent"
          /\ p.state = "published" => boxes[p.box].state \in {"published", "archived"}
      BY <1>10, <1>i, ConstantsAssumption
         DEF SetCurrentVersion, At, CallInv, Pending, Building, Recorded
    <3>5. /\ boxes'[p.box].current = p.version /\ boxes'[p.box].state = boxes[p.box].state
          /\ boxes'[p.box].ns = boxes[p.box].ns
          /\ \A b \in Boxes : b # p.box => boxes'[b] = boxes[b]
      BY <2>2, <3>4 DEF TypeOK, BoxRow
    <3>6. UNCHANGED <<bundles, artifacts, repo, announced>>
      BY <1>10 DEF SetCurrentVersion
    <3>7. CallInv(c)'
      BY <1>10, <1>i, <2>2, <3>1, <3>3, <3>4, <3>5, <3>6
         DEF SetCurrentVersion, At, CallInv, Pending, Building, Recorded
    <3>8. Calls'
      BY <3>1, <3>2, <3>6, <3>7, CallsStep
    <3>9. CurrentIsDownloadable'
      BY <1>i, <3>4, <3>5, <3>6 DEF TablesInv, CurrentIsDownloadable
    <3>10. PublishedHasCurrent' /\ BuiltFromCommittedTree'
      BY <1>i, <3>4, <3>5, <3>6 DEF TablesInv, PublishedHasCurrent, BuiltFromCommittedTree
    <3>11. AnnouncedAfterPersistence'
      <4>1. \A v \in announced : v \in Versions /\ bundles[v].box \in Boxes
        BY <1>i DEF TablesInv, AnnouncedAfterPersistence, TypeOK
      <4>2. QED
        BY <1>i, <3>4, <3>5, <3>6, <4>1 DEF TablesInv, AnnouncedAfterPersistence
    <3>12. TablesInv'
      BY <1>i, <3>4, <3>5, <3>6, <3>9, <3>10, <3>11 DEF TablesInv, NoBoxRow
    <3>13. QED
      BY <3>8, <3>12, PublishInvPartsNext
  <2>3. QED
    BY <1>10, <2>1, <2>2 DEF SetCurrentVersion, Fail
<1>11. CASE SetPublished(c)
  <2>1. CASE Return(c) /\ UNCHANGED boxes
    BY <1>11, <1>t, <1>u, <2>1, PublishInvPartsNext DEF SetPublished
  <2>2. CASE Goto(c, "announce") /\ boxes' = [boxes EXCEPT ![p.box].state = "published"]
    <3> DEFINE r == [p EXCEPT !.pc = "announce"]
    <3>1. r \in Call /\ r.pc = "announce" /\ r.box = p.box /\ r.ns = p.ns
          /\ r.version = p.version /\ r.state = p.state
      BY <1>p DEF Call, PCs
    <3>2. Become(c, r)
      BY <2>2 DEF Goto
    <3> HIDE DEF r
    <3>3. call'[c] = r
      BY <3>2 DEF Become, TypeOK
    <3>4. p.box \in Boxes /\ boxes[p.box].state # "absent" /\ boxes[p.box].current # None
      BY <1>11, <1>i DEF SetPublished, At, CallInv, Recorded
    <3>5. /\ boxes'[p.box].current = boxes[p.box].current
          /\ boxes'[p.box].state = "published"
          /\ boxes'[p.box].ns = boxes[p.box].ns
          /\ \A b \in Boxes : b # p.box => boxes'[b] = boxes[b]
      BY <2>2, <3>4 DEF TypeOK, BoxRow
    <3>6. UNCHANGED <<bundles, artifacts, repo, announced>>
      BY <1>11 DEF SetPublished
    <3>7. CallInv(c)'
      BY <1>11, <1>i, <3>1, <3>3, <3>4, <3>5, <3>6
         DEF SetPublished, At, CallInv, Pending, Building, Recorded
    <3>8. Calls'
      BY <3>1, <3>2, <3>6, <3>7, CallsStep
    <3>9. CurrentIsDownloadable' /\ PublishedHasCurrent' /\ BuiltFromCommittedTree'
      BY <1>i, <3>4, <3>5, <3>6
         DEF TablesInv, CurrentIsDownloadable, PublishedHasCurrent, BuiltFromCommittedTree
    <3>10. AnnouncedAfterPersistence'
      <4>1. \A v \in announced : v \in Versions /\ bundles[v].box \in Boxes
        BY <1>i DEF TablesInv, AnnouncedAfterPersistence, TypeOK
      <4>2. QED
        BY <1>i, <3>4, <3>5, <3>6, <4>1 DEF TablesInv, AnnouncedAfterPersistence
    <3>11. TablesInv'
      BY <1>i, <3>4, <3>5, <3>6, <3>9, <3>10 DEF TablesInv, NoBoxRow
    <3>12. QED
      BY <3>8, <3>11, PublishInvPartsNext
  <2>3. QED
    BY <1>11, <2>1, <2>2 DEF SetPublished, Fail
<1>12. CASE Announce(c)
  <2>1. /\ announced' = announced \cup {p.version} /\ Return(c)
        /\ UNCHANGED <<boxes, bundles, artifacts, repo>>
    BY <1>12 DEF Announce
  <2>2. Calls'
    BY <1>u, <2>1
  <2>3. /\ bundles[p.version].state = "succeeded" /\ bundles[p.version].box = p.box
        /\ boxes[p.box].current # None
        /\ boxes[p.box].state \in {"published", "archived"}
    BY <1>12, <1>i DEF Announce, At, CallInv, Recorded
  <2>4. AnnouncedAfterPersistence'
    BY <1>i, <2>1, <2>3 DEF TablesInv, AnnouncedAfterPersistence
  <2>5. TablesInv'
    BY <1>i, <2>1, <2>4
       DEF TablesInv, CurrentIsDownloadable, PublishedHasCurrent, BuiltFromCommittedTree
  <2>6. QED
    BY <2>2, <2>5, PublishInvPartsNext
<1>13. QED
  BY <1>1, <1>2, <1>3, <1>4, <1>5, <1>6, <1>7, <1>8, <1>9, <1>10, <1>11, <1>12
     DEF PublishStep

\* Every step keeps the publish invariant: a call's own steps by the lemma above,
\* everything else because it only makes the tables and stores grow.
LEMMA PublishInvStep == TypeOK /\ TypeOK' /\ PublishInv /\ [Next]_vars => PublishInv'
<1> SUFFICES ASSUME TypeOK, TypeOK', PublishInv, [Next]_vars
             PROVE  PublishInv'
  OBVIOUS
<1>g. BoxesGrow /\ StoresGrow /\ SettledStay
  BY Grows
<1>i. TablesInv
  BY PublishInvParts
<1>h. \A b \in Boxes : repo[b].head \in repo[b].trees
  BY DEF PublishInv
<1>t. UNCHANGED <<boxes, bundles, announced, repo>> => TablesInv'
  BY <1>g, <1>i, <1>h, TablesFrame
<1>f. UNCHANGED <<call, bundles>> =>
        DistinctVersions' /\ \A d \in Callers : CallInv(d)'
  BY <1>g, CallsFrame
<1>1. ASSUME NEW k \in Creators, CreateGate(k)
      PROVE  PublishInv'
  BY <1>1, <1>t, <1>f, PublishInvPartsNext DEF CreateGate
<1>2. ASSUME NEW k \in Creators, CreateInsert(k)
      PROVE  PublishInv'
  <2>1. UNCHANGED <<bundles, artifacts, repo, announced>>
    BY <1>2 DEF CreateInsert
  <2>2. ASSUME NEW b \in Boxes, boxes[b].state = "absent",
               boxes' = [boxes EXCEPT ![b] =
                 [ns |-> creating[k], state |-> "draft", current |-> None]]
        PROVE  TablesInv'
    <3>1. creating[k] # None
      BY <1>2 DEF CreateInsert
    <3>2. /\ boxes'[b].state = "draft" /\ boxes'[b].current = None /\ boxes'[b].ns # None
          /\ \A a \in Boxes : a # b => boxes'[a] = boxes[a]
      BY <2>2, <3>1 DEF TypeOK
    <3>3. CurrentIsDownloadable' /\ PublishedHasCurrent' /\ BuiltFromCommittedTree'
      BY <1>i, <2>1, <3>2
         DEF TablesInv, CurrentIsDownloadable, PublishedHasCurrent, BuiltFromCommittedTree
    <3>4. AnnouncedAfterPersistence'
      <4>1. \A v \in announced : bundles[v].box \in Boxes /\ bundles[v].box # b
        BY <1>i, <2>2 DEF TablesInv, AnnouncedAfterPersistence, TypeOK
      <4>2. QED
        BY <1>i, <2>1, <3>2, <4>1 DEF TablesInv, AnnouncedAfterPersistence
    <3>5. QED
      BY <1>i, <2>1, <3>2, <3>3, <3>4 DEF TablesInv
  <2>3. TablesInv'
    BY <1>2, <1>t, <2>2 DEF CreateInsert
  <2>4. QED
    BY <1>2, <1>f, <2>3, PublishInvPartsNext DEF CreateInsert
<1>3. ASSUME NEW n \in Namespaces, NEW b \in Boxes, Archive(n, b)
      PROVE  PublishInv'
  <2>1. UNCHANGED <<call, bundles, artifacts, repo, announced>> /\ boxes[b].ns = n
    BY <1>3 DEF Archive
  <2>2. /\ boxes'[b].state = "archived" /\ boxes'[b].ns = boxes[b].ns
        /\ boxes'[b].current = boxes[b].current
        /\ \A a \in Boxes : a # b => boxes'[a] = boxes[a]
    BY <1>3 DEF Archive, TypeOK, BoxRow
  <2>3. CurrentIsDownloadable' /\ PublishedHasCurrent' /\ BuiltFromCommittedTree'
    BY <1>i, <2>1, <2>2
       DEF TablesInv, CurrentIsDownloadable, PublishedHasCurrent, BuiltFromCommittedTree
  <2>4. AnnouncedAfterPersistence'
    <3>1. \A v \in announced : v \in Versions /\ bundles[v].box \in Boxes
      BY <1>i DEF TablesInv, AnnouncedAfterPersistence, TypeOK
    <3>2. QED
      BY <1>i, <2>1, <2>2, <3>1 DEF TablesInv, AnnouncedAfterPersistence
  <2>5. TablesInv'
    <3>1. n # None
      BY ConstantsAssumption
    <3>2. QED
      BY <1>i, <2>1, <2>2, <2>3, <2>4, <3>1 DEF TablesInv
  <2>6. QED
    BY <1>f, <2>1, <2>5, PublishInvPartsNext
<1>5. ASSUME NEW b \in Boxes, FsWrite(b)
      PROVE  PublishInv'
  <2>1. PICK p \in Paths, t \in Contents : Commit(b, [EmptyTree EXCEPT ![p] = t])
    BY <1>5 DEF FsWrite
  <2>2. [EmptyTree EXCEPT ![p] = t] \in Trees
    BY DEF EmptyTree, Trees
  <2>3. \A a \in Boxes : repo'[a].head \in repo'[a].trees
    BY <1>h, <2>1, <2>2, CommitStep
  <2>4. TablesInv'
    BY <1>5, <1>g, <1>i, <2>3, TablesFrame DEF FsWrite
  <2>5. QED
    BY <1>5, <1>f, <2>4, PublishInvPartsNext DEF FsWrite
<1>6. ASSUME NEW c \in Callers, BeginPublish(c)
      PROVE  PublishInv'
  <2>1. PICK n \in Namespaces, b \in Boxes, files \in Trees :
          Become(c, [NoCall EXCEPT !.pc = "get", !.ns = n, !.box = b, !.files = files])
    BY <1>6 DEF BeginPublish
  <2> DEFINE r == [NoCall EXCEPT !.pc = "get", !.ns = n, !.box = b, !.files = files]
  <2>2. r \in Call /\ r.pc = "get" /\ r.ns = n /\ r.box = b /\ r.version = None
    BY RowTypes DEF Call, NoCall, PCs
  <2> HIDE DEF r
  <2>3. Become(c, r)
    BY <2>1 DEF r
  <2>4. call'[c] = r
    BY <2>3 DEF Become, TypeOK
  <2>5. CallInv(c)'
    BY <2>2, <2>4 DEF CallInv, Pending, Building, Recorded
  <2>6. UNCHANGED <<boxes, bundles, announced, repo>>
    BY <1>6 DEF BeginPublish
  <2>7. DistinctVersions' /\ \A d \in Callers : CallInv(d)'
    BY <1>g, <2>2, <2>3, <2>5, <2>6, CallsStep
  <2>8. QED
    BY <1>t, <2>6, <2>7, PublishInvPartsNext
<1>7. ASSUME NEW c \in Callers, PublishStep(c)
      PROVE  PublishInv'
  BY <1>7, <1>g, PublishStepInv
<1>8. CASE Crash
  <2>1. \A d \in Callers : call'[d] = NoCall
    BY <1>8 DEF Crash
  <2>2. DistinctVersions'
    BY <2>1 DEF DistinctVersions, NoCall
  <2>3. \A d \in Callers : CallInv(d)'
    BY <2>1, IdleCallInv
  <2>4. QED
    BY <1>8, <1>t, <2>2, <2>3, PublishInvPartsNext DEF Crash
<1>9. CASE Tick
  BY <1>9, <1>t, <1>f, PublishInvPartsNext DEF Tick
<1>10. CASE UNCHANGED vars
  BY <1>10, <1>t, <1>f, PublishInvPartsNext DEF vars
<1> QED
  BY <1>1, <1>2, <1>3, <1>5, <1>6, <1>7, <1>8, <1>9, <1>10 DEF Next

-----------------------------------------------------------------------------
(* Theorems *)

\* The tables, the stores and the locals of every call keep their types, and the
\* order of a call's writes holds at every point of every interleaving: types and
\* PublishInv are inductive together, since a call in flight indexes the tables by
\* the box and the version it holds.
THEOREM PublishCorrect == Spec => [](TypeOK /\ PublishInv)
<1>1. Init => TypeOK /\ PublishInv
  BY TypeInit, PublishInvInit
<1>2. TypeOK /\ PublishInv /\ [Next]_vars => (TypeOK /\ PublishInv)'
  BY TypeStep, PublishInvStep
<1>3. QED
  BY <1>1, <1>2, PTL DEF Spec

\* Type correctness of the publish pipeline.
THEOREM TypeCorrect == Spec => []TypeOK
  BY PublishCorrect, PTL

\* current_version always names a build of that box that succeeded and whose bytes
\* are stored, for any number of concurrent publishes and any faults.
THEOREM CurrentDownloadable == Spec => []CurrentIsDownloadable
<1>1. PublishInv => CurrentIsDownloadable
  BY DEF PublishInv
<1>2. QED
  BY <1>1, PublishCorrect, PTL

\* A published box has a current version.
THEOREM PublishedBoxHasCurrent == Spec => []PublishedHasCurrent
<1>1. PublishInv => PublishedHasCurrent
  BY DEF PublishInv
<1>2. QED
  BY <1>1, PublishCorrect, PTL

\* bundle_ready is only announced once everything it promises is persisted.
THEOREM AnnouncedPersisted == Spec => []AnnouncedAfterPersistence
<1>1. PublishInv => AnnouncedAfterPersistence
  BY DEF PublishInv
<1>2. QED
  BY <1>1, PublishCorrect, PTL

\* Every successful bundle was built from a tree of its box's git history.
THEOREM BuiltFromHistory == Spec => []BuiltFromCommittedTree
<1>1. PublishInv => BuiltFromCommittedTree
  BY DEF PublishInv
<1>2. QED
  BY <1>1, PublishCorrect, PTL

\* No step of any call rewrites a bundle row that is succeeded or failed.
THEOREM SettledImmutable == Spec => SettledBundlesImmutable
<1>1. TypeOK /\ TypeOK' /\ PublishInv /\ [Next]_vars =>
        [\A v \in Versions : bundles[v].state \in {"succeeded", "failed"}
                               => bundles'[v] = bundles[v]]_vars
  BY Grows DEF SettledStay
<1>2. QED
  BY <1>1, PublishCorrect, PTL DEF Spec, SettledBundlesImmutable

=============================================================================
