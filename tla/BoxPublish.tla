----------------------------- MODULE BoxPublish -----------------------------
(***************************************************************************)
(* The publish pipeline of the relay: box.Service (internal/box/service.go *)
(* and quota.go) over the app_boxes and app_bundles tables                 *)
(* (internal/store/boxes.go), the content-addressed artifact store         *)
(* (internal/artifact) and the per-box git workspace (internal/workspace). *)
(*                                                                         *)
(* Every HTTP request and every AI turn runs the service in a goroutine of *)
(* its own and nothing serialises two calls on one box: each statement of  *)
(* a call is one action here, and the actions of the calls interleave.  A  *)
(* call keeps what it read (the box row) while it builds, so it can act on *)
(* a row that has changed since.                                           *)
(*                                                                         *)
(* The data is abstract.  A version is a fresh value (newVersion draws six *)
(* random bytes), a source tree maps paths to contents, a bundle is a      *)
(* function of the tree it was built from and its SHA-256 is the bundle    *)
(* itself (no collisions).  Only the fields of a row that the properties   *)
(* tell apart are kept.                                                    *)
(***************************************************************************)
EXTENDS Integers, FiniteSets

CONSTANTS
  Namespaces,     \* users; a namespace is a user id
  Boxes,          \* box ids that Create can draw
  Versions,       \* version ids that BuildAndPublish can draw
  Paths,          \* source file paths
  Contents,       \* source file contents
  Callers,        \* goroutines that run BuildAndPublish
  Creators,       \* goroutines that run Create
  None,           \* the empty string or nil
  Faults,         \* what may fail: a subset of FaultKinds
  SandboxCap,     \* Plan.SandboxRunsPerMonth, -1 for no limit
  ActiveBoxCap,   \* Plan.ActiveBoxes, -1 for no limit
  MonthLength,    \* clock ticks of a calendar month
  MaxTime         \* bound: the last clock tick explored

FaultKinds == {"db", "workspace", "build", "artifact", "sign", "crash"}

ASSUME ConstantsAssumption ==
  /\ None \notin Versions \cup Boxes \cup Namespaces
  /\ Faults \subseteq FaultKinds
  /\ SandboxCap \in Int /\ ActiveBoxCap \in Int
  /\ MonthLength \in Nat \ {0}
  /\ MaxTime \in Nat

\* A bound on the requests in flight at once; there is at least one publisher.
ASSUME ConcurrencyAssumption ==
  /\ IsFiniteSet(Callers) /\ Callers # {}
  /\ IsFiniteSet(Creators)

VARIABLES
  boxes,      \* app_boxes: a row per box id, state "absent" when there is none
  bundles,    \* app_bundles: a row per version, state "absent" when there is none
  artifacts,  \* files of the artifact store, named by their content hash
  repo,       \* git workspace of a box: the tree at HEAD, the trees ever committed
  call,       \* locals of each BuildAndPublish in flight
  creating,   \* namespace of each Create that passed its gate, None otherwise
  announced,  \* versions announced on the event bus so far
  now         \* wall clock

vars == <<boxes, bundles, artifacts, repo, call, creating, announced, now>>

-----------------------------------------------------------------------------
(* Rows and values *)

Trees == [Paths -> Contents \cup {None}]
EmptyTree == [p \in Paths |-> None]

\* What a builder returns: a function of the source tree (DockerBuilder); the entry
\* point is left out.
Bundle(src) == [source |-> src]
BundleBytes == {Bundle(t) : t \in Trees}

BoxStates == {"absent", "draft", "published", "archived"}
BoxRow == [ns : Namespaces \cup {None}, state : BoxStates,
           current : Versions \cup {None}]
NoBoxRow == [ns |-> None, state |-> "absent", current |-> None]

BuildStates == {"absent", "running", "failed", "succeeded"}
BundleRow == [box : Boxes \cup {None}, state : BuildStates,
              hash : BundleBytes \cup {None}, built : Nat]
NoBundleRow == [box |-> None, state |-> "absent", hash |-> None, built |-> 0]

PCs == {"idle", "get", "commit", "snapshot", "put_running", "build", "upload",
        "put_failed", "sign", "put_succeeded", "set_current", "set_state",
        "announce"}
Call == [pc : PCs, ns : Namespaces \cup {None}, box : Boxes \cup {None},
         files : Trees, state : BoxStates, version : Versions \cup {None},
         bytes : BundleBytes \cup {None}]
NoCall == [pc |-> "idle", ns |-> None, box |-> None, files |-> EmptyTree,
           state |-> "absent", version |-> None, bytes |-> None]

MonthStart(t) == t - (t % MonthLength)

TypeOK ==
  /\ boxes \in [Boxes -> BoxRow]
  /\ bundles \in [Versions -> BundleRow]
  /\ artifacts \subseteq BundleBytes
  /\ repo \in [Boxes -> [head : Trees, trees : SUBSET Trees]]
  /\ call \in [Callers -> Call]
  /\ creating \in [Creators -> Namespaces \cup {None}]
  /\ announced \subseteq Versions
  /\ now \in Nat

Init ==
  /\ boxes = [b \in Boxes |-> NoBoxRow]
  /\ bundles = [v \in Versions |-> NoBundleRow]
  /\ artifacts = {}
  /\ repo = [b \in Boxes |-> [head |-> EmptyTree, trees |-> {EmptyTree}]]
  /\ call = [c \in Callers |-> NoCall]
  /\ creating = [k \in Creators |-> None]
  /\ announced = {}
  /\ now = 0

-----------------------------------------------------------------------------
(* The quota gate: counts read from the two tables *)

\* SandboxRunsByNamespace: bundle rows of the namespace's boxes built this month.
SandboxRuns(n) ==
  Cardinality({v \in Versions :
    /\ bundles[v].state # "absent"
    /\ boxes[bundles[v].box].ns = n
    /\ bundles[v].built >= MonthStart(now)})

\* ActiveByNamespace: boxes of the namespace that are not archived.
ActiveBoxes(n) ==
  Cardinality({b \in Boxes : boxes[b].ns = n /\ boxes[b].state # "archived"})

\* Mutants of the gates: the comparison lets one more through.
CheckSandboxOffByOne(n) == SandboxCap < 0 \/ SandboxRuns(n) <= SandboxCap
CheckStorageOffByOne(n) == ActiveBoxCap < 0 \/ ActiveBoxes(n) <= ActiveBoxCap

CheckSandbox(n) == SandboxCap < 0 \/ SandboxRuns(n) < SandboxCap
CheckStorage(n) == ActiveBoxCap < 0 \/ ActiveBoxes(n) < ActiveBoxCap

-----------------------------------------------------------------------------
(* Service.Create: gate, then insert; nothing holds the slot in between *)

CreateGate(k) ==
  /\ creating[k] = None
  /\ \E n \in Namespaces :
       /\ CheckStorage(n)
       /\ creating' = [creating EXCEPT ![k] = n]
  /\ UNCHANGED <<boxes, bundles, artifacts, repo, call, announced, now>>

CreateInsert(k) ==
  /\ creating[k] # None
  /\ \/ \E b \in Boxes :
          /\ boxes[b].state = "absent"
          /\ boxes' = [boxes EXCEPT ![b] =
               [ns |-> creating[k], state |-> "draft", current |-> None]]
     \/ "db" \in Faults /\ UNCHANGED boxes
  /\ creating' = [creating EXCEPT ![k] = None]
  /\ UNCHANGED <<bundles, artifacts, repo, call, announced, now>>

\* Service.Archive: one UPDATE on (namespace, id), whatever the state was.
Archive(n, b) ==
  /\ boxes[b].ns = n
  /\ boxes' = [boxes EXCEPT ![b].state = "archived"]
  /\ UNCHANGED <<bundles, artifacts, repo, call, creating, announced, now>>

-----------------------------------------------------------------------------
(* The workspace: Repo.Commit runs under the box's lock, so it is one step *)

Merge(tree, files) ==
  [p \in Paths |-> IF files[p] # None THEN files[p] ELSE tree[p]]

Commit(b, files) ==
  LET tree == Merge(repo[b].head, files)
  IN  repo' = [repo EXCEPT ![b] =
                 [head |-> tree, trees |-> repo[b].trees \cup {tree}]]

\* The agent's fs_write tool commits one file at any time.
FsWrite(b) ==
  /\ boxes[b].state # "absent"
  /\ \E p \in Paths, c \in Contents :
       Commit(b, [EmptyTree EXCEPT ![p] = c])
  /\ UNCHANGED <<boxes, bundles, artifacts, call, creating, announced, now>>

-----------------------------------------------------------------------------
(* Service.BuildAndPublish *)

At(c, pc) == call[c].pc = pc
Become(c, r) == call' = [call EXCEPT ![c] = r]
Goto(c, pc) == Become(c, [call[c] EXCEPT !.pc = pc])
Return(c) == Become(c, NoCall)

\* The call returns the error of a collaborator that can fail.
Fail(c, kind) ==
  /\ kind \in Faults
  /\ Return(c)

\* gateSandbox runs before the box is looked up.  A denied call returns at once.
BeginPublish(c) ==
  /\ At(c, "idle")
  /\ \E n \in Namespaces, b \in Boxes, files \in Trees :
       /\ CheckSandbox(n)
       /\ Become(c, [NoCall EXCEPT !.pc = "get", !.ns = n, !.box = b,
                                     !.files = files])
  /\ UNCHANGED <<boxes, bundles, artifacts, repo, creating, announced, now>>

\* Mutant: a version drawn from the clock alone may repeat.
FreshFromClock(v) == \A c \in Callers : call[c].version # v

\* newVersion: no row and no other call has the version.
Fresh(v) ==
  /\ bundles[v].state = "absent"
  /\ \A c \in Callers : call[c].version # v

\* Boxes.Get, the archived check and newVersion.  The row read here is the one
\* the rest of the call acts on.
GetBox(c) ==
  LET b == call[c].box
      usable == boxes[b].ns = call[c].ns /\ boxes[b].state # "archived"
  IN  /\ At(c, "get")
      /\ \/ /\ usable
            /\ \E v \in Versions :
                 /\ Fresh(v)
                 /\ Become(c, [call[c] EXCEPT
                      !.pc = IF call[c].files = EmptyTree THEN "snapshot"
                                                          ELSE "commit",
                      !.state = boxes[b].state,
                      !.version = v])
         \/ ~usable /\ Return(c)
         \/ Fail(c, "db")
      /\ UNCHANGED <<boxes, bundles, artifacts, repo, creating, announced, now>>

CommitFiles(c) ==
  /\ At(c, "commit")
  /\ \/ Commit(call[c].box, call[c].files) /\ Goto(c, "snapshot")
     \/ Fail(c, "workspace") /\ UNCHANGED repo
  /\ UNCHANGED <<boxes, bundles, artifacts, creating, announced, now>>

\* Mutant: a publish with files builds those files instead of the snapshot.
SnapshotOwnFiles(c) ==
  /\ At(c, "snapshot")
  /\ Goto(c, "put_running")
  /\ UNCHANGED <<boxes, bundles, artifacts, repo, creating, announced, now>>

\* src.Files becomes the tree at HEAD, which others may have moved meanwhile.
Snapshot(c) ==
  /\ At(c, "snapshot")
  /\ \/ Become(c, [call[c] EXCEPT !.pc = "put_running",
                                  !.files = repo[call[c].box].head])
     \/ Fail(c, "workspace")
  /\ UNCHANGED <<boxes, bundles, artifacts, repo, creating, announced, now>>

\* Boxes.PutBundle: insert or overwrite the row of (box, version).
PutBundle(c, state, hash) ==
  bundles' = [bundles EXCEPT ![call[c].version] =
    [box |-> call[c].box, state |-> state, hash |-> hash,
     built |-> now]]

PutRunning(c) ==
  /\ At(c, "put_running")
  /\ \/ PutBundle(c, "running", None) /\ Goto(c, "build")
     \/ Fail(c, "db") /\ UNCHANGED bundles
  /\ UNCHANGED <<boxes, artifacts, repo, creating, announced, now>>

\* Mutant: a failed build returns without recording the failure.
BuildForgetsFailure(c) ==
  /\ At(c, "build")
  /\ \/ Become(c, [call[c] EXCEPT !.pc = "upload",
                                  !.bytes = Bundle(call[c].files)])
     \/ Fail(c, "build")
  /\ UNCHANGED <<boxes, bundles, artifacts, repo, creating, announced, now>>

Build(c) ==
  /\ At(c, "build")
  /\ \/ Become(c, [call[c] EXCEPT !.pc = "upload",
                                  !.bytes = Bundle(call[c].files)])
     \/ "build" \in Faults /\ Goto(c, "put_failed")
  /\ UNCHANGED <<boxes, bundles, artifacts, repo, creating, announced, now>>

Upload(c) ==
  /\ At(c, "upload")
  /\ \/ artifacts' = artifacts \cup {call[c].bytes} /\ Goto(c, "sign")
     \/ "artifact" \in Faults /\ Goto(c, "put_failed") /\ UNCHANGED artifacts
  /\ UNCHANGED <<boxes, bundles, repo, creating, announced, now>>

\* The error of this PutBundle is discarded: the row may stay "running".
PutFailed(c) ==
  /\ At(c, "put_failed")
  /\ \/ PutBundle(c, "failed", None)
     \/ "db" \in Faults /\ UNCHANGED bundles
  /\ Return(c)
  /\ UNCHANGED <<boxes, artifacts, repo, creating, announced, now>>

\* An error here returns without touching the row, which stays "running".
SignURL(c) ==
  /\ At(c, "sign")
  /\ \/ call[c].bytes \in artifacts /\ Goto(c, "put_succeeded")
     \/ call[c].bytes \notin artifacts /\ Return(c)
     \/ Fail(c, "sign")
  /\ UNCHANGED <<boxes, bundles, artifacts, repo, creating, announced, now>>

\* Mutant: the error of the final PutBundle is discarded like the one above.
PutSucceededIgnoringError(c) ==
  /\ At(c, "put_succeeded")
  /\ \/ PutBundle(c, "succeeded", call[c].bytes)
     \/ "db" \in Faults /\ UNCHANGED bundles
  /\ Goto(c, "set_current")
  /\ UNCHANGED <<boxes, artifacts, repo, creating, announced, now>>

PutSucceeded(c) ==
  /\ At(c, "put_succeeded")
  /\ \/ /\ PutBundle(c, "succeeded", call[c].bytes)
        /\ Goto(c, "set_current")
     \/ Fail(c, "db") /\ UNCHANGED bundles
  /\ UNCHANGED <<boxes, artifacts, repo, creating, announced, now>>

\* Mutants: id and version swapped in the UPDATE; its error discarded.
SetCurrentToBoxID(c) ==
  /\ At(c, "set_current")
  /\ boxes' = [boxes EXCEPT ![call[c].box].current = call[c].box]
  /\ Goto(c, IF call[c].state # "published" THEN "set_state" ELSE "announce")
  /\ UNCHANGED <<bundles, artifacts, repo, creating, announced, now>>
SetCurrentIgnoringError(c) ==
  /\ At(c, "set_current")
  /\ \/ boxes' = [boxes EXCEPT ![call[c].box].current = call[c].version]
     \/ "db" \in Faults /\ UNCHANGED boxes
  /\ Goto(c, IF call[c].state # "published" THEN "set_state" ELSE "announce")
  /\ UNCHANGED <<bundles, artifacts, repo, creating, announced, now>>

\* SetCurrentVersion, then SetState only if the row READ AT THE START was not
\* yet published.
SetCurrentVersion(c) ==
  /\ At(c, "set_current")
  /\ \/ /\ boxes' = [boxes EXCEPT ![call[c].box].current = call[c].version]
        /\ Goto(c, IF call[c].state # "published" THEN "set_state" ELSE "announce")
     \/ Fail(c, "db") /\ UNCHANGED boxes
  /\ UNCHANGED <<bundles, artifacts, repo, creating, announced, now>>

\* Mutant: the error of SetState is discarded.
SetPublishedIgnoringError(c) ==
  /\ At(c, "set_state")
  /\ \/ boxes' = [boxes EXCEPT ![call[c].box].state = "published"]
     \/ "db" \in Faults /\ UNCHANGED boxes
  /\ Goto(c, "announce")
  /\ UNCHANGED <<bundles, artifacts, repo, creating, announced, now>>

SetPublished(c) ==
  /\ At(c, "set_state")
  /\ \/ /\ boxes' = [boxes EXCEPT ![call[c].box].state = "published"]
        /\ Goto(c, "announce")
     \/ Fail(c, "db") /\ UNCHANGED boxes
  /\ UNCHANGED <<bundles, artifacts, repo, creating, announced, now>>

\* Events.Publish, after all persistence.
Announce(c) ==
  /\ At(c, "announce")
  /\ announced' = announced \cup {call[c].version}
  /\ Return(c)
  /\ UNCHANGED <<boxes, bundles, artifacts, repo, creating, now>>

-----------------------------------------------------------------------------
(* The environment *)

\* The relay process dies: the goroutines are gone, disk and tables stay.
Crash ==
  /\ "crash" \in Faults
  /\ call' = [c \in Callers |-> NoCall]
  /\ creating' = [k \in Creators |-> None]
  /\ UNCHANGED <<boxes, bundles, artifacts, repo, announced, now>>

Tick ==
  /\ now < MaxTime
  /\ now' = now + 1
  /\ UNCHANGED <<boxes, bundles, artifacts, repo, call, creating, announced>>

PublishStep(c) ==
  \/ GetBox(c)
  \/ CommitFiles(c)
  \/ Snapshot(c)
  \/ PutRunning(c)
  \/ Build(c)
  \/ Upload(c)
  \/ PutFailed(c)
  \/ SignURL(c)
  \/ PutSucceeded(c)
  \/ SetCurrentVersion(c)
  \/ SetPublished(c)
  \/ Announce(c)

Next ==
  \/ \E k \in Creators : CreateGate(k) \/ CreateInsert(k)
  \/ \E n \in Namespaces, b \in Boxes : Archive(n, b)
  \/ \E b \in Boxes : FsWrite(b)
  \/ \E c \in Callers : BeginPublish(c) \/ PublishStep(c)
  \/ Crash
  \/ Tick

Spec == Init /\ [][Next]_vars

\* The Go scheduler runs every runnable goroutine; requests arrive as they like.
FairSpec == Spec /\ \A c \in Callers : WF_vars(PublishStep(c))

-----------------------------------------------------------------------------
(* Properties *)

\* A box only ever points at a build of its own that succeeded and whose bytes
\* are in the artifact store, whatever fails or dies in the middle of a publish
\* (BuildAndPublish uploads, then writes the row, then sets current_version).
CurrentIsDownloadable ==
  \A b \in Boxes : boxes[b].current # None =>
    LET row == bundles[boxes[b].current]
    IN  /\ row.state = "succeeded"
        /\ row.box = b
        /\ row.hash \in artifacts

\* A published box has a current version: SetState runs after SetCurrentVersion.
PublishedHasCurrent ==
  \A b \in Boxes : boxes[b].state = "published" => boxes[b].current # None

\* A host that reacts to bundle_ready finds everything persisted: the row of the
\* announced version is final, and its box has a current version and has left
\* draft (Events.Publish is the last thing BuildAndPublish does).
AnnouncedAfterPersistence ==
  \A v \in announced :
    /\ bundles[v].state = "succeeded"
    /\ boxes[bundles[v].box].current # None
    /\ boxes[bundles[v].box].state \in {"published", "archived"}

\* Once a bundle row is final nothing rewrites it: PutBundle is an upsert, and
\* only the freshness of versions keeps two calls off the same row.
SettledBundlesImmutable ==
  [][\A v \in Versions : bundles[v].state \in {"succeeded", "failed"}
                            => bundles'[v] = bundles[v]]_vars

\* Every bundle is built from a tree that the box's git repository holds, even
\* when the agent commits between the publish's own commit and its snapshot.
BuiltFromCommittedTree ==
  \A v \in Versions : bundles[v].state = "succeeded" =>
    bundles[v].hash.source \in repo[bundles[v].box].trees

\* Where a call stands with respect to its bundle row.
Pending == {"commit", "snapshot", "put_running"}
Building == {"build", "upload", "put_failed", "sign", "put_succeeded"}
Recorded == {"set_current", "set_state", "announce"}

\* What a call in flight may rely on although it holds no lock: the row of its
\* version is where its own last write left it, its bytes stay uploaded, its box
\* row exists and never goes back to draft.
CallInv(c) ==
  LET p == call[c]
  IN  /\ p.pc = "idle" => p.version = None
      /\ p.pc # "idle" => p.ns \in Namespaces /\ p.box \in Boxes
      /\ p.pc \in Pending \cup Building \cup Recorded =>
           /\ p.version \in Versions
           /\ boxes[p.box].state # "absent"
           /\ p.state = "published" => boxes[p.box].state \in {"published", "archived"}
      /\ p.pc \in Pending => bundles[p.version].state = "absent"
      /\ p.pc \in Building => bundles[p.version].state = "running"
      /\ p.pc \in Recorded =>
           /\ bundles[p.version].state = "succeeded"
           /\ bundles[p.version].box = p.box
           /\ bundles[p.version].hash \in artifacts
      /\ p.pc \in {"sign", "put_succeeded"} => p.bytes \in artifacts
      /\ p.pc \in {"put_running"} \cup Building => p.files \in repo[p.box].trees
      /\ p.pc \in {"upload", "sign", "put_succeeded"} => p.bytes = Bundle(p.files)
      /\ p.pc \in {"set_state", "announce"} => boxes[p.box].current # None
      /\ p.pc = "announce" => boxes[p.box].state \in {"published", "archived"}

\* No two calls in flight hold the same version.
DistinctVersions ==
  \A c, d \in Callers : c # d /\ call[c].version # None => call[c].version # call[d].version

\* The inductive strengthening of the publish invariants: the order of a call's
\* writes (bytes, row, current_version, state, event) seen from every point at
\* which the call can be overtaken, fail or die.
PublishInv ==
  /\ \A b \in Boxes : boxes[b].state = "absent" \/ boxes[b].ns = None => boxes[b] = NoBoxRow
  /\ \A b \in Boxes : repo[b].head \in repo[b].trees
  /\ \A v \in Versions : bundles[v].state # "absent" => bundles[v].box \in Boxes
  /\ DistinctVersions
  /\ \A c \in Callers : CallInv(c)
  /\ CurrentIsDownloadable
  /\ PublishedHasCurrent
  /\ AnnouncedAfterPersistence
  /\ BuiltFromCommittedTree

\* The sandbox gate counts rows before the call adds its own, so concurrent calls
\* overshoot the monthly cap, but by no more than one build per other caller.
SandboxOvershootBounded ==
  SandboxCap >= 0 =>
    \A n \in Namespaces :
      SandboxRuns(n) <= SandboxCap + Cardinality(Callers) - 1

\* The storage gate has the same window in Create; a publish that finishes after
\* its draft box was archived adds one active box more.
ActiveOvershootBounded ==
  ActiveBoxCap >= 0 =>
    \A n \in Namespaces :
      ActiveBoxes(n) <= ActiveBoxCap + Cardinality(Creators)
                                     + Cardinality(Callers) - 1

\* A bundle row leaves "running": the build and the upload may fail, and then
\* the call records the failure.
RunningSettles ==
  \A v \in Versions :
    bundles[v].state = "running" ~> bundles[v].state \in {"succeeded", "failed"}

\* Archived is the last state of a box (draft -> published -> archived) and no
\* publish is accepted any more.
ArchivedIsFinal ==
  [][\A b \in Boxes : boxes[b].state = "archived" => boxes'[b].state = "archived"]_vars

=============================================================================
