# A TLA+ model of the appunvs relay

appunvs lets a user describe an app to an agent, which writes its source,
builds it and publishes it as a *box* that other devices load.  The Go program
under `relay/` is the only server: it owns the accounts, the boxes and their
bundles, the live data path between a user's devices, and the quotas.  The apps
under `appunvs/` and `runtime/` are its clients.  This directory holds TLA+
specifications of the relay, the TLC configurations that check them on small
instances, and TLAPS proofs of the central results.

## Inventory

| component | state | operations | what is hard | what makes it correct |
|---|---|---|---|---|
| box service (`box/service.go`, `box/quota.go`, `store/boxes.go`) | rows of `app_boxes`, `app_bundles` | Create, Get, List, BuildAndPublish, Archive | a publish is five writes to three stores without a transaction or a lock; calls on one box interleave | a box points only at a stored, succeeded bundle of its own; events follow persistence; final rows stay; archived stays archived |
| artifact store (`artifact/`) | files named by their SHA-256 | Put, SignURL | the upload and the row that names it are separate | an uploaded bundle stays |
| git workspace (`workspace/`) | one bare repository per box, a lock per box | Commit, Snapshot, ReadFile, Log | the agent commits while a publish runs | every build is of a committed tree |
| quota (`usage/`, `box/quota.go`, `billing/ws_gate.go`) | counts over the tables, daily counters | CheckSandbox, CheckStorage, CheckLLM, CheckAndIncrement | check first, spend later | bounded overshoot |
| hub (`hub/`) | members per namespace, a 64-entry channel per connection | Register, Unregister, Broadcast, ReadLoop, WriteLoop | sends happen outside the lock; channels are closed by others; slow readers | nobody sends on a closed channel; a dropped message costs the connection |
| sequencer and stream (`sequencer/`, `stream/`) | `seq:{ns}`, `stream:{ns}` in Redis | INCR, XADD MAXLEN ~, XRANGE | two calls per message; a timeout hides whether a call took effect | unique numbers; what is delivered is stored |
| websocket handler (`handler/ws.go`) | goroutines of a socket | catch-up, then both loops; inbound messages | live messages race the replay; reconnects | no message is missed silently; the handler leaves the hub |
| schema (`handler/schema.go`, `store/schema.go`, validation in `handler/ws.go`) | tables and columns of a namespace | four mutations, each followed by a broadcast; validation of messages | committed and then not announced, or announced in another order; checks that read in two queries | devices have the stored schema; accepted messages fit it |
| box events (`box/events.go`, `handler/box_events.go`) | subscriptions, a 16-entry channel each | Subscribe, Unsubscribe, Publish | closed channels, drops, streams that linger | a live host is not left on an old version |
| pairing (`pairing/`, `handler/pairing.go`) | codes in Redis with a TTL | Issue, Claim | concurrent claims, expiry, reuse of a code, archived boxes | a code is redeemed once, for the owner's namespace |
| billing (`billing/`, `handler/billing.go`, `store/billing.go`) | subscription row per user, messages per day | gate, self-healing, checkout, webhooks | several sockets, midnight, duplicated, reordered and overlapping webhooks | counters add up; bounded overshoot; the row follows Stripe |
| AI turns (`ai/`, `handler/ai.go`, `store/turns.go`) | turn history, a frame channel per turn | Run, tools, persist | client gone, cancelled context, cost charged afterwards, history rebuilt from rows | every turn ends; its cost counts; the provider accepts the chain |
| accounts (`auth/`, `store/users.go`, `devices.go`, `apikeys.go`) | users, devices, keys | signup, login, register, create and revoke keys | an account without a subscription | a device belongs to one user |

Components talk by direct calls in the goroutine of a request: `publish_box`
(an agent tool) and `POST /box` call the box service; the service calls
workspace, builder, artifact store and tables, then the event bus.  The
websocket handler and the schema handlers share sequencer, stream and hub.
Goroutines share memory only through the hub, the event bus, the workspace
locks and the tables.

## Modules

| module | models |
|---|---|
| `BoxPublish` | box service, its two tables, quota gates, artifact store, workspace, the agent's commits |
| `BoxPublishProofs`, `BoxQuotaProofs` | the theorems about `BoxPublish`: rows and bundles; the two gates |
| `RelaySync` | websocket handler, hub, sequencer, stream, schema broadcasts, for one namespace |
| `Schema` | the declared tables of a user, the calls that change and announce them, the validation of messages |
| `Billing` | subscriptions, the daily quota of `/ws`, the part of signup that subscribes, Stripe's webhooks |
| `BoxTable` | boxes, devices and device tokens as pairing and events use them |
| `Pairing` | pairing codes and namespace tokens |
| `OneShot` | what a pairing code promises; `Pairing` implements it |
| `BoxEvents` | the event bus, its SSE handler, the end of a publish, the host that listens |
| `Hosts` | `Pairing` and `BoxEvents` over one `BoxTable`, with a common restart |
| `AITurn` | `POST /ai/turn`, the four engines, the turn table, the LLM budget |
| `RelaySyncProofs`, `SchemaProofs`, `BillingProofs`, `HostsProofs`, `AITurnProofs` | the theorems about these modules |
| `Counting` | lemmas on cardinalities, sums over finite sets and sequences, and folds, for the proofs |
| `MCBoxPublish`, `MCRelaySync`, `MCGates`, `MCHosts`, `MCAITurn` | constants, symmetry and scopes for TLC |

`PROJECT.json` maps each definition to the source lines it translates, lists the
runs, the mutated definitions that show each property can fail, the hazards of
the code and the findings.

### BoxPublish

One action per statement of `BuildAndPublish` that reads or writes shared state,
in the code's order: gate (`BeginPublish`), `GetBox`, `CommitFiles`, `Snapshot`,
`PutRunning`, `Build`, `Upload`, `SignURL`, `PutSucceeded`, `SetCurrentVersion`,
`SetPublished`, `Announce`, and `PutFailed` on the way out after a failed build
or upload.  `call[c]` holds the locals, above all the state of the box *as it was
read in* `GetBox`.  `Create` is two actions (gate, insert), `Archive` one UPDATE.
A git commit is one action because `Repo.Commit` holds the lock of the box.
Every collaborator may fail where the code tests for an error; the two discarded
errors of `PutBundle(failed)` are modelled as writes that may not happen.
`Crash` ends all calls and keeps tables and files.  A cancelled request is a
failing statement, so it is one of the faults.

The relay is the one `main.go` wires: with a workspace, an event bus and quotas.
Versions are fresh values (48 random bits; no caller of `BuildAndPublish` sets one), the hash of a bundle is the bundle,
titles, logs, sizes and URLs are left out.  A month is `MonthLength` ticks.

### RelaySync

Each socket has three control points: the handler (`pc`: Range, replay, live,
unregister, close), its `WriteLoop` (`writer`) and the message it is processing
(`out`: quota notice, INCR, XADD, snapshot of the members, sends).  A schema
handler has only the last.  `Unregister` is atomic (hub lock), `Broadcast` is a
snapshot and then one action per target, `go h.Unregister(c)` is the pending set
`evicting`.  A send on a closed channel is `BroadcastPanic`: the goroutine ends
there, as `gin.Recovery` makes it, and the socket's `WriteLoop` lives on.
`SendBlocking` waits while the buffer is full and swallows the panic.  INCR and
XADD fail with or without having taken effect; an entry stored by an XADD that
reported an error is in `unheard`.  `stream` keeps every entry with the number
`trimmed` of those MAXLEN removed: `~` keeps at least the limit and may keep
more.  A client is a sequence of sockets: each connects with `last_seq` 0 or the
highest number seen on a socket that is gone.

A message is its number.  Roles matter for fan-out only, and `both` takes the
same branches as `provider`; clients set a role on every message (`ws.go:84`).  A message dropped for its namespace or by schema
validation is a message that changes the role and nothing else.

### Schema

A call is: the name check (`Begin`), the statements of the store (`CreateTable`,
`DeleteTable`, `AddColumn` then `InsertColumn`, `DeleteColumn`), and the three
steps of `broadcastSchema`.  A Redis error, or the end of the request, ends the
announcement for good; a failed XADD may have stored its entry.  A table is
*muddled* once an announcement of it failed or another change of it was committed
while one was pending: then devices may keep a wrong schema for ever, and the
code has no repair.  `DevicesAgree` says these are the only ways.  A check is the
two queries of `GetTable`; `met` collects the schemas the table had meanwhile.
A device is the fold of `Apply` over what it received, from the stream (`stream`)
or on a socket that was always connected (`live`).  Names are legal or reserved,
a payload is the JSON type of each column.  Over `/ws` a provider may send schema
operations itself, which bypass validation (`ws.go:144`); they are left out here,
since they change no table.

### Billing

One action per SQL statement, because no path uses a transaction: the gate is
`Send`, `LoadSubscription`, `Heal` when there is no row, `CheckQuota`,
`Increment`, and `GateError` for a database error, which lets the message pass.
`Signup` and `LoadStatus` leave a handler in `ensuring` that runs `EnsureFree`
later or never.  A webhook for an update or a deletion is a lookup and a write
(`hooks` is between them), a checkout only a write.  Stripe is external: it numbers
its events about a user, sends each until it is acknowledged, in any order, again
after an acknowledgement, and never two copies at a time.  `inOrder` is the history
variable behind `InOrderAgrees`.  `held` keeps the plans a row named on each day: a
quota may be lowered after messages of that day passed, and a socket may carry the
quota it read before midnight into its check after it, so `OvershootBounded` bounds
each day by the plans of that day, beginning with the one in force at midnight.

### Pairing, BoxEvents, Hosts

`SetNX` and `GetDel` are atomic in Redis; around them `pairIssue` reads the box and
`pairClaim` looks it up and signs the token, each a step of its own, so that the
box is archived or the code expires in between.  `offered` numbers the grants:
the refinement mapping `offerStatus` reads off the state of the n-th offer from
Redis and from `takenBy`.  `pairClaim` does not look at the state of the box, as
in the code: a code issued before `Archive` still yields a token.

Subscribers are the requests of `GET /box/events`.  `Publish` copies them under the
lock and sends afterwards, one action each; a full channel drops the event, a
closed one panics.  A stream whose client is gone lingers (`gone`) until its
handler unsubscribes.

The host is the Android and the iOS app, which have the same code twice: `BoxEventsClient` holds
the stream, `BoxRepo` (iOS: `BoxStore`) the list.  It reads the list with `refresh()`
when the signed-in screen appears, on each record, and on a reconnect, which is a 200
after a stream that *ended*: a read that throws makes `runOnce` return false
(`BoxEventsClient.kt:135`, although its comment at line 88 says that errors
mid-stream still count as connected), so `firstConnect` stays true and the next 200
reads nothing.  That is the usual case on Android: OkHttp's default read timeout of
10 s (external) is shorter than the relay's heartbeat of 15 s.  A refresh is three
steps: `Ask`, `Answer` by the relay, and `RefreshLands` or `RefreshFails`.  Nothing
orders two of them, and one that fails is noted and not repeated.

A device has been *told* when its stream is open and it shows the current version of
its box, or something that will make it read that version is under way.
`OnlyFiveWaysToMiss` names every step that ends this: a first connect reads nothing;
the 200 is flushed before the subscription exists and a publish falls in between; a
panic of `Publish` skips the rest; a refresh fails; an older answer lands last.  Each
is a step of the code, so the property does not say that hosts are always told.  It
says that full channels, proper reconnects, lingering streams, other hosts and
restarts never are the reason.

### AITurn

Two goroutines per turn: the handler (`handler`: drain, gone, done) and the
engine's (`go[t].pc`: history, ask, stream, call, tool, insert, finish, closed)
around the channel `out[t]`.  Their context ends with the client, the handler or
the timeout; a select on channel and context takes either branch.  The engines
share the actions and differ in three parameters: how a history is replayed, what
a reply yields (OpenAI's tool calls under indices, Anthropic's blocks, Gemini's
usage) and how results enter the chain.  The stub has only text and the last
frame.  A message is its role, its turn and its number of calls or results; an
assistant's message with neither text nor calls is *blank*, which the providers
refuse and the engines store and replay.  `OnlyBlanksRefused` says that nothing else
in a chain is refused and that a blank message is always an earlier turn's.  It stays
in the box's history until newer rows push it out, and no later turn adds one: a turn
whose chain is refused leaves no row, because `emitErr` records it with an empty box
id, which the foreign key rejects.  `used` is what the engine was told of `spent`: an
OpenAI-compatible provider may send no usage, Anthropic's count leaves cached tokens
out, Gemini's engine skips the usage of a chunk without content.  So a finished turn
can be free; `FinishedIsCharged` says that the row charges what the engine was told.
Prices are one price (two units a cent, rounded up); the window of five days
loses rows one by one, the month all at once.  `WireEngine` is the choice
`main.go` makes, including the configurations it refuses.

## Runs

| run | result | what it shows |
|---|---|---|
| `publish_safety` | pass | `PublishInv` and its parts, and `SettledBundlesImmutable`, with every fault |
| `publish_quota` | pass | the overshoot of both gates is at most one per other call in flight (and one revived box per publish) |
| `publish_settles` | pass | a row leaves `running` when only build and upload can fail |
| `relay_safety` | pass | numbers, persistence before delivery, no gap after a catch-up, live delivery to every member, role filter |
| `relay_leaves` | pass | a client that is gone leaves the hub, with three exceptions |
| `gates_safety` | pass | the overshoot of each day, rows only webhooks change, agreement with Stripe; columns without a table, devices' schemas, accepted messages |
| `hosts_safety` | pass | `Pairing` implements `OneShot`; tokens for the owner's namespace; events stay in it; the five ways to miss a version |
| `ai_turn` | pass | budget, charging, chains, replies after a cut, ends without a last frame; every turn ends |
| `publish_archive_race` | violation | an archived box becomes published again |
| `relay_closed_send` | violation | a broadcast sends on a closed channel |
| `relay_long_replay` | violation | a replay of two entries never ends on a buffer of one, with nothing sent meanwhile |
| `ai_history` | violation | the third turn of a conversation sends the first one twice |

The four violations are disagreements between a comment or a document and the
code; `findings` in `PROJECT.json` quotes them.  They bound what the passing runs
say: `ActiveOvershootBounded` has a term for revived boxes, and
`DisconnectedLeaves` excepts a handler that died in a panic, one that waits in the
replay for room in a full buffer whose `WriteLoop` has not started (`ws.go:98`), and
one that waits to queue a quota notice after `WriteLoop` has ended (`ws.go:182`).
`NoSilentGap` speaks of sockets whose catch-up succeeded: not of those with
`last_seq` 0, which have none, nor of those whose Range failed (`ws.go:94`), which go
live with a hole; and it excepts `unheard` entries.  `LiveReachesMembers` speaks of
every member of the hub, from the moment an entry is stored.
Likewise `DevicesAgree` excepts muddled tables, `AcceptedFits` a table dropped
during the check, `InOrderAgrees` deliveries out of order or overlapping,
`FinishedIsCharged` rows the database refused and usage the engine was not told,
`OnlyBlanksRefused` blank messages, `OnlyFiveWaysToMiss` its five ways, and
`TurnEnds` an engine goroutine whose last frame meets a full channel that nobody
reads any more (`openai_engine.go:276`): what the code does there is in the model, and the hazard
list names the lines.

**Bounds.**  Two callers on one box already give every interleaving of two
publishes; two versions let one finish while another starts, and further ones
would only repeat a call.  Two paths distinguish a publish's files from the
agent's.  `publish_quota` needs four boxes (one at the cap, one per overshoot)
and a second month; a crash only ends calls, so it is left to `publish_safety`.  Two sockets give a sender and a receiver, or a lost socket
and its successor; buffers and stream of one entry make full, evicted and
trimmed happen at once; `MaxSeq` 2 gives an old and a new message.  `relay_leaves` and `relay_long_replay`
have `MaxSeq` 3, so that two entries follow a client's `last_seq` and its replay fills
the buffer by itself; in the first at most one of the sockets in use sends
(`OneTalks`), in the second nothing is sent while a client catches up (`Quiet`), both
restrictions of the environment only.  A broadcast to a replay that is stuck evicts
the connection, which ends the wait.
`gates_safety` has two sockets of one user at a quota of one (two after an
upgrade), four messages over two days; three Stripe events allow a checkout, its
update and its end, or two checkouts; three schema calls on one table allow two
that overlap and one that prepared them, against one message.  `hosts_safety` has
two devices (same or different users), one box, one code issued twice, two
versions, two streams and channels of one event, so that a device can have a stream
that lingers beside its new one, and two refreshes that overlap.  With the event
stream, only `d1` moves freely: the other device keeps one stream open, or is another
user's, or is absent (`OneEach`, `Followed` in `MCHosts`).  `ai_turn` has one client with two turns on
OpenAI's engine and one on the others, at most two tool calls a reply, or two
clients side by side.  The first turn of a client has every kind of reply and usage;
the second, which replays it, sends no text and has its usage reported, as have
clients side by side (`ExactUsage` in `MCAITurn`).  Components that share no variable are explored one at a
time (`focus` in the MC modules), since their product says nothing new.
`MaxTime`, `MaxSeq`, `MaxOffers`, `MaxMessages`, `MaxEvents`, `MaxCheckouts`,
`LastDay`, `MaxTurns`, `MaxText` and the finite sets are the only bounds.  `RelaySync` runs do
not check deadlock: the numbers and sockets are used up in the end; so are the
messages, calls, codes and turns of the other runs without it.  Symmetry is
used for callers, versions, boxes and sockets, never in a run with a liveness
property.

**Fairness.**  `FairSpec` assumes weak fairness of each goroutine's next step,
which is what the Go scheduler and finite timeouts on I/O give.  Requests,
messages, connections, losses of sockets and faults are never fair.  In
`RelaySync` the step of a socket whose peer is gone includes the write error that
TCP or the missed pong reports.

`AITurn` assumes that the handler's loop goes on (the client reads, or its
connection breaks; the server sets no write timeout, so a client that stays
connected and never reads would hold the handler), that a timeout fires, and that
the engine takes its own steps.  Answers of the provider and of tools are *not*
assumed: such a step is fair only once the context has ended, because the calls
carry it.  `GiveUp` is fair because a Go select picks at random among ready cases.

## Proofs

All theorems hold for every value of the constants that satisfies the module's
`ASSUME`s (`ConstantsAssumption`, `ConcurrencyAssumption`, `RelayAssumption`,
`SchemaAssumption`, `BillingAssumption`, `BoxTableAssumption`,
`PairingAssumption`, `BoxEventsAssumption`, `TurnAssumption`), which TLC
evaluates in each run: any number of boxes, callers, sockets, users, codes,
streams, clients, turns; any subset of faults; any capacity, cap or budget.  The
assumptions say that an "empty" value is none of the others, that capacities are
positive, and, where something is counted, that the actors in flight are finitely
many.  Nothing else is assumed.

Every safety invariant, every action property and the refinement that a passing run
checks is proved; liveness is not.

| module | theorems |
|---|---|
| `BoxPublishProofs` | `PublishCorrect`; `TypeCorrect`, `CurrentDownloadable`, `PublishedBoxHasCurrent`, `AnnouncedPersisted`, `BuiltFromHistory`, `SettledImmutable` |
| `BoxQuotaProofs` | `QuotaCorrect`; `SandboxOvershoot`, `ActiveOvershoot` |
| `RelaySyncProofs` | `RelayCorrect`; `RelayTypes`, `MembersAreOpen`, `NumbersAreUnique`, `DeliveredWasPersisted`, `NoGap`, `LiveReaches`, `SilentSockets` |
| `SchemaProofs` | `SchemaCorrect`; `NoColumnOrphaned`, `DevicesConverge`, `OnlyFittingAccepted` |
| `BillingProofs` | `BillingCorrect`; `BillingTypes`, `DailyQuota`, `WebhooksInOrder`, `EnsureFreeIsIdempotent` |
| `HostsProofs` | `HostsCorrect`; `HostsTypes`, `TokensScoped`, `EventsInNamespace`, `PairingImplementsOneShot`, `MissedOnlyFiveWays` |
| `AITurnProofs` | `TurnCorrect`; `TurnTypes`, `OneReply`, `ChargedOnce`, `LLMOvershoot`, `MuteEnds`, `ChainsOrdered` |

The first theorem of each row is its inductive invariant; few of the properties
are inductive as they stand, and what each needs besides is the reason the code
is right.

**`BoxPublish`.**  `SetCurrentVersion` writes the version a call holds, so the
invariant must say where each call stands.  `CallInv` says, for every control
point, what the call may rely on without a lock: before `PutRunning` no row has
its version, until the end of the build the row is `running`, from then on it is
`succeeded`, belongs to the box and its bytes are stored; its box row exists and
never returns to draft.  `DistinctVersions` keeps other calls off the row.  The
argument has two halves.  `Grows` shows that any step only moves the tables
forward (rows are never removed, artifacts and trees are only added, final rows
stay); `CallFrame` shows that the invariant of a call survives every such step of
somebody else.  `PublishStepInv` then does the step of the call itself, one case
per action.  Types and invariant are proved together, because typing a bundle row
needs to know that the call holds a version.

**The gates** (`BoxQuotaProofs`).  A bound on the rows alone is not inductive: two
calls may both have passed the gate.  `RunsInv` and `SlotsInv` count the rows
together with the calls beyond the gate that will still add one or revive a box.
At the gate the rows are below the cap, and every other caller may be on its way;
after it each step turns a call into a row, so the sum does not grow.  `HomeInv`
ties the namespace a call was gated for to that of the rows it writes.

**`RelaySync`.**  `MessageInv` follows a message from INCR to its last send: its
number is at most `seq`, is not in the stream before XADD and is there as soon as
it is being broadcast; `seq` plus the senders about to draw a number stays within
`MaxSeq`.  `HubInv` says what the hub knows of a connection at each control point
(nothing before `Register`, registered or closed afterwards) and that a broadcast
or an eviction aims only at connections that were members.  `NoSilentGap` then is
preserved step by step: an entry moves from the stream to a broadcast's snapshot,
a queue and the client, or the connection loses its membership.  `todo`, what a
replay has yet to send, is a set of stream positions, so `Range` and the replay
need no lemma about sequences.

**`Schema`.**  `DevicesAgree` compares a table with a fold over a log of any
length.  `PendingInv` is its generalisation to the time between the commit and the
end of the broadcast: of a table that is not muddled at most one change is on its
way, and applying that change to what a device has gives the stored table.
`MetInv` says that the schema between the two queries of a check is among those
met.

**`Billing`.**  `GateInv` bounds the counter of a day plus the sockets between check
and increment by the largest quota of that day plus the other sockets.  For `InOrderAgrees`, `HistoryInv` says
that there is a history of rows made by applying Stripe's events once each in
order, that every event and every webhook in progress carries what that history
says, and that `inOrder` is the place in it the row has reached.

**`Pairing`, `BoxEvents`, `Hosts`.**  `CodesInv` and `ClaimsInv` say that a grant's
number is in Redis under one code at most, is one that was offered, and is not
there once it was taken.  With them `PairingImplementsOneShot` maps each action to
the step of `OneShot` it implements, or to a stutter.  `StreamsInv` and `TargetsInv`
place every subscription and every pending send in the namespace of its device.
`MissedOnlyFiveWays` is an action property: every step but the named ones keeps a
told device told, one lemma per kind of step.

**`AITurn`.**  `TurnInv` has a part per question: how far the context's end has
reached the goroutine (`CutInv`), how often it went round (`LoopInv`), that the
usage it accumulated is at most what the provider consumed (`UseInv`), handler against
goroutine (`LifeInv`), and rows against turns (`ChargeInv`).  `BudgetInv` is the
strengthening of the overshoot: what is spent, plus the greatest cost of a turn for
each turn before its row that can still get one, stays below the budget plus one
such cost per client.  `ClientInv` (a client has one turn at a time) makes the
number of those turns at most the number of clients.  `StepOK` states what any step
of a goroutine may do, so that the four engines are one case (`ProviderStep`).

`ChainsOrdered` (the run's `OnlyBlanksRefused`) has invariants of its own.  `Owing(n)` is the set of chains for
which some numbering of the places says what is owed after each message, by local
rules (a call makes a debt, a result pays part of it, anything else needs it paid),
and n is owed at the end.  `ResultsAfter` of the property looks across a window of
the chain; `OwingAnswered` derives it from the local rules.  `ChainInv`: a
goroutine's chain owes the calls it has not answered, a row's chain owes nothing.
Chains that owe nothing stay so when concatenated (`OwingConcat`) and when OpenAI's
engine takes the system prompts out (`OwingStripped`), so a history of any rows is
one.  `BlankInv` places the blank messages: a goroutine that goes on has none of its
own turn, and rows hold those of earlier ones.

**Sums, folds and extremes.**  The community modules define these by recursive
functions over `CHOOSE`n elements, and the induction theorems of the library take
an operator as parameter, out of reach of the provers.  `Counting` unfolds the
recursion once and replaces induction by a least counterexample in `Nat`.

**Only model-checked.**  The liveness properties `RunningSettles`,
`DisconnectedLeaves` and `TurnEnds` need fairness and `ENABLED`, which the prover
lacks; a violation is a counterexample and has no proof.

## Plan

1. Done: `BoxPublish`, `RelaySync`, `Schema`, `Billing`, `Pairing` with `OneShot`,
   `BoxEvents`, `Hosts`, `AITurn`, and the proofs above.
2. Further properties, each with its proof: the client's resume rule against numbers
   that arrive late; the order in which two publishes set `current_version`; signed
   URLs once a signing backend exists.

## Not modelled

The clients (Kotlin, Swift, TypeScript) beyond the event stream and the list of boxes
(`BoxEvents`) and what `RelaySync` says of a client that resumes, the container behind `sandbox.Builder`, the encoding of git objects,
cryptography of tokens and passwords, HTTP parsing, logging and configuration,
read-only routes (`/usage/me`, `/billing/plans`, lists), the load test.  API keys
(`store/apikeys.go`, `handler/apikey.go`, `apikey/`) can be created and revoked but
no route accepts one, so revocation has no effect to state a property about.
Billing periods and transferred bytes are stored and shown, and decide nothing.
