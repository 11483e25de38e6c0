----------------------------- MODULE BoxEvents ------------------------------
(***************************************************************************)
(* bundle_ready notifications: box.Events (internal/box/events.go), the    *)
(* SSE handler GET /box/events (internal/handler/box_events.go) and the    *)
(* last two steps of a publish (internal/box/service.go), together with    *)
(* the host apps that listen (BoxEventsClient and BoxRepo on Android,      *)
(* BoxEventsClient and BoxStore on iOS).  A host learns of a version only  *)
(* by reading the list of boxes, which it does when it starts, when a      *)
(* notification arrives and when it reconnects.                            *)
(*                                                                         *)
(* Subscribe, Unsubscribe and the copy of the subscribers in Publish hold  *)
(* the registry lock and are one step each; the sends of Publish follow    *)
(* without it.  Every request has a subscription of its own, so a publish  *)
(* can hold a closed one, and a device that reconnects can be registered   *)
(* twice until the relay notices that its first stream is dead.            *)
(***************************************************************************)
EXTENDS BoxTable, Sequences

CONSTANTS
  Streams,        \* requests of GET /box/events; each is used once
  SubBufferSize,  \* subBufferSize
  Shown,          \* the box a device shows on its Stage
  Refreshes       \* bound: calls of refresh() under way on a device at a time

ASSUME BoxEventsAssumption ==
  SubBufferSize \in Nat \ {0} /\ Shown \in [Devices -> Boxes]

VARIABLES
  publish,   \* per version, where its publish is and whom it still has to tell
  stream,    \* per request: its handler, its device, the subscription's channel
  host,      \* per device: whether the app runs, firstConnect, its stream, the
             \* version it shows and whether a record is on the wire
  refresh    \* per device and call of refresh(): asked, answered, and the answer

eventVars == <<publish, stream, host, refresh>>

-----------------------------------------------------------------------------
Unused == [at |-> "unused", dev |-> None, chan |-> <<>>]
Registered == {s \in Streams : stream[s].at \in {"live", "gone"}}
IsClosed(s) == stream[s].at = "closed"

PublishRow == [at : {"building", "set", "sending", "done"}, targets : SUBSET Streams]
StreamRow == [at : {"unused", "open", "live", "gone", "closed"},
              dev : Devices \cup {None}, chan : Seq(Versions)]
HostRow == [up : BOOLEAN, first : BOOLEAN, stream : Streams \cup {None},
            shows : Versions \cup {None}, wire : BOOLEAN]
RefreshRow == [at : {"idle", "asked", "answered"}, got : Versions \cup {None}]

Stopped == [up |-> FALSE, first |-> TRUE, stream |-> None, shows |-> None, wire |-> FALSE]
Idle == [at |-> "idle", got |-> None]

EventsOK ==
  /\ publish \in [Versions -> PublishRow]
  /\ stream \in [Streams -> StreamRow]
  /\ \A s \in Streams : Len(stream[s].chan) <= SubBufferSize
  /\ host \in [Devices -> HostRow]
  /\ refresh \in [Devices -> [Refreshes -> RefreshRow]]

EventsInit ==
  /\ publish = [v \in Versions |-> [at |-> "building", targets |-> {}]]
  /\ stream = [s \in Streams |-> Unused]
  /\ host = [d \in Devices |-> Stopped]
  /\ refresh = [d \in Devices |-> [r \in Refreshes |-> Idle]]

-----------------------------------------------------------------------------
(* The end of BuildAndPublish *)

SetCurrentVersion(v) ==
  /\ publish[v].at = "building"
  /\ publish' = [publish EXCEPT ![v].at = "set"]
  /\ boxes' = [boxes EXCEPT ![VersionBox[v]].current = v]
  /\ UNCHANGED <<device, stream, host, refresh>>

SnapshotAll(ns) == Registered

(* The first half of Publish, under the lock *)
Snapshot(ns) == {s \in Registered : device[stream[s].dev] = ns}

Publish(v) ==
  /\ publish[v].at = "set"
  /\ publish' = [publish EXCEPT ![v].at = "sending",
                                ![v].targets = Snapshot(BoxOwner[VersionBox[v]])]
  /\ UNCHANGED <<boxVars, stream, host, refresh>>

Enqueue(v, s) == [stream EXCEPT ![s].chan = Append(@, v)]

SendUnbounded(v, s) ==
  /\ publish[v].at = "sending" /\ s \in publish[v].targets
  /\ ~IsClosed(s)
  /\ stream' = Enqueue(v, s)
  /\ publish' = [publish EXCEPT ![v].targets = @ \ {s}]
  /\ UNCHANGED <<boxVars, host, refresh>>

SendStopsWhenFull(v, s) ==
  /\ publish[v].at = "sending" /\ s \in publish[v].targets
  /\ ~IsClosed(s)
  /\ LET full == Len(stream[s].chan) >= SubBufferSize
     IN  /\ stream' = IF full THEN stream ELSE Enqueue(v, s)
         /\ publish' = [publish EXCEPT ![v].targets = IF full THEN {} ELSE @ \ {s}]
  /\ UNCHANGED <<boxVars, host, refresh>>

(* A full channel drops the event. *)
Send(v, s) ==
  /\ publish[v].at = "sending" /\ s \in publish[v].targets
  /\ ~IsClosed(s)
  /\ stream' = IF Len(stream[s].chan) < SubBufferSize THEN Enqueue(v, s) ELSE stream
  /\ publish' = [publish EXCEPT ![v].targets = @ \ {s}]
  /\ UNCHANGED <<boxVars, host, refresh>>

(* A send on a closed channel panics.  gin.Recovery stops the panic of an  *)
(* HTTP publish, whose other subscribers are then not told; in the         *)
(* goroutine of an AI turn nothing stops it and the process ends, which is *)
(* EventsRestart.                                                          *)
SendPanics(v, s) ==
  /\ publish[v].at = "sending" /\ s \in publish[v].targets
  /\ IsClosed(s)
  /\ publish' = [publish EXCEPT ![v].at = "done", ![v].targets = {}]
  /\ UNCHANGED <<boxVars, stream, host, refresh>>

PublishReturns(v) ==
  /\ publish[v].at = "sending" /\ publish[v].targets = {}
  /\ publish' = [publish EXCEPT ![v].at = "done"]
  /\ UNCHANGED <<boxVars, stream, host, refresh>>

-----------------------------------------------------------------------------
(* GET /box/events *)

(* refresh() starts a call of GET /box beside those under way. *)
Ask(d, r) ==
  /\ refresh[d][r] = Idle
  /\ refresh' = [refresh EXCEPT ![d][r] = [at |-> "asked", got |-> None]]

(* The headers are flushed.  The host takes the 200 for a reconnect, and   *)
(* reads the list, only when an earlier stream ended properly.             *)
Open(d, s) ==
  /\ requireDevice(d) /\ host[d].up /\ host[d].stream = None /\ stream[s] = Unused
  /\ stream' = [stream EXCEPT ![s].at = "open", ![s].dev = d]
  /\ host' = [host EXCEPT ![d].stream = s]
  /\ IF host[d].first THEN UNCHANGED refresh ELSE \E r \in Refreshes : Ask(d, r)
  /\ UNCHANGED <<boxVars, publish>>

(* Events.Subscribe, after the flush *)
Subscribe(s) ==
  /\ stream[s].at = "open"
  /\ stream' = [stream EXCEPT ![s].at = "live"]
  /\ UNCHANGED <<boxVars, publish, host, refresh>>

IsRead(s) == host[stream[s].dev].stream = s

(* writeBoxEvent: a dead connection swallows the record.  One record at a  *)
(* time is on the wire; the next waits.                                    *)
Forward(s) ==
  /\ stream[s].at = "live" /\ stream[s].chan # <<>>
  /\ IsRead(s) => ~host[stream[s].dev].wire
  /\ stream' = [stream EXCEPT ![s].chan = Tail(@)]
  /\ host' = IF IsRead(s) THEN [host EXCEPT ![stream[s].dev].wire = TRUE] ELSE host
  /\ UNCHANGED <<boxVars, publish, refresh>>

(* The loop ends, on the context or on a failed write.  The request may    *)
(* also end before it subscribed.  Nobody reads the channel any more.      *)
StreamDies(s) ==
  /\ stream[s].at \in {"open", "live"} /\ ~IsRead(s)
  /\ stream' = [stream EXCEPT ![s].at = IF @ = "live" THEN "gone" ELSE "closed",
                              ![s].chan = <<>>]
  /\ UNCHANGED <<boxVars, publish, host, refresh>>

(* The deferred Events.Unsubscribe closes the channel. *)
Unsubscribe(s) ==
  /\ stream[s].at = "gone"
  /\ stream' = [stream EXCEPT ![s].at = "closed"]
  /\ UNCHANGED <<boxVars, publish, host, refresh>>

(* The relay stops: what is in memory is gone and every connection breaks. *)
EventsRestart ==
  /\ publish' = [v \in Versions |->
       IF publish[v].at = "building" THEN publish[v] ELSE [at |-> "done", targets |-> {}]]
  /\ stream' = [s \in Streams |->
       IF stream[s] = Unused THEN Unused ELSE [stream[s] EXCEPT !.at = "closed", !.chan = <<>>]]
  /\ host' = [d \in Devices |-> [host[d] EXCEPT !.stream = None, !.wire = FALSE]]
  /\ UNCHANGED refresh

-----------------------------------------------------------------------------
(* The host app *)

(* The signed-in screen appears, again when it is built anew: one refresh  *)
(* and a new BoxEventsClient.                                              *)
HostStarts(d, r) ==
  /\ requireDevice(d)
  /\ host' = [host EXCEPT ![d] = [Stopped EXCEPT !.up = TRUE, !.shows = host[d].shows]]
  /\ Ask(d, r)
  /\ UNCHANGED <<boxVars, publish, stream>>

(* Sign-out, or the app is killed. *)
HostStops(d) ==
  /\ host[d].up
  /\ host' = [host EXCEPT ![d] = Stopped]
  /\ refresh' = [refresh EXCEPT ![d] = [r \in Refreshes |-> Idle]]
  /\ UNCHANGED <<boxVars, publish, stream>>

(* The stream ends and what is on the wire is lost.  runOnce returns true  *)
(* at the end of the body; a read that throws, a timeout or a broken       *)
(* connection, makes it return false and leaves firstConnect as it was.    *)
HostLoses(d) ==
  /\ host[d].stream # None
  /\ \E ended \in BOOLEAN :
       host' = [host EXCEPT ![d].stream = None, ![d].wire = FALSE, ![d].first = @ /\ ~ended]
  /\ UNCHANGED <<boxVars, publish, stream, refresh>>

(* A record arrives and starts a refresh. *)
HostHears(d, r) ==
  /\ host[d].wire
  /\ host' = [host EXCEPT ![d].wire = FALSE]
  /\ Ask(d, r)
  /\ UNCHANGED <<boxVars, publish, stream>>

(* The relay answers GET /box; the device shows one box of its user. *)
Answer(d, r) ==
  /\ refresh[d][r].at = "asked"
  /\ refresh' = [refresh EXCEPT ![d][r] = [at |-> "answered",
       got |-> IF BoxIn(device[d], Shown[d]) THEN boxes[Shown[d]].current ELSE None]]
  /\ UNCHANGED <<boxVars, publish, stream, host>>

(* The call or its answer is lost: refresh() notes the error and returns.  *)
RefreshFails(d, r) ==
  /\ refresh[d][r] # Idle
  /\ refresh' = [refresh EXCEPT ![d][r] = Idle]
  /\ UNCHANGED <<boxVars, publish, stream, host>>

(* The answer replaces the list, in whatever order answers arrive. *)
RefreshLands(d, r) ==
  /\ refresh[d][r].at = "answered"
  /\ host' = [host EXCEPT ![d].shows = refresh[d][r].got]
  /\ refresh' = [refresh EXCEPT ![d][r] = Idle]
  /\ UNCHANGED <<boxVars, publish, stream>>

PublishStep(v) ==
  \/ SetCurrentVersion(v) \/ Publish(v) \/ PublishReturns(v)
  \/ \E s \in Streams : Send(v, s) \/ SendPanics(v, s)

StreamStep(s) == Subscribe(s) \/ Forward(s) \/ StreamDies(s) \/ Unsubscribe(s)

HostStep(d) ==
  \/ HostStops(d) \/ HostLoses(d)
  \/ \E s \in Streams : Open(d, s)
  \/ \E r \in Refreshes :
       \/ HostStarts(d, r) \/ HostHears(d, r)
       \/ Answer(d, r) \/ RefreshFails(d, r) \/ RefreshLands(d, r)

EventsNext ==
  \/ \E v \in Versions : PublishStep(v)
  \/ \E s \in Streams : StreamStep(s)
  \/ \E d \in Devices : HostStep(d)

-----------------------------------------------------------------------------
(* Properties *)

(* A device on a stream that shows an outdated version of its user's box   *)
(* is going to show the current one: a refresh is still to be answered or  *)
(* has the current version in its answer, a record or an event is on the   *)
(* way, or the publish has not reached the stream yet.                     *)
Pending(d) ==
  \/ \E r \in Refreshes :
       \/ refresh[d][r].at = "asked"
       \/ refresh[d][r] = [at |-> "answered", got |-> boxes[Shown[d]].current]
  \/ host[d].wire \/ stream[host[d].stream].chan # <<>>
  \/ \E v \in Versions :
       /\ VersionBox[v] = Shown[d]
       /\ \/ publish[v].at = "set"
          \/ publish[v].at = "sending" /\ host[d].stream \in publish[v].targets

Told(d) ==
  host[d].stream # None /\ BoxIn(device[d], Shown[d]) /\ host[d].shows # boxes[Shown[d]].current
    => Pending(d)

(* The ways to miss a version, each an action and the state it needs.      *)
(* A first connect, or one after streams that all broke, reads nothing.    *)
OpenedUnread(d) == host[d].first /\ \E s \in Streams : Open(d, s)

(* Publish copies the subscribers between the flush and Subscribe.         *)
PublishedUnheard(d) ==
  /\ host[d].stream # None /\ stream[host[d].stream].at = "open"
  /\ \E v \in Versions : VersionBox[v] = Shown[d] /\ Publish(v)

(* A publish panics before it came to the host's stream.                   *)
PublishPanicked(d) ==
  \E v \in Versions, s \in Streams :
    VersionBox[v] = Shown[d] /\ host[d].stream \in publish[v].targets /\ SendPanics(v, s)

RefreshLost(d) == \E r \in Refreshes : RefreshFails(d, r)

(* Overlapping refreshes land out of order, the older answer last.         *)
RefreshOvertaken(d) ==
  \E r \in Refreshes :
    RefreshLands(d, r) /\ refresh[d][r].got # boxes[Shown[d]].current

(* A host on a stream is left on an old version with nothing under way in  *)
(* five ways only, and each only to that host: the code has all five.      *)
(* Dropping an event on a full channel, a reconnect after a stream that    *)
(* ended, streams that linger in the registry, a panic that comes after    *)
(* the host was told, other hosts' failures, concurrent publishes of a box *)
(* and restarts do not (Events.Publish, boxEvents, BoxEventsClient,        *)
(* BoxRepo.refresh).                                                       *)
OnlyFiveWaysToMiss ==
  [][\A d \in Devices : Told(d) /\ ~Told(d)' =>
       \/ OpenedUnread(d) \/ PublishedUnheard(d) \/ PublishPanicked(d)
       \/ RefreshLost(d) \/ RefreshOvertaken(d)]_<<boxVars, eventVars>>

(* Events of a box reach streams of its owner's devices only (Publish      *)
(* picks the subscribers of the namespace).                                *)
EventsStayInNamespace ==
  \A s \in Streams : \A i \in DOMAIN stream[s].chan :
    BoxOwner[VersionBox[stream[s].chan[i]]] = device[stream[s].dev]

=============================================================================
