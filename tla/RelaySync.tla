------------------------------ MODULE RelaySync ------------------------------
(***************************************************************************)
(* The live data path of the relay for one namespace: the /ws handler      *)
(* (internal/handler/ws.go), the in-memory fan-out (internal/hub), the     *)
(* Redis sequencer and the Redis stream (internal/sequencer, internal/     *)
(* stream), and the schema handlers, which broadcast on the same path      *)
(* (broadcastSchema in internal/handler/schema.go).                        *)
(*                                                                         *)
(* Each accepted socket has a handler goroutine (catch-up, then ReadLoop)  *)
(* and a WriteLoop goroutine; an eviction is one more goroutine.  The hub  *)
(* lock covers Register, Unregister and the snapshot Broadcast takes of    *)
(* the members, not the sends that follow it.                              *)
(*                                                                         *)
(* A message is its sequence number; payloads are left out, and so is what *)
(* a connector asks of a provider (seq 0).  A namespace is independent of  *)
(* every other: messages for a foreign one are dropped by the handler.     *)
(***************************************************************************)
EXTENDS Integers, Sequences, FiniteSets

CONSTANTS
  Conns,          \* accepted sockets; one is used once, a reconnect is another
  SchemaCalls,    \* HTTP handlers that broadcast a schema change
  SendBuffer,     \* capacity of Conn.send (64)
  StreamMaxLen,   \* XADD MAXLEN ~ (100000)
  MaxSeq,         \* bound: sequence numbers drawn
  SentRoles,      \* roles that clients send with ("both" acts as provider)
  Faults          \* what may happen: a subset of FaultKinds

FaultKinds == {"redis", "quota", "write", "crash"}

ASSUME RelayAssumption ==
  /\ Conns \cap SchemaCalls = {}
  /\ SendBuffer \in Nat \ {0}
  /\ StreamMaxLen \in Nat \ {0}
  /\ MaxSeq \in Nat
  /\ SentRoles \subseteq {"provider", "connector"}
  /\ Faults \subseteq FaultKinds

VARIABLES
  \* Redis
  seq,        \* the counter seq:{ns}
  stream,     \* every entry ever added to stream:{ns}, in XADD order
  trimmed,    \* how many of the oldest entries MAXLEN has removed
  unheard,    \* entries whose XADD was carried out but reported an error
  \* the hub
  members,    \* registered connections
  closed,     \* connections whose send channel is closed
  evicting,   \* connections with a pending "go h.Unregister(c)"
  queue,      \* contents of each send channel
  out,        \* locals of a message on its way from a sender to the members
  \* the handler and the WriteLoop of each connection
  pc,
  role,       \* Conn.Role: that of the last message read
  todo,       \* entries of the stream that the catch-up has still to send
  writer,
  \* the client's end
  up,         \* connections whose socket is alive
  lastSeq,    \* the last_seq it asked for
  received,   \* sequenced messages that reached it, in order
  caughtUp    \* connections whose Stream.Range succeeded

redisVars == <<seq, stream, trimmed, unheard>>
vars == <<seq, stream, trimmed, unheard, members, closed, evicting, queue, out, pc, role,
          todo, writer, up, lastSeq, received, caughtUp>>

-----------------------------------------------------------------------------

Senders == Conns \cup SchemaCalls
Roles == {"unspecified", "provider", "connector"}
Entry == [kind : {"message", "notice", "request"}, seq : 0..MaxSeq]
OutPCs == {"idle", "notify", "next", "append", "snapshot", "fanout", "panicked"}
Out == [pc : OutPCs, seq : 0..MaxSeq, targets : SUBSET Conns]
Idle == [pc |-> "idle", seq |-> 0, targets |-> {}]

\* The sequence numbers in a queue or a history of entries.
Seqs(q) == {q[i].seq : i \in 1..Len(q)} \ {0}
InStream == {stream[i] : i \in 1..Len(stream)}

TypeOK ==
  /\ seq \in 0..MaxSeq
  /\ stream \in Seq(1..MaxSeq) /\ trimmed \in 0..Len(stream)
  /\ unheard \subseteq 1..MaxSeq
  /\ members \subseteq Conns /\ closed \subseteq Conns /\ evicting \subseteq Conns
  /\ queue \in [Conns -> Seq(Entry)]
  /\ \A c \in Conns : Len(queue[c]) <= SendBuffer
  /\ out \in [Senders -> Out]
  /\ pc \in [Conns -> {"new", "range", "replay", "live", "unregister", "close",
                       "done", "panicked"}]
  /\ role \in [Conns -> Roles]
  /\ todo \in [Conns -> SUBSET (1..Len(stream))]
  /\ writer \in [Conns -> {"off", "on", "exited"}]
  /\ up \subseteq Conns
  /\ lastSeq \in [Conns -> 0..MaxSeq]
  /\ received \in [Conns -> Seq(Entry)]
  /\ caughtUp \subseteq Conns

Init ==
  /\ seq = 0 /\ stream = <<>> /\ trimmed = 0 /\ unheard = {}
  /\ members = {} /\ closed = {} /\ evicting = {}
  /\ queue = [c \in Conns |-> <<>>]
  /\ out = [s \in Senders |-> Idle]
  /\ pc = [c \in Conns |-> "new"]
  /\ role = [c \in Conns |-> "unspecified"]
  /\ todo = [c \in Conns |-> {}]
  /\ writer = [c \in Conns |-> "off"]
  /\ up = {} /\ caughtUp = {}
  /\ lastSeq = [c \in Conns |-> 0]
  /\ received = [c \in Conns |-> <<>>]

-----------------------------------------------------------------------------
(* Conn.send *)

Closed(c) == c \in closed
Full(c) == Len(queue[c]) >= SendBuffer
Enqueue(c, kind, n) == queue' = [queue EXCEPT ![c] = Append(@, [kind |-> kind, seq |-> n])]

\* SendBlocking: waits while the buffer is full; the panic of a closed channel is
\* recovered and the call still returns nil, the message being gone.
SendBlocking(c, kind, n) ==
  \/ Closed(c) /\ UNCHANGED queue
  \/ ~Closed(c) /\ ~Full(c) /\ Enqueue(c, kind, n)

-----------------------------------------------------------------------------
(* Hub membership *)

\* Mutant: the connection is not deleted from the set.
UnregisterKeepsMember(c) ==
  /\ closed' = IF c \in members THEN closed \cup {c} ELSE closed
  /\ UNCHANGED members

Unregister(c) ==
  /\ members' = members \ {c}
  /\ closed' = IF c \in members THEN closed \cup {c} ELSE closed

\* The goroutine that Broadcast starts for a slow consumer.
Evict(c) ==
  /\ c \in evicting
  /\ evicting' = evicting \ {c}
  /\ Unregister(c)
  /\ UNCHANGED <<redisVars, queue, out, pc, role, todo, writer, up, lastSeq,
                 received, caughtUp>>

-----------------------------------------------------------------------------
(* The handler: Register, catch-up, loops *)

\* The highest sequence number a client has seen on a connection.
HighestSeen(c) ==
  CHOOSE n \in Seqs(received[c]) \cup {lastSeq[c]} :
    \A m \in Seqs(received[c]) \cup {lastSeq[c]} : m <= n

\* A client connects for the first time, or again after it lost its socket.
Connect(c) ==
  /\ pc[c] = "new"
  /\ \E n \in {0} \cup {HighestSeen(p) : p \in Conns \ up} :
       lastSeq' = [lastSeq EXCEPT ![c] = n]
  /\ members' = members \cup {c}
  /\ up' = up \cup {c}
  /\ pc' = [pc EXCEPT ![c] = "range"]
  /\ UNCHANGED <<redisVars, closed, evicting, queue, out, role, todo, writer,
                 received, caughtUp>>

\* Mutant: Range starts one number too late.
StreamRangeOffByOne(n) == {i \in (trimmed + 1)..Len(stream) : stream[i] > n + 1}

\* Stream.Range: the entries XRANGE still holds with a seq above last_seq.
StreamRange(n) == {i \in (trimmed + 1)..Len(stream) : stream[i] > n}

CatchUp(c) ==
  /\ pc[c] = "range"
  /\ \/ lastSeq[c] = 0 /\ UNCHANGED <<todo, caughtUp>>
     \/ /\ lastSeq[c] > 0
        /\ todo' = [todo EXCEPT ![c] = StreamRange(lastSeq[c])]
        /\ caughtUp' = caughtUp \cup {c}
     \/ lastSeq[c] > 0 /\ "redis" \in Faults /\ UNCHANGED <<todo, caughtUp>>
  /\ pc' = [pc EXCEPT ![c] = "replay"]
  /\ UNCHANGED <<redisVars, members, closed, evicting, queue, out, role, writer,
                 up, lastSeq, received>>

\* One message of the replay, in stream order.  WriteLoop is not running yet.
Replay(c) ==
  /\ pc[c] = "replay"
  /\ \E i \in todo[c] :
       /\ \A j \in todo[c] : i <= j
       /\ SendBlocking(c, "message", stream[i])
       /\ todo' = [todo EXCEPT ![c] = @ \ {i}]
  /\ UNCHANGED <<redisVars, members, closed, evicting, out, pc, role, writer, up,
                 lastSeq, received, caughtUp>>

\* go WriteLoop(); ReadLoop().
StartLoops(c) ==
  /\ pc[c] = "replay" /\ todo[c] = {}
  /\ pc' = [pc EXCEPT ![c] = "live"]
  /\ writer' = [writer EXCEPT ![c] = "on"]
  /\ UNCHANGED <<redisVars, members, closed, evicting, queue, out, role, todo, up,
                 lastSeq, received, caughtUp>>

\* Mutant: the handler returns as soon as ReadLoop does.
ReadErrorReturns(c) ==
  /\ pc[c] = "live" /\ out[c].pc = "idle"
  /\ c \notin up \/ writer[c] = "exited"
  /\ pc' = [pc EXCEPT ![c] = "done"]
  /\ UNCHANGED <<redisVars, members, closed, evicting, queue, out, role, todo,
                 writer, up, lastSeq, received, caughtUp>>

\* ReadMessage fails: the socket is gone, or no pong came because WriteLoop,
\* which sends the pings, has exited.
ReadError(c) ==
  /\ pc[c] = "live" /\ out[c].pc = "idle"
  /\ c \notin up \/ writer[c] = "exited"
  /\ pc' = [pc EXCEPT ![c] = "unregister"]
  /\ UNCHANGED <<redisVars, members, closed, evicting, queue, out, role, todo,
                 writer, up, lastSeq, received, caughtUp>>

Leave(c) ==
  /\ pc[c] = "unregister"
  /\ Unregister(c)
  /\ pc' = [pc EXCEPT ![c] = "close"]
  /\ UNCHANGED <<redisVars, evicting, queue, out, role, todo, writer, up,
                 lastSeq, received, caughtUp>>

\* The socket is closed, so WriteLoop ends at its next write; nothing refers to
\* the rest of the Conn any more.
Close(c) ==
  /\ pc[c] = "close"
  /\ pc' = [pc EXCEPT ![c] = "done"]
  /\ up' = up \ {c}
  /\ writer' = [writer EXCEPT ![c] = "exited"]
  /\ queue' = [queue EXCEPT ![c] = <<>>]
  /\ role' = [role EXCEPT ![c] = "unspecified"]
  /\ UNCHANGED <<redisVars, members, closed, evicting, out, todo, lastSeq,
                 received, caughtUp>>

-----------------------------------------------------------------------------
(* makeRead: an inbound message, and broadcastSchema *)

OutUnchanged == UNCHANGED <<redisVars, members, closed, evicting, queue, todo,
                            writer, up, lastSeq, received, caughtUp>>

\* Room for one more sequence number under the bound MaxSeq.
SeqLeft == seq + Cardinality({s \in Senders : out[s].pc = "next"}) < MaxSeq

\* The role is refreshed first, so a message dropped for its namespace or by the
\* schema still changes it.  A connector's message goes straight to Broadcast.
Receive(c) ==
  /\ pc[c] = "live" /\ c \in up /\ out[c] = Idle
  /\ \E r \in SentRoles :
       /\ role' = [role EXCEPT ![c] = r]
       /\ \/ UNCHANGED out
          \/ /\ r = "provider" /\ "quota" \in Faults
             /\ out' = [out EXCEPT ![c].pc = "notify"]
          \/ /\ r = "provider" /\ SeqLeft
             /\ out' = [out EXCEPT ![c].pc = "next"]
          \/ /\ r = "connector"
             /\ out' = [out EXCEPT ![c].pc = "snapshot"]
  /\ OutUnchanged /\ UNCHANGED pc

SchemaChange(s) ==
  /\ out[s] = Idle /\ SeqLeft
  /\ out' = [out EXCEPT ![s].pc = "next"]
  /\ OutUnchanged /\ UNCHANGED <<pc, role>>

\* The quota_exceeded envelope to the sender itself.
NotifyQuota(c) ==
  /\ out[c].pc = "notify"
  /\ SendBlocking(c, "notice", 0)
  /\ out' = [out EXCEPT ![c] = Idle]
  /\ UNCHANGED <<redisVars, members, closed, evicting, pc, role, todo, writer, up,
                 lastSeq, received, caughtUp>>

\* Mutant: the next number is computed without storing it.
SeqNextReadOnly(s) ==
  /\ out[s].pc = "next"
  /\ out' = [out EXCEPT ![s] = [pc |-> "append", seq |-> seq + 1, targets |-> {}]]
  /\ OutUnchanged /\ UNCHANGED <<pc, role>>

\* Seq.Next: INCR.  A timeout may hide that Redis carried it out.
SeqNext(s) ==
  /\ out[s].pc = "next"
  /\ \/ /\ seq' = seq + 1
        /\ out' = [out EXCEPT ![s] = [pc |-> "append", seq |-> seq + 1, targets |-> {}]]
     \/ /\ "redis" \in Faults
        /\ seq' \in {seq, seq + 1}
        /\ out' = [out EXCEPT ![s] = Idle]
  /\ UNCHANGED <<stream, trimmed, unheard, members, closed, evicting, queue, pc, role, todo,
                 writer, up, lastSeq, received, caughtUp>>

\* XADD MAXLEN ~ n: at least n entries stay, more may.
Trim(len) ==
  trimmed' \in {k \in 0..len : k = trimmed \/ (k >= trimmed /\ k + StreamMaxLen <= len)}

\* Mutant: the error of XADD is logged and the broadcast goes on.
StreamAppendIgnoringError(s) ==
  /\ out[s].pc = "append"
  /\ \/ stream' = Append(stream, out[s].seq) /\ Trim(Len(stream) + 1)
     \/ "redis" \in Faults /\ UNCHANGED <<stream, trimmed>>
  /\ out' = [out EXCEPT ![s].pc = "snapshot"]
  /\ UNCHANGED <<seq, unheard, members, closed, evicting, queue, pc, role, todo, writer, up,
                 lastSeq, received, caughtUp>>

\* An error ends the message here, though XADD may have been carried out.
StreamAppend(s) ==
  /\ out[s].pc = "append"
  /\ \/ /\ stream' = Append(stream, out[s].seq)
        /\ Trim(Len(stream) + 1)
        /\ \/ out' = [out EXCEPT ![s].pc = "snapshot"] /\ UNCHANGED unheard
           \/ /\ "redis" \in Faults
              /\ out' = [out EXCEPT ![s] = Idle]
              /\ unheard' = unheard \cup {out[s].seq}
     \/ /\ "redis" \in Faults
        /\ out' = [out EXCEPT ![s] = Idle]
        /\ UNCHANGED <<stream, trimmed, unheard>>
  /\ UNCHANGED <<seq, members, closed, evicting, queue, pc, role, todo, writer, up,
                 lastSeq, received, caughtUp>>

-----------------------------------------------------------------------------
(* Hub.Broadcast *)

\* Mutant: the role filter is lost.
TargetsUnfiltered(s) == IF out[s].seq > 0 THEN members ELSE members \ {s}

\* AllRoles for a provider's message, ProvidersOnly but the sender otherwise.
Targets(s) ==
  IF out[s].seq > 0 THEN members
                    ELSE {t \in members \ {s} : role[t] = "provider"}

\* The message is with the targets left, and the sender reads on after the last.
Fan(s, rest) ==
  out' = [out EXCEPT ![s] = IF rest = {} THEN Idle
                            ELSE [pc |-> "fanout", seq |-> out[s].seq, targets |-> rest]]

BroadcastSnapshot(s) ==
  /\ out[s].pc = "snapshot"
  /\ Fan(s, Targets(s))
  /\ OutUnchanged /\ UNCHANGED <<pc, role>>

Kind(s) == IF out[s].seq > 0 THEN "message" ELSE "request"

\* Mutants: a full buffer drops the message but keeps the connection; the send
\* does not look at the capacity.
BroadcastDropsSilently(s) ==
  /\ out[s].pc = "fanout"
  /\ \E t \in out[s].targets :
       /\ ~Closed(t)
       /\ IF Full(t) THEN UNCHANGED queue ELSE Enqueue(t, Kind(s), out[s].seq)
       /\ Fan(s, out[s].targets \ {t})
  /\ UNCHANGED <<redisVars, members, closed, evicting, pc, role, todo, writer, up,
                 lastSeq, received, caughtUp>>
BroadcastUnbounded(s) ==
  /\ out[s].pc = "fanout"
  /\ \E t \in out[s].targets :
       /\ Enqueue(t, Kind(s), out[s].seq)
       /\ Fan(s, out[s].targets \ {t})
  /\ UNCHANGED <<redisVars, members, closed, evicting, pc, role, todo, writer, up,
                 lastSeq, received, caughtUp>>

\* The send to one target, in the map's arbitrary order.
BroadcastSend(s) ==
  /\ out[s].pc = "fanout"
  /\ \E t \in out[s].targets :
       /\ ~Closed(t)
       /\ \/ ~Full(t) /\ Enqueue(t, Kind(s), out[s].seq) /\ UNCHANGED evicting
          \/ Full(t) /\ evicting' = evicting \cup {t} /\ UNCHANGED queue
       /\ Fan(s, out[s].targets \ {t})
  /\ UNCHANGED <<redisVars, members, closed, pc, role, todo, writer, up,
                 lastSeq, received, caughtUp>>

\* A target was unregistered after the snapshot: the send panics.  gin.Recovery
\* ends the sender's goroutine there, before its Unregister and Close; its
\* WriteLoop goes on.
BroadcastPanic(s) ==
  /\ out[s].pc = "fanout"
  /\ \E t \in out[s].targets : Closed(t)
  /\ out' = [out EXCEPT ![s].pc = "panicked"]
  /\ pc' = [c \in Conns |-> IF c = s THEN "panicked" ELSE pc[c]]
  /\ OutUnchanged /\ UNCHANGED role

-----------------------------------------------------------------------------
(* WriteLoop *)

\* A message is written to the socket; a dead peer does not get it.
Write(c) ==
  /\ writer[c] = "on" /\ queue[c] # <<>> /\ c \in up
  /\ queue' = [queue EXCEPT ![c] = Tail(@)]
  /\ received' = IF Head(queue[c]).seq > 0
                 THEN [received EXCEPT ![c] = Append(@, Head(queue[c]))] ELSE received
  /\ UNCHANGED <<redisVars, members, closed, evicting, out, pc, role, todo, writer,
                 up, lastSeq, caughtUp>>

\* A message or a ping cannot be written: the peer is gone, or does not read
\* within WriteWait.
WriteError(c) ==
  /\ writer[c] = "on"
  /\ c \notin up \/ "write" \in Faults
  /\ writer' = [writer EXCEPT ![c] = "exited"]
  /\ \/ queue[c] # <<>> /\ queue' = [queue EXCEPT ![c] = Tail(@)]
     \/ UNCHANGED queue
  /\ UNCHANGED <<redisVars, members, closed, evicting, out, pc, role, todo, up,
                 lastSeq, received, caughtUp>>

\* The channel is closed and drained: a close frame, and the client goes away.
WriteClose(c) ==
  /\ writer[c] = "on" /\ queue[c] = <<>> /\ Closed(c)
  /\ writer' = [writer EXCEPT ![c] = "exited"]
  /\ up' = up \ {c}
  /\ UNCHANGED <<redisVars, members, closed, evicting, queue, out, pc, role, todo,
                 lastSeq, received, caughtUp>>

-----------------------------------------------------------------------------
(* The environment *)

Disconnect(c) ==
  /\ c \in up
  /\ up' = up \ {c}
  /\ UNCHANGED <<redisVars, members, closed, evicting, queue, out, pc, role, todo,
                 writer, lastSeq, received, caughtUp>>

\* The relay process dies and restarts; Redis keeps the counter and the stream.
Crash ==
  /\ "crash" \in Faults
  /\ members' = {} /\ evicting' = {} /\ up' = {}
  /\ closed' = {} /\ caughtUp' = {}
  /\ queue' = [c \in Conns |-> <<>>]
  /\ todo' = [c \in Conns |-> {}]
  /\ out' = [s \in Senders |-> Idle]
  /\ writer' = [c \in Conns |-> "off"]
  /\ pc' = [c \in Conns |-> IF pc[c] = "new" THEN "new" ELSE "done"]
  /\ role' = [c \in Conns |-> "unspecified"]
  /\ UNCHANGED <<redisVars, lastSeq, received>>

SendStep(s) ==
  \/ SeqNext(s)
  \/ StreamAppend(s)
  \/ BroadcastSnapshot(s)
  \/ BroadcastSend(s)
  \/ BroadcastPanic(s)

HandlerStep(c) ==
  \/ CatchUp(c)
  \/ Replay(c)
  \/ StartLoops(c)
  \/ NotifyQuota(c)
  \/ ReadError(c)
  \/ Leave(c)
  \/ Close(c)

WriterStep(c) == Write(c) \/ WriteError(c) \/ WriteClose(c)

Next ==
  \/ \E c \in Conns : \/ Connect(c)
                      \/ Receive(c)
                      \/ HandlerStep(c)
                      \/ WriterStep(c)
                      \/ Evict(c)
                      \/ Disconnect(c)
  \/ \E s \in SchemaCalls : SchemaChange(s)
  \/ \E s \in Senders : SendStep(s)
  \/ Crash

Spec == Init /\ [][Next]_vars

\* Every goroutine that can run does; clients connect, send and leave as they like.
Fairness ==
  /\ \A s \in Senders : WF_vars(SendStep(s))
  /\ \A c \in Conns : WF_vars(HandlerStep(c)) /\ WF_vars(WriterStep(c)) /\ WF_vars(Evict(c))

FairSpec == Spec /\ Fairness

-----------------------------------------------------------------------------
(* Properties *)

\* A registered connection can be sent to: its channel is closed only by the
\* Unregister that also takes it out of the set (hub.go).
MembersOpen == members \cap closed = {}

\* No two messages get the same number, in the stream or on their way to it.
SeqUnique ==
  /\ \A i, j \in 1..Len(stream) : stream[i] = stream[j] => i = j
  /\ \A s, r \in Senders : s # r /\ out[s].seq > 0 => out[s].seq # out[r].seq
  /\ \A s \in Senders : out[s].pc = "append" => out[s].seq \notin InStream

\* What a client hears live or from a queue can be replayed: it was persisted
\* before it was fanned out (ws.go appends, then broadcasts).
DeliveredIsPersisted ==
  \A c \in Conns : Seqs(received[c]) \cup Seqs(queue[c]) \subseteq InStream

\* Messages some sender still has to hand to the connection, or that its panic
\* kept from it.
InFlightTo(c) ==
  {out[s].seq : s \in {r \in Senders : \/ out[r].pc = "snapshot"
                                       \/ c \in out[r].targets}}

\* What has reached a client, is queued for it or is on its way to it.
Reached(c) == Seqs(received[c]) \cup Seqs(queue[c]) \cup InFlightTo(c)

\* A connection whose catch-up succeeded misses nothing while its WriteLoop runs:
\* since Register comes before Range, every stored message above its last_seq has
\* reached it, is queued for it, is on its way or is still to be replayed.  It says
\* nothing of a connection without a catch-up (last_seq 0) or whose Range failed
\* (ws.go:94: the handler logs that and goes live with the hole), nor of an entry
\* whose XADD reported an error, which is not broadcast.
NoSilentGap ==
  \A c \in caughtUp : c \in members \ evicting /\ writer[c] # "exited" =>
    \A i \in (trimmed + 1)..Len(stream) : stream[i] > lastSeq[c] =>
      i \in todo[c] \/ stream[i] \in unheard \cup Reached(c)

\* Whatever became of its catch-up, a connection in the hub misses nothing that is
\* stored from then on: a new entry, unless its XADD reported an error, is at once on
\* its way to every member, and what is on its way or queued is not lost before the
\* client has it or the connection is on its way out.
LiveReachesMembers ==
  [][\A c \in members \cap members' :
       c \notin evicting' /\ writer'[c] # "exited" =>
         (Reached(c) \cup (InStream' \ InStream)) \ {0} \subseteq unheard' \cup Reached(c)']_vars

\* A socket that has not yet said what it is gets no connector's request: the
\* filter of Broadcast skips it until its first message sets the role.
SilentUntilRole ==
  \A c \in Conns : role[c] = "unspecified" =>
    \A i \in 1..Len(queue[c]) : queue[c][i].kind # "request"

\* A client that is gone leaves the hub, except where its handler cannot get to
\* Unregister: it died in a panic of Broadcast, it waits in the replay for room in the
\* full buffer although WriteLoop has not started (ws.go:98), or it waits to queue a
\* quota notice although WriteLoop has ended (ws.go:182).
DisconnectedLeaves ==
  \A c \in Conns : c \in members /\ c \notin up ~>
    \/ c \notin members
    \/ pc[c] = "panicked"
    \/ pc[c] = "replay" /\ todo[c] # {} /\ Full(c)
    \/ out[c].pc = "notify" /\ Full(c) /\ writer[c] = "exited"

\* "Callers may Register/Unregister and Broadcast from any goroutine": no
\* broadcast sends on a channel that is closed.
BroadcastIsSafe == \A s \in Senders : out[s].pc # "panicked"

\* The catch-up ends: the replay is over and the two loops start.
ReplayCompletes == \A c \in Conns : pc[c] = "replay" ~> pc[c] # "replay"

=============================================================================
