-------------------------- MODULE RelaySyncProofs ---------------------------
(***************************************************************************)
(* Proofs about RelaySync, for any number of sockets, any buffer size and  *)
(* any interleaving of handlers, writers, evictions and crashes.           *)
(***************************************************************************)
EXTENDS RelaySync, Counting

-----------------------------------------------------------------------------
(* The invariant *)

\* TypeOK by groups of variables: Redis and the messages on their way, the hub and
\* the goroutines, the queues and what the clients have.
MessageTypes ==
  /\ seq \in 0..MaxSeq
  /\ stream \in Seq(1..MaxSeq) /\ trimmed \in 0..Len(stream)
  /\ unheard \subseteq 1..MaxSeq
  /\ out \in [Senders -> Out]

HubTypes ==
  /\ members \subseteq Conns /\ closed \subseteq Conns /\ evicting \subseteq Conns
  /\ pc \in [Conns -> {"new", "range", "replay", "live", "unregister", "close",
                       "done", "panicked"}]
  /\ role \in [Conns -> Roles]
  /\ writer \in [Conns -> {"off", "on", "exited"}]
  /\ up \subseteq Conns /\ caughtUp \subseteq Conns
  /\ lastSeq \in [Conns -> 0..MaxSeq]

QueueTypes ==
  /\ queue \in [Conns -> Seq(Entry)]
  /\ \A c \in Conns : Len(queue[c]) <= SendBuffer
  /\ todo \in [Conns -> SUBSET (1..Len(stream))]
  /\ received \in [Conns -> Seq(Entry)]

\* The locals of a message: numbered once Seq.Next has answered, in the stream once
\* it is past XADD, with targets once Broadcast has taken its snapshot.
RowOK(r) ==
  /\ r.pc \in {"idle", "notify", "next"} => r.seq = 0
  /\ r.pc \notin {"fanout", "panicked"} => r.targets = {}
  /\ r.pc = "append" => (r.seq > 0 /\ r.seq \notin InStream)
  /\ r.seq <= seq
  /\ (r.seq > 0 /\ r.pc # "append") => r.seq \in InStream

\* Senders that have passed the check of SeqLeft and not drawn their number yet.
Drawing == {s \in Senders : out[s].pc = "next"}

MessageInv ==
  /\ \A s \in Senders : RowOK(out[s])
  /\ SeqUnique
  /\ \A i \in 1..Len(stream) : stream[i] <= seq
  /\ IsFiniteSet(Drawing) /\ seq + Cardinality(Drawing) <= MaxSeq

\* A connection is unknown to the hub until its handler registers it; from then on
\* it is registered or closed, until its handler has returned or the process has
\* crashed.  Whom an eviction is pending for was a member.
ConnsInv ==
  /\ \A c \in Conns :
       /\ pc[c] = "new" => c \notin members \cup closed \cup evicting \cup caughtUp
       /\ pc[c] \notin {"new", "done"} => c \in members \cup closed
       /\ pc[c] = "close" => c \in closed
  /\ evicting \subseteq members \cup closed

\* Whom a broadcast still has to send to was a member; a request goes to those who
\* said what they are.
TargetsInv ==
  \A s \in Senders : \A c \in out[s].targets :
    /\ c \in members \cup closed
    /\ out[s].seq = 0 => (c \in closed \/ role[c] # "unspecified")

\* A socket's message is on its way only while its ReadLoop runs, or died in it.
BusyInv ==
  \A c \in Conns : out[c].pc # "idle" => pc[c] \in {"live", "panicked"}

HubCore == MembersOpen /\ ConnsInv /\ TargetsInv
HubInv == HubCore /\ BusyInv

\* WriteLoop starts after the catch-up.
WriterInv == \A c \in Conns : pc[c] \in {"new", "range", "replay"} => writer[c] = "off"

Inv == MessageInv /\ HubInv /\ WriterInv /\ DeliveredIsPersisted /\ SilentUntilRole /\ NoSilentGap

-----------------------------------------------------------------------------
(* Sequences of entries *)

\* The sequence numbers in a queue after one entry more.
LEMMA SeqsAppend ==
  ASSUME NEW q \in Seq(Entry), NEW e \in Entry
  PROVE  /\ Append(q, e) \in Seq(Entry) /\ Len(Append(q, e)) = Len(q) + 1
         /\ Seqs(Append(q, e)) = Seqs(q) \cup ({e.seq} \ {0})
         /\ \A i \in 1..Len(Append(q, e)) :
              Append(q, e)[i] = e \/ (i \in 1..Len(q) /\ Append(q, e)[i] = q[i])
<1>1. /\ Append(q, e) \in Seq(Entry) /\ Len(Append(q, e)) = Len(q) + 1
      /\ Len(q) \in Nat
      /\ \A i \in 1..Len(q) : Append(q, e)[i] = q[i]
      /\ Append(q, e)[Len(q) + 1] = e
  OBVIOUS
<1>2. \A i \in 1..Len(q) + 1 : i \in 1..Len(q) \/ i = Len(q) + 1
  BY <1>1
<1>3. Seqs(Append(q, e)) = Seqs(q) \cup ({e.seq} \ {0})
  BY <1>1, <1>2 DEF Seqs
<1>4. QED
  BY <1>1, <1>2, <1>3

\* The sequence numbers in a queue are those of its head and of its tail.
LEMMA SeqsTail ==
  ASSUME NEW q \in Seq(Entry), q # <<>>
  PROVE  /\ Tail(q) \in Seq(Entry) /\ Len(Tail(q)) <= Len(q) /\ Head(q) \in Entry
         /\ Seqs(q) = Seqs(Tail(q)) \cup ({Head(q).seq} \ {0})
         /\ \A i \in 1..Len(Tail(q)) : \E j \in 1..Len(q) : Tail(q)[i] = q[j]
<1>1. /\ Tail(q) \in Seq(Entry) /\ Len(Tail(q)) = Len(q) - 1 /\ Len(q) \in Nat \ {0}
      /\ Head(q) = q[1] /\ Head(q) \in Entry
      /\ \A i \in 1..Len(q) - 1 : Tail(q)[i] = q[i + 1]
  OBVIOUS
<1>2. \A i \in 1..Len(q) : i = 1 \/ (i - 1 \in 1..Len(q) - 1 /\ Tail(q)[i - 1] = q[i])
  BY <1>1
<1>3. \A i \in 1..Len(q) - 1 : i + 1 \in 1..Len(q) /\ Tail(q)[i] = q[i + 1]
  BY <1>1
<1>4. Seqs(q) = Seqs(Tail(q)) \cup ({Head(q).seq} \ {0})
  <2>1. Seqs(q) \subseteq Seqs(Tail(q)) \cup ({Head(q).seq} \ {0})
    BY <1>1, <1>2 DEF Seqs
  <2>2. Seqs(Tail(q)) \cup ({Head(q).seq} \ {0}) \subseteq Seqs(q)
    BY <1>1, <1>3 DEF Seqs
  <2>3. QED
    BY <2>1, <2>2
<1>5. QED
  BY <1>1, <1>3, <1>4

\* An empty queue holds no number.
LEMMA SeqsEmpty == Seqs(<<>>) = {} /\ <<>> \in Seq(Entry) /\ Len(<<>>) = 0
<1>1. <<>> \in Seq(Entry) /\ Len(<<>>) = 0
  OBVIOUS
<1>2. QED
  BY <1>1 DEF Seqs

\* The stream after XADD.
LEMMA StreamAppended ==
  ASSUME stream \in Seq(1..MaxSeq), NEW n \in 1..MaxSeq, stream' = Append(stream, n)
  PROVE  /\ stream' \in Seq(1..MaxSeq) /\ Len(stream') = Len(stream) + 1 /\ Len(stream) \in Nat
         /\ \A i \in 1..Len(stream) : stream'[i] = stream[i]
         /\ stream'[Len(stream) + 1] = n
         /\ \A i \in 1..Len(stream') : i \in 1..Len(stream) \/ i = Len(stream) + 1
         /\ InStream' = InStream \cup {n}
<1>1. /\ stream' \in Seq(1..MaxSeq) /\ Len(stream') = Len(stream) + 1 /\ Len(stream) \in Nat
      /\ \A i \in 1..Len(stream) : stream'[i] = stream[i]
      /\ stream'[Len(stream) + 1] = n
  OBVIOUS
<1>2. \A i \in 1..Len(stream') : i \in 1..Len(stream) \/ i = Len(stream) + 1
  BY <1>1
<1>3. InStream' = InStream \cup {n}
  BY <1>1, <1>2 DEF InStream
<1>4. QED
  BY <1>1, <1>2, <1>3

-----------------------------------------------------------------------------
(* Messages: Receive, Seq.Next, XADD, Broadcast *)

\* The highest number a client can report is one the relay has given.
LEMMA HighestSeenType ==
  ASSUME TypeOK, NEW c \in Conns
  PROVE  HighestSeen(c) \in 0..MaxSeq
<1> DEFINE S == Seqs(received[c]) \cup {lastSeq[c]}
<1>1. S \in SUBSET (0..MaxSeq) /\ S # {}
  <2>1. Seqs(received[c]) \subseteq 0..MaxSeq
    <3>1. \A i \in 1..Len(received[c]) : received[c][i] \in Entry
      BY DEF TypeOK
    <3>2. QED
      BY <3>1 DEF Seqs, Entry
  <2>2. lastSeq[c] \in 0..MaxSeq
    BY DEF TypeOK
  <2>3. QED
    BY <2>1, <2>2
<1>2. MaxSeq \in Nat
  BY RelayAssumption
<1>3. \E n \in S : \A m \in S : m <= n
  BY <1>1, <1>2, GreatestElement
<1>4. HighestSeen(c) \in S
  BY <1>3 DEF HighestSeen
<1>5. QED
  BY <1>1, <1>4

\* Types of the messages come with the invariant: the numbers drawn and about to be
\* drawn stay below the bound.
LEMMA DrawingBound ==
  ASSUME MessageTypes, MessageInv
  PROVE  /\ Cardinality(Drawing) \in Nat
         /\ (\E s \in Senders : out[s].pc = "next") => seq + 1 <= MaxSeq
         /\ SeqLeft <=> seq + Cardinality(Drawing) < MaxSeq
<1>1. Cardinality(Drawing) \in Nat /\ (Cardinality(Drawing) = 0 <=> Drawing = {})
  BY FS_CardinalityType, FS_EmptySet DEF MessageInv
<1>2. (\E s \in Senders : out[s].pc = "next") => seq + 1 <= MaxSeq
  BY <1>1, RelayAssumption DEF MessageInv, MessageTypes, Drawing
<1>3. SeqLeft <=> seq + Cardinality(Drawing) < MaxSeq
  BY DEF SeqLeft, Drawing
<1>4. QED
  BY <1>1, <1>2, <1>3

\* A step that moves one sender without drawing a number.
LEMMA MessageMoves ==
  ASSUME MessageTypes, MessageInv, NEW s \in Senders, NEW r \in Out,
         UNCHANGED <<seq, stream, trimmed, unheard>>,
         out' = [out EXCEPT ![s] = r],
         RowOK(r), r.pc # "append", r.seq \in {0, out[s].seq},
         r.pc = "next" => SeqLeft
  PROVE  MessageTypes' /\ MessageInv'
<1>1. /\ out'[s] = r /\ \A x \in Senders \ {s} : out'[x] = out[x]
      /\ MessageTypes'
  BY DEF MessageTypes
<1>2. /\ IsFiniteSet(Drawing') /\ Cardinality(Drawing') \in Nat
      /\ Cardinality(Drawing') <= Cardinality(Drawing) + (IF r.pc = "next" THEN 1 ELSE 0)
  <2>1. Cardinality(Drawing) \in Nat /\ IsFiniteSet(Drawing)
    BY DrawingBound DEF MessageInv
  <2>2. CASE r.pc = "next"
    <3>1. Drawing' = Drawing \cup {s}
      BY <1>1, <2>2 DEF Drawing
    <3>2. /\ IsFiniteSet(Drawing \cup {s})
          /\ Cardinality(Drawing \cup {s}) \in {Cardinality(Drawing), Cardinality(Drawing) + 1}
      BY <2>1, FS_AddElement
    <3>3. QED
      BY <2>1, <2>2, <3>1, <3>2
  <2>3. CASE r.pc # "next"
    <3>1. Drawing' = Drawing \ {s}
      BY <1>1, <2>3 DEF Drawing
    <3>2. /\ IsFiniteSet(Drawing \ {s}) /\ Cardinality(Drawing \ {s}) <= Cardinality(Drawing)
          /\ Cardinality(Drawing \ {s}) \in Nat
      BY <2>1, FS_Subset, FS_CardinalityType
    <3>3. QED
      BY <2>1, <2>3, <3>1, <3>2
  <2>4. QED
    BY <2>2, <2>3
<1>3. seq' + Cardinality(Drawing') <= MaxSeq
  <2>1. /\ Cardinality(Drawing) \in Nat /\ seq + Cardinality(Drawing) <= MaxSeq /\ seq \in Int
        /\ r.pc = "next" => seq + Cardinality(Drawing) < MaxSeq
    BY DrawingBound DEF MessageInv, MessageTypes
  <2>2. QED
    BY <1>2, <2>1, RelayAssumption
<1>4. InStream' = InStream
  BY DEF InStream
<1>5. \A x \in Senders : RowOK(out[x])'
  BY <1>1, <1>4 DEF MessageInv, RowOK
<1>6. SeqUnique'
  <2>1. \A x \in Senders : /\ out'[x].seq > 0 => out'[x].seq = out[x].seq
                           /\ out'[x].pc = "append" => (out[x].pc = "append" /\ out'[x] = out[x])
    BY <1>1, ~(0 > 0)
  <2>2. \A x, y \in Senders : (x # y /\ out'[x].seq > 0) => out'[x].seq # out'[y].seq
    <3>1. \A x \in Senders : out'[x].seq \in {0, out[x].seq}
      BY <1>1
    <3>2. \A x, y \in Senders : (x # y /\ out[x].seq > 0) => out[x].seq # out[y].seq
      BY DEF MessageInv, SeqUnique
    <3>3. QED
      BY <2>1, <3>1, <3>2
  <2>3. QED
    BY <1>4, <2>1, <2>2 DEF MessageInv, SeqUnique
<1>7. (\A i \in 1..Len(stream) : stream[i] <= seq)'
  BY DEF MessageInv
<1>8. QED
  BY <1>1, <1>2, <1>3, <1>5, <1>6, <1>7 DEF MessageInv

\* An idle sender's row, and the rows it can start with.
LEMMA StartRows ==
  ASSUME MaxSeq \in Nat, NEW p \in {"notify", "next", "snapshot", "idle"}, seq \in Nat
  PROVE  /\ Idle \in Out /\ Idle.pc = "idle" /\ Idle.seq = 0 /\ Idle.targets = {}
         /\ [Idle EXCEPT !.pc = p] \in Out /\ RowOK([Idle EXCEPT !.pc = p])
         /\ [Idle EXCEPT !.pc = p].pc = p /\ [Idle EXCEPT !.pc = p].seq = 0
         /\ [Idle EXCEPT !.pc = p].targets = {}
         /\ RowOK(Idle)
<1>1. /\ Idle \in Out /\ Idle.pc = "idle" /\ Idle.seq = 0 /\ Idle.targets = {}
      /\ [Idle EXCEPT !.pc = p] \in Out
      /\ [Idle EXCEPT !.pc = p].pc = p /\ [Idle EXCEPT !.pc = p].seq = 0
      /\ [Idle EXCEPT !.pc = p].targets = {}
  BY DEF Idle, Out, OutPCs
<1>2. QED
  BY <1>1 DEF RowOK

\* A message is read, a schema change begins, a quota notice is sent.
LEMMA ReceiveMessages ==
  ASSUME MessageTypes, MessageInv, NEW s \in Senders,
         Receive(s) \/ SchemaChange(s) \/ NotifyQuota(s)
  PROVE  MessageTypes' /\ MessageInv'
<1> USE RelayAssumption
<1>1. seq \in Nat /\ out[s] \in Out
  BY DEF MessageTypes
<1>2. UNCHANGED <<seq, stream, trimmed, unheard>>
  BY DEF Receive, SchemaChange, NotifyQuota, OutUnchanged, redisVars
<1>3. CASE NotifyQuota(s)
  <2>1. out' = [out EXCEPT ![s] = Idle]
    BY <1>3 DEF NotifyQuota
  <2>2. Idle \in Out /\ RowOK(Idle) /\ Idle.pc = "idle" /\ Idle.seq = 0
    BY <1>1, StartRows
  <2>3. QED
    BY <1>2, <2>1, <2>2, MessageMoves
<1>4. CASE (Receive(s) \/ SchemaChange(s)) /\ out' = out
  <2>1. InStream' = InStream /\ Drawing' = Drawing
    BY <1>2, <1>4 DEF InStream, Drawing
  <2>2. QED
    BY <1>2, <1>4, <2>1 DEF MessageTypes, MessageInv, RowOK, SeqUnique
<1>5. CASE (Receive(s) \/ SchemaChange(s)) /\ out' # out
  <2>1. PICK p \in {"notify", "next", "snapshot"} :
          out[s] = Idle /\ out' = [out EXCEPT ![s].pc = p] /\ (p = "next" => SeqLeft)
    BY <1>5 DEF Receive, SchemaChange
  <2> DEFINE r == [Idle EXCEPT !.pc = p]
  <2>2. out' = [out EXCEPT ![s] = r]
    BY <2>1
  <2>3. r \in Out /\ RowOK(r) /\ r.pc = p /\ r.seq = 0
    BY <1>1, StartRows
  <2> HIDE DEF r
  <2>4. QED
    BY <1>2, <2>1, <2>2, <2>3, MessageMoves
<1>6. QED
  BY <1>3, <1>4, <1>5

\* Seq.Next: whoever draws a number has been counted, so the bound holds; the number
\* is above every other.
LEMMA DrawNumber ==
  ASSUME MessageTypes, MessageInv, NEW s \in Senders, SeqNext(s)
  PROVE  MessageTypes' /\ MessageInv'
<1> USE RelayAssumption
<1>1. /\ seq \in Nat /\ out[s].pc = "next" /\ seq + 1 \in 1..MaxSeq
      /\ UNCHANGED <<stream, trimmed, unheard>>
  BY DrawingBound DEF SeqNext, MessageTypes
<1>2. Idle \in Out /\ RowOK(Idle) /\ Idle.pc = "idle" /\ Idle.seq = 0 /\ Idle.targets = {}
  BY <1>1, StartRows
<1>3. CASE seq' = seq
  <2>1. out' = [out EXCEPT ![s] = Idle]
    BY <1>1, <1>3 DEF SeqNext
  <2>2. QED
    BY <1>1, <1>2, <1>3, <2>1, MessageMoves
<1>4. CASE seq' # seq
  <2>1. PICK r \in {Idle, [pc |-> "append", seq |-> seq + 1, targets |-> {}]} :
          seq' = seq + 1 /\ out' = [out EXCEPT ![s] = r]
    BY <1>1, <1>4 DEF SeqNext
  <2>2. /\ r \in Out /\ r.targets = {} /\ r.seq \in {0, seq + 1} /\ r.pc \in {"idle", "append"}
        /\ r.pc = "append" <=> r.seq # 0
        /\ r.pc = "append" => r.seq = seq + 1
    BY <1>1, <1>2 DEF Out, OutPCs
  <2>3. out'[s] = r /\ \A x \in Senders \ {s} : out'[x] = out[x]
    BY <2>1 DEF MessageTypes
  <2>4. MessageTypes'
    BY <1>1, <2>1, <2>2 DEF MessageTypes
  <2>5. InStream' = InStream /\ \A n \in InStream : n <= seq /\ n \in Int
    BY <1>1 DEF InStream, MessageInv, MessageTypes
  <2>6. \A x \in Senders : RowOK(out[x])'
    <3>1. RowOK(out[s])'
      BY <1>1, <2>1, <2>2, <2>3, <2>5 DEF RowOK
    <3>2. \A x \in Senders \ {s} : RowOK(out[x])'
      <4>1. \A x \in Senders : RowOK(out[x]) /\ out[x].seq \in Int
        BY DEF MessageInv, MessageTypes, Out
      <4>2. QED
        BY <1>1, <2>1, <2>3, <2>5, <4>1 DEF RowOK
    <3>3. QED
      BY <3>1, <3>2
  <2>7. SeqUnique'
    <3>1. \A x \in Senders : out[x].seq <= seq /\ out[x].seq \in Int
      BY DEF MessageInv, RowOK, MessageTypes, Out
    <3>2. \A x, y \in Senders : (x # y /\ out'[x].seq > 0) => out'[x].seq # out'[y].seq
      BY <1>1, <2>2, <2>3, <3>1 DEF MessageInv, SeqUnique
    <3>3. \A x \in Senders : out'[x].pc = "append" => out'[x].seq \notin InStream
      BY <2>6, <2>5 DEF RowOK
    <3>4. QED
      BY <1>1, <2>5, <3>2, <3>3 DEF MessageInv, SeqUnique
  <2>8. (\A i \in 1..Len(stream) : stream[i] <= seq)'
    BY <1>1, <2>1 DEF MessageInv, MessageTypes
  <2>9. IsFiniteSet(Drawing') /\ seq' + Cardinality(Drawing') <= MaxSeq
    <3>1. Drawing' = Drawing \ {s} /\ s \in Drawing
      BY <1>1, <2>2, <2>3 DEF Drawing
    <3>2. IsFiniteSet(Drawing \ {s}) /\ Cardinality(Drawing \ {s}) = Cardinality(Drawing) - 1
      BY <3>1, FS_RemoveElement DEF MessageInv
    <3>3. QED
      BY <1>1, <2>1, <3>1, <3>2, DrawingBound DEF MessageInv
  <2>10. QED
    BY <2>4, <2>6, <2>7, <2>8, <2>9 DEF MessageInv
<1>5. QED
  BY <1>3, <1>4

\* XADD: the entry is new to the stream, and what was in the stream stays, trimmed or
\* not.
LEMMA AppendEntry ==
  ASSUME MessageTypes, MessageInv, NEW s \in Senders, StreamAppend(s)
  PROVE  MessageTypes' /\ MessageInv'
<1> USE RelayAssumption
<1> DEFINE n == out[s].seq
<1>1. /\ out[s].pc = "append" /\ out[s] \in Out /\ out[s].targets = {}
      /\ n \in 1..MaxSeq /\ n \notin InStream /\ n <= seq /\ seq \in Nat /\ seq' = seq
  <2>1. out[s].pc = "append" /\ seq' = seq
    BY DEF StreamAppend
  <2>2. out[s] \in Out /\ RowOK(out[s]) /\ seq \in Nat
    BY DEF MessageTypes, MessageInv
  <2>3. QED
    BY <2>1, <2>2 DEF RowOK, Out
<1>2. Idle \in Out /\ RowOK(Idle) /\ Idle.pc = "idle" /\ Idle.seq = 0 /\ Idle.targets = {}
  BY <1>1, StartRows
<1>3. CASE UNCHANGED <<stream, trimmed, unheard>> /\ out' = [out EXCEPT ![s] = Idle]
  BY <1>1, <1>2, <1>3, MessageMoves
<1>4. CASE ~(UNCHANGED <<stream, trimmed, unheard>> /\ out' = [out EXCEPT ![s] = Idle])
  <2>1. PICK r \in {Idle, [out[s] EXCEPT !.pc = "snapshot"]} :
          /\ stream' = Append(stream, n) /\ Trim(Len(stream) + 1)
          /\ unheard' \in {unheard, unheard \cup {n}}
          /\ out' = [out EXCEPT ![s] = r]
    BY <1>4 DEF StreamAppend
  <2>2. /\ r \in Out /\ r.targets = {} /\ r.seq \in {0, n} /\ r.pc \in {"idle", "snapshot"}
        /\ r.pc = "idle" => r.seq = 0
    BY <1>1, <1>2 DEF Out, OutPCs
  <2>3. out'[s] = r /\ \A x \in Senders \ {s} : out'[x] = out[x]
    BY <2>1 DEF MessageTypes
  <2>4. /\ stream' \in Seq(1..MaxSeq) /\ Len(stream') = Len(stream) + 1 /\ Len(stream) \in Nat
        /\ \A i \in 1..Len(stream) : stream'[i] = stream[i]
        /\ stream'[Len(stream) + 1] = n
        /\ \A i \in 1..Len(stream') : i \in 1..Len(stream) \/ i = Len(stream) + 1
        /\ InStream' = InStream \cup {n}
    BY <1>1, <2>1, StreamAppended DEF MessageTypes
  <2>5. MessageTypes'
    BY <1>1, <2>1, <2>2, <2>4 DEF MessageTypes, Trim
  <2>6. \A x \in Senders \ {s} : out[x].seq > 0 => out[x].seq # n
    BY <1>1 DEF MessageInv, SeqUnique
  <2>7. \A x \in Senders : RowOK(out[x])'
    <3>1. RowOK(out[s])'
      BY <1>1, <2>2, <2>3, <2>4 DEF RowOK
    <3>2. \A x \in Senders \ {s} : RowOK(out[x])'
      BY <1>1, <2>3, <2>4, <2>6 DEF MessageInv, RowOK
    <3>3. QED
      BY <3>1, <3>2
  <2>8. SeqUnique'
    <3>1. (\A i, j \in 1..Len(stream) : stream[i] = stream[j] => i = j)'
      <4>1. \A i \in 1..Len(stream) : stream[i] # n
        BY <1>1 DEF InStream
      <4>2. QED
        BY <2>4, <4>1 DEF MessageInv, SeqUnique
    <3>2. \A x, y \in Senders : (x # y /\ out'[x].seq > 0) => out'[x].seq # out'[y].seq
      <4>1. \A x \in Senders : out'[x].seq \in {0, out[x].seq}
        BY <2>2, <2>3
      <4>2. QED
        BY <4>1 DEF MessageInv, SeqUnique
    <3>3. \A x \in Senders : out'[x].pc = "append" => out'[x].seq \notin InStream'
      BY <2>7 DEF RowOK
    <3>4. QED
      BY <3>1, <3>2, <3>3 DEF SeqUnique
  <2>9. (\A i \in 1..Len(stream) : stream[i] <= seq)'
    BY <1>1, <2>4 DEF MessageInv
  <2>10. IsFiniteSet(Drawing') /\ seq' + Cardinality(Drawing') <= MaxSeq
    <3>1. Drawing' = Drawing
      BY <1>1, <2>2, <2>3 DEF Drawing
    <3>2. QED
      BY <1>1, <3>1 DEF MessageInv
  <2>11. QED
    BY <2>5, <2>7, <2>8, <2>9, <2>10 DEF MessageInv
<1>5. QED
  BY <1>3, <1>4

\* What Fan leaves of a message.
LEMMA FanRow ==
  ASSUME MessageTypes, NEW s \in Senders, NEW rest \in SUBSET Conns, Fan(s, rest)
  PROVE  \E r \in Out :
           /\ out' = [out EXCEPT ![s] = r] /\ r.targets = rest
           /\ IF rest = {} THEN r = Idle ELSE r.pc = "fanout" /\ r.seq = out[s].seq
<1> DEFINE r == IF rest = {} THEN Idle ELSE [pc |-> "fanout", seq |-> out[s].seq, targets |-> rest]
<1>1. out[s] \in Out
  BY DEF MessageTypes
<1>2. r \in Out /\ r.targets = rest
  BY <1>1, RelayAssumption DEF Out, OutPCs, Idle
<1>3. QED
  BY <1>2 DEF Fan

\* Broadcast: the snapshot, a send, a panic.
LEMMA BroadcastMessages ==
  ASSUME MessageTypes, MessageInv, members \subseteq Conns, NEW s \in Senders,
         BroadcastSnapshot(s) \/ BroadcastSend(s) \/ BroadcastPanic(s)
  PROVE  MessageTypes' /\ MessageInv'
<1> USE RelayAssumption
<1>1. /\ seq \in Nat /\ out[s] \in Out /\ RowOK(out[s]) /\ out[s].targets \subseteq Conns
      /\ UNCHANGED <<seq, stream, trimmed, unheard>>
  BY DEF MessageTypes, MessageInv, Out, BroadcastSnapshot, BroadcastSend, BroadcastPanic,
         OutUnchanged, redisVars
<1>2. Idle \in Out /\ RowOK(Idle) /\ Idle.pc = "idle" /\ Idle.seq = 0
  BY <1>1, StartRows
<1>3. CASE BroadcastSnapshot(s) \/ BroadcastSend(s)
  <2>1. PICK rest \in SUBSET Conns : Fan(s, rest) /\ out[s].pc \in {"snapshot", "fanout"}
    BY <1>1, <1>3 DEF BroadcastSnapshot, BroadcastSend, Targets
  <2>2. PICK r \in Out : /\ out' = [out EXCEPT ![s] = r]
                         /\ IF rest = {} THEN r = Idle ELSE r.pc = "fanout" /\ r.seq = out[s].seq
    BY <2>1, FanRow
  <2>3. RowOK(r) /\ r.pc \in {"idle", "fanout"} /\ r.seq \in {0, out[s].seq}
    BY <1>1, <1>2, <2>1, <2>2 DEF RowOK
  <2>4. QED
    BY <1>1, <2>2, <2>3, MessageMoves
<1>4. CASE BroadcastPanic(s)
  <2> DEFINE r == [out[s] EXCEPT !.pc = "panicked"]
  <2>1. out[s].pc = "fanout" /\ out' = [out EXCEPT ![s] = r]
    BY <1>4 DEF BroadcastPanic
  <2>2. r \in Out /\ r.pc = "panicked" /\ r.seq = out[s].seq /\ r.targets = out[s].targets
    BY <1>1 DEF Out, OutPCs
  <2>3. RowOK(r)
    BY <1>1, <2>1, <2>2 DEF RowOK
  <2> HIDE DEF r
  <2>4. QED
    BY <1>1, <2>1, <2>2, <2>3, MessageMoves
<1>5. QED
  BY <1>3, <1>4

\* Every step keeps the messages typed and numbered.
LEMMA MessageStep ==
  ASSUME MessageTypes, MessageInv, members \subseteq Conns, Next
  PROVE  MessageTypes' /\ MessageInv'
<1>1. CASE UNCHANGED <<redisVars, out>>
  <2>1. InStream' = InStream /\ Drawing' = Drawing
    BY <1>1 DEF InStream, Drawing, redisVars
  <2>2. QED
    BY <1>1, <2>1 DEF redisVars, MessageTypes, MessageInv, RowOK, SeqUnique
<1>2. CASE Crash
  <2>1. UNCHANGED <<seq, stream, trimmed, unheard>> /\ out' = [s \in Senders |-> Idle]
    BY <1>2 DEF Crash, redisVars
  <2>2. seq \in Nat /\ Idle \in Out /\ RowOK(Idle) /\ Idle.pc = "idle" /\ Idle.seq = 0
    BY RelayAssumption, StartRows DEF MessageTypes
  <2>3. InStream' = InStream /\ Drawing' = {}
    BY <2>1, <2>2 DEF InStream, Drawing
  <2>4. \A x \in Senders : RowOK(out[x])'
    BY <2>1, <2>2, <2>3 DEF RowOK
  <2>5. SeqUnique'
    BY <2>1, <2>2, <2>3, ~(0 > 0) DEF SeqUnique, MessageInv
  <2>6. IsFiniteSet(Drawing') /\ seq' + Cardinality(Drawing') <= MaxSeq
    BY <2>1, <2>2, <2>3, FS_EmptySet, RelayAssumption DEF MessageTypes
  <2>7. QED
    BY <2>1, <2>2, <2>4, <2>5, <2>6 DEF MessageTypes, MessageInv
<1>3. CASE \E s \in Senders : SendStep(s)
  BY <1>3, DrawNumber, AppendEntry, BroadcastMessages DEF SendStep
<1>4. CASE \E c \in Conns : Receive(c) \/ NotifyQuota(c)
  BY <1>4, ReceiveMessages DEF Senders
<1>5. CASE \E s \in SchemaCalls : SchemaChange(s)
  BY <1>5, ReceiveMessages DEF Senders
<1>6. CASE \E c \in Conns : HandlerStep(c) /\ ~NotifyQuota(c)
  BY <1>1, <1>6 DEF HandlerStep, CatchUp, Replay, StartLoops, ReadError, Leave, Close
<1>7. CASE \E c \in Conns : Connect(c) \/ WriterStep(c) \/ Evict(c) \/ Disconnect(c)
  BY <1>1, <1>7 DEF Connect, WriterStep, Write, WriteError, WriteClose, Evict, Disconnect
<1>8. QED
  BY <1>2, <1>3, <1>4, <1>5, <1>6, <1>7 DEF Next

-----------------------------------------------------------------------------
(* The hub: Register, Unregister, evictions, the targets of a broadcast *)

\* The types by groups are TypeOK.
LEMMA TypeGroups == TypeOK <=> MessageTypes /\ HubTypes /\ QueueTypes
  BY DEF TypeOK, MessageTypes, HubTypes, QueueTypes

\* A step keeps the targets covered when it adds none, takes nobody out of the hub
\* without closing it, and resets the role of closed connections only.
LEMMA TargetsFrame ==
  ASSUME TargetsInv,
         members \cup closed \subseteq members' \cup closed', closed \subseteq closed',
         \A s \in Senders : out[s].targets \subseteq Conns,
         \A c \in Conns : role'[c] = "unspecified" => (role[c] = "unspecified" \/ c \in closed'),
         \A s \in Senders : /\ out'[s].targets \subseteq out[s].targets
                            /\ out'[s].targets # {} => out'[s].seq = out[s].seq
  PROVE  TargetsInv'
  BY DEF TargetsInv

\* Steps of a message: the hub stays as it is, or gains an eviction.
LEMMA HubAndMessages ==
  ASSUME TypeOK, MessageInv, HubInv, NEW s \in Senders,
         SendStep(s) \/ Receive(s) \/ NotifyQuota(s) \/ SchemaChange(s)
  PROVE  HubTypes' /\ HubCore'
<1> USE RelayAssumption, TypeGroups
<1>t. /\ out[s] \in Out /\ \A x \in Senders : out[x].targets \subseteq Conns
      /\ out[s].pc \notin {"fanout", "panicked"} => out[s].targets = {}
  BY DEF MessageTypes, Out, MessageInv, RowOK
<1>i. Idle.targets = {} /\ Idle.pc = "idle"
  BY DEF Idle
<1>1. CASE Receive(s) \/ NotifyQuota(s) \/ SchemaChange(s)
  <2>1. /\ UNCHANGED <<members, closed, evicting, pc, caughtUp, writer, up, lastSeq>>
        /\ \A c \in Conns : role'[c] = "unspecified" => role[c] = "unspecified"
        /\ role' \in [Conns -> Roles]
    <3>1. UNCHANGED <<members, closed, evicting, pc, caughtUp, writer, up, lastSeq>>
      BY <1>1 DEF Receive, NotifyQuota, SchemaChange, OutUnchanged
    <3>2. role' = role \/ \E r \in SentRoles : role' = [role EXCEPT ![s] = r]
      BY <1>1 DEF Receive, NotifyQuota, SchemaChange
    <3>3. QED
      BY <3>1, <3>2 DEF HubTypes, Roles
  <2>2. \A x \in Senders : out'[x].targets = out[x].targets /\ (out'[x].seq = out[x].seq \/ out'[x].targets = {})
    <3>1. CASE NotifyQuota(s)
      BY <3>1, <1>t, <1>i DEF NotifyQuota, MessageTypes, Out
    <3>2. CASE Receive(s) \/ SchemaChange(s)
      <4>1. CASE out' = out
        BY <4>1
      <4>2. CASE out' # out
        <5>1. PICK p \in OutPCs : out' = [out EXCEPT ![s].pc = p]
          BY <3>2, <4>2 DEF Receive, SchemaChange, OutPCs
        <5>2. QED
          BY <5>1, <1>t DEF MessageTypes, Out
      <4>3. QED
        BY <4>1, <4>2
    <3>3. QED
      BY <1>1, <3>1, <3>2
  <2>3. TargetsInv'
    BY <1>t, <2>1, <2>2, TargetsFrame DEF HubInv, HubCore
  <2>4. QED
    BY <2>1, <2>3 DEF HubTypes, HubInv, HubCore, MembersOpen, ConnsInv
<1>2. CASE SeqNext(s) \/ StreamAppend(s)
  <2>1. UNCHANGED <<members, closed, evicting, pc, role, caughtUp, writer, up, lastSeq>>
    BY <1>2 DEF SeqNext, StreamAppend
  <2>2. out[s].targets = {} /\ out'[s].targets = {} /\ \A x \in Senders \ {s} : out'[x] = out[x]
    <3>1. out[s].targets = {}
      BY <1>2, <1>t DEF SeqNext, StreamAppend
    <3>2. PICK r \in {Idle, [pc |-> "append", seq |-> seq + 1, targets |-> {}],
                      [out[s] EXCEPT !.pc = "snapshot"]} : out' = [out EXCEPT ![s] = r]
      BY <1>2 DEF SeqNext, StreamAppend
    <3>3. r.targets = {}
      BY <1>t, <1>i, <3>1, <3>2 DEF Out
    <3>4. QED
      BY <3>1, <3>2, <3>3 DEF MessageTypes
  <2>3. TargetsInv'
    BY <1>t, <2>1, <2>2, TargetsFrame DEF HubInv, HubCore
  <2>4. QED
    BY <2>1, <2>3 DEF HubTypes, HubInv, HubCore, MembersOpen, ConnsInv
<1>3. CASE BroadcastSnapshot(s)
  <2>1. UNCHANGED <<members, closed, evicting, pc, role, caughtUp, writer, up, lastSeq>>
    BY <1>3 DEF BroadcastSnapshot, OutUnchanged
  <2>2. Targets(s) \subseteq members /\ (out[s].seq = 0 => \A t \in Targets(s) : role[t] = "provider")
    BY DEF Targets
  <2>3. PICK r \in Out :
          /\ out' = [out EXCEPT ![s] = r] /\ r.targets = Targets(s)
          /\ Targets(s) # {} => r.seq = out[s].seq
    BY <1>3, <2>2, FanRow DEF BroadcastSnapshot, HubTypes
  <2>4. TargetsInv'
    BY <2>1, <2>2, <2>3 DEF MessageTypes, HubInv, HubCore, TargetsInv
  <2>5. QED
    BY <2>1, <2>4 DEF HubTypes, HubInv, HubCore, MembersOpen, ConnsInv
<1>4. CASE BroadcastSend(s)
  <2>1. PICK t \in out[s].targets :
          /\ evicting' \in {evicting, evicting \cup {t}}
          /\ Fan(s, out[s].targets \ {t})
    BY <1>4 DEF BroadcastSend
  <2>2. UNCHANGED <<members, closed, pc, role, caughtUp, writer, up, lastSeq>>
    BY <1>4 DEF BroadcastSend
  <2>3. t \in Conns /\ t \in members \cup closed
    BY <1>t DEF HubInv, HubCore, TargetsInv
  <2>4. PICK r \in Out :
          /\ out' = [out EXCEPT ![s] = r] /\ r.targets = out[s].targets \ {t}
          /\ r.targets # {} => r.seq = out[s].seq
    BY <1>t, <2>1, FanRow
  <2>5. TargetsInv'
    BY <1>t, <2>2, <2>4, TargetsFrame DEF HubInv, HubCore, MessageTypes
  <2>6. QED
    BY <2>1, <2>2, <2>3, <2>5 DEF HubTypes, HubInv, HubCore, MembersOpen, ConnsInv
<1>5. CASE BroadcastPanic(s)
  <2>1. PICK t \in out[s].targets : t \in closed
    BY <1>5 DEF BroadcastPanic, Closed
  <2>2. /\ UNCHANGED <<members, closed, evicting, role, caughtUp, writer, up, lastSeq>>
        /\ out' = [out EXCEPT ![s].pc = "panicked"]
        /\ pc' = [c \in Conns |-> IF c = s THEN "panicked" ELSE pc[c]]
    BY <1>5 DEF BroadcastPanic, OutUnchanged
  <2>3. TargetsInv'
    BY <1>t, <2>2, TargetsFrame DEF HubInv, HubCore, MessageTypes, Out
  <2>4. HubTypes'
    BY <2>2 DEF HubTypes
  <2>5. ConnsInv'
    <3>1. s \in Conns => pc[s] \in {"live", "panicked"}
      BY <1>5 DEF HubInv, HubCore, BusyInv, BroadcastPanic
    <3>2. \A c \in Conns : pc'[c] = IF c = s THEN "panicked" ELSE pc[c]
      BY <2>2
    <3>3. QED
      BY <2>2, <3>1, <3>2 DEF HubInv, HubCore, ConnsInv
  <2>6. QED
    BY <2>2, <2>3, <2>4, <2>5 DEF HubInv, HubCore, MembersOpen
<1>6. QED
  BY <1>1, <1>2, <1>3, <1>4, <1>5 DEF SendStep

\* Every step keeps the hub consistent.
LEMMA HubStep ==
  ASSUME TypeOK, MessageInv, HubInv, Next
  PROVE  HubTypes' /\ HubCore'
<1> USE RelayAssumption, TypeGroups
<1>t. \A x \in Senders : out[x].targets \subseteq Conns
  BY DEF MessageTypes, Out
<1>1. CASE \/ \E s \in Senders : SendStep(s)
           \/ \E c \in Conns : Receive(c) \/ NotifyQuota(c)
           \/ \E s \in SchemaCalls : SchemaChange(s)
  <2>1. CASE \E s \in Senders : SendStep(s)
    BY <2>1, HubAndMessages DEF SendStep, Receive
  <2>2. CASE \E c \in Conns : Receive(c) \/ NotifyQuota(c)
    BY <2>2, HubAndMessages DEF Senders
  <2>3. CASE \E s \in SchemaCalls : SchemaChange(s)
    BY <2>3, HubAndMessages DEF Senders
  <2>4. QED
    BY <1>1, <2>1, <2>2, <2>3
<1>2. ASSUME NEW c \in Conns, Connect(c)
      PROVE  HubTypes' /\ HubCore'
  <2>1. /\ pc[c] = "new" /\ pc' = [pc EXCEPT ![c] = "range"]
        /\ members' = members \cup {c} /\ up' = up \cup {c}
        /\ UNCHANGED <<closed, evicting, caughtUp, role, writer, out>>
    BY <1>2 DEF Connect
  <2>2. lastSeq' \in [Conns -> 0..MaxSeq]
    <3>1. PICK n \in {0} \cup {HighestSeen(p) : p \in Conns \ up} : lastSeq' = [lastSeq EXCEPT ![c] = n]
      BY <1>2 DEF Connect
    <3>2. n \in 0..MaxSeq
      BY HighestSeenType
    <3>3. QED
      BY <3>1, <3>2 DEF HubTypes
  <2>3. c \notin closed
    BY <2>1 DEF HubInv, HubCore, ConnsInv
  <2>4. ConnsInv'
    BY <2>1 DEF HubInv, HubCore, ConnsInv, HubTypes
  <2>5. TargetsInv'
    BY <1>t, <2>1, TargetsFrame DEF HubInv, HubCore
  <2>6. QED
    BY <2>1, <2>2, <2>3, <2>4, <2>5 DEF HubTypes, HubInv, HubCore, MembersOpen
<1>3. ASSUME NEW c \in Conns, CatchUp(c) \/ Replay(c) \/ StartLoops(c) \/ ReadError(c)
      PROVE  HubTypes' /\ HubCore'
  <2>1. /\ UNCHANGED <<members, closed, evicting, role, up, lastSeq, out>>
        /\ pc[c] \in {"range", "replay", "live"}
        /\ caughtUp' \in {caughtUp, caughtUp \cup {c}}
        /\ writer' = writer \/ writer' = [writer EXCEPT ![c] = "on"]
        /\ \E x \in {"replay", "live", "unregister"} : pc' = [pc EXCEPT ![c] = x]
    BY <1>3 DEF CatchUp, Replay, StartLoops, ReadError, HubTypes
  <2>2. ConnsInv'
    BY <2>1 DEF HubInv, HubCore, ConnsInv, HubTypes
  <2>3. TargetsInv'
    BY <1>t, <2>1, TargetsFrame DEF HubInv, HubCore
  <2>4. QED
    BY <2>1, <2>2, <2>3 DEF HubTypes, HubInv, HubCore, MembersOpen
<1>4. ASSUME NEW c \in Conns, Leave(c) \/ Evict(c)
      PROVE  HubTypes' /\ HubCore'
  <2>1. /\ members' = members \ {c} /\ closed' = (IF c \in members THEN closed \cup {c} ELSE closed)
        /\ UNCHANGED <<role, up, lastSeq, writer, caughtUp, out>>
        /\ evicting' \subseteq evicting
        /\ pc' = pc \/ (pc[c] = "unregister" /\ pc' = [pc EXCEPT ![c] = "close"])
    BY <1>4 DEF Leave, Evict, Unregister
  <2>2. pc[c] # "new"
    BY <1>4 DEF Leave, Evict, HubInv, HubCore, ConnsInv
  <2>3. HubTypes'
    BY <2>1 DEF HubTypes
  <2>4. ConnsInv'
    BY <2>1, <2>2 DEF HubInv, HubCore, ConnsInv, HubTypes
  <2>5. TargetsInv'
    BY <1>t, <2>1, TargetsFrame DEF HubInv, HubCore
  <2>6. QED
    BY <2>1, <2>3, <2>4, <2>5 DEF HubInv, HubCore, MembersOpen
<1>5. ASSUME NEW c \in Conns, Close(c)
      PROVE  HubTypes' /\ HubCore'
  <2>1. /\ UNCHANGED <<members, closed, evicting, lastSeq, caughtUp, out>>
        /\ pc[c] = "close" /\ pc' = [pc EXCEPT ![c] = "done"]
        /\ up' = up \ {c} /\ writer' = [writer EXCEPT ![c] = "exited"]
        /\ role' = [role EXCEPT ![c] = "unspecified"]
    BY <1>5 DEF Close
  <2>2. c \in closed
    BY <2>1 DEF HubInv, HubCore, ConnsInv
  <2>3. HubTypes'
    BY <2>1 DEF HubTypes, Roles
  <2>4. ConnsInv'
    BY <2>1 DEF HubInv, HubCore, ConnsInv, HubTypes
  <2>5. TargetsInv'
    BY <1>t, <2>1, <2>2, TargetsFrame DEF HubInv, HubCore, HubTypes
  <2>6. QED
    BY <2>1, <2>3, <2>4, <2>5 DEF HubInv, HubCore, MembersOpen
<1>6. ASSUME NEW c \in Conns, WriterStep(c) \/ Disconnect(c)
      PROVE  HubTypes' /\ HubCore'
  <2>1. UNCHANGED <<members, closed, evicting, role, lastSeq, caughtUp, out, pc>>
    BY <1>6 DEF WriterStep, Write, WriteError, WriteClose, Disconnect
  <2>2. up' \subseteq up /\ (writer' = writer \/ writer' = [writer EXCEPT ![c] = "exited"])
    BY <1>6 DEF WriterStep, Write, WriteError, WriteClose, Disconnect
  <2>3. TargetsInv'
    BY <1>t, <2>1, TargetsFrame DEF HubInv, HubCore
  <2>4. QED
    BY <2>1, <2>2, <2>3 DEF HubTypes, HubInv, HubCore, MembersOpen, ConnsInv
<1>7. CASE Crash
  <2>1. /\ members' = {} /\ closed' = {} /\ evicting' = {} /\ up' = {} /\ caughtUp' = {}
        /\ out' = [s \in Senders |-> Idle] /\ writer' = [c \in Conns |-> "off"]
        /\ pc' = [c \in Conns |-> IF pc[c] = "new" THEN "new" ELSE "done"]
        /\ role' = [c \in Conns |-> "unspecified"] /\ lastSeq' = lastSeq
    BY <1>7 DEF Crash
  <2>2. Idle.targets = {}
    BY DEF Idle
  <2>3. HubTypes'
    BY <2>1 DEF HubTypes, Roles
  <2>4. QED
    BY <2>1, <2>2, <2>3 DEF HubInv, HubCore, MembersOpen, ConnsInv, TargetsInv
<1>8. QED
  BY <1>1, <1>2, <1>3, <1>4, <1>5, <1>6, <1>7 DEF Next, HandlerStep

\* A socket reads its next message only when the last one is done, and leaves
\* ReadLoop only between two messages.
LEMMA BusyStep ==
  ASSUME TypeOK, HubInv, Next
  PROVE  BusyInv'
<1> USE RelayAssumption, TypeGroups DEF MessageTypes, HubTypes
<1>b. \A c \in Conns : out[c].pc # "idle" => pc[c] \in {"live", "panicked"}
  BY DEF HubInv, BusyInv
<1>i. Idle.pc = "idle" /\ Conns \subseteq Senders
  BY DEF Idle, Senders
<1>1. ASSUME NEW s \in Senders, SendStep(s)
      PROVE  BusyInv'
  <2>1. out[s].pc # "idle" /\ \A x \in Senders \ {s} : out'[x] = out[x]
    BY <1>1 DEF SendStep, SeqNext, StreamAppend, BroadcastSnapshot, BroadcastSend,
                BroadcastPanic, Fan
  <2>2. \A c \in Conns : pc'[c] = pc[c] \/ pc'[c] = "panicked"
    BY <1>1 DEF SendStep, SeqNext, StreamAppend, BroadcastSnapshot, BroadcastSend,
                BroadcastPanic
  <2>3. QED
    BY <1>b, <1>i, <2>1, <2>2 DEF BusyInv
<1>2. ASSUME NEW c \in Conns, Receive(c) \/ NotifyQuota(c)
      PROVE  BusyInv'
  <2>1. pc' = pc /\ \A x \in Senders \ {c} : out'[x] = out[x]
    BY <1>2 DEF Receive, NotifyQuota, OutUnchanged
  <2>2. pc[c] \in {"live", "panicked"}
    BY <1>2, <1>b DEF Receive, NotifyQuota
  <2>3. QED
    BY <1>b, <1>i, <2>1, <2>2 DEF BusyInv
<1>3. ASSUME NEW s \in SchemaCalls, SchemaChange(s)
      PROVE  BusyInv'
  <2>1. pc' = pc /\ \A c \in Conns : out'[c] = out[c]
    BY <1>3, <1>i DEF SchemaChange
  <2>2. QED
    BY <1>b, <2>1 DEF BusyInv
<1>4. ASSUME NEW c \in Conns,
             \/ Connect(c) \/ Evict(c) \/ Disconnect(c) \/ WriterStep(c)
             \/ CatchUp(c) \/ Replay(c) \/ StartLoops(c) \/ ReadError(c) \/ Leave(c) \/ Close(c)
      PROVE  BusyInv'
  <2>1. out' = out
    BY <1>4 DEF Connect, Evict, Disconnect, WriterStep, Write, WriteError, WriteClose,
                CatchUp, Replay, StartLoops, ReadError, Leave, Close
  <2>2. pc' = pc \/ (out[c].pc = "idle" /\ \A x \in Conns \ {c} : pc'[x] = pc[x])
    BY <1>4, <1>b DEF Connect, Evict, Disconnect, WriterStep, Write, WriteError, WriteClose,
                CatchUp, Replay, StartLoops, ReadError, Leave, Close
  <2>3. QED
    BY <1>b, <2>1, <2>2 DEF BusyInv
<1>5. CASE Crash
  BY <1>5, <1>i DEF Crash, BusyInv
<1>6. QED
  BY <1>1, <1>2, <1>3, <1>4, <1>5 DEF Next, HandlerStep

-----------------------------------------------------------------------------
(* The queues and what reaches the clients *)

\* The stream is only appended to.
LEMMA StreamGrows ==
  ASSUME TypeOK, MessageInv, Next
  PROVE  /\ InStream \subseteq InStream' /\ 1..Len(stream) \subseteq 1..Len(stream')
         /\ \A i \in 1..Len(stream) : stream'[i] = stream[i]
         /\ trimmed' >= trimmed /\ trimmed \in Nat /\ trimmed' \in Nat
<1> USE TypeGroups DEF MessageTypes
<1>1. CASE stream' = stream /\ trimmed' = trimmed
  BY <1>1 DEF InStream
<1>2. ASSUME NEW s \in Senders, StreamAppend(s), ~(stream' = stream /\ trimmed' = trimmed)
      PROVE  /\ InStream \subseteq InStream' /\ 1..Len(stream) \subseteq 1..Len(stream')
             /\ \A i \in 1..Len(stream) : stream'[i] = stream[i]
             /\ trimmed' >= trimmed /\ trimmed \in Nat /\ trimmed' \in Nat
  <2>1. out[s].seq \in 1..MaxSeq
    <3>1. out[s] \in Out /\ RowOK(out[s]) /\ out[s].pc = "append"
      BY <1>2 DEF StreamAppend, MessageInv
    <3>2. QED
      BY <3>1, RelayAssumption DEF RowOK, Out
  <2>2. stream' = Append(stream, out[s].seq) /\ Trim(Len(stream) + 1)
    BY <1>2 DEF StreamAppend
  <2>3. QED
    BY <2>1, <2>2, StreamAppended DEF Trim
<1>3. CASE ~\E s \in Senders : StreamAppend(s)
  <2>1. stream' = stream /\ trimmed' = trimmed
    BY <1>3 DEF Next, Connect, Receive, HandlerStep, CatchUp, Replay, StartLoops, NotifyQuota,
         ReadError, Leave, Close, WriterStep, Write, WriteError, WriteClose, Evict, Disconnect,
         SchemaChange, SendStep, SeqNext, BroadcastSnapshot, BroadcastSend, BroadcastPanic,
         Crash, OutUnchanged, redisVars
  <2>2. QED
    BY <1>1, <2>1
<1>4. QED
  BY <1>1, <1>2, <1>3

\* What may be put into the queue of c: a message that is in the stream, a notice,
\* or a request when the connection has said what it is.
MayQueue(c, e) ==
  /\ e \in Entry
  /\ e.seq = 0 \/ e.seq \in InStream
  /\ e.kind = "request" => role[c] # "unspecified"

\* How the queue of one connection changes.
QueueMove(c) ==
  \/ queue'[c] = queue[c]
  \/ queue'[c] = <<>>
  \/ queue[c] # <<>> /\ queue'[c] = Tail(queue[c])
  \/ \E e \in Entry : /\ queue'[c] = Append(queue[c], e) /\ Len(queue[c]) < SendBuffer
                      /\ MayQueue(c, e)

\* Enqueue into a queue with room is such a change.
LEMMA EnqueueMoves ==
  ASSUME TypeOK, NEW t \in Conns, NEW k \in {"message", "notice", "request"}, NEW n \in 0..MaxSeq,
         Enqueue(t, k, n), ~Full(t), MayQueue(t, [kind |-> k, seq |-> n])
  PROVE  \A c \in Conns : QueueMove(c)
<1>1. /\ queue'[t] = Append(queue[t], [kind |-> k, seq |-> n])
      /\ \A c \in Conns \ {t} : queue'[c] = queue[c]
      /\ Len(queue[t]) < SendBuffer
  BY RelayAssumption DEF TypeOK, Enqueue, Full
<1>2. [kind |-> k, seq |-> n] \in Entry
  BY DEF Entry
<1>3. QED
  BY <1>1, <1>2 DEF QueueMove

\* How the queues and the roles change together.
QueuesMove ==
  /\ queue' \in [Conns -> Seq(Entry)]
  /\ \A c \in Conns :
       /\ QueueMove(c)
       /\ role'[c] = "unspecified" => (role[c] = "unspecified" \/ queue'[c] = <<>>)

\* Every step changes the queues in this way, and takes into a client's history only
\* what was at the head of its queue.
LEMMA QueueMoves ==
  ASSUME TypeOK, MessageInv, HubInv, Next
  PROVE  QueuesMove
<1> USE RelayAssumption, TypeGroups
<1>q. /\ queue \in [Conns -> Seq(Entry)] /\ role \in [Conns -> Roles] /\ stream \in Seq(1..MaxSeq)
      /\ todo \in [Conns -> SUBSET (1..Len(stream))]
  BY DEF QueueTypes, HubTypes, MessageTypes
<1>e. <<>> \in Seq(Entry)
  OBVIOUS
<1> USE DEF QueuesMove
<1>1. CASE queue' = queue /\ role' = role
  BY <1>1, <1>q DEF QueueMove
<1>2. ASSUME NEW t \in Conns, NEW k \in {"message", "notice", "request"}, NEW n \in 0..MaxSeq,
             Enqueue(t, k, n), ~Full(t), MayQueue(t, [kind |-> k, seq |-> n]), role' = role
      PROVE  QueuesMove
  <2>1. \A c \in Conns : QueueMove(c)
    BY <1>2, EnqueueMoves
  <2>2. [kind |-> k, seq |-> n] \in Entry
    BY DEF Entry
  <2>3. Append(queue[t], [kind |-> k, seq |-> n]) \in Seq(Entry)
    BY <1>q, <2>2
  <2>4. queue' \in [Conns -> Seq(Entry)]
    BY <1>2, <1>q, <2>3 DEF Enqueue
  <2>5. QED
    BY <1>2, <2>1, <2>4
<1>3. ASSUME NEW t \in Conns, Replay(t)
      PROVE  QueuesMove
  <2>1. PICK i \in todo[t] : SendBlocking(t, "message", stream[i]) /\ role' = role
    BY <1>3 DEF Replay
  <2>2. i \in 1..Len(stream) /\ stream[i] \in 1..MaxSeq
    BY <1>q
  <2>3. MayQueue(t, [kind |-> "message", seq |-> stream[i]])
    BY <2>2 DEF MayQueue, InStream, Entry
  <2>4. QED
    BY <1>1, <1>2, <2>1, <2>2, <2>3 DEF SendBlocking
<1>4. ASSUME NEW t \in Conns, NotifyQuota(t)
      PROVE  QueuesMove
  <2>1. SendBlocking(t, "notice", 0) /\ role' = role
    BY <1>4 DEF NotifyQuota
  <2>2. MayQueue(t, [kind |-> "notice", seq |-> 0])
    BY DEF MayQueue, Entry
  <2>3. QED
    BY <1>1, <1>2, <2>1, <2>2 DEF SendBlocking
<1>5. ASSUME NEW s \in Senders, BroadcastSend(s)
      PROVE  QueuesMove
  <2>1. PICK t \in out[s].targets :
          /\ t \notin closed /\ role' = role /\ out[s].pc = "fanout"
          /\ queue' = queue \/ (~Full(t) /\ Enqueue(t, Kind(s), out[s].seq))
    BY <1>5 DEF BroadcastSend, Closed
  <2>2. /\ t \in Conns /\ out[s] \in Out /\ RowOK(out[s])
        /\ out[s].seq = 0 => role[t] # "unspecified"
    BY <2>1 DEF MessageTypes, MessageInv, Out, HubInv, HubCore, TargetsInv
  <2>3. /\ out[s].seq \in 0..MaxSeq /\ Kind(s) \in {"message", "notice", "request"}
        /\ MayQueue(t, [kind |-> Kind(s), seq |-> out[s].seq])
    BY <2>1, <2>2 DEF Kind, MayQueue, Entry, RowOK, Out
  <2>4. QED
    BY <1>1, <1>2, <2>1, <2>2, <2>3
<1>6. ASSUME NEW t \in Conns, Write(t) \/ WriteError(t)
      PROVE  QueuesMove
  <2>1. role' = role /\ (queue' = queue \/ (queue[t] # <<>> /\ queue' = [queue EXCEPT ![t] = Tail(@)]))
    BY <1>6 DEF Write, WriteError
  <2>2. queue[t] # <<>> => Tail(queue[t]) \in Seq(Entry)
    BY <1>q
  <2>3. QED
    BY <1>q, <2>1, <2>2 DEF QueueMove
<1>7. ASSUME NEW t \in Conns, Close(t)
      PROVE  QueuesMove
  BY <1>7, <1>q, <1>e DEF Close, QueueMove
<1>8. CASE Crash
  BY <1>8, <1>e DEF Crash, QueueMove
<1>9. ASSUME NEW t \in Conns, Receive(t)
      PROVE  QueuesMove
  <2>1. queue' = queue /\ \E r \in SentRoles : role' = [role EXCEPT ![t] = r]
    BY <1>9 DEF Receive, OutUnchanged
  <2>2. QED
    BY <1>q, <2>1 DEF QueueMove
<1>10. CASE \/ \E t \in Conns : Connect(t) \/ CatchUp(t) \/ StartLoops(t) \/ ReadError(t)
                               \/ Leave(t) \/ WriteClose(t) \/ Evict(t) \/ Disconnect(t)
            \/ \E s \in Senders : SeqNext(s) \/ StreamAppend(s) \/ BroadcastSnapshot(s) \/ BroadcastPanic(s)
            \/ \E s \in SchemaCalls : SchemaChange(s)
  <2>1. queue' = queue /\ role' = role
    BY <1>10 DEF Connect, CatchUp, StartLoops, ReadError, Leave, WriteClose, Evict, Disconnect,
         SeqNext, StreamAppend, BroadcastSnapshot, BroadcastPanic, SchemaChange, OutUnchanged
  <2>2. QED
    BY <1>1, <2>1
<1>11. QED
  BY <1>3, <1>4, <1>5, <1>6, <1>7, <1>8, <1>9, <1>10 DEF Next, HandlerStep, WriterStep, SendStep

\* What reaches a client has left its queue.
Heard ==
  /\ received' \in [Conns -> Seq(Entry)]
  /\ \A c \in Conns :
       \/ received'[c] = received[c]
       \/ /\ queue[c] # <<>> /\ queue'[c] = Tail(queue[c])
          /\ received'[c] = Append(received[c], Head(queue[c]))

\* A client hears only what was at the head of its queue.
LEMMA Hears ==
  ASSUME TypeOK, Next
  PROVE  Heard
<1> USE TypeGroups DEF QueueTypes, Heard
<1>1. ASSUME NEW t \in Conns, Write(t)
      PROVE  Heard
  <2>1. /\ queue[t] # <<>> /\ queue' = [queue EXCEPT ![t] = Tail(@)]
        /\ received' = received \/ received' = [received EXCEPT ![t] = Append(@, Head(queue[t]))]
    BY <1>1 DEF Write
  <2>2. Head(queue[t]) \in Entry /\ Append(received[t], Head(queue[t])) \in Seq(Entry)
    BY <2>1, SeqsTail, SeqsAppend
  <2>3. QED
    BY <2>1, <2>2
<1>2. CASE ~\E t \in Conns : Write(t)
  <2>1. received' = received
    BY <1>2 DEF Next, Connect, Receive, HandlerStep, CatchUp, Replay, StartLoops, NotifyQuota,
         ReadError, Leave, Close, WriterStep, WriteError, WriteClose, Evict, Disconnect,
         SchemaChange, SendStep, SeqNext, StreamAppend, BroadcastSnapshot, BroadcastSend,
         BroadcastPanic, Crash, OutUnchanged
  <2>2. QED
    BY <2>1
<1>3. QED
  BY <1>1, <1>2

\* A catch-up reads the stream once and only sends from what it read.
LEMMA TodoMoves ==
  ASSUME TypeOK, Next
  PROVE  todo' \in [Conns -> SUBSET (1..Len(stream))]
<1> USE TypeGroups DEF QueueTypes
<1>1. CASE todo' = todo
  BY <1>1
<1>2. ASSUME NEW c \in Conns, CatchUp(c)
      PROVE  todo' \in [Conns -> SUBSET (1..Len(stream))]
  <2>1. StreamRange(lastSeq[c]) \subseteq 1..Len(stream)
    <3>1. trimmed \in Nat /\ Len(stream) \in Nat
      BY DEF MessageTypes
    <3>2. QED
      BY <3>1 DEF StreamRange
  <2>2. todo' = todo \/ todo' = [todo EXCEPT ![c] = StreamRange(lastSeq[c])]
    BY <1>2 DEF CatchUp
  <2>3. QED
    BY <2>1, <2>2
<1>3. ASSUME NEW c \in Conns, Replay(c)
      PROVE  todo' \in [Conns -> SUBSET (1..Len(stream))]
  BY <1>3 DEF Replay
<1>4. CASE Crash
  BY <1>4 DEF Crash
<1>5. CASE ~Crash /\ ~\E c \in Conns : CatchUp(c) \/ Replay(c)
  <2>1. todo' = todo
    BY <1>5 DEF Next, Connect, Receive, HandlerStep, StartLoops, NotifyQuota,
         ReadError, Leave, Close, WriterStep, Write, WriteError, WriteClose, Evict, Disconnect,
         SchemaChange, SendStep, SeqNext, StreamAppend, BroadcastSnapshot, BroadcastSend,
         BroadcastPanic, OutUnchanged
  <2>2. QED
    BY <2>1
<1>6. QED
  BY <1>2, <1>3, <1>4, <1>5

\* Every step keeps queues and histories typed and bounded, holds in them only what
\* was persisted, and no request for a connection that has not spoken.
LEMMA QueueStep ==
  ASSUME TypeOK, MessageInv, HubInv, DeliveredIsPersisted, SilentUntilRole, Next
  PROVE  QueueTypes' /\ DeliveredIsPersisted' /\ SilentUntilRole'
<1> USE RelayAssumption, TypeGroups
<1>g. InStream \subseteq InStream' /\ 1..Len(stream) \subseteq 1..Len(stream')
  BY StreamGrows
<1>1. ASSUME NEW c \in Conns
      PROVE  /\ Len(queue'[c]) <= SendBuffer
             /\ Seqs(queue'[c]) \subseteq InStream
             /\ Seqs(received'[c]) \subseteq InStream
             /\ role'[c] = "unspecified" =>
                  \A i \in 1..Len(queue'[c]) : queue'[c][i].kind # "request"
  <2> DEFINE q == queue[c]
  <2>1. /\ q \in Seq(Entry) /\ Len(q) <= SendBuffer /\ received[c] \in Seq(Entry)
        /\ Seqs(q) \subseteq InStream /\ Seqs(received[c]) \subseteq InStream
        /\ role[c] = "unspecified" => \A i \in 1..Len(q) : q[i].kind # "request"
        /\ SendBuffer \in Nat /\ Len(q) \in Nat
    BY DEF QueueTypes, DeliveredIsPersisted, SilentUntilRole
  <2>2. QueueMove(c) /\ (role'[c] = "unspecified" => (role[c] = "unspecified" \/ queue'[c] = <<>>))
    BY QueueMoves DEF QueuesMove
  <2>3. Seqs(received'[c]) \subseteq InStream
    <3>1. CASE received'[c] = received[c]
      BY <2>1, <3>1
    <3>2. CASE received'[c] # received[c]
      <4>1. q # <<>> /\ received'[c] = Append(received[c], Head(q))
        BY <3>2, Hears DEF Heard
      <4>2. Head(q) \in Entry /\ {Head(q).seq} \ {0} \subseteq InStream
        BY <2>1, <4>1, SeqsTail
      <4>3. QED
        BY <2>1, <4>1, <4>2, SeqsAppend
    <3>3. QED
      BY <3>1, <3>2
  <2>4. CASE queue'[c] = q
    BY <2>1, <2>2, <2>3, <2>4
  <2>5. CASE queue'[c] = <<>>
    BY <2>1, <2>3, <2>5, SeqsEmpty
  <2>6. CASE q # <<>> /\ queue'[c] = Tail(q)
    <3>1. /\ Len(Tail(q)) <= Len(q) /\ Len(Tail(q)) \in Nat /\ Seqs(Tail(q)) \subseteq Seqs(q)
          /\ \A i \in 1..Len(Tail(q)) : \E j \in 1..Len(q) : Tail(q)[i] = q[j]
      BY <2>1, <2>6, SeqsTail
    <3>2. Tail(q) = <<>> => 1..Len(Tail(q)) = {}
      BY SeqsEmpty
    <3>3. Len(queue'[c]) <= SendBuffer /\ Seqs(queue'[c]) \subseteq InStream
      BY <2>1, <2>6, <3>1
    <3>4. role'[c] = "unspecified" => \A i \in 1..Len(Tail(q)) : Tail(q)[i].kind # "request"
      BY <2>1, <2>2, <2>6, <3>1, <3>2
    <3>5. QED
      BY <2>3, <2>6, <3>3, <3>4
  <2>7. ASSUME NEW e \in Entry, queue'[c] = Append(q, e), Len(q) < SendBuffer, MayQueue(c, e)
        PROVE  /\ Len(queue'[c]) <= SendBuffer
               /\ Seqs(queue'[c]) \subseteq InStream
               /\ role'[c] = "unspecified" =>
                    \A i \in 1..Len(queue'[c]) : queue'[c][i].kind # "request"
    <3>1. /\ Len(Append(q, e)) = Len(q) + 1
          /\ Seqs(Append(q, e)) = Seqs(q) \cup ({e.seq} \ {0})
          /\ \A i \in 1..Len(Append(q, e)) :
               Append(q, e)[i] = e \/ (i \in 1..Len(q) /\ Append(q, e)[i] = q[i])
      BY <2>1, SeqsAppend
    <3>2. Append(q, e) # <<>>
      BY <2>1, <3>1, SeqsEmpty
    <3>3. QED
      BY <2>1, <2>2, <2>7, <3>1, <3>2 DEF MayQueue
  <2>8. QED
    BY <2>2, <2>3, <2>4, <2>5, <2>6, <2>7 DEF QueueMove
<1>2. queue' \in [Conns -> Seq(Entry)] /\ received' \in [Conns -> Seq(Entry)]
  BY QueueMoves, Hears DEF QueuesMove, Heard
<1>3. todo' \in [Conns -> SUBSET (1..Len(stream'))]
  <2>1. todo' \in [Conns -> SUBSET (1..Len(stream))]
    BY TodoMoves
  <2>2. QED
    BY <1>g, <2>1
<1>4. QED
  BY <1>1, <1>2, <1>3, <1>g DEF QueueTypes, DeliveredIsPersisted, SilentUntilRole

-----------------------------------------------------------------------------
(* Nothing is lost between the replay and the live messages *)

\* Entry i of the stream has reached c, is queued for it, is still to be replayed or
\* is in the hands of a sender.
Held(c, i) ==
  i \in todo[c] \/ stream[i] \in Reached(c)

\* The write loop starts after the replay and runs once.
LEMMA WriterStarts ==
  ASSUME TypeOK, WriterInv, Next
  PROVE  WriterInv'
<1> USE TypeGroups DEF HubTypes, WriterInv
<1>1. ASSUME NEW c \in Conns, Connect(c) \/ CatchUp(c) \/ Replay(c)
      PROVE  WriterInv'
  BY <1>1 DEF Connect, CatchUp, Replay
<1>2. ASSUME NEW c \in Conns,
             StartLoops(c) \/ ReadError(c) \/ Leave(c) \/ Close(c) \/ WriterStep(c)
      PROVE  WriterInv'
  BY <1>2 DEF StartLoops, ReadError, Leave, Close, WriterStep, Write, WriteError, WriteClose
<1>3. ASSUME NEW s \in Senders, BroadcastPanic(s)
      PROVE  WriterInv'
  BY <1>3 DEF BroadcastPanic, OutUnchanged
<1>4. CASE Crash
  BY <1>4 DEF Crash
<1>5. CASE \/ \E c \in Conns : Receive(c) \/ NotifyQuota(c) \/ Evict(c) \/ Disconnect(c)
           \/ \E s \in Senders : SeqNext(s) \/ StreamAppend(s) \/ BroadcastSnapshot(s) \/ BroadcastSend(s)
           \/ \E s \in SchemaCalls : SchemaChange(s)
  BY <1>5 DEF Receive, NotifyQuota, Evict, Disconnect, SeqNext, StreamAppend, BroadcastSnapshot,
              BroadcastSend, SchemaChange, OutUnchanged
<1>6. QED
  BY <1>1, <1>2, <1>3, <1>4, <1>5 DEF Next, HandlerStep, SendStep

\* Only the WriteLoop, the end of the handler and a crash take anything out of a queue.
LEMMA QueueGrows ==
  ASSUME TypeOK, MessageInv, Next, NEW c \in Conns,
         ~Write(c), ~WriteError(c), ~Close(c), ~Crash
  PROVE  Seqs(queue[c]) \subseteq Seqs(queue'[c])
<1> USE RelayAssumption, TypeGroups DEF QueueTypes
<1>1. ASSUME NEW t \in Conns, NEW k \in {"message", "notice", "request"}, NEW n \in 0..MaxSeq,
             Enqueue(t, k, n)
      PROVE  Seqs(queue[c]) \subseteq Seqs(queue'[c])
  <2>1. queue'[c] = queue[c] \/ queue'[c] = Append(queue[c], [kind |-> k, seq |-> n])
    BY <1>1 DEF Enqueue
  <2>2. [kind |-> k, seq |-> n] \in Entry /\ queue[c] \in Seq(Entry)
    BY DEF Entry
  <2>3. Seqs(queue[c]) \subseteq Seqs(Append(queue[c], [kind |-> k, seq |-> n]))
    BY <2>2, SeqsAppend
  <2>4. CASE queue'[c] = queue[c]
    BY <2>4
  <2>5. CASE queue'[c] = Append(queue[c], [kind |-> k, seq |-> n])
    BY <2>3, <2>5
  <2>6. QED
    BY <2>1, <2>4, <2>5
<1>2. CASE queue'[c] = queue[c]
  BY <1>2
<1>3. ASSUME NEW t \in Conns, Replay(t)
      PROVE  Seqs(queue[c]) \subseteq Seqs(queue'[c])
  <2>1. PICK i \in todo[t] : SendBlocking(t, "message", stream[i])
    BY <1>3 DEF Replay
  <2>2. i \in 1..Len(stream) /\ stream[i] \in 0..MaxSeq
    BY DEF MessageTypes
  <2>3. QED
    BY <1>1, <1>2, <2>1, <2>2 DEF SendBlocking
<1>4. ASSUME NEW t \in Conns, NotifyQuota(t)
      PROVE  Seqs(queue[c]) \subseteq Seqs(queue'[c])
  <2>1. SendBlocking(t, "notice", 0) /\ 0 \in 0..MaxSeq
    BY <1>4 DEF NotifyQuota
  <2>2. QED
    BY <1>1, <1>2, <2>1 DEF SendBlocking
<1>5. ASSUME NEW s \in Senders, BroadcastSend(s)
      PROVE  Seqs(queue[c]) \subseteq Seqs(queue'[c])
  <2>1. PICK t \in out[s].targets : queue' = queue \/ Enqueue(t, Kind(s), out[s].seq)
    BY <1>5 DEF BroadcastSend
  <2>2. t \in Conns /\ out[s].seq \in 0..MaxSeq
    BY DEF MessageTypes, Out
  <2>4. Kind(s) \in {"message", "notice", "request"}
    BY DEF Kind
  <2>3. QED
    BY <1>1, <1>2, <2>1, <2>2, <2>4
<1>6. ASSUME NEW t \in Conns, Write(t) \/ WriteError(t) \/ Close(t)
      PROVE  queue'[c] = queue[c]
  BY <1>6 DEF Write, WriteError, Close
<1>7. CASE \/ \E t \in Conns : Connect(t) \/ CatchUp(t) \/ StartLoops(t) \/ ReadError(t)
                               \/ Leave(t) \/ WriteClose(t) \/ Evict(t) \/ Disconnect(t) \/ Receive(t)
           \/ \E s \in Senders : SeqNext(s) \/ StreamAppend(s) \/ BroadcastSnapshot(s) \/ BroadcastPanic(s)
           \/ \E s \in SchemaCalls : SchemaChange(s)
  <2>1. queue' = queue
    BY <1>7 DEF Connect, CatchUp, StartLoops, ReadError, Leave, WriteClose, Evict, Disconnect, Receive,
         SeqNext, StreamAppend, BroadcastSnapshot, BroadcastPanic, SchemaChange, OutUnchanged
  <2>2. QED
    BY <2>1
<1>8. QED
  BY <1>2, <1>3, <1>4, <1>5, <1>6, <1>7 DEF Next, HandlerStep, WriterStep, SendStep

\* A queued message stays queued, or is written.
LEMMA QueuedStays ==
  ASSUME TypeOK, MessageInv, HubInv, Next, NEW c \in Conns, NEW n \in Seqs(queue[c]),
         writer'[c] # "exited", c \in members'
  PROVE  n \in Seqs(received'[c]) \cup Seqs(queue'[c])
<1> USE TypeGroups DEF QueueTypes, HubTypes
<1>1. ~WriteError(c) /\ ~Close(c) /\ ~Crash
  BY DEF WriteError, Close, Crash
<1>2. CASE Write(c)
  <2>1. /\ queue[c] # <<>> /\ queue'[c] = Tail(queue[c]) /\ queue[c] \in Seq(Entry)
        /\ received'[c] = IF Head(queue[c]).seq > 0 THEN Append(received[c], Head(queue[c]))
                                                    ELSE received[c]
    BY <1>2 DEF Write
  <2>2. /\ Head(queue[c]) \in Entry
        /\ Seqs(queue[c]) = Seqs(queue'[c]) \cup ({Head(queue[c]).seq} \ {0})
    BY <2>1, SeqsTail
  <2>3. Head(queue[c]).seq \in 0..MaxSeq
    BY <2>2 DEF Entry
  <2>4. CASE Head(queue[c]).seq = 0
    BY <2>2, <2>4
  <2>5. CASE Head(queue[c]).seq > 0
    <3>1. Seqs(received'[c]) = Seqs(received[c]) \cup ({Head(queue[c]).seq} \ {0})
      BY <2>1, <2>2, <2>5, SeqsAppend
    <3>2. QED
      BY <2>2, <3>1
  <2>6. QED
    BY <2>3, <2>4, <2>5, RelayAssumption
<1>3. CASE ~Write(c)
  BY <1>1, <1>3, QueueGrows
<1>4. QED
  BY <1>2, <1>3

\* A numbered message on its way to a member stays on its way, or is queued for it.
LEMMA InFlightStays ==
  ASSUME TypeOK, MessageInv, HubInv, Next, NEW c \in members, NEW n \in InFlightTo(c), n > 0,
         c \in members', c \notin evicting'
  PROVE  n \in InFlightTo(c)' \cup Seqs(queue'[c])
<1> USE RelayAssumption, TypeGroups DEF MessageTypes
<1>c. c \in Conns /\ queue[c] \in Seq(Entry)
  BY DEF HubTypes, QueueTypes
<1>1. PICK s \in Senders : n = out[s].seq /\ (out[s].pc = "snapshot" \/ c \in out[s].targets)
  BY DEF InFlightTo
<1>2. /\ out[s].pc \in {"snapshot", "fanout", "panicked"} /\ out[s].pc \in OutPCs
      /\ n \in 1..MaxSeq /\ out[s] \in Out
  <2>1. RowOK(out[s]) /\ out[s] \in Out
    BY DEF MessageInv
  <2>2. QED
    BY <1>1, <2>1 DEF RowOK, Out, OutPCs
<1>3. CASE out'[s] = out[s]
  BY <1>1, <1>3 DEF InFlightTo
<1>4. CASE BroadcastSnapshot(s)
  <2>1. Targets(s) = members /\ Fan(s, members)
    BY <1>1, <1>2, <1>4 DEF BroadcastSnapshot, Targets
  <2>2. out'[s].seq = n /\ out'[s].targets = members
    BY <1>1, <2>1 DEF Fan
  <2>3. QED
    BY <2>2 DEF InFlightTo
<1>5. CASE BroadcastSend(s)
  <2>1. PICK t \in out[s].targets :
          /\ \/ Enqueue(t, Kind(s), out[s].seq)
             \/ evicting' = evicting \cup {t}
          /\ Fan(s, out[s].targets \ {t})
    BY <1>5 DEF BroadcastSend
  <2>2. c \in out[s].targets
    BY <1>1, <1>5 DEF BroadcastSend
  <2>3. CASE t = c
    <3>1. queue'[c] = Append(queue[c], [kind |-> "message", seq |-> n])
      <4>1. Kind(s) = "message"
        BY <1>1, <1>2 DEF Kind
      <4>2. QED
        BY <1>1, <1>c, <2>1, <2>3, <4>1 DEF Enqueue, QueueTypes
    <3>2. [kind |-> "message", seq |-> n] \in Entry /\ n # 0
      BY <1>2 DEF Entry
    <3>3. QED
      BY <1>c, <3>1, <3>2, SeqsAppend
  <2>4. CASE t # c
    <3>1. out'[s].seq = n /\ c \in out'[s].targets
      BY <1>1, <2>1, <2>2, <2>4 DEF Fan
    <3>2. QED
      BY <3>1 DEF InFlightTo
  <2>5. QED
    BY <2>3, <2>4
<1>6. CASE BroadcastPanic(s)
  <2>1. out' = [out EXCEPT ![s].pc = "panicked"] /\ out[s].pc = "fanout"
    BY <1>6 DEF BroadcastPanic
  <2>2. out'[s].seq = n /\ out'[s].targets = out[s].targets
    BY <1>1, <1>2, <2>1 DEF Out
  <2>3. QED
    BY <1>1, <2>1, <2>2 DEF InFlightTo
<1>7. CASE ~BroadcastSnapshot(s) /\ ~BroadcastSend(s) /\ ~BroadcastPanic(s)
  <2>1. ~Crash
    BY DEF Crash
  <2>2. CASE \E x \in Senders : SendStep(x)
    <3>1. PICK x \in Senders : SendStep(x)
      BY <2>2
    <3>2. x # s
      BY <1>2, <1>7, <3>1 DEF SendStep, SeqNext, StreamAppend
    <3>3. out'[s] = out[s]
      BY <3>1, <3>2 DEF SendStep, SeqNext, StreamAppend, BroadcastSnapshot, BroadcastSend,
                        BroadcastPanic, Fan
    <3>4. QED
      BY <1>3, <3>3
  <2>3. CASE \/ \E x \in Conns : Receive(x) \/ NotifyQuota(x)
             \/ \E x \in SchemaCalls : SchemaChange(x)
    <3>1. PICK x \in Senders : Receive(x) \/ NotifyQuota(x) \/ SchemaChange(x)
      BY <2>3 DEF Senders
    <3>2. x # s
      BY <1>2, <3>1 DEF Receive, NotifyQuota, SchemaChange, Idle
    <3>3. out'[s] = out[s]
      BY <3>1, <3>2 DEF Receive, NotifyQuota, SchemaChange
    <3>4. QED
      BY <1>3, <3>3
  <2>4. CASE \E x \in Conns : \/ Connect(x) \/ Evict(x) \/ Disconnect(x) \/ WriterStep(x)
                              \/ CatchUp(x) \/ Replay(x) \/ StartLoops(x) \/ ReadError(x)
                              \/ Leave(x) \/ Close(x)
    <3>1. out' = out
      BY <2>4 DEF Connect, Evict, Disconnect, WriterStep, Write, WriteError, WriteClose,
                  CatchUp, Replay, StartLoops, ReadError, Leave, Close
    <3>2. QED
      BY <1>3, <3>1
  <2>5. QED
    BY <2>1, <2>2, <2>3, <2>4 DEF Next, HandlerStep
<1>8. QED
  BY <1>4, <1>5, <1>6, <1>7

\* An entry still to be replayed stays so until it is put into the queue.
LEMMA ToReplayStays ==
  ASSUME TypeOK, Inv, Next, NEW c \in Conns, NEW i \in todo[c], stream[i] > lastSeq[c], i > trimmed,
         c \in members'
  PROVE  i \in todo'[c] \/ stream[i] \in Seqs(queue'[c])
<1> USE RelayAssumption, TypeGroups DEF QueueTypes
<1>1. CASE todo'[c] = todo[c]
  BY <1>1
<1>2. ASSUME NEW t \in Conns, CatchUp(t) \/ Replay(t), t # c
      PROVE  todo'[c] = todo[c]
  BY <1>2 DEF CatchUp, Replay
<1>3. CASE CatchUp(c)
  <2>1. i \in 1..Len(stream) /\ trimmed \in Nat
    BY DEF MessageTypes
  <2>2. i \in StreamRange(lastSeq[c])
    BY <2>1 DEF StreamRange
  <2>3. todo' = todo \/ todo' = [todo EXCEPT ![c] = StreamRange(lastSeq[c])]
    BY <1>3 DEF CatchUp
  <2>4. QED
    BY <2>2, <2>3
<1>4. CASE Replay(c)
  <2>1. PICK j \in todo[c] : SendBlocking(c, "message", stream[j]) /\ todo' = [todo EXCEPT ![c] = @ \ {j}]
    BY <1>4 DEF Replay
  <2>2. members' = members
    BY <1>4 DEF Replay
  <2>3. c \notin closed
    BY <2>2 DEF Inv, HubInv, HubCore, MembersOpen
  <2>4. CASE j # i
    BY <2>1, <2>4
  <2>5. CASE j = i
    <3>1. i \in 1..Len(stream) /\ stream[i] \in 1..MaxSeq
      BY DEF MessageTypes
    <3>2. queue'[c] = Append(queue[c], [kind |-> "message", seq |-> stream[i]])
      BY <2>1, <2>3, <2>5 DEF SendBlocking, Closed, Enqueue
    <3>3. [kind |-> "message", seq |-> stream[i]] \in Entry /\ stream[i] # 0
      BY <3>1 DEF Entry
    <3>4. QED
      BY <3>2, <3>3, SeqsAppend
  <2>6. QED
    BY <2>4, <2>5
<1>5. CASE ~\E t \in Conns : CatchUp(t) \/ Replay(t)
  <2>1. ~Crash
    BY DEF Crash
  <2>2. todo' = todo
    BY <1>5, <2>1 DEF Next, Connect, Receive, HandlerStep, StartLoops, NotifyQuota,
         ReadError, Leave, Close, WriterStep, Write, WriteError, WriteClose, Evict, Disconnect,
         SchemaChange, SendStep, SeqNext, StreamAppend, BroadcastSnapshot, BroadcastSend,
         BroadcastPanic, OutUnchanged
  <2>3. QED
    BY <2>2
<1>6. QED
  BY <1>1, <1>2, <1>3, <1>4, <1>5

\* What has reached a member, is queued for it or on its way remains one of these.
LEMMA ReachedStays ==
  ASSUME TypeOK, Inv, Next, NEW c \in members, NEW n \in Reached(c), n > 0,
         c \in members' \ evicting', writer'[c] # "exited"
  PROVE  n \in Reached(c)'
<1> USE TypeGroups DEF Inv
<1>1. c \in Conns
  BY DEF HubTypes
<1>2. CASE n \in Seqs(queue[c])
  BY <1>1, <1>2, QueuedStays DEF Reached
<1>3. CASE n \in InFlightTo(c)
  BY <1>1, <1>3, InFlightStays DEF Reached
<1>4. CASE n \in Seqs(received[c])
  <2>1. received[c] \in Seq(Entry) /\ queue[c] \in Seq(Entry)
    BY <1>1 DEF QueueTypes
  <2>2. received'[c] = received[c] \/ (queue[c] # <<>> /\ received'[c] = Append(received[c], Head(queue[c])))
    BY <1>1, Hears DEF Heard
  <2>3. CASE received'[c] = received[c]
    BY <1>1, <1>4, <2>3 DEF Reached
  <2>4. CASE queue[c] # <<>> /\ received'[c] = Append(received[c], Head(queue[c]))
    <3>1. Head(queue[c]) \in Entry
      BY <2>1, <2>4, SeqsTail
    <3>2. Seqs(received[c]) \subseteq Seqs(Append(received[c], Head(queue[c])))
      BY <2>1, <3>1, SeqsAppend
    <3>3. n \in Seqs(received'[c])
      BY <1>4, <2>4, <3>2
    <3>4. QED
      BY <3>3 DEF Reached
  <2>5. QED
    BY <2>2, <2>3, <2>4
<1>5. QED
  BY <1>2, <1>3, <1>4 DEF Reached

\* What reaches a member are sequence numbers, and zero for a request.
LEMMA NumbersReached ==
  ASSUME TypeOK, NEW c \in Conns, NEW n \in Reached(c)
  PROVE  n \in 0..MaxSeq
<1> USE RelayAssumption, TypeGroups DEF QueueTypes
<1>1. queue[c] \in Seq(Entry) /\ received[c] \in Seq(Entry)
  OBVIOUS
<1>2. CASE n \in Seqs(received[c]) \cup Seqs(queue[c])
  <2>1. ASSUME NEW q \in Seq(Entry), n \in Seqs(q)
        PROVE  n \in 0..MaxSeq
    <3>1. PICK i \in 1..Len(q) : n = q[i].seq
      BY <2>1 DEF Seqs
    <3>2. q[i] \in Entry
      BY <2>1
    <3>3. QED
      BY <3>1, <3>2 DEF Entry
  <2>2. QED
    BY <1>1, <1>2, <2>1
<1>3. CASE n \in InFlightTo(c)
  <2>1. PICK s \in Senders : n = out[s].seq
    BY <1>3 DEF InFlightTo
  <2>2. QED
    BY <2>1 DEF MessageTypes, Out
<1>4. QED
  BY <1>2, <1>3 DEF Reached

\* So does what is still to be replayed to it.
LEMMA HeldStays ==
  ASSUME TypeOK, Inv, Next, NEW c \in members, NEW i \in 1..Len(stream), Held(c, i),
         stream[i] > lastSeq[c], i > trimmed,
         c \in members' \ evicting', writer'[c] # "exited"
  PROVE  Held(c, i)'
<1> USE TypeGroups DEF Inv
<1>1. c \in Conns /\ stream'[i] = stream[i] /\ stream[i] > 0
  BY StreamGrows, RelayAssumption DEF HubTypes, MessageTypes
<1>2. CASE i \in todo[c]
  <2>1. i \in todo'[c] \/ stream[i] \in Seqs(queue'[c])
    BY <1>1, <1>2, ToReplayStays
  <2>2. QED
    BY <1>1, <2>1 DEF Held, Reached
<1>3. CASE stream[i] \in Reached(c)
  <2>1. stream[i] \in Reached(c)'
    BY <1>1, <1>3, ReachedStays
  <2>2. QED
    BY <1>1, <2>1 DEF Held
<1>4. QED
  BY <1>2, <1>3 DEF Held

\* A new entry is on its way to everybody in the hub, unless its XADD reported an error.
LEMMA NewEntryInFlight ==
  ASSUME TypeOK, Inv, Next, NEW c \in Conns,
         NEW i \in 1..Len(stream'), i \notin 1..Len(stream), stream'[i] \notin unheard'
  PROVE  stream'[i] \in InFlightTo(c)' /\ stream'[i] > 0
<1> USE RelayAssumption, TypeGroups
<1>1. PICK s \in Senders : StreamAppend(s)
  <2>1. stream' # stream
    OBVIOUS
  <2>2. QED
    BY <2>1 DEF Next, Connect, Receive, HandlerStep, CatchUp, Replay, StartLoops, NotifyQuota,
       ReadError, Leave, Close, WriterStep, Write, WriteError, WriteClose, Evict, Disconnect,
       SchemaChange, SendStep, SeqNext, BroadcastSnapshot, BroadcastSend,
       BroadcastPanic, OutUnchanged, redisVars, Crash
<1>2. out[s] \in Out /\ out[s].pc = "append" /\ out[s].seq \in 1..MaxSeq
  <2>1. out[s] \in Out /\ RowOK(out[s]) /\ out[s].pc = "append"
    BY <1>1 DEF StreamAppend, MessageTypes, Inv, MessageInv
  <2>2. QED
    BY <2>1 DEF RowOK, Out
<1>3. stream' = Append(stream, out[s].seq)
  BY <1>1 DEF StreamAppend
<1>4. stream'[i] = out[s].seq
  BY <1>2, <1>3, StreamAppended DEF MessageTypes
<1>5. out' = [out EXCEPT ![s].pc = "snapshot"]
  BY <1>1, <1>4 DEF StreamAppend
<1>6. out'[s].pc = "snapshot" /\ out'[s].seq = stream'[i]
  BY <1>2, <1>4, <1>5 DEF MessageTypes, Out
<1>7. QED
  BY <1>2, <1>4, <1>6 DEF InFlightTo

\* Register before Range leaves no gap: a connection catches up as a member, and from
\* then on every stored message is handed to it.
LEMMA GapStep ==
  ASSUME TypeOK, Inv, Next
  PROVE  NoSilentGap'
<1> USE RelayAssumption, TypeGroups
<1> SUFFICES ASSUME NEW c \in caughtUp', c \in members' \ evicting', writer'[c] # "exited",
                    NEW i \in (trimmed' + 1)..Len(stream'),
                    stream'[i] > lastSeq'[c], stream'[i] \notin unheard'
             PROVE  Held(c, i)'
  BY DEF NoSilentGap, Held
<1>g. /\ \A j \in 1..Len(stream) : stream'[j] = stream[j]
      /\ trimmed' >= trimmed /\ trimmed \in Nat /\ trimmed' \in Nat
  BY StreamGrows DEF Inv
<1>0. ~Crash
  BY DEF Crash
<1>1. CASE \E t \in Conns : CatchUp(t) /\ c = t /\ caughtUp' # caughtUp
  <2>1. /\ todo' = [todo EXCEPT ![c] = StreamRange(lastSeq[c])]
        /\ UNCHANGED <<stream, trimmed, lastSeq>> /\ c \in Conns
    BY <1>1 DEF CatchUp, redisVars
  <2>2. todo'[c] = StreamRange(lastSeq[c])
    BY <2>1 DEF QueueTypes
  <2>3. QED
    BY <2>1, <2>2 DEF Held, StreamRange
<1>2. CASE ~\E t \in Conns : CatchUp(t) /\ c = t /\ caughtUp' # caughtUp
  <2>1. c \in caughtUp
    <3>1. CASE caughtUp' = caughtUp
      BY <3>1
    <3>2. CASE caughtUp' # caughtUp
      <4>1. PICK t \in Conns : CatchUp(t)
        BY <1>0, <3>2 DEF Next, Connect, Receive, HandlerStep, Replay, StartLoops, NotifyQuota,
         ReadError, Leave, Close, WriterStep, Write, WriteError, WriteClose, Evict, Disconnect,
         SchemaChange, SendStep, SeqNext, StreamAppend, BroadcastSnapshot, BroadcastSend,
         BroadcastPanic, OutUnchanged
      <4>2. caughtUp' \subseteq caughtUp \cup {t}
        BY <4>1 DEF CatchUp
      <4>3. QED
        BY <1>2, <3>2, <4>1, <4>2
    <3>3. QED
      BY <3>1, <3>2
  <2>2. c \in Conns /\ pc[c] # "new"
    BY <2>1 DEF HubTypes, Inv, HubInv, HubCore, ConnsInv
  <2>3. /\ lastSeq'[c] = lastSeq[c] /\ c \in members
        /\ ~Evict(c)
    <3>1. ~Connect(c) /\ ~Evict(c)
      BY <2>2 DEF Connect, Evict, Unregister
    <3>2. CASE \E t \in Conns : Connect(t)
      BY <2>2, <3>1, <3>2 DEF Connect, HubTypes
    <3>3. CASE ~\E t \in Conns : Connect(t)
      <4>1. lastSeq' = lastSeq /\ members' \subseteq members
        BY <1>0, <3>3 DEF Next, Receive, HandlerStep, CatchUp, Replay, StartLoops, NotifyQuota,
         ReadError, Leave, Close, WriterStep, Write, WriteError, WriteClose, Evict, Disconnect,
         SchemaChange, SendStep, SeqNext, StreamAppend, BroadcastSnapshot, BroadcastSend,
         BroadcastPanic, OutUnchanged, Unregister
      <4>2. QED
        BY <3>1, <4>1
    <3>4. QED
      BY <3>2, <3>3
  <2>4. c \notin evicting
    <3>1. CASE \E t \in Conns : Evict(t)
      <4>1. PICK t \in Conns : Evict(t)
        BY <3>1
      <4>2. t # c /\ evicting' = evicting \ {t}
        BY <2>3, <4>1 DEF Evict
      <4>3. QED
        BY <4>2
    <3>2. CASE \E s \in Senders : BroadcastSend(s)
      <4>1. evicting \subseteq evicting'
        BY <3>2 DEF BroadcastSend
      <4>2. QED
        BY <4>1
    <3>3. CASE (~\E t \in Conns : Evict(t)) /\ (~\E s \in Senders : BroadcastSend(s))
      <4>1. evicting' = evicting
        BY <1>0, <3>3 DEF Next, Connect, Receive, HandlerStep, CatchUp, Replay, StartLoops,
           NotifyQuota, ReadError, Leave, Close, WriterStep, Write, WriteError, WriteClose,
           Disconnect, SchemaChange, SendStep, SeqNext, StreamAppend, BroadcastSnapshot,
           BroadcastPanic, OutUnchanged
      <4>2. QED
        BY <4>1
    <3>4. QED
      BY <3>1, <3>2, <3>3
  <2>5. writer[c] # "exited"
    <3>1. CASE StartLoops(c)
      <4>1. writer[c] = "off"
        BY <2>2, <3>1 DEF StartLoops, Inv, WriterInv
      <4>2. QED
        BY <4>1
    <3>2. CASE ~StartLoops(c)
      BY <1>0, <2>2, <3>2 DEF HubTypes, Next, Connect, Receive, HandlerStep, CatchUp, Replay,
         StartLoops, NotifyQuota,
         ReadError, Leave, Close, WriterStep, Write, WriteError, WriteClose, Evict, Disconnect,
         SchemaChange, SendStep, SeqNext, StreamAppend, BroadcastSnapshot, BroadcastSend,
         BroadcastPanic, OutUnchanged
    <3>3. QED
      BY <3>1, <3>2
  <2>6. CASE i \in 1..Len(stream)
    <3>1. stream[i] > lastSeq[c] /\ i > trimmed /\ i \in (trimmed + 1)..Len(stream)
      BY <1>g, <2>3, <2>6
    <3>2. stream[i] \notin unheard
      <4>1. unheard \subseteq unheard'
        BY <1>0 DEF Next, Connect, Receive, HandlerStep, CatchUp, Replay, StartLoops, NotifyQuota,
         ReadError, Leave, Close, WriterStep, Write, WriteError, WriteClose, Evict, Disconnect,
         SchemaChange, SendStep, SeqNext, StreamAppend, BroadcastSnapshot, BroadcastSend,
         BroadcastPanic, OutUnchanged, redisVars
      <4>2. QED
        BY <1>g, <2>6, <4>1
    <3>3. Held(c, i)
      BY <2>1, <2>3, <2>4, <2>5, <3>1, <3>2 DEF Inv, NoSilentGap, Held
    <3>4. QED
      BY <2>3, <2>6, <3>1, <3>3, HeldStays
  <2>7. CASE i \notin 1..Len(stream)
    <3>1. i \in 1..Len(stream')
      BY <1>g
    <3>2. QED
      BY <2>2, <2>7, <3>1, NewEntryInFlight DEF Held, Reached
  <2>8. QED
    BY <2>6, <2>7
<1>3. QED
  BY <1>1, <1>2

-----------------------------------------------------------------------------
(* The theorems *)

\* At start-up Redis is empty and nobody is connected.
LEMMA RelayStart == Init => TypeOK /\ Inv
<1> SUFFICES ASSUME Init
             PROVE  TypeOK /\ Inv
  OBVIOUS
<1> USE RelayAssumption, TypeGroups DEF Init
<1>1. /\ Idle \in Out /\ RowOK(Idle) /\ Idle.pc = "idle" /\ Idle.seq = 0 /\ Idle.targets = {}
      /\ <<>> \in Seq(1..MaxSeq) /\ <<>> \in Seq(Entry) /\ Len(<<>>) = 0
      /\ 1..Len(<<>>) = {}
  BY StartRows, SeqsEmpty
<1>2. InStream = {} /\ Drawing = {}
  BY <1>1 DEF InStream, Drawing
<1>3. TypeOK
  BY <1>1 DEF TypeOK, Roles
<1>4. MessageInv
  BY <1>1, <1>2, FS_EmptySet, ~(0 > 0) DEF MessageInv, SeqUnique
<1>5. HubInv /\ WriterInv
  <2>1. MembersOpen /\ ConnsInv /\ WriterInv
    BY DEF MembersOpen, ConnsInv, WriterInv
  <2>2. \A s \in Senders : out[s] = Idle
    OBVIOUS
  <2>3. TargetsInv
    BY <1>1, <2>2 DEF TargetsInv
  <2>4. BusyInv
    BY <1>1, <2>2 DEF BusyInv, Senders
  <2>5. QED
    BY <2>1, <2>3, <2>4 DEF HubInv, HubCore
<1>6. DeliveredIsPersisted /\ SilentUntilRole /\ NoSilentGap
  BY <1>1, SeqsEmpty DEF DeliveredIsPersisted, SilentUntilRole, NoSilentGap
<1>7. QED
  BY <1>3, <1>4, <1>5, <1>6 DEF Inv

\* The inductive invariant of the relay holds in every state.
THEOREM RelayCorrect == Spec => [](TypeOK /\ Inv)
<1>1. TypeOK /\ Inv /\ [Next]_vars => TypeOK' /\ Inv'
  <2> SUFFICES ASSUME TypeOK, Inv, [Next]_vars
               PROVE  TypeOK' /\ Inv'
    OBVIOUS
  <2> USE TypeGroups DEF Inv
  <2>1. CASE Next
    <3>1. MessageTypes' /\ MessageInv'
      BY <2>1, MessageStep DEF HubTypes
    <3>2. HubTypes' /\ HubInv'
      BY <2>1, HubStep, BusyStep DEF HubInv
    <3>3. QueueTypes' /\ DeliveredIsPersisted' /\ SilentUntilRole'
      BY <2>1, QueueStep
    <3>4. WriterInv' /\ NoSilentGap'
      BY <2>1, WriterStarts, GapStep
    <3>5. QED
      BY <3>1, <3>2, <3>3, <3>4 DEF TypeOK, MessageTypes, HubTypes, QueueTypes
  <2>2. CASE UNCHANGED vars
    <3>1. InStream' = InStream /\ Drawing' = Drawing /\ \A c \in Conns : InFlightTo(c)' = InFlightTo(c)
      BY <2>2 DEF vars, InStream, Drawing, InFlightTo
    <3>2. TypeOK'
      BY <2>2 DEF vars, TypeOK
    <3>3. MessageInv'
      BY <2>2, <3>1 DEF vars, MessageInv, RowOK, SeqUnique
    <3>4. HubInv' /\ WriterInv'
      BY <2>2 DEF vars, HubInv, HubCore, MembersOpen, ConnsInv, TargetsInv, BusyInv, WriterInv
    <3>5. DeliveredIsPersisted' /\ SilentUntilRole' /\ NoSilentGap'
      BY <2>2, <3>1 DEF vars, DeliveredIsPersisted, SilentUntilRole, NoSilentGap, Reached, TypeOK
    <3>6. QED
      BY <3>2, <3>3, <3>4, <3>5
  <2>3. QED
    BY <2>1, <2>2
<1>2. QED
  BY <1>1, RelayStart, PTL DEF Spec

\* The relay's state keeps its types; no send channel ever holds more than its
\* capacity, and the numbers stay below the bound (hub.go, sequencer.go).
THEOREM RelayTypes == Spec => []TypeOK
  BY RelayCorrect, PTL

\* A registered connection's channel is open (hub.Unregister).
THEOREM MembersAreOpen == Spec => []MembersOpen
<1>1. TypeOK /\ Inv => MembersOpen
  BY DEF Inv, HubInv, HubCore
<1>2. QED
  BY <1>1, RelayCorrect, PTL

\* No number is given twice, whatever INCR and XADD report and however senders
\* interleave (sequencer.Next, stream.Append).
THEOREM NumbersAreUnique == Spec => []SeqUnique
<1>1. TypeOK /\ Inv => SeqUnique
  BY DEF Inv, MessageInv
<1>2. QED
  BY <1>1, RelayCorrect, PTL

\* Nobody hears a message that a reconnect could not replay (ws.go makeRead).
THEOREM DeliveredWasPersisted == Spec => []DeliveredIsPersisted
<1>1. TypeOK /\ Inv => DeliveredIsPersisted
  BY DEF Inv
<1>2. QED
  BY <1>1, RelayCorrect, PTL

\* A connection whose catch-up succeeded has no hole between what was replayed and what
\* is live (ws.go: Register, then Range), whatever is broadcast, trimmed or lost.
THEOREM NoGap == Spec => []NoSilentGap
<1>1. TypeOK /\ Inv => NoSilentGap
  BY DEF Inv
<1>2. QED
  BY <1>1, RelayCorrect, PTL

\* Every member of the hub, whatever became of its catch-up, has each new entry on its
\* way at once and keeps what is on its way (ws.go makeRead, hub.Broadcast).
THEOREM LiveReaches == Spec => LiveReachesMembers
<1> DEFINE Kept == \A c \in members \cap members' :
                     c \notin evicting' /\ writer'[c] # "exited" =>
                       (Reached(c) \cup (InStream' \ InStream)) \ {0} \subseteq unheard' \cup Reached(c)'
<1>1. TypeOK /\ Inv /\ [Next]_vars => [Kept]_vars
  <2> SUFFICES ASSUME TypeOK, Inv, Next, NEW c \in members \cap members',
                      c \notin evicting', writer'[c] # "exited",
                      NEW n \in (Reached(c) \cup (InStream' \ InStream)) \ {0}
               PROVE  n \in unheard' \cup Reached(c)'
    OBVIOUS
  <2>1. c \in Conns
    BY TypeGroups DEF HubTypes
  <2>2. CASE n \in Reached(c)
    <3>1. n \in 0..MaxSeq
      BY <2>1, <2>2, NumbersReached
    <3>2. n > 0
      BY <3>1, RelayAssumption
    <3>3. QED
      BY <2>2, <3>2, ReachedStays
  <2>3. CASE n \in InStream' /\ n \notin InStream
    <3>1. PICK i \in 1..Len(stream') : n = stream'[i]
      BY <2>3 DEF InStream
    <3>2. i \notin 1..Len(stream)
      BY <2>3, <3>1, StreamGrows DEF InStream, Inv
    <3>3. QED
      BY <2>1, <3>1, <3>2, NewEntryInFlight DEF Reached
  <2>4. QED
    BY <2>2, <2>3
<1>2. QED
  BY <1>1, RelayCorrect, PTL DEF Spec, LiveReachesMembers

\* No connector's request is queued for a socket that has not said what it is
\* (hub.Broadcast).
THEOREM SilentSockets == Spec => []SilentUntilRole
<1>1. TypeOK /\ Inv => SilentUntilRole
  BY DEF Inv
<1>2. QED
  BY <1>1, RelayCorrect, PTL

=============================================================================
