---------------------------- MODULE AITurnProofs ----------------------------
(***************************************************************************)
(* Proofs about AITurn: what a turn takes, what it is charged, how it ends,*)
(* how far a budget can be overspent and what chains are sent, for any     *)
(* number of clients, turns, boxes and messages.                           *)
(***************************************************************************)
EXTENDS AITurn, Counting

-----------------------------------------------------------------------------
(* Concatenation *)

\* The function by which FlattenSeq is computed.
IsFlatten(f, ss) ==
  f = [i \in 1..Len(ss) |-> IF i = 1 THEN ss[i] ELSE f[i-1] \o ss[i]]

\* It exists: one that is right up to a place gives one that is right up to the next.
LEMMA FlattenExists ==
  ASSUME NEW T, NEW ss \in Seq(T)
  PROVE  \E f : IsFlatten(f, ss)
<1> DEFINE Step(f) == [i \in 1..Len(ss) |-> IF i = 1 THEN ss[i] ELSE f[i-1] \o ss[i]]
           Right(f, n) == \A i \in 1..Len(ss) : i <= n => f[i] = Step(f)[i]
           Bad == {n \in Nat : ~\E f : f = [i \in 1..Len(ss) |-> f[i]] /\ Right(f, n)}
<1>1. Bad = {}
  <2>1. SUFFICES ASSUME Bad # {}
                 PROVE  FALSE
    OBVIOUS
  <2>2. PICK n \in Bad : \A k \in Bad : n <= k
    BY <2>1, LeastElement
  <2>3. n \in Nat /\ Len(ss) \in Nat
    OBVIOUS
  <2>4. n # 0
    <3> DEFINE f0 == [i \in 1..Len(ss) |-> ss[i]]
    <3>1. f0 = [i \in 1..Len(ss) |-> f0[i]] /\ Right(f0, 0)
      BY <2>3
    <3>2. 0 \notin Bad
      BY <3>1
    <3>3. QED
      BY <3>2
  <2>5. n - 1 \in Nat /\ n - 1 \notin Bad
    <3>1. n - 1 \in Nat /\ ~(n <= n - 1)
      BY <2>3, <2>4
    <3> HIDE DEF Bad
    <3>2. QED
      BY <2>2, <3>1
  <2>6. PICK f : f = [i \in 1..Len(ss) |-> f[i]] /\ Right(f, n - 1)
    BY <2>5
  <2>7. Right(f, n - 1)
    BY <2>6
  <2>8. \A i \in 1..Len(ss) : i <= n => Step(f)[i] = Step(Step(f))[i]
    <3> SUFFICES ASSUME NEW i \in 1..Len(ss), i <= n
                 PROVE  Step(f)[i] = Step(Step(f))[i]
      OBVIOUS
    <3>1. CASE i = 1
      BY <3>1
    <3>2. CASE i # 1
      <4>1. i - 1 \in 1..Len(ss) /\ i - 1 <= n - 1
        BY <2>3, <3>2
      <4>2. f[i-1] = Step(f)[i-1]
        BY <2>7, <4>1
      <4>3. QED
        BY <3>2, <4>2
    <3>3. QED
      BY <3>1, <3>2
  <2>9. Step(f) = [i \in 1..Len(ss) |-> Step(f)[i]] /\ Right(Step(f), n)
    BY <2>8
  <2>10. \E h : h = [i \in 1..Len(ss) |-> h[i]] /\ Right(h, n)
    <3> HIDE DEF Step, Right
    <3>1. QED
      BY <2>9
  <2>11. QED
    BY <2>3, <2>10
<1>2. Len(ss) \in Nat
  OBVIOUS
<1>3. PICK f : f = [i \in 1..Len(ss) |-> f[i]] /\ Right(f, Len(ss))
  BY <1>1, <1>2
<1>4. f = Step(f)
  <2>1. \A i \in 1..Len(ss) : f[i] = Step(f)[i]
    <3>1. Right(f, Len(ss))
      BY <1>3
    <3> HIDE DEF Step
    <3>2. QED
      BY <1>2, <3>1
  <2>2. Step(f) = [i \in 1..Len(ss) |-> Step(f)[i]]
    OBVIOUS
  <2> HIDE DEF Step
  <2>3. [i \in 1..Len(ss) |-> f[i]] = [i \in 1..Len(ss) |-> Step(f)[i]]
    BY <2>1
  <2>4. QED
    BY <1>3, <2>2, <2>3, Zenon
<1>5. QED
  BY <1>4 DEF IsFlatten

\* FlattenSeq is its last value.
LEMMA FlattenIs ==
  ASSUME NEW T, NEW ss \in Seq(T), ss # <<>>
  PROVE  \E f : IsFlatten(f, ss) /\ FlattenSeq(ss) = f[Len(ss)]
<1>1. IsFlatten(CHOOSE f : IsFlatten(f, ss), ss)
  BY FlattenExists
<1>2. Len(ss) # 0
  OBVIOUS
<1>3. FlattenSeq(ss) = (CHOOSE f : IsFlatten(f, ss))[Len(ss)]
  BY <1>2, Zenon DEF FlattenSeq, IsFlatten
<1>4. QED
  BY <1>1, <1>3

\* A set of sequences that is closed under concatenation has the concatenation of any
\* sequence of its members.
LEMMA FlattenIn ==
  ASSUME NEW C, <<>> \in C, \A a, b \in C : a \o b \in C, NEW ss \in Seq(C)
  PROVE  FlattenSeq(ss) \in C
<1>1. CASE ss = <<>>
  <2>1. Len(ss) = 0
    BY <1>1
  <2>2. QED
    BY <1>1, <2>1 DEF FlattenSeq
<1>2. CASE ss # <<>>
  <2>1. PICK f : IsFlatten(f, ss) /\ FlattenSeq(ss) = f[Len(ss)]
    BY <1>2, FlattenIs
  <2>2. Len(ss) \in Nat /\ Len(ss) # 0 /\ \A i \in 1..Len(ss) : ss[i] \in C
    BY <1>2
  <2>3. \A i \in 1..Len(ss) : f[i] = IF i = 1 THEN ss[i] ELSE f[i-1] \o ss[i]
    BY <2>1 DEF IsFlatten
  <2> DEFINE Bad == {i \in 1..Len(ss) : f[i] \notin C}
  <2>4. ASSUME Bad # {}
        PROVE  FALSE
    <3>1. Bad \in SUBSET Nat
      BY <2>2
    <3>2. PICK n \in Bad : \A k \in Bad : n <= k
      BY <2>4, <3>1, LeastElement
    <3>3. n # 1
      BY <2>2, <2>3
    <3>4. n - 1 \in 1..Len(ss) /\ ~(n <= n - 1)
      BY <2>2, <3>3
    <3>5. f[n-1] \in C
      BY <3>2, <3>4
    <3>6. f[n] = f[n-1] \o ss[n]
      BY <2>3, <3>3
    <3>7. QED
      BY <2>2, <3>5, <3>6
  <2>5. QED
    BY <2>1, <2>2, <2>4
<1>3. QED
  BY <1>1, <1>2

-----------------------------------------------------------------------------
(* The inductive invariant *)

Frames == {"delta", "last"}
Pcs == {"none", "stub", "history", "ask", "stream", "call", "tool", "insert", "finish", "closed"}

\* Where a goroutine is before its row is written.
Working == {"history", "ask", "stream", "call", "tool", "insert"}

GoRow == [pc : Pcs, messages : Seq(Messages), iter : 0..MaxIters, calls : 0..MaxCalls,
          results : 0..MaxCalls, text : 0..MaxText, used : Nat, spent : Nat, late : Nat,
          said : BOOLEAN, expired : BOOLEAN, unsaved : BOOLEAN]
TurnRow == [turn : Turns, box : Boxes, messages : Seq(Messages), cost : Nat]
RequestRow == [client : Clients \cup {NoClient}, box : Boxes \cup {NoBox}]

Ended == [Idle EXCEPT !.pc = "closed"]

TypeInv ==
  /\ engine \in {"stub", "openai", "anthropic", "gemini"}
  /\ rows \in Seq(TurnRow)
  /\ since5d \in 1..Len(rows) + 1 /\ sinceMonth \in 1..Len(rows) + 1
  /\ posted \in 0..MaxTurns
  /\ req \in [Turns -> RequestRow]
  /\ handler \in [Turns -> {"none", "drain", "gone", "done"}]
  /\ go \in [Turns -> GoRow]
  /\ out \in [Turns -> Seq(Frames)] /\ \A t \in Turns : Len(out[t]) <= Cap

\* A reply under way when the context ends is the last: after it the goroutine asks no
\* more, so a goroutine that reads a stream has taken none late.
CutInv(t) ==
  /\ go[t].late <= 1
  /\ go[t].late = 1 => CtxDone(t)
  /\ go[t].pc = "stream" => go[t].late = 0

\* The rounds and calls of the loop.
LoopInv(t) ==
  /\ go[t].pc = "history" => go[t].iter = 0
  /\ go[t].pc \in {"ask", "stream"} => go[t].iter < MaxIters
  /\ go[t].pc \in {"call", "tool"} => go[t].calls >= 1 /\ go[t].calls + go[t].results <= MaxCalls
  /\ go[t].pc \in {"ask", "stream", "call", "tool"} => go[t].messages # <<>>

\* The engine has seen no more than was consumed.
UseInv(t) ==
  /\ go[t].used <= go[t].spent
  /\ go[t].used <= go[t].iter * Max(Usage)

\* A goroutine exists for an admitted request only, and keeps nothing when it ends.
LifeInv(t) ==
  /\ t > posted => go[t] = Idle /\ handler[t] = "none"
  /\ go[t].pc = "none" => go[t] = Idle
  /\ go[t].pc = "closed" => go[t] = Ended
  /\ go[t].pc \notin {"none", "closed"} => req[t].box \in Mine
  /\ go[t].unsaved => go[t].pc = "finish"

\* No row before the goroutine's own, and then that one, unless it was refused.
ChargeInv(t) ==
  /\ go[t].pc \in Working \cup {"none", "stub"} => RowsFor(t) = {}
  /\ go[t].pc = "finish" /\ engine # "stub" =>
       IF go[t].unsaved THEN RowsFor(t) = {}
       ELSE \E i \in DOMAIN rows : RowsFor(t) = {i} /\ rows[i].cost = CostCents(go[t].used)

TurnInv(t) == CutInv(t) /\ LoopInv(t) /\ UseInv(t) /\ LifeInv(t) /\ ChargeInv(t)

\* A client has one turn at a time.
ClientInv ==
  /\ \A t \in Turns : Running(t) => req[t].client \in Clients
  /\ \A t \in Turns, u \in Turns :
       (Running(t) /\ Running(u) /\ req[t].client = req[u].client) => t = u

\* The turns that may still write a row with a cost: their context has not ended.
Chargeable == {t \in Turns : go[t].pc \in Working /\ ~CtxDone(t)}

\* What is spent, together with what these may add, stays below the budget and one
\* turn for each client.
Within(budget, from) ==
  budget > 0 =>
    LLMSpentByNamespace(from) + Cardinality(Chargeable) * MaxTurnCost
      < budget + Cardinality(Clients) * MaxTurnCost

BudgetInv ==
  /\ Within(LLMBudgetCentsPer5d, since5d)
  /\ Within(LLMBudgetCentsPerMonth, sinceMonth)

TurnsInv == \A t \in Turns : TurnInv(t)
Inv == TypeInv /\ TurnsInv /\ ClientInv /\ BudgetInv

-----------------------------------------------------------------------------
(* Constants *)

\* Max is the greatest element of a finite nonempty set of naturals.
LEMMA MaxIsGreatest ==
  ASSUME NEW S \in SUBSET Nat, IsFiniteSet(S), S # {}
  PROVE  Max(S) \in S /\ \A x \in S : x <= Max(S)
<1> DEFINE f == [p \in S |-> p]
<1>1. f \in [S -> Nat] /\ \A p \in S : f[p] = p
  OBVIOUS
<1>2. PICK m \in {f[p] : p \in S} \cup {0} : \A y \in {f[p] : p \in S} \cup {0} : y <= m
  <2>1. f \in [S -> Nat]
    BY <1>1
  <2> HIDE DEF f
  <2>2. QED
    BY <2>1, FiniteMaximum, Zenon
<1>3. {f[p] : p \in S} = S
  OBVIOUS
<1>4. m \in S
  <2>1. PICK x \in S : TRUE
    OBVIOUS
  <2>2. x <= m /\ x \in Nat
    BY <1>2, <1>3
  <2>3. CASE m = 0
    BY <2>2, <2>3
  <2>4. QED
    BY <1>2, <1>3, <2>3
<1>5. m \in S /\ \A y \in S : m >= y
  BY <1>2, <1>3, <1>4
<1>6. QED
  BY <1>5 DEF Max

\* The bounds that the types use.
LEMMA Bounds ==
  /\ Max(Usage) \in Nat /\ \A u \in Usage : u \in Nat /\ u <= Max(Usage)
  /\ MaxCalls \in Nat /\ \A I \in CallIndices : Cardinality(I) \in 0..MaxCalls
  /\ MaxIters \in Nat /\ MaxIters >= 1
  /\ Cap \in Nat /\ Cap >= 1
<1>1. Max(Usage) \in Nat /\ \A u \in Usage : u \in Nat /\ u <= Max(Usage)
  BY TurnAssumption, MaxIsGreatest
<1>2. MaxCalls \in Nat /\ \A I \in CallIndices : Cardinality(I) \in 0..MaxCalls
  <2> DEFINE Sizes == {Cardinality(I) : I \in CallIndices}
             f == [I \in CallIndices |-> Cardinality(I)]
  <2>1. \A I \in CallIndices : Cardinality(I) \in Nat
    BY TurnAssumption, FS_CardinalityType
  <2>2. IsFiniteSet(Sizes)
    <3>1. f \in Surjection(CallIndices, Sizes)
      BY DEF Surjection
    <3>2. IsFiniteSet(CallIndices)
      BY TurnAssumption
    <3> HIDE DEF f, Sizes
    <3>3. QED
      BY <3>1, <3>2, FS_Surjection
  <2>3. Sizes \in SUBSET Nat /\ Sizes # {}
    BY <2>1, TurnAssumption
  <2>4. MaxCalls \in Sizes /\ \A x \in Sizes : x <= MaxCalls
    BY <2>2, <2>3, MaxIsGreatest DEF MaxCalls
  <2>5. QED
    BY <2>1, <2>3, <2>4
<1>3. QED
  BY <1>1, <1>2, TurnAssumption

\* What a turn can cost.
LEMMA Costs ==
  /\ \A u \in Nat : CostCents(u) \in Nat
  /\ \A u \in Nat, v \in Nat : u <= v => CostCents(u) <= CostCents(v)
  /\ MaxTurnCost \in Nat
<1>1. \A u \in Nat : CostCents(u) \in Nat
  BY DEF CostCents
<1>2. \A u \in Nat, v \in Nat : u <= v => CostCents(u) <= CostCents(v)
  BY DEF CostCents
<1>3. MaxIters * Max(Usage) \in Nat
  BY Bounds
<1>4. QED
  BY <1>1, <1>2, <1>3 DEF MaxTurnCost

\* A turn that has gone round its loop at most cfg.MaxIters times costs no more than
\* the dearest one.
LEMMA TurnCostBounded ==
  ASSUME NEW iter \in 0..MaxIters, NEW used \in Nat, used <= iter * Max(Usage)
  PROVE  CostCents(used) \in Nat /\ CostCents(used) <= MaxTurnCost
<1>1. iter * Max(Usage) <= MaxIters * Max(Usage) /\ MaxIters * Max(Usage) \in Nat
      /\ iter * Max(Usage) \in Nat
  <2>1. PICK m \in Nat : m = Max(Usage)
    BY Bounds
  <2>2. iter \in Nat /\ MaxIters \in Nat /\ iter <= MaxIters
    BY Bounds
  <2>3. PICK d \in Nat : MaxIters = iter + d
    BY <2>2
  <2>4. MaxIters * m = iter * m + d * m /\ d * m \in Nat /\ iter * m \in Nat /\ MaxIters * m \in Nat
    BY <2>2, <2>3
  <2>5. QED
    BY <2>1, <2>4
<1>2. used <= MaxIters * Max(Usage)
  BY <1>1
<1>3. QED
  BY <1>1, <1>2, Costs DEF MaxTurnCost

-----------------------------------------------------------------------------
(* What the engines put into a chain *)

\* A function on the places of a sequence is a sequence.
LEMMA MappedSeq ==
  ASSUME NEW T, NEW s \in Seq(T), NEW C, NEW f, f = [i \in DOMAIN s |-> f[i]],
         \A i \in DOMAIN s : f[i] \in C
  PROVE  f \in Seq(C)
<1>1. DOMAIN s = 1..Len(s) /\ Len(s) \in Nat
  OBVIOUS
<1>2. f \in [1..Len(s) -> C]
  BY <1>1
<1>3. QED
  BY <1>1, <1>2

\* A history consists of messages of the rows.
LEMMA HistoriesMadeOf ==
  ASSUME TypeInv, NEW b, NEW S, \A i \in DOMAIN rows : rows[i].messages \in Seq(S)
  PROVE  Replay(b) \in Seq(S) /\ OpenAIHistory(b) \in Seq(S)
<1>1. /\ <<>> \in Seq(S)
      /\ \A x \in Seq(S), y \in Seq(S) : x \o y \in Seq(S)
  OBVIOUS
<1>2. Replay(b) \in Seq(S)
  <2> DEFINE f == [i \in DOMAIN rows |-> IF i \in Recent(b) THEN rows[i].messages ELSE <<>>]
  <2>1. f = [i \in DOMAIN rows |-> f[i]] /\ \A i \in DOMAIN rows : f[i] \in Seq(S)
    BY <1>1
  <2>2. rows \in Seq(TurnRow)
    BY DEF TypeInv
  <2>3. f \in Seq(Seq(S))
    <3> HIDE DEF f
    <3>1. QED
      BY <2>1, <2>2, MappedSeq
  <2>4. FlattenSeq(f) \in Seq(S)
    <3> HIDE DEF f
    <3>1. QED
      BY <1>1, <2>3, FlattenIn
  <2>5. QED
    BY <2>4 DEF Replay
<1>3. PICK m \in Seq(S) : m = Replay(b)
  BY <1>2
<1> DEFINE f == [i \in DOMAIN m |-> IF m[i].role = "system" THEN <<>> ELSE <<m[i]>>]
<1>4. f = [i \in DOMAIN m |-> f[i]] /\ \A i \in DOMAIN m : f[i] \in Seq(S)
  OBVIOUS
<1>5. f \in Seq(Seq(S))
  <2> HIDE DEF f
  <2>1. QED
    BY <1>4, MappedSeq
<1>6. FlattenSeq(f) \in Seq(S)
  <2> HIDE DEF f
  <2>1. QED
    BY <1>1, <1>5, FlattenIn
<1>7. QED
  BY <1>2, <1>3, <1>6 DEF OpenAIHistory

\* The rows of a box hold messages, and so do the histories made of them.
LEMMA HistoriesTyped ==
  ASSUME TypeInv, NEW b
  PROVE  Replay(b) \in Seq(Messages) /\ OpenAIHistory(b) \in Seq(Messages)
<1>1. \A i \in DOMAIN rows : rows[i] \in TurnRow
  BY DEF TypeInv
<1>2. \A i \in DOMAIN rows : rows[i].messages \in Seq(Messages)
  BY <1>1 DEF TurnRow
<1>3. QED
  BY <1>2, HistoriesMadeOf

\* What any engine may make of a reply.
ReplySet ==
  {r \in [calls : 0..MaxCalls, blank : BOOLEAN, used : Nat, spent : Usage] :
     r.used <= r.spent /\ (r.blank => r.calls = 0)}

\* OpenAI's calls are some of the indices, Anthropic's some of the blocks, Gemini's all.
LEMMA RepliesTyped ==
  ASSUME NEW said \in BOOLEAN
  PROVE  /\ OpenAIReplies(said) \subseteq ReplySet
         /\ AnthropicReplies(said) \subseteq ReplySet
         /\ GeminiReplies(said) \subseteq ReplySet
<1>1. OpenAIReplies(said) \subseteq ReplySet
  <2> SUFFICES ASSUME NEW r \in OpenAIReplies(said)
               PROVE  r \in ReplySet
    OBVIOUS
  <2>0. PICK byIdx \in CallIndices, u \in Usage :
          \E used \in {0, u} :
            r = [calls |-> Cardinality(toolCalls(byIdx)), blank |-> ~said /\ toolCalls(byIdx) = {},
                 used |-> used, spent |-> u]
    BY DEF OpenAIReplies
  <2> DEFINE kept == toolCalls(byIdx)
             blank == ~said /\ toolCalls(byIdx) = {}
  <2>1. IsFiniteSet(byIdx) /\ kept \in SUBSET byIdx /\ Cardinality(byIdx) \in 0..MaxCalls
    BY TurnAssumption, Bounds DEF toolCalls
  <2>2. blank \in BOOLEAN /\ (blank => kept = {})
    OBVIOUS
  <2>3. PICK used \in {0, u} :
          r = [calls |-> Cardinality(kept), blank |-> blank, used |-> used, spent |-> u]
    BY <2>0
  <2> HIDE DEF kept, blank
  <2>4. Cardinality(kept) \in Nat /\ Cardinality(kept) <= Cardinality(byIdx)
    BY <2>1, FS_Subset, FS_CardinalityType
  <2>5. Cardinality(kept) \in 0..MaxCalls
    BY <2>1, <2>4, Bounds
  <2>6. blank => Cardinality(kept) = 0
    BY <2>2, FS_EmptySet
  <2>7. used \in Nat /\ used <= u
    BY Bounds
  <2>8. QED
    BY <2>2, <2>3, <2>5, <2>6, <2>7 DEF ReplySet
<1>2. AnthropicReplies(said) \subseteq ReplySet
  <2> SUFFICES ASSUME NEW r \in AnthropicReplies(said)
               PROVE  r \in ReplySet
    OBVIOUS
  <2>0. PICK blocks \in Blocks(said), u \in Usage :
          \E used \in 1..u :
            r = [calls |-> Cardinality(extractToolUses(blocks)),
                 blank |-> contentBlocksToParams(blocks) = {}, used |-> used, spent |-> u]
    BY DEF AnthropicReplies
  <2>a. PICK first \in {<<"text">>, <<>>, <<"thinking">>}, I \in CallIndices :
          blocks = first \o ToolUses(I)
    <3> DEFINE Firsts == IF said THEN {<<"text">>} ELSE {<<>>, <<"thinking">>}
    <3>1. Firsts \subseteq {<<"text">>, <<>>, <<"thinking">>}
      OBVIOUS
    <3>2. Blocks(said) = {first \o ToolUses(I) : first \in Firsts, I \in CallIndices}
      BY DEF Blocks
    <3> HIDE DEF Firsts
    <3>3. \E first \in Firsts, I \in CallIndices : blocks = first \o ToolUses(I)
      BY <2>0, <3>2
    <3>4. QED
      BY <3>1, <3>3, Zenon
  <2>1. PICK n \in 0..MaxCalls : n = Cardinality(I)
    BY Bounds
  <2>2. n \in Nat
    BY Bounds
  <2> DEFINE rest == [i \in 1..n |-> "tool_use"]
  <2>3. rest \in Seq({"tool_use"}) /\ Len(rest) = n
    BY <2>2
  <2>4. PICK k \in 0..1 : /\ k = Len(first) /\ first \in Seq({"text", "thinking"})
                          /\ \A i \in 1..k : first[i] # "tool_use"
    <3>1. CASE first = <<>>
      <4>1. 0 = Len(first) /\ first \in Seq({"text", "thinking"}) /\ \A i \in 1..0 : first[i] # "tool_use"
        BY <3>1
      <4>2. QED
        BY <4>1
    <3>2. ASSUME NEW type \in {"text", "thinking"}, first = <<type>>
          PROVE  \E k \in 0..1 : /\ k = Len(first) /\ first \in Seq({"text", "thinking"})
                                 /\ \A i \in 1..k : first[i] # "tool_use"
      <4>1. 1 = Len(first) /\ first \in Seq({"text", "thinking"}) /\ \A i \in 1..1 : first[i] # "tool_use"
        BY <3>2
      <4>2. QED
        BY <4>1
    <3>3. QED
      BY <3>1, <3>2
  <2>5. DOMAIN blocks = 1..(k + n) /\ \A i \in 1..k : blocks[i] = first[i]
    <3>1. first \in Seq({"text", "thinking", "tool_use"}) /\ rest \in Seq({"text", "thinking", "tool_use"})
      BY <2>3, <2>4
    <3>2. blocks = first \o rest
      BY <2>a, <2>1 DEF ToolUses
    <3> HIDE DEF rest
    <3>3. DOMAIN (first \o rest) = 1..(Len(first) + Len(rest))
          /\ \A i \in 1..Len(first) : (first \o rest)[i] = first[i]
      BY <3>1
    <3>4. DOMAIN blocks = 1..(k + n) /\ \A i \in 1..k : blocks[i] = first[i]
      BY <2>3, <2>4, <3>2, <3>3
    <3>5. QED
      BY <3>4
  <2> DEFINE uses == extractToolUses(blocks)
             blank == contentBlocksToParams(blocks) = {}
  <2>6. uses \in SUBSET ((k + 1)..(k + n))
    <3>1. \A i \in uses : i \in DOMAIN blocks /\ blocks[i] = "tool_use"
      BY DEF extractToolUses, contentBlocksToParams
    <3> HIDE DEF uses
    <3>2. \A i \in uses : i \in (k + 1)..(k + n)
      BY <2>2, <2>4, <2>5, <3>1
    <3>3. QED
      BY <3>2
  <2>7. blank \in BOOLEAN /\ (blank => uses = {})
    BY DEF extractToolUses
  <2>8. PICK used \in 1..u :
          r = [calls |-> Cardinality(uses), blank |-> blank, used |-> used, spent |-> u]
    BY <2>0
  <2> HIDE DEF uses, blank
  <2>9. IsFiniteSet((k + 1)..(k + n)) /\ Cardinality((k + 1)..(k + n)) = n
    <3>1. PICK a \in Int, b \in Int : a = k + 1 /\ b = k + n
      BY <2>2
    <3>2. IsFiniteSet(a..b) /\ Cardinality(a..b) = IF a > b THEN 0 ELSE b - a + 1
      BY FS_Interval
    <3>3. (IF a > b THEN 0 ELSE b - a + 1) = n
      BY <2>2, <3>1
    <3>4. QED
      BY <3>1, <3>2, <3>3
  <2> HIDE DEF rest
  <2>10. Cardinality(uses) \in Nat /\ Cardinality(uses) <= n
    <3>1. IsFiniteSet(uses) /\ Cardinality(uses) <= Cardinality((k + 1)..(k + n))
      BY <2>6, <2>9, FS_Subset
    <3>2. Cardinality(uses) \in Nat
      BY <3>1, FS_CardinalityType
    <3>3. QED
      BY <2>9, <3>1, <3>2
  <2>11. Cardinality(uses) \in 0..MaxCalls
    BY <2>2, <2>10, Bounds
  <2>12. blank => Cardinality(uses) = 0
    BY <2>7, FS_EmptySet
  <2>13. used \in Nat /\ used <= u
    BY Bounds
  <2>14. QED
    BY <2>7, <2>8, <2>11, <2>12, <2>13 DEF ReplySet
<1>3. GeminiReplies(said) \subseteq ReplySet
  <2> SUFFICES ASSUME NEW r \in GeminiReplies(said)
               PROVE  r \in ReplySet
    OBVIOUS
  <2>0. PICK I \in CallIndices, u \in Usage :
          \E used \in 0..u :
            r = [calls |-> Cardinality(I), blank |-> ~said /\ I = {}, used |-> used, spent |-> u]
    BY DEF GeminiReplies
  <2> DEFINE blank == ~said /\ I = {}
  <2>1. blank \in BOOLEAN /\ (blank => I = {})
    OBVIOUS
  <2>2. PICK used \in 0..u :
          r = [calls |-> Cardinality(I), blank |-> blank, used |-> used, spent |-> u]
    BY <2>0
  <2> HIDE DEF blank
  <2>3. Cardinality(I) \in 0..MaxCalls /\ (blank => Cardinality(I) = 0)
    BY <2>1, Bounds, FS_EmptySet
  <2>4. used \in Nat /\ used <= u
    BY Bounds
  <2>5. QED
    BY <2>1, <2>2, <2>3, <2>4 DEF ReplySet
<1>4. QED
  BY <1>1, <1>2, <1>3

-----------------------------------------------------------------------------
(* The steps of a goroutine *)

Prompt == IF engine = "openai" THEN <<[role |-> "system", turn |-> 0, calls |-> 0]>> ELSE <<>>
HistoryOf(b) == IF engine = "openai" THEN OpenAIHistory(b) ELSE Replay(b)
ResultsOf(g) == IF engine = "openai" THEN OpenAIResults(g) ELSE BundledResults(g)

\* The step of an engine that talks to a provider, whichever it is.
ProviderStep(t) ==
  \/ LoadHistory(t, Prompt, HistoryOf(req[t].box))
  \/ Ask(t) \/ Token(t) \/ Reply(t, ReplySet)
  \/ Announce(t) \/ Report(t, ResultsOf(go[t]))
  \/ Persist(t) \/ Finish(t)

\* The fields of a goroutine, and of one that has changed some.
LEMMA GoFields ==
  ASSUME TypeInv, NEW t \in Turns
  PROVE  \E g \in GoRow :
           /\ g = go[t]
           /\ g.pc \in Pcs /\ g.messages \in Seq(Messages) /\ g.iter \in 0..MaxIters
           /\ g.calls \in 0..MaxCalls /\ g.results \in 0..MaxCalls /\ g.text \in 0..MaxText
           /\ g.used \in Nat /\ g.spent \in Nat /\ g.late \in Nat
           /\ g.said \in BOOLEAN /\ g.expired \in BOOLEAN /\ g.unsaved \in BOOLEAN
<1>1. go[t] \in GoRow
  BY DEF TypeInv
<1>2. QED
  BY <1>1 DEF GoRow

\* The engines take the same steps.
LEMMA EngineSteps ==
  ASSUME TypeInv, NEW t \in Turns, EngineRun(t)
  PROVE  \/ engine # "stub" /\ ProviderStep(t)
         \/ engine = "stub" /\ StubRun(t)
<1>1. ASSUME NEW R, R \subseteq ReplySet, Reply(t, R)
      PROVE  Reply(t, ReplySet)
  BY <1>1 DEF Reply
<1>0. go[t].said \in BOOLEAN
  BY GoFields
<1>2. CASE OpenAIRun(t)
  <2>1. engine = "openai"
    BY <1>2 DEF OpenAIRun
  <2>2. Reply(t, OpenAIReplies(go[t].said)) => Reply(t, ReplySet)
    BY <1>0, <1>1, RepliesTyped
  <2>3. QED
    BY <1>2, <2>1, <2>2 DEF OpenAIRun, ProviderStep, Prompt, HistoryOf, ResultsOf
<1>3. CASE AnthropicRun(t)
  <2>1. engine = "anthropic"
    BY <1>3 DEF AnthropicRun
  <2>2. Reply(t, AnthropicReplies(go[t].said)) => Reply(t, ReplySet)
    BY <1>0, <1>1, RepliesTyped
  <2>3. QED
    BY <1>3, <2>1, <2>2 DEF AnthropicRun, ProviderStep, Prompt, HistoryOf, ResultsOf, AnthropicHistory
<1>4. CASE GeminiRun(t)
  <2>1. engine = "gemini"
    BY <1>4 DEF GeminiRun
  <2>2. Reply(t, GeminiReplies(go[t].said)) => Reply(t, ReplySet)
    BY <1>0, <1>1, RepliesTyped
  <2>3. QED
    BY <1>4, <2>1, <2>2 DEF GeminiRun, ProviderStep, Prompt, HistoryOf, ResultsOf, GeminiHistory
<1>5. CASE StubRun(t)
  BY <1>5 DEF StubRun
<1>6. QED
  BY <1>2, <1>3, <1>4, <1>5 DEF EngineRun

\* What a goroutine's step may do: it changes its own variables and channel, and the
\* table only by the one row of a turn that could still be charged and now is.
Pays(t) ==
  /\ t \in Chargeable /\ go'[t].pc = "finish"
  /\ \E r \in TurnRow : rows' = Append(rows, r) /\ r.turn = t /\ r.cost <= MaxTurnCost

StepOK(t) ==
  /\ TypeInv' /\ TurnInv(t)'
  /\ UNCHANGED <<engine, posted, req, handler, since5d, sinceMonth>>
  /\ \A u \in Turns : u # t => go'[u] = go[u]
  /\ \/ /\ rows' = rows
        /\ go'[t].pc \in Working => (go[t].pc \in Working /\ go'[t].expired = go[t].expired)
     \/ Pays(t)

\* A goroutine's variables and its channel may be replaced by others of their type.
LEMMA StepTyped ==
  ASSUME TypeInv, NEW t \in Turns, NEW g \in GoRow, go' = [go EXCEPT ![t] = g],
         NEW f \in Seq(Frames), Len(f) <= Cap, out' = [out EXCEPT ![t] = f],
         rows' = rows \/ \E r \in TurnRow : rows' = Append(rows, r),
         engine' = engine, posted' = posted, req' = req, handler' = handler,
         since5d' = since5d, sinceMonth' = sinceMonth
  PROVE  TypeInv' /\ go'[t] = g /\ \A u \in Turns : u # t => go'[u] = go[u]
<1>1. go' \in [Turns -> GoRow] /\ go'[t] = g /\ \A u \in Turns : u # t => go'[u] = go[u]
  BY DEF TypeInv
<1>2. out' \in [Turns -> Seq(Frames)] /\ \A u \in Turns : Len(out'[u]) <= Cap
  BY DEF TypeInv
<1>3. rows' \in Seq(TurnRow) /\ Len(rows') \in Nat /\ Len(rows) \in Nat /\ Len(rows) <= Len(rows')
  <2>1. rows \in Seq(TurnRow) /\ Len(rows) \in Nat
    BY DEF TypeInv
  <2>2. CASE rows' = rows
    BY <2>1, <2>2
  <2>3. ASSUME NEW r \in TurnRow, rows' = Append(rows, r)
        PROVE  rows' \in Seq(TurnRow) /\ Len(rows') = Len(rows) + 1
    BY <2>1, <2>3
  <2>4. QED
    BY <2>1, <2>2, <2>3
<1>4. since5d' \in 1..Len(rows') + 1 /\ sinceMonth' \in 1..Len(rows') + 1
  BY <1>3 DEF TypeInv
<1>5. QED
  BY <1>1, <1>2, <1>3, <1>4 DEF TypeInv

\* Idle and ended goroutines have their types.
LEMMA IdleTyped == Idle \in GoRow /\ Ended \in GoRow /\ Ended.pc = "closed"
<1>1. <<>> \in Seq(Messages)
  OBVIOUS
<1>2. 0 \in 0..MaxIters /\ 0 \in 0..MaxCalls /\ 0 \in 0..MaxText /\ 0 \in Nat
  BY Bounds, TurnAssumption
<1>3. Idle \in GoRow
  BY <1>1, <1>2 DEF Idle, GoRow, Pcs
<1>4. "closed" \in Pcs
  BY DEF Pcs
<1>5. Ended \in GoRow /\ Ended.pc = "closed"
  BY <1>3, <1>4 DEF Ended, GoRow
<1>6. QED
  BY <1>3, <1>5

\* A goroutine that returns keeps nothing.
LEMMA CloseOK ==
  ASSUME TypeInv, NEW t \in Turns, TurnInv(t), go[t].pc \notin {"none", "closed"}, Close(t),
         NEW f \in Seq(Frames), Len(f) <= Cap, out' = [out EXCEPT ![t] = f],
         rows' = rows,
         engine' = engine, posted' = posted, req' = req, handler' = handler,
         since5d' = since5d, sinceMonth' = sinceMonth
  PROVE  StepOK(t)
<1>1. go' = [go EXCEPT ![t] = Ended] /\ Ended \in GoRow
  BY IdleTyped DEF Close, Ended
<1>2. TypeInv' /\ go'[t] = Ended /\ \A u \in Turns : u # t => go'[u] = go[u]
  BY <1>1, StepTyped
<1>3. ~(t > posted)
  <2>1. Idle.pc = "none"
    BY DEF Idle
  <2>2. QED
    BY <2>1 DEF TurnInv, LifeInv
<1>4. /\ Ended.pc = "closed" /\ Ended.late = 0 /\ Ended.used = 0 /\ Ended.spent = 0
      /\ Ended.iter = 0 /\ Ended.unsaved = FALSE
  BY DEF Ended, Idle
<1>5. 0 * Max(Usage) = 0
  BY Bounds
<1>6. CutInv(t)' /\ LoopInv(t)' /\ LifeInv(t)' /\ ChargeInv(t)'
  BY <1>2, <1>3, <1>4 DEF CutInv, LoopInv, LifeInv, ChargeInv, Working
<1>7. UseInv(t)'
  BY <1>2, <1>4, <1>5 DEF UseInv
<1>8. QED
  BY <1>2, <1>4, <1>6, <1>7 DEF StepOK, TurnInv, Working

\* An error ends the goroutine and leaves no row, since its row would name no box.
LEMMA AbortOK ==
  ASSUME TypeInv, NEW t \in Turns, TurnInv(t), go[t].pc \notin {"none", "closed"}, NEW fault, Abort(t, fault)
  PROVE  StepOK(t)
<1>1. rows' = rows
  BY TurnAssumption DEF Abort, emitErr, InsertTurn
<1>2. PICK f \in Seq(Frames) : Len(f) <= Cap /\ out' = [out EXCEPT ![t] = f]
  <2>1. out[t] \in Seq(Frames) /\ Len(out[t]) <= Cap /\ Len(out[t]) \in Nat
        /\ out \in [Turns -> Seq(Frames)]
    BY DEF TypeInv
  <2>2. CASE Room(t)
    <3>1. out' = [out EXCEPT ![t] = Append(out[t], "last")]
      BY <2>2 DEF Abort, emitErr, Put
    <3>2. Append(out[t], "last") \in Seq(Frames) /\ Len(Append(out[t], "last")) <= Cap
      BY <2>1, <2>2, Bounds DEF Frames, Room
    <3>3. QED
      BY <3>1, <3>2
  <2>3. CASE ~Room(t)
    <3>1. out' = [out EXCEPT ![t] = out[t]]
      BY <2>1, <2>3 DEF Abort, emitErr
    <3>2. QED
      BY <2>1, <3>1
  <2>4. QED
    BY <2>2, <2>3
<1>3. /\ Close(t)
      /\ engine' = engine /\ posted' = posted /\ req' = req /\ handler' = handler
      /\ since5d' = since5d /\ sinceMonth' = sinceMonth
  BY DEF Abort, emitErr, requestVars
<1>4. QED
  BY <1>1, <1>2, <1>3, CloseOK

\* A channel keeps its type when it is left alone, and a frame fits where there is room.
LEMMA ChannelTyped ==
  ASSUME TypeInv, NEW t \in Turns
  PROVE  /\ out[t] \in Seq(Frames) /\ Len(out[t]) <= Cap /\ out = [out EXCEPT ![t] = out[t]]
         /\ \A frame \in Frames : Room(t) =>
              /\ Append(out[t], frame) \in Seq(Frames) /\ Len(Append(out[t], frame)) <= Cap
              /\ Put(t, frame) => out' = [out EXCEPT ![t] = Append(out[t], frame)]
<1>1. /\ out[t] \in Seq(Frames) /\ Len(out[t]) <= Cap /\ Len(out[t]) \in Nat
      /\ out \in [Turns -> Seq(Frames)]
  BY DEF TypeInv
<1>2. QED
  BY <1>1, Bounds DEF Room, Put

\* A step of goroutine t that leaves it with g, and sends one frame or none.
Moves(t, g) ==
  /\ go' = [go EXCEPT ![t] = g]
  /\ \E f \in Seq(Frames) : Len(f) <= Cap /\ out' = [out EXCEPT ![t] = f]
  /\ rows' = rows
  /\ engine' = engine /\ posted' = posted /\ req' = req /\ handler' = handler
  /\ since5d' = since5d /\ sinceMonth' = sinceMonth

\* What a goroutine holds on its way to its row.
Healthy(t, g) ==
  /\ g \in GoRow /\ g.pc \in Working \ {"history"}
  /\ g.late <= 1 /\ (g.late = 1 => CtxDone(t)) /\ (g.pc = "stream" => g.late = 0)
  /\ g.pc \in {"ask", "stream"} => g.iter < MaxIters
  /\ g.pc \in {"call", "tool"} => g.calls >= 1 /\ g.calls + g.results <= MaxCalls
  /\ g.pc \in {"ask", "stream", "call", "tool"} => g.messages # <<>>
  /\ g.used <= g.spent
  /\ g.used <= g.iter * Max(Usage)
  /\ g.expired = go[t].expired /\ g.unsaved = go[t].unsaved

\* A goroutine that has not written its row goes on.
LEMMA GoesOn ==
  ASSUME TypeInv, NEW t \in Turns, TurnInv(t), go[t].pc \in Working,
         NEW g, Healthy(t, g), Moves(t, g)
  PROVE  StepOK(t)
<1>0. g \in GoRow /\ g.pc \in Working /\ g.pc # "history"
  BY DEF Healthy
<1>1. TypeInv' /\ go'[t] = g /\ \A u \in Turns : u # t => go'[u] = go[u]
  <2>1. PICK f \in Seq(Frames) : Len(f) <= Cap /\ out' = [out EXCEPT ![t] = f]
    BY DEF Moves
  <2>2. QED
    BY <1>0, <2>1, StepTyped DEF Moves
<1>2. /\ rows' = rows /\ engine' = engine /\ posted' = posted /\ req' = req /\ handler' = handler
      /\ since5d' = since5d /\ sinceMonth' = sinceMonth
  BY DEF Moves
<1>3. CutInv(t)'
  BY <1>1, <1>2 DEF Healthy, CutInv, CtxDone
<1>4. LoopInv(t)' /\ UseInv(t)'
  BY <1>0, <1>1, <1>2 DEF Healthy, LoopInv, UseInv
<1>5. LifeInv(t)'
  <2>1. g.expired = go[t].expired /\ g.unsaved = go[t].unsaved
    BY DEF Healthy
  <2>2. QED
    BY <1>0, <1>1, <1>2, <2>1, IdleTyped DEF TurnInv, LifeInv, Idle, Working
<1>6. ChargeInv(t)'
  BY <1>0, <1>1, <1>2 DEF TurnInv, ChargeInv, RowsFor, Working
<1>7. go'[t].expired = go[t].expired
  BY <1>1 DEF Healthy
<1>8. QED
  BY <1>1, <1>2, <1>3, <1>4, <1>5, <1>6, <1>7 DEF StepOK, TurnInv

\* The goroutine stays as it is, or sends a frame.
LEMMA StaysTyped ==
  ASSUME TypeInv, NEW t \in Turns,
         out' = out \/ \E frame \in Frames : Room(t) /\ Put(t, frame)
  PROVE  \E f \in Seq(Frames) : Len(f) <= Cap /\ out' = [out EXCEPT ![t] = f]
<1>1. CASE out' = out
  <2>1. out[t] \in Seq(Frames) /\ Len(out[t]) <= Cap /\ out = [out EXCEPT ![t] = out[t]]
    BY ChannelTyped
  <2>2. QED
    BY <1>1, <2>1
<1>2. ASSUME NEW frame \in Frames, Room(t), Put(t, frame)
      PROVE  \E f \in Seq(Frames) : Len(f) <= Cap /\ out' = [out EXCEPT ![t] = f]
  <2>1. /\ Append(out[t], frame) \in Seq(Frames) /\ Len(Append(out[t], frame)) <= Cap
        /\ out' = [out EXCEPT ![t] = Append(out[t], frame)]
    BY <1>2, ChannelTyped
  <2>2. QED
    BY <2>1
<1>3. QED
  BY <1>1, <1>2

\* The history becomes the chain, with the user's message at its end.
LEMMA LoadOK ==
  ASSUME TypeInv, NEW t \in Turns, TurnInv(t), NEW system \in Seq(Messages), NEW history \in Seq(Messages),
         LoadHistory(t, system, history)
  PROVE  StepOK(t)
<1>1. go[t].pc = "history"
  BY DEF LoadHistory
<1>2. CASE Abort(t, "db")
  BY <1>1, <1>2, AbortOK
<1>3. CASE ~Abort(t, "db")
  <2> DEFINE user == [role |-> "user", turn |-> t, calls |-> 0]
             chain == system \o history \o <<user>>
  <2>1. user \in Messages
    BY Bounds DEF Messages, Roles, Turns
  <2>2. chain \in Seq(Messages) /\ chain # <<>>
    <3> HIDE DEF user
    <3>1. <<user>> \in Seq(Messages) /\ Len(<<user>>) = 1
      BY <2>1
    <3>2. system \o history \in Seq(Messages) /\ Len(system \o history) \in Nat
      OBVIOUS
    <3>3. chain \in Seq(Messages) /\ Len(chain) = Len(system \o history) + 1
      BY <3>1, <3>2
    <3>4. QED
      BY <3>2, <3>3
  <2>3. /\ ~CtxDone(t)
        /\ go' = [go EXCEPT ![t] = [@ EXCEPT !.pc = "ask", !.messages = chain]]
        /\ rows' = rows /\ out' = out
        /\ engine' = engine /\ posted' = posted /\ req' = req /\ handler' = handler
        /\ since5d' = since5d /\ sinceMonth' = sinceMonth
    BY <1>3 DEF LoadHistory, requestVars, tableVars
  <2> HIDE DEF chain
  <2>4. PICK g \in GoRow : g = [go[t] EXCEPT !.pc = "ask", !.messages = chain]
    <3>1. PICK g \in GoRow : g = go[t]
      BY GoFields
    <3>2. [g EXCEPT !.pc = "ask", !.messages = chain] \in GoRow
      BY <2>2 DEF GoRow, Pcs
    <3>3. QED
      BY <3>1, <3>2
  <2>5. Moves(t, g)
    BY <2>3, <2>4, StaysTyped DEF Moves
  <2>6. /\ g.pc = "ask" /\ g.messages = chain /\ g.iter = go[t].iter /\ g.late = go[t].late
        /\ g.used = go[t].used /\ g.spent = go[t].spent /\ g.unsaved = go[t].unsaved
        /\ g.expired = go[t].expired
    BY <2>4, GoFields DEF GoRow
  <2>7. /\ g.late <= 1 /\ (g.late = 1 => CtxDone(t)) /\ g.iter < MaxIters
        /\ g.used <= g.spent
        /\ g.used <= g.iter * Max(Usage)
    BY <1>1, <2>6, Bounds DEF TurnInv, CutInv, LoopInv, UseInv
  <2>8. Healthy(t, g)
    BY <2>2, <2>6, <2>7 DEF Healthy, Working
  <2>9. go[t].pc \in Working
    BY <1>1 DEF Working
  <2>10. QED
    BY <2>5, <2>8, <2>9, GoesOn
<1>4. QED
  BY <1>2, <1>3

\* The stream is opened.
LEMMA AskOK ==
  ASSUME TypeInv, NEW t \in Turns, TurnInv(t), Ask(t)
  PROVE  StepOK(t)
<1>1. go[t].pc = "ask" /\ go[t].pc \in Working
  BY DEF Ask, Working
<1>2. CASE Abort(t, "provider")
  BY <1>1, <1>2, AbortOK
<1>3. CASE ~Abort(t, "provider")
  <2>1. /\ ~CtxDone(t)
        /\ go' = [go EXCEPT ![t] = [go[t] EXCEPT !.pc = "stream"]]
        /\ rows' = rows /\ out' = out
        /\ engine' = engine /\ posted' = posted /\ req' = req /\ handler' = handler
        /\ since5d' = since5d /\ sinceMonth' = sinceMonth
    BY <1>3 DEF Ask, Goto, requestVars, tableVars
  <2>2. PICK g \in GoRow : g = [go[t] EXCEPT !.pc = "stream"]
    <3>1. PICK g \in GoRow : g = go[t]
      BY GoFields
    <3>2. [g EXCEPT !.pc = "stream"] \in GoRow
      BY DEF GoRow, Pcs
    <3>3. QED
      BY <3>1, <3>2
  <2>3. Moves(t, g)
    BY <2>1, <2>2, StaysTyped DEF Moves
  <2>4. /\ g.pc = "stream" /\ g.messages = go[t].messages /\ g.iter = go[t].iter /\ g.late = go[t].late
        /\ g.used = go[t].used /\ g.spent = go[t].spent /\ g.unsaved = go[t].unsaved
        /\ g.expired = go[t].expired
    BY <2>2, GoFields DEF GoRow
  <2>5. go[t].late = 0
    BY <2>1, GoFields DEF TurnInv, CutInv
  <2>6. /\ g.late = 0 /\ g.iter < MaxIters /\ g.messages # <<>>
        /\ g.used <= g.spent
        /\ g.used <= g.iter * Max(Usage)
    BY <1>1, <2>4, <2>5 DEF TurnInv, LoopInv, UseInv
  <2>7. Healthy(t, g)
    BY <2>4, <2>6 DEF Healthy, Working
  <2>8. QED
    BY <1>1, <2>3, <2>7, GoesOn
<1>4. QED
  BY <1>2, <1>3

\* A delta is text of the reply and goes into the channel.
LEMMA TokenOK ==
  ASSUME TypeInv, NEW t \in Turns, TurnInv(t), Token(t)
  PROVE  StepOK(t)
<1>1. go[t].pc = "stream" /\ go[t].pc \in Working
  BY DEF Token, Working
<1>2. CASE Abort(t, "provider")
  BY <1>1, <1>2, AbortOK
<1>3. CASE ~Abort(t, "provider")
  <2>1. /\ Room(t) /\ Put(t, "delta") /\ go' = [go EXCEPT ![t] = [go[t] EXCEPT !.said = TRUE]]
        /\ rows' = rows
        /\ engine' = engine /\ posted' = posted /\ req' = req /\ handler' = handler
        /\ since5d' = since5d /\ sinceMonth' = sinceMonth
    BY <1>3 DEF Token, requestVars, tableVars
  <2>2. PICK g \in GoRow : g = [go[t] EXCEPT !.said = TRUE]
    <3>1. PICK g \in GoRow : g = go[t]
      BY GoFields
    <3>2. [g EXCEPT !.said = TRUE] \in GoRow
      BY DEF GoRow
    <3>3. QED
      BY <3>1, <3>2
  <2>3. /\ g.pc = go[t].pc /\ g.messages = go[t].messages /\ g.iter = go[t].iter /\ g.late = go[t].late
        /\ g.used = go[t].used /\ g.spent = go[t].spent /\ g.unsaved = go[t].unsaved
        /\ g.expired = go[t].expired
    BY <2>2, GoFields DEF GoRow
  <2>4. \E f \in Seq(Frames) : Len(f) <= Cap /\ out' = [out EXCEPT ![t] = f]
    BY <2>1, StaysTyped DEF Frames
  <2>5. Moves(t, g)
    BY <2>1, <2>2, <2>4 DEF Moves
  <2>6. /\ g.late = 0 /\ g.iter < MaxIters /\ g.messages # <<>>
        /\ g.used <= g.spent
        /\ g.used <= g.iter * Max(Usage)
    BY <1>1, <2>3 DEF TurnInv, CutInv, LoopInv, UseInv
  <2>7. Healthy(t, g)
    BY <1>1, <2>3, <2>6 DEF Healthy, Working
  <2>8. QED
    BY <1>1, <2>5, <2>7, GoesOn
<1>4. QED
  BY <1>2, <1>3

\* The message that reply r adds to the chain.
ReplyMessage(t, r) ==
  [role |-> IF r.blank THEN "blank" ELSE "assistant", turn |-> t, calls |-> r.calls]

\* The fields of a goroutine that has read a reply.
LEMMA RepliedFields ==
  ASSUME TypeInv, NEW t \in Turns, NEW h \in GoRow, NEW r \in ReplySet,
         h.iter < MaxIters, h.late = 0
  PROVE  \E g \in GoRow :
           /\ g = Replied(t, h, r)
           /\ g.pc = (IF r.calls = 0 THEN "insert" ELSE "call")
           /\ g.messages = Append(h.messages, ReplyMessage(t, r))
           /\ g.messages # <<>> /\ g.iter = h.iter + 1 /\ g.calls = r.calls /\ g.results = 0
           /\ g.used = h.used + r.used /\ g.spent = h.spent + r.spent
           /\ g.late \in 0..1 /\ (g.late = 1 => CtxDone(t))
           /\ g.expired = h.expired /\ g.unsaved = h.unsaved
<1> DEFINE message == ReplyMessage(t, r)
           pc == IF r.calls = 0 THEN "insert" ELSE "call"
           late == h.late + (IF CtxDone(t) THEN 1 ELSE 0)
           chain == Append(h.messages, message)
<1>1. r.calls \in 0..MaxCalls /\ r.blank \in BOOLEAN /\ r.used \in Nat /\ r.spent \in Nat
  BY Bounds DEF ReplySet
<1>2. h.iter \in 0..MaxIters /\ h.messages \in Seq(Messages) /\ h.used \in Nat /\ h.spent \in Nat
  BY DEF GoRow
<1>3. message \in Messages
  BY <1>1 DEF ReplyMessage, Messages, Roles, Turns
<1>4. chain \in Seq(Messages) /\ chain # <<>>
  <2> HIDE DEF message
  <2>1. chain \in Seq(Messages) /\ Len(chain) = Len(h.messages) + 1
    BY <1>2, <1>3
  <2>2. QED
    BY <1>2, <2>1
<1>5. late \in 0..1 /\ late \in Nat /\ (late = 1 => CtxDone(t))
  OBVIOUS
<1>6. pc \in Pcs
  BY DEF Pcs
<1>7. h.iter + 1 \in 0..MaxIters /\ h.used + r.used \in Nat /\ h.spent + r.spent \in Nat
      /\ 0 \in 0..MaxCalls
  <2>1. MaxIters \in Nat /\ MaxCalls \in Nat
    BY Bounds
  <2>2. h.iter < MaxIters
    OBVIOUS
  <2> HIDE DEF message, pc, late, chain
  <2>3. h.iter + 1 \in 0..MaxIters
    BY <1>2, <2>1, <2>2
  <2>4. QED
    BY <1>1, <1>2, <2>1, <2>3, SMTT(60)
<1>8. Replied(t, h, r) =
        [h EXCEPT !.pc = pc, !.messages = chain, !.iter = h.iter + 1, !.calls = r.calls,
                  !.results = 0, !.said = FALSE, !.used = h.used + r.used, !.spent = h.spent + r.spent,
                  !.late = late]
  BY Zenon DEF Replied, ReplyMessage
<1> HIDE DEF message, pc, late, chain
<1>9. PICK g1 \in GoRow :
        /\ g1 = [h EXCEPT !.pc = pc, !.messages = chain, !.iter = h.iter + 1]
        /\ g1.pc = pc /\ g1.messages = chain /\ g1.iter = h.iter + 1
        /\ g1.used = h.used /\ g1.spent = h.spent
        /\ g1.expired = h.expired /\ g1.unsaved = h.unsaved
  <2>1. [h EXCEPT !.pc = pc, !.messages = chain, !.iter = h.iter + 1] \in GoRow
    BY <1>4, <1>6, <1>7 DEF GoRow
  <2>2. QED
    BY <2>1 DEF GoRow
<1>10. PICK g2 \in GoRow :
        /\ g2 = [g1 EXCEPT !.calls = r.calls, !.results = 0]
        /\ g2.pc = pc /\ g2.messages = chain /\ g2.iter = h.iter + 1
        /\ g2.calls = r.calls /\ g2.results = 0
        /\ g2.used = h.used /\ g2.spent = h.spent
        /\ g2.expired = h.expired /\ g2.unsaved = h.unsaved
  <2>1. [g1 EXCEPT !.calls = r.calls, !.results = 0] \in GoRow
    BY <1>1, <1>7 DEF GoRow
  <2> WITNESS [g1 EXCEPT !.calls = r.calls, !.results = 0] \in GoRow
  <2>2. QED
    BY <1>9, <2>1 DEF GoRow
<1>11. PICK g3 \in GoRow :
        /\ g3 = [g2 EXCEPT !.said = FALSE, !.used = h.used + r.used]
        /\ g3.pc = pc /\ g3.messages = chain /\ g3.iter = h.iter + 1
        /\ g3.calls = r.calls /\ g3.results = 0
        /\ g3.used = h.used + r.used /\ g3.spent = h.spent
        /\ g3.expired = h.expired /\ g3.unsaved = h.unsaved
  <2>1. [g2 EXCEPT !.said = FALSE, !.used = h.used + r.used] \in GoRow
    BY <1>7 DEF GoRow
  <2> WITNESS [g2 EXCEPT !.said = FALSE, !.used = h.used + r.used] \in GoRow
  <2>2. QED
    BY <1>10, <2>1 DEF GoRow
<1>12. PICK g \in GoRow :
        /\ g = [g3 EXCEPT !.spent = h.spent + r.spent, !.late = late]
        /\ g.pc = pc /\ g.messages = chain /\ g.iter = h.iter + 1
        /\ g.calls = r.calls /\ g.results = 0
        /\ g.used = h.used + r.used /\ g.spent = h.spent + r.spent /\ g.late = late
        /\ g.expired = h.expired /\ g.unsaved = h.unsaved
  <2>1. [g3 EXCEPT !.spent = h.spent + r.spent, !.late = late] \in GoRow
    BY <1>5, <1>7 DEF GoRow
  <2> WITNESS [g3 EXCEPT !.spent = h.spent + r.spent, !.late = late] \in GoRow
  <2>2. QED
    BY <1>11, <2>1 DEF GoRow
<1>13. g = Replied(t, h, r)
  BY <1>8, <1>9, <1>10, <1>11, <1>12, Zenon
<1>14. QED
  <2>1. g.messages = Append(h.messages, ReplyMessage(t, r))
    BY <1>12, Zenon DEF chain, message
  <2>2. QED
    BY <1>4, <1>5, <1>12, <1>13, <2>1 DEF pc

\* The end of a stream: one more round, its calls and what it used.
LEMMA ReplyOK ==
  ASSUME TypeInv, NEW t \in Turns, TurnInv(t), Reply(t, ReplySet)
  PROVE  StepOK(t)
<1>1. go[t].pc = "stream" /\ go[t].pc \in Working
  BY DEF Reply, Working
<1>2. PICK r \in ReplySet : go' = [go EXCEPT ![t] = Replied(t, go[t], r)]
  BY DEF Reply
<1>3. /\ rows' = rows /\ out' = out
      /\ engine' = engine /\ posted' = posted /\ req' = req /\ handler' = handler
      /\ since5d' = since5d /\ sinceMonth' = sinceMonth
  BY DEF Reply, requestVars, tableVars
<1>4. /\ r.calls \in 0..MaxCalls /\ r.used \in Nat /\ r.spent \in Nat
      /\ r.used <= r.spent /\ r.used <= Max(Usage)
  BY Bounds DEF ReplySet
<1>5. PICK h \in GoRow :
        /\ h = go[t] /\ h.late = 0 /\ h.iter < MaxIters /\ h.iter \in 0..MaxIters
        /\ h.used \in Nat /\ h.spent \in Nat
        /\ h.used <= h.spent
        /\ h.used <= h.iter * Max(Usage)
  BY <1>1, GoFields DEF TurnInv, CutInv, LoopInv, UseInv
<1>6. PICK g \in GoRow :
        /\ g = Replied(t, h, r)
        /\ g.pc = (IF r.calls = 0 THEN "insert" ELSE "call")
        /\ g.messages # <<>> /\ g.iter = h.iter + 1 /\ g.calls = r.calls /\ g.results = 0
        /\ g.used = h.used + r.used /\ g.spent = h.spent + r.spent
        /\ g.late \in 0..1 /\ (g.late = 1 => CtxDone(t))
        /\ g.expired = h.expired /\ g.unsaved = h.unsaved
  BY <1>5, RepliedFields
<1>7. Moves(t, g)
  BY <1>2, <1>3, <1>5, <1>6, StaysTyped DEF Moves
<1>8. g.used <= g.iter * Max(Usage)
  <2>1. PICK m \in Nat : m = Max(Usage)
    BY Bounds
  <2>2. h.iter \in Nat
    BY <1>5, Bounds
  <2>3. (h.iter + 1) * m = h.iter * m + m /\ h.iter * m \in Nat
    BY <2>2
  <2>4. QED
    BY <1>4, <1>5, <1>6, <2>1, <2>3, SMTT(60)
<1>9. g.used <= g.spent
  BY <1>4, <1>5, <1>6
<1>10. /\ g.pc \in {"insert", "call"} /\ (g.pc = "call" => g.calls >= 1 /\ g.calls + g.results <= MaxCalls)
       /\ g.late <= 1
  BY <1>4, <1>6, Bounds
<1>11. Healthy(t, g)
  BY <1>5, <1>6, <1>8, <1>9, <1>10 DEF Healthy, Working
<1>12. QED
  BY <1>1, <1>7, <1>11, GoesOn
\* A frame is sent and the goroutine goes on, or it returns.
LEMMA SendOrReturnOK ==
  ASSUME TypeInv, NEW t \in Turns, TurnInv(t), go[t].pc \in Working,
         NEW g, Healthy(t, g), SendOrReturn(t, g)
  PROVE  StepOK(t)
<1>1. /\ rows' = rows
      /\ engine' = engine /\ posted' = posted /\ req' = req /\ handler' = handler
      /\ since5d' = since5d /\ sinceMonth' = sinceMonth
  BY DEF SendOrReturn, requestVars, tableVars
<1>2. CASE Room(t) /\ Put(t, "delta") /\ go' = [go EXCEPT ![t] = g]
  <2>1. \E f \in Seq(Frames) : Len(f) <= Cap /\ out' = [out EXCEPT ![t] = f]
    BY <1>2, StaysTyped DEF Frames
  <2>2. Moves(t, g)
    BY <1>1, <1>2, <2>1 DEF Moves
  <2>3. QED
    BY <2>2, GoesOn
<1>3. CASE Close(t) /\ out' = out
  <2>1. PICK f \in Seq(Frames) : Len(f) <= Cap /\ out' = [out EXCEPT ![t] = f]
    BY <1>3, StaysTyped
  <2>2. go[t].pc \notin {"none", "closed"}
    BY DEF Working
  <2>3. QED
    BY <1>1, <1>3, <2>1, <2>2, CloseOK
<1>4. QED
  BY <1>2, <1>3 DEF SendOrReturn

\* A tool call is announced.
LEMMA AnnounceOK ==
  ASSUME TypeInv, NEW t \in Turns, TurnInv(t), Announce(t)
  PROVE  StepOK(t)
<1>1. go[t].pc = "call" /\ go[t].pc \in Working
  BY DEF Announce, Working
<1>2. PICK g \in GoRow : g = [go[t] EXCEPT !.pc = "tool"]
  <2>1. PICK g \in GoRow : g = go[t]
    BY GoFields
  <2>2. [g EXCEPT !.pc = "tool"] \in GoRow
    BY DEF GoRow, Pcs
  <2>3. QED
    BY <2>1, <2>2
<1>3. /\ g.pc = "tool" /\ g.messages = go[t].messages /\ g.iter = go[t].iter /\ g.late = go[t].late
      /\ g.calls = go[t].calls /\ g.results = go[t].results
      /\ g.used = go[t].used /\ g.spent = go[t].spent /\ g.unsaved = go[t].unsaved
      /\ g.expired = go[t].expired
  BY <1>2, GoFields DEF GoRow
<1>4. Healthy(t, g)
  BY <1>1, <1>3 DEF TurnInv, CutInv, LoopInv, UseInv, Healthy, Working
<1>5. SendOrReturn(t, g)
  BY <1>2 DEF Announce
<1>6. QED
  BY <1>1, <1>4, <1>5, SendOrReturnOK

\* The messages with tool results.
Answers == {x \in Messages : x.role = "tool"}

\* What a tool's result adds to the chain.
LEMMA ResultsTyped ==
  ASSUME NEW h \in GoRow, h.messages # <<>>, h.calls >= 1, h.calls + h.results <= MaxCalls
  PROVE  ResultsOf(h) \in Seq(Messages) /\ ResultsOf(h) \in Seq(Answers)
<1>1. h.messages \in Seq(Messages) /\ h.calls \in 0..MaxCalls /\ h.results \in 0..MaxCalls
  BY DEF GoRow
<1>2. MaxCalls \in Nat
  BY Bounds
<1>3. PICK n \in 0..MaxTurns : n = Last(h.messages).turn
  <2>1. Last(h.messages) \in Messages
    BY <1>1 DEF Last
  <2>2. QED
    BY <2>1 DEF Messages
<1>4. \A c \in 0..MaxCalls : <<[role |-> "tool", turn |-> n, calls |-> c]>> \in Seq(Answers)
  <2> SUFFICES ASSUME NEW c \in 0..MaxCalls
               PROVE  <<[role |-> "tool", turn |-> n, calls |-> c]>> \in Seq(Answers)
    OBVIOUS
  <2>1. [role |-> "tool", turn |-> n, calls |-> c] \in Answers
    BY DEF Answers, Messages, Roles
  <2>2. QED
    BY <2>1
<1>5. 1 \in 0..MaxCalls /\ h.results + 1 \in 0..MaxCalls
  BY <1>1, <1>2
<1>6. OpenAIResults(h) \in Seq(Answers)
  BY <1>3, <1>4, <1>5 DEF OpenAIResults
<1>7. BundledResults(h) \in Seq(Answers)
  <2>1. <<>> \in Seq(Answers)
    OBVIOUS
  <2>2. <<[role |-> "tool", turn |-> n, calls |-> h.results + 1]>> \in Seq(Answers)
    BY <1>4, <1>5
  <2>3. QED
    BY <1>3, <2>1, <2>2 DEF BundledResults
<1>8. ResultsOf(h) \in Seq(Answers)
  BY <1>6, <1>7 DEF ResultsOf
<1>9. ResultsOf(h) \in Seq(Messages)
  BY <1>8 DEF Answers
<1>10. QED
  BY <1>8, <1>9

\* A tool's result enters the chain; after the last the goroutine asks again, unless it
\* has gone round cfg.MaxIters times.
LEMMA ReportOK ==
  ASSUME TypeInv, NEW t \in Turns, TurnInv(t), Report(t, ResultsOf(go[t]))
  PROVE  StepOK(t)
<1>1. go[t].pc = "tool" /\ go[t].pc \in Working
  BY DEF Report, Working
<1>2. PICK h \in GoRow :
        /\ h = go[t] /\ h.messages # <<>> /\ h.calls >= 1 /\ h.calls + h.results <= MaxCalls
        /\ h.messages \in Seq(Messages) /\ h.iter \in 0..MaxIters
        /\ h.calls \in 0..MaxCalls /\ h.results \in 0..MaxCalls
        /\ h.late <= 1 /\ (h.late = 1 => CtxDone(t))
        /\ h.used <= h.spent
        /\ h.used <= h.iter * Max(Usage)
  BY <1>1, GoFields DEF TurnInv, CutInv, LoopInv, UseInv
<1> DEFINE chain == h.messages \o ResultsOf(h)
           pc == IF h.calls > 1 THEN "call" ELSE Again(h)
<1>3. chain \in Seq(Messages) /\ chain # <<>>
  <2>1. PICK s \in Seq(Messages) : s = ResultsOf(h)
    BY <1>2, ResultsTyped
  <2>2. Len(h.messages) \in Nat /\ Len(h.messages) > 0 /\ Len(s) \in Nat
    BY <1>2
  <2>3. h.messages \o s \in Seq(Messages) /\ Len(h.messages \o s) = Len(h.messages) + Len(s)
    BY <1>2
  <2>4. h.messages \o s # <<>>
    BY <2>2, <2>3
  <2>5. QED
    BY <2>1, <2>3, <2>4
<1>4. /\ pc \in {"call", "ask", "insert"} /\ (pc = "call" => h.calls > 1)
      /\ (pc = "ask" => h.iter < MaxIters)
  BY DEF Again
<1>5. h.calls - 1 \in 0..MaxCalls /\ h.results + 1 \in 0..MaxCalls
      /\ (h.calls - 1) + (h.results + 1) <= MaxCalls
      /\ (h.calls > 1 => h.calls - 1 >= 1)
  <2>1. PICK m \in Nat, c \in Nat, d \in Nat : m = MaxCalls /\ c = h.calls /\ d = h.results /\ c >= 1 /\ c + d <= m
    <3>1. MaxCalls \in Nat /\ h.calls \in 0..MaxCalls /\ h.results \in 0..MaxCalls
          /\ h.calls >= 1 /\ h.calls + h.results <= MaxCalls
      BY <1>2, Bounds
    <3>2. h.calls \in Nat /\ h.results \in Nat
      BY <3>1
    <3>3. QED
      BY <3>1, <3>2, Zenon
  <2>2. c - 1 \in 0..m /\ d + 1 \in 0..m /\ (c - 1) + (d + 1) <= m /\ (c > 1 => c - 1 >= 1)
    BY <2>1
  <2>3. QED
    BY <2>1, <2>2, Zenon
<1>6. SendOrReturn(t, [h EXCEPT !.messages = chain, !.calls = h.calls - 1,
                                !.results = h.results + 1, !.pc = pc])
  BY <1>2 DEF Report
<1> HIDE DEF chain, pc
<1>7. PICK g1 \in GoRow :
        /\ g1 = [h EXCEPT !.messages = chain, !.calls = h.calls - 1]
        /\ g1.messages = chain /\ g1.calls = h.calls - 1
        /\ g1.iter = h.iter /\ g1.late = h.late
        /\ g1.used = h.used /\ g1.spent = h.spent
        /\ g1.expired = h.expired /\ g1.unsaved = h.unsaved
  <2>1. [h EXCEPT !.messages = chain, !.calls = h.calls - 1] \in GoRow
    BY <1>3, <1>5 DEF GoRow
  <2>2. QED
    BY <2>1 DEF GoRow
<1>8. PICK g \in GoRow :
        /\ g = [g1 EXCEPT !.results = h.results + 1, !.pc = pc]
        /\ g.pc = pc /\ g.messages = chain /\ g.calls = h.calls - 1 /\ g.results = h.results + 1
        /\ g.iter = h.iter /\ g.late = h.late
        /\ g.used = h.used /\ g.spent = h.spent
        /\ g.expired = h.expired /\ g.unsaved = h.unsaved
  <2>1. [g1 EXCEPT !.results = h.results + 1, !.pc = pc] \in GoRow
    BY <1>4, <1>5 DEF GoRow, Pcs
  <2>2. QED
    BY <1>7, <2>1 DEF GoRow
<1>9. SendOrReturn(t, g)
  BY <1>6, <1>7, <1>8, Zenon
<1>10. /\ g.pc \in Working \ {"history"} /\ g.pc \notin {"stream", "tool"}
       /\ (g.pc = "ask" => g.iter < MaxIters)
       /\ (g.pc = "call" => g.calls >= 1 /\ g.calls + g.results <= MaxCalls)
  BY <1>4, <1>5, <1>8 DEF Working
<1>11. Healthy(t, g)
  BY <1>2, <1>3, <1>8, <1>10 DEF Healthy
<1>12. QED
  BY <1>1, <1>9, <1>11, SendOrReturnOK

\* A row at the end of the table is the only new one.
LEMMA RowAppended ==
  ASSUME TypeInv, NEW r \in TurnRow, rows' = Append(rows, r)
  PROVE  /\ Len(rows) \in Nat /\ Len(rows') = Len(rows) + 1
         /\ DOMAIN rows = 1..Len(rows) /\ DOMAIN rows' = 1..(Len(rows) + 1)
         /\ rows'[Len(rows) + 1] = r /\ \A i \in DOMAIN rows : rows'[i] = rows[i]
         /\ \A u \in Turns : RowsFor(u)' = RowsFor(u) \cup (IF r.turn = u THEN {Len(rows) + 1} ELSE {})
<1>1. rows \in Seq(TurnRow)
  BY DEF TypeInv
<1>2. /\ Len(rows) \in Nat /\ Len(rows') = Len(rows) + 1
      /\ DOMAIN rows = 1..Len(rows) /\ DOMAIN rows' = 1..(Len(rows) + 1)
      /\ rows'[Len(rows) + 1] = r /\ \A i \in DOMAIN rows : rows'[i] = rows[i]
  BY <1>1
<1>3. \A u \in Turns : RowsFor(u)' = RowsFor(u) \cup (IF r.turn = u THEN {Len(rows) + 1} ELSE {})
  <2> SUFFICES ASSUME NEW u \in Turns, NEW i
               PROVE  i \in RowsFor(u)' <=> i \in RowsFor(u) \cup (IF r.turn = u THEN {Len(rows) + 1} ELSE {})
    OBVIOUS
  <2>1. DOMAIN rows' = DOMAIN rows \cup {Len(rows) + 1} /\ Len(rows) + 1 \notin DOMAIN rows
    BY <1>2
  <2>2. i \in RowsFor(u)' <=> (i \in DOMAIN rows' /\ rows'[i].turn = u)
    BY DEF RowsFor
  <2>3. i \in RowsFor(u) <=> (i \in DOMAIN rows /\ rows[i].turn = u)
    BY DEF RowsFor
  <2>4. CASE i \in DOMAIN rows
    BY <1>2, <2>1, <2>2, <2>3, <2>4
  <2>5. CASE i \notin DOMAIN rows
    BY <1>2, <2>1, <2>2, <2>3, <2>5
  <2>6. QED
    BY <2>4, <2>5
<1>4. QED
  BY <1>2, <1>3
\* The row is written, with its cost, or refused.
LEMMA PersistOK ==
  ASSUME TypeInv, NEW t \in Turns, TurnInv(t), engine # "stub", Persist(t)
  PROVE  StepOK(t)
<1>1. go[t].pc = "insert" /\ go[t].pc \in Working
  BY DEF Persist, Working
<1>2. PICK h \in GoRow :
        /\ h = go[t] /\ h.pc = "insert" /\ h.messages \in Seq(Messages)
        /\ h.iter \in 0..MaxIters /\ h.used \in Nat
        /\ h.late <= 1 /\ (h.late = 1 => CtxDone(t)) /\ ~h.unsaved
        /\ h.used <= h.spent
        /\ h.used <= h.iter * Max(Usage)
  BY <1>1, GoFields DEF TurnInv, CutInv, UseInv, LifeInv
<1>3. /\ engine' = engine /\ posted' = posted /\ req' = req /\ handler' = handler
      /\ since5d' = since5d /\ sinceMonth' = sinceMonth /\ out' = out
  BY DEF Persist, requestVars
<1>4. PICK f \in Seq(Frames) : Len(f) <= Cap /\ out' = [out EXCEPT ![t] = f]
  BY <1>3, StaysTyped
<1>5. RowsFor(t) = {} /\ req[t].box \in Mine /\ req[t].box \in Boxes /\ ~(t > posted)
  <2>1. RowsFor(t) = {}
    BY <1>1 DEF TurnInv, ChargeInv
  <2>2. req[t].box \in Mine /\ req[t].box \in Boxes
    BY <1>1, TurnAssumption DEF TurnInv, LifeInv
  <2>3. ~(t > posted)
    <3>1. Idle.pc = "none"
      BY DEF Idle
    <3>2. QED
      BY <1>1, <3>1 DEF TurnInv, LifeInv
  <2>4. QED
    BY <2>1, <2>2, <2>3
<1>6. /\ "finish" \in Pcs /\ "finish" \notin Working
      /\ "finish" \notin {"history", "ask", "stream", "call", "tool", "none", "stub", "closed"}
  BY DEF Pcs, Working
<1>7. ASSUME NEW g \in GoRow, go' = [go EXCEPT ![t] = g], g.pc = "finish",
             g.late = h.late, g.used = h.used, g.spent = h.spent, g.iter = h.iter,
             g.expired = h.expired,
             rows' = rows \/ \E r \in TurnRow : rows' = Append(rows, r)
      PROVE  /\ TypeInv' /\ go'[t] = g /\ \A u \in Turns : u # t => go'[u] = go[u]
             /\ CutInv(t)' /\ LoopInv(t)' /\ UseInv(t)' /\ LifeInv(t)'
  <2>1. TypeInv' /\ go'[t] = g /\ \A u \in Turns : u # t => go'[u] = go[u]
    BY <1>3, <1>4, <1>7, StepTyped
  <2>2. CutInv(t)'
    BY <1>2, <1>3, <1>6, <1>7, <2>1 DEF CutInv, CtxDone
  <2>3. LoopInv(t)' /\ UseInv(t)'
    BY <1>2, <1>3, <1>6, <1>7, <2>1 DEF LoopInv, UseInv
  <2>4. LifeInv(t)'
    BY <1>3, <1>5, <1>6, <1>7, <2>1 DEF LifeInv
  <2>5. QED
    BY <2>1, <2>2, <2>3, <2>4
<1>8. CASE /\ rows' = rows
           /\ go' = [go EXCEPT ![t] = [go[t] EXCEPT !.pc = "finish", !.unsaved = TRUE]]
  <2>1. PICK g \in GoRow : g = [h EXCEPT !.pc = "finish", !.unsaved = TRUE]
    <3>1. [h EXCEPT !.pc = "finish", !.unsaved = TRUE] \in GoRow
      BY <1>6 DEF GoRow
    <3>2. QED
      BY <3>1
  <2>2. /\ g.pc = "finish" /\ g.late = h.late /\ g.used = h.used /\ g.spent = h.spent
        /\ g.iter = h.iter /\ g.expired = h.expired /\ g.unsaved
    BY <2>1 DEF GoRow
  <2>3. /\ TypeInv' /\ go'[t] = g /\ \A u \in Turns : u # t => go'[u] = go[u]
        /\ CutInv(t)' /\ LoopInv(t)' /\ UseInv(t)' /\ LifeInv(t)'
    BY <1>2, <1>7, <1>8, <2>1, <2>2
  <2>4. ChargeInv(t)'
    BY <1>5, <1>6, <1>8, <2>2, <2>3 DEF ChargeInv, RowsFor
  <2>5. QED
    BY <1>3, <1>6, <1>8, <2>2, <2>3, <2>4 DEF StepOK, TurnInv
<1>9. CASE /\ ~CtxDone(t)
           /\ InsertTurn([turn |-> t, box |-> req[t].box, messages |-> go[t].messages,
                          cost |-> CostCents(go[t].used)])
           /\ Goto(t, "finish")
  <2>1. PICK g \in GoRow : g = [h EXCEPT !.pc = "finish"]
    <3>1. [h EXCEPT !.pc = "finish"] \in GoRow
      BY <1>6 DEF GoRow
    <3>2. QED
      BY <3>1
  <2>2. /\ g.pc = "finish" /\ g.late = h.late /\ g.used = h.used /\ g.spent = h.spent
        /\ g.iter = h.iter /\ g.expired = h.expired /\ ~g.unsaved
    BY <1>2, <2>1 DEF GoRow
  <2>3. go' = [go EXCEPT ![t] = g]
    BY <1>2, <1>9, <2>1 DEF Goto
  <2>4. PICK r \in TurnRow : rows' = Append(rows, r) /\ r.turn = t /\ r.cost = CostCents(h.used)
    <3> DEFINE new == [turn |-> t, box |-> req[t].box, messages |-> h.messages,
                       cost |-> CostCents(h.used)]
    <3>1. new \in TurnRow
      BY <1>2, <1>5, Costs DEF TurnRow
    <3>2. rows' = Append(rows, new)
      BY <1>2, <1>5, <1>9 DEF InsertTurn
    <3>3. QED
      BY <3>1, <3>2
  <2>5. /\ TypeInv' /\ go'[t] = g /\ \A u \in Turns : u # t => go'[u] = go[u]
        /\ CutInv(t)' /\ LoopInv(t)' /\ UseInv(t)' /\ LifeInv(t)'
    BY <1>7, <2>2, <2>3, <2>4
  <2>6. PICK n \in DOMAIN rows' : RowsFor(t)' = {n} /\ rows'[n] = r
    <3>1. /\ Len(rows) \in Nat
          /\ DOMAIN rows' = 1..(Len(rows) + 1)
          /\ rows'[Len(rows) + 1] = r
          /\ RowsFor(t)' = RowsFor(t) \cup (IF r.turn = t THEN {Len(rows) + 1} ELSE {})
      BY <2>4, RowAppended
    <3>2. Len(rows) + 1 \in DOMAIN rows' /\ RowsFor(t)' = {Len(rows) + 1}
      BY <1>5, <2>4, <3>1
    <3>3. QED
      BY <3>1, <3>2
  <2>7. ChargeInv(t)'
    BY <1>6, <2>2, <2>4, <2>5, <2>6 DEF ChargeInv
  <2>8. r.cost <= MaxTurnCost
    BY <1>2, <2>4, TurnCostBounded
  <2>9. Pays(t)
    BY <1>1, <1>9, <2>2, <2>4, <2>5, <2>8 DEF Pays, Chargeable
  <2>10. QED
    BY <1>3, <2>5, <2>7, <2>9 DEF StepOK, TurnInv
<1>10. QED
  BY <1>8, <1>9 DEF Persist

\* The last frame is sent and the goroutine ends.
LEMMA FinishOK ==
  ASSUME TypeInv, NEW t \in Turns, TurnInv(t), Finish(t)
  PROVE  StepOK(t)
<1>1. /\ go[t].pc \notin {"none", "closed"} /\ Close(t) /\ rows' = rows
      /\ engine' = engine /\ posted' = posted /\ req' = req /\ handler' = handler
      /\ since5d' = since5d /\ sinceMonth' = sinceMonth
  BY DEF Finish, requestVars, tableVars
<1>2. PICK f \in Seq(Frames) : Len(f) <= Cap /\ out' = [out EXCEPT ![t] = f]
  BY StaysTyped DEF Finish, Frames
<1>3. QED
  BY <1>1, <1>2, CloseOK

\* The stub has no table and no provider.
LEMMA StubOK ==
  ASSUME TypeInv, NEW t \in Turns, TurnInv(t), engine = "stub", StubRun(t)
  PROVE  StepOK(t)
<1>1. CASE Finish(t)
  BY <1>1, FinishOK
<1>2. CASE ~Finish(t)
  <2>1. /\ go[t].pc = "stub" /\ rows' = rows
        /\ engine' = engine /\ posted' = posted /\ req' = req /\ handler' = handler
        /\ since5d' = since5d /\ sinceMonth' = sinceMonth
    BY <1>2 DEF StubRun, requestVars, tableVars
  <2>2. PICK h \in GoRow :
          /\ h = go[t] /\ h.pc = "stub" /\ h.late <= 1 /\ (h.late = 1 => CtxDone(t))
          /\ ~h.unsaved /\ h.used <= h.spent
          /\ h.used <= h.iter * Max(Usage) /\ h.text \in 0..MaxText
    BY <2>1, GoFields DEF TurnInv, CutInv, UseInv, LifeInv
  <2>3. ~(t > posted) /\ req[t].box \in Mine /\ RowsFor(t) = {}
    <3>1. Idle.pc = "none"
      BY DEF Idle
    <3>2. QED
      BY <2>1, <3>1 DEF TurnInv, LifeInv, ChargeInv
  <2>4. ASSUME NEW g \in GoRow, go' = [go EXCEPT ![t] = g], g.pc \in {"stub", "finish"},
               g.late = h.late, g.used = h.used, g.spent = h.spent, g.iter = h.iter,
               g.expired = h.expired, g.unsaved = h.unsaved,
               NEW f \in Seq(Frames), Len(f) <= Cap, out' = [out EXCEPT ![t] = f]
        PROVE  StepOK(t)
    <3>1. TypeInv' /\ go'[t] = g /\ \A u \in Turns : u # t => go'[u] = go[u]
      BY <2>1, <2>4, StepTyped
    <3>2. CutInv(t)' /\ LoopInv(t)' /\ UseInv(t)'
      BY <2>1, <2>2, <2>4, <3>1 DEF CutInv, CtxDone, LoopInv, UseInv
    <3>3. LifeInv(t)'
      BY <2>1, <2>2, <2>3, <2>4, <3>1 DEF LifeInv
    <3>4. ChargeInv(t)'
      BY <2>1, <2>3, <2>4, <3>1 DEF ChargeInv, RowsFor
    <3>5. QED
      BY <2>1, <2>4, <3>1, <3>2, <3>3, <3>4 DEF StepOK, TurnInv, Working
  <2>5. CASE /\ go[t].text < MaxText /\ Room(t) /\ Put(t, "delta")
             /\ go' = [go EXCEPT ![t] = [go[t] EXCEPT !.text = go[t].text + 1]]
    <3>1. PICK f \in Seq(Frames) : Len(f) <= Cap /\ out' = [out EXCEPT ![t] = f]
      BY <2>5, StaysTyped DEF Frames
    <3>2. h.text + 1 \in 0..MaxText
      BY <2>2, <2>5, TurnAssumption, SMTT(60)
    <3>3. PICK g \in GoRow : g = [h EXCEPT !.text = h.text + 1]
      <4>1. [h EXCEPT !.text = h.text + 1] \in GoRow
        BY <3>2 DEF GoRow
      <4>2. QED
        BY <4>1
    <3>4. /\ g.pc = "stub" /\ g.late = h.late /\ g.used = h.used /\ g.spent = h.spent
          /\ g.iter = h.iter /\ g.expired = h.expired /\ g.unsaved = h.unsaved
      BY <2>2, <3>3 DEF GoRow
    <3>5. go' = [go EXCEPT ![t] = g]
      BY <2>2, <2>5, <3>3
    <3>6. QED
      BY <2>4, <3>1, <3>4, <3>5
  <2>6. CASE Goto(t, "finish") /\ out' = out
    <3>1. PICK f \in Seq(Frames) : Len(f) <= Cap /\ out' = [out EXCEPT ![t] = f]
      BY <2>6, StaysTyped
    <3>2. PICK g \in GoRow : g = [h EXCEPT !.pc = "finish"]
      <4>1. [h EXCEPT !.pc = "finish"] \in GoRow
        BY DEF GoRow, Pcs
      <4>2. QED
        BY <4>1
    <3>3. /\ g.pc = "finish" /\ g.late = h.late /\ g.used = h.used /\ g.spent = h.spent
          /\ g.iter = h.iter /\ g.expired = h.expired /\ g.unsaved = h.unsaved
      BY <3>2 DEF GoRow
    <3>4. go' = [go EXCEPT ![t] = g]
      BY <2>2, <2>6, <3>2 DEF Goto
    <3>5. QED
      BY <2>4, <3>1, <3>3, <3>4
  <2>7. CASE (IF Room(t) THEN Put(t, "last") ELSE UNCHANGED out) /\ Close(t)
    <3>1. PICK f \in Seq(Frames) : Len(f) <= Cap /\ out' = [out EXCEPT ![t] = f]
      BY <2>7, StaysTyped DEF Frames
    <3>2. QED
      BY <2>1, <2>7, <3>1, CloseOK
  <2>8. QED
    BY <1>2, <2>5, <2>6, <2>7 DEF StubRun
<1>3. QED
  BY <1>1, <1>2

\* Every step of an engine.
LEMMA EngineStepOK ==
  ASSUME TypeInv, NEW t \in Turns, TurnInv(t), EngineRun(t)
  PROVE  StepOK(t)
<1>1. CASE engine # "stub" /\ ProviderStep(t)
  <2>1. CASE LoadHistory(t, Prompt, HistoryOf(req[t].box))
    <3>1. HistoryOf(req[t].box) \in Seq(Messages)
      BY HistoriesTyped DEF HistoryOf
    <3>2. Prompt \in Seq(Messages)
      <4>1. [role |-> "system", turn |-> 0, calls |-> 0] \in Messages
        BY Bounds, TurnAssumption DEF Messages, Roles
      <4>2. <<>> \in Seq(Messages) /\ <<[role |-> "system", turn |-> 0, calls |-> 0]>> \in Seq(Messages)
        BY <4>1
      <4>3. QED
        BY <4>2 DEF Prompt
    <3>3. QED
      BY <2>1, <3>1, <3>2, LoadOK
  <2>2. CASE Ask(t)
    BY <2>2, AskOK
  <2>3. CASE Token(t)
    BY <2>3, TokenOK
  <2>4. CASE Reply(t, ReplySet)
    BY <2>4, ReplyOK
  <2>5. CASE Announce(t)
    BY <2>5, AnnounceOK
  <2>6. CASE Report(t, ResultsOf(go[t]))
    BY <2>6, ReportOK
  <2>7. CASE Persist(t)
    BY <1>1, <2>7, PersistOK
  <2>8. CASE Finish(t)
    BY <2>8, FinishOK
  <2>9. QED
    BY <1>1, <2>1, <2>2, <2>3, <2>4, <2>5, <2>6, <2>7, <2>8 DEF ProviderStep
<1>2. CASE engine = "stub" /\ StubRun(t)
  BY <1>2, StubOK
<1>3. QED
  BY <1>1, <1>2, EngineSteps
-----------------------------------------------------------------------------
(* What is spent *)

\* Where the rows are that a window counts.
Counted(from) == {i \in from..Len(rows) : rows[i].box \in Mine}

\* The community modules' sum over a set of places is the one that the lemmas on sums know.
LEMMA SumFunctionIs ==
  ASSUME NEW g, NEW S
  PROVE  SumFunctionOnSet(g, S) = SumOver(g, S)
<1>1. SumFunctionOnSet(g, S) = (CHOOSE sum : IsSum(sum, g, S))[S]
  BY Zenon DEF SumFunctionOnSet, FoldFunctionOnSet, MapThenFoldSet, IsSum, Pick
<1>2. QED
  BY <1>1, SumOverIs

\* So what the gate reads is a sum over the rows that count.
LEMMA SpentIs ==
  ASSUME NEW from
  PROVE  LLMSpentByNamespace(from) = SumOver([i \in DOMAIN rows |-> rows[i].cost], Counted(from))
BY SumFunctionIs DEF LLMSpentByNamespace, Counted

\* The rows that count are in the table, and their costs are numbers.
LEMMA CountedType ==
  ASSUME TypeInv, NEW from \in Nat \ {0}
  PROVE  /\ IsFiniteSet(Counted(from)) /\ Counted(from) \subseteq DOMAIN rows
         /\ \A i \in DOMAIN rows : rows[i].cost \in Nat
         /\ Len(rows) \in Nat /\ DOMAIN rows = 1..Len(rows)
<1>1. rows \in Seq(TurnRow)
  BY DEF TypeInv
<1>2. Len(rows) \in Nat /\ DOMAIN rows = 1..Len(rows) /\ \A i \in DOMAIN rows : rows[i] \in TurnRow
  BY <1>1
<1>3. Counted(from) \subseteq 1..Len(rows)
  BY <1>2 DEF Counted
<1>4. IsFiniteSet(1..Len(rows))
  BY <1>2, FS_Interval
<1>5. \A i \in DOMAIN rows : rows[i].cost \in Nat
  BY <1>2 DEF TurnRow
<1>6. QED
  BY <1>2, <1>3, <1>4, <1>5, FS_Subset

\* What is spent is a number, and less is spent in a shorter window.
LEMMA SpentType ==
  ASSUME TypeInv, NEW from \in Nat \ {0}
  PROVE  /\ LLMSpentByNamespace(from) \in Nat
         /\ \A later \in Nat : from <= later => LLMSpentByNamespace(later) <= LLMSpentByNamespace(from)
<1> DEFINE g == [i \in DOMAIN rows |-> rows[i].cost]
<1>1. \A i \in Counted(from) : g[i] \in Nat
  BY CountedType
<1>2. IsFiniteSet(Counted(from))
  BY CountedType
<1>3. ASSUME NEW later \in Nat, from <= later
      PROVE  LLMSpentByNamespace(later) <= LLMSpentByNamespace(from)
  <2>1. Counted(later) \subseteq Counted(from)
    BY <1>3, CountedType DEF Counted
  <2> HIDE DEF g
  <2>2. SumOver(g, Counted(later)) <= SumOver(g, Counted(from))
    BY <1>1, <1>2, <2>1, SumOverSubset
  <2>3. QED
    BY <2>2, SpentIs DEF g
<1>4. SumOver(g, Counted(from)) \in Nat
  <2> HIDE DEF g
  <2>1. QED
    BY <1>1, <1>2, SumOverType
<1>5. QED
  BY <1>3, <1>4, SpentIs

\* The same of any table.
LEMMA TableSpent ==
  ASSUME NEW rs \in Seq(TurnRow), NEW from \in Nat \ {0}
  PROVE  SumFunctionOnSet([i \in DOMAIN rs |-> rs[i].cost],
                          {i \in from..Len(rs) : rs[i].box \in Mine}) \in Nat
<1> DEFINE g == [i \in DOMAIN rs |-> rs[i].cost]
           S == {i \in from..Len(rs) : rs[i].box \in Mine}
<1>1. Len(rs) \in Nat /\ DOMAIN rs = 1..Len(rs) /\ \A i \in DOMAIN rs : rs[i] \in TurnRow
  OBVIOUS
<1>2. S \subseteq 1..Len(rs)
  BY <1>1
<1>3. \A i \in S : g[i] \in Nat
  BY <1>1, <1>2 DEF TurnRow
<1>4. IsFiniteSet(S)
  <2>1. IsFiniteSet(1..Len(rs))
    BY <1>1, FS_Interval
  <2> HIDE DEF g, S
  <2>2. QED
    BY <1>2, <2>1, FS_Subset
<1> HIDE DEF g, S
<1>5. SumFunctionOnSet(g, S) \in Nat
  BY <1>3, <1>4, SumFunctionIs, SumOverType
<1>6. QED
  BY <1>5 DEF g, S

\* A new row adds at most its cost.
LEMMA SpentAppend ==
  ASSUME TypeInv, NEW from \in Nat \ {0}, from <= Len(rows) + 1,
         NEW r \in TurnRow, rows' = Append(rows, r)
  PROVE  LLMSpentByNamespace(from)' <= LLMSpentByNamespace(from) + r.cost
<1> DEFINE g == [i \in DOMAIN rows |-> rows[i].cost]
           h == [i \in DOMAIN rows' |-> rows'[i].cost]
<1>1. PICK n \in Nat : /\ n = Len(rows) /\ Len(rows') = n + 1
                       /\ DOMAIN rows = 1..n /\ DOMAIN rows' = 1..(n + 1)
                       /\ rows'[n + 1] = r /\ \A i \in 1..n : rows'[i] = rows[i]
  BY RowAppended
<1>2. PICK S : S = Counted(from) /\ IsFiniteSet(S) /\ S \subseteq 1..n
               /\ \A i \in 1..n : rows[i].cost \in Nat
  BY <1>1, CountedType
<1>3. r.cost \in Nat
  BY DEF TurnRow
<1>4. \A i \in S \cup {n + 1} : h[i] \in Nat
  BY <1>1, <1>2, <1>3
<1>5. \A i \in S : g[i] = h[i]
  BY <1>1, <1>2
<1>6. h[n + 1] = r.cost /\ n + 1 \notin S
  BY <1>1, <1>2
<1>7. Counted(from)' = S \cup {n + 1} \/ Counted(from)' = S
  <2>1. from..(n + 1) = (from..n) \cup {n + 1}
    BY <1>1
  <2>2. Counted(from)' = {i \in from..(n + 1) : rows'[i].box \in Mine}
    BY <1>1 DEF Counted
  <2>3. S = {i \in from..n : rows[i].box \in Mine}
    BY <1>1, <1>2 DEF Counted
  <2>4. \A i \in from..n : rows'[i] = rows[i] /\ i # n + 1
    BY <1>1
  <2>5. \A i : i \in S <=> i \in from..n /\ rows'[i].box \in Mine
    BY <2>3, <2>4
  <2>6. CASE rows'[n + 1].box \in Mine
    BY <2>1, <2>2, <2>5, <2>6
  <2>7. CASE rows'[n + 1].box \notin Mine
    BY <2>1, <2>2, <2>5, <2>7
  <2>8. QED
    BY <2>6, <2>7
<1>8. LLMSpentByNamespace(from)' = SumOver(h, Counted(from)')
  BY SumFunctionIs DEF LLMSpentByNamespace, Counted
<1> HIDE DEF g, h
<1>9. SumOver(g, S) = SumOver(h, S)
  BY <1>5, SumOverAgrees
<1>10. SumOver(h, S \cup {n + 1}) = SumOver(h, S) + r.cost
  <2>1. IsFiniteSet(S) /\ n + 1 \notin S
    BY <1>2, <1>6
  <2>2. SumOver(h, S \cup {n + 1}) = SumOver(h, S) + h[n + 1]
    BY <1>4, <2>1, SumOverInsert
  <2>3. QED
    BY <1>6, <2>2
<1>11. SumOver(h, S) \in Nat
  BY <1>2, <1>4, SumOverType
<1>12. LLMSpentByNamespace(from) = SumOver(g, S)
  BY <1>2, SpentIs DEF g
<1>13. CASE Counted(from)' = S
  BY <1>3, <1>8, <1>9, <1>11, <1>12, <1>13
<1>14. CASE Counted(from)' = S \cup {n + 1}
  BY <1>3, <1>8, <1>9, <1>10, <1>11, <1>12, <1>14
<1>15. QED
  BY <1>7, <1>13, <1>14

\* The turns that may still be charged are at most one for each client.
LEMMA OneEach ==
  ASSUME NEW T, NEW client, \A t \in T : client[t] \in Clients,
         \A t \in T, u \in T : client[t] = client[u] => t = u
  PROVE  IsFiniteSet(T) /\ Cardinality(T) <= Cardinality(Clients)
<1> DEFINE f == [t \in T |-> client[t]]
<1>1. f \in Injection(T, Clients)
  <2>1. f \in [T -> Clients]
    OBVIOUS
  <2>2. \A t \in T : f[t] = client[t]
    OBVIOUS
  <2> HIDE DEF f
  <2>3. \A t \in T, u \in T : f[t] = f[u] => t = u
    BY <2>2
  <2>4. QED
    BY <2>1, <2>3 DEF Injection, IsInjective
<1>2. IsFiniteSet(Clients)
  BY TurnAssumption
<1> HIDE DEF f
<1>3. QED
  BY <1>1, <1>2, FS_Injection

\* Finitely many turns can be charged.
LEMMA ChargeableFinite ==
  IsFiniteSet(Turns) /\ IsFiniteSet(Chargeable) /\ Cardinality(Chargeable) \in Nat
  /\ Cardinality(Clients) \in Nat
<1>1. IsFiniteSet(Turns)
  BY TurnAssumption, FS_Interval DEF Turns
<1>2. Chargeable \subseteq Turns
  BY DEF Chargeable
<1>3. QED
  BY <1>1, <1>2, TurnAssumption, FS_Subset, FS_CardinalityType

\* Fewer turns and less spent, or one turn fewer and its cost spent: the total does not grow.
LEMMA TotalFalls ==
  ASSUME NEW spent \in Nat, NEW left \in Nat, NEW spent2 \in Nat, NEW left2 \in Nat,
         NEW M \in Nat, NEW cost \in Nat, cost <= M,
         \/ spent2 <= spent /\ left2 <= left
         \/ spent2 <= spent + cost /\ left2 + 1 <= left
  PROVE  spent2 + left2 * M <= spent + left * M
<1>1. CASE spent2 <= spent /\ left2 <= left
  <2>1. PICK d \in Nat : left = left2 + d
    BY <1>1
  <2>2. left * M = left2 * M + d * M /\ d * M \in Nat /\ left2 * M \in Nat /\ left * M \in Nat
    BY <2>1
  <2>3. QED
    BY <1>1, <2>2
<1>2. CASE spent2 <= spent + cost /\ left2 + 1 <= left
  <2>1. PICK d \in Nat : left = left2 + 1 + d
    BY <1>2
  <2>2. left * M = left2 * M + M + d * M /\ d * M \in Nat /\ left2 * M \in Nat /\ left * M \in Nat
    BY <2>1
  <2>3. QED
    BY <1>2, <2>2
<1>3. QED
  BY <1>1, <1>2
-----------------------------------------------------------------------------
(* The budget *)

\* A step that spends nothing keeps the budget's bound when no turn becomes chargeable;
\* a step that charges a turn keeps it, since that turn cannot be charged again.
LEMMA WithinKept ==
  ASSUME TypeInv, TypeInv', NEW budget \in Int, NEW from \in 1..Len(rows) + 1, NEW later \in Nat, from <= later,
         Within(budget, from),
         \/ rows' = rows /\ Chargeable' \subseteq Chargeable
         \/ /\ later = from
            /\ \E t \in Chargeable :
                 /\ Chargeable' \subseteq Chargeable \ {t}
                 /\ \E r \in TurnRow : rows' = Append(rows, r) /\ r.cost <= MaxTurnCost
  PROVE  Within(budget, later)'
<1> SUFFICES ASSUME budget > 0
             PROVE  LLMSpentByNamespace(later)' + Cardinality(Chargeable') * MaxTurnCost
                      < budget + Cardinality(Clients) * MaxTurnCost
  BY DEF Within
<1>0. from \in Nat \ {0} /\ later \in Nat \ {0} /\ from <= Len(rows) + 1
  <2>1. Len(rows) \in Nat
    BY DEF TypeInv
  <2>2. QED
    BY <2>1
<1>1. PICK M \in Nat, c \in Nat : M = MaxTurnCost /\ c = Cardinality(Clients)
  BY Costs, ChargeableFinite
<1>2. PICK K \in SUBSET Turns : K = Chargeable
  BY DEF Chargeable
<1>3. PICK K2 : K2 = Chargeable'
  OBVIOUS
<1>4. IsFiniteSet(K) /\ Cardinality(K) \in Nat
  BY <1>2, ChargeableFinite
<1>5. PICK s \in Nat : s = LLMSpentByNamespace(from)
  BY <1>0, SpentType
<1>6. PICK s2 : s2 = LLMSpentByNamespace(later)'
  OBVIOUS
<1>7. s + Cardinality(K) * M < budget + c * M
  BY <1>1, <1>2, <1>5 DEF Within
<1>8. s2 \in Nat
  <2>1. rows' \in Seq(TurnRow)
    BY DEF TypeInv
  <2>2. QED
    BY <1>0, <1>6, <2>1, TableSpent DEF LLMSpentByNamespace
<1>9. CASE rows' = rows /\ Chargeable' \subseteq Chargeable
  <2>1. Cardinality(K2) \in Nat /\ Cardinality(K2) <= Cardinality(K)
    BY <1>2, <1>3, <1>4, <1>9, FS_Subset, FS_CardinalityType
  <2>2. s2 = LLMSpentByNamespace(later)
    BY <1>6, <1>9 DEF LLMSpentByNamespace
  <2>3. s2 <= s
    BY <1>0, <1>5, <2>2, SpentType
  <2>4. s2 + Cardinality(K2) * M <= s + Cardinality(K) * M
    BY <1>4, <1>8, <2>1, <2>3, TotalFalls, SMTT(60)
  <2>5. s2 + Cardinality(K2) * M < budget + c * M
    <3>1. PICK x \in Nat, y \in Nat, z \in Nat :
            x = Cardinality(K2) * M /\ y = Cardinality(K) * M /\ z = c * M
      BY <1>4, <2>1
    <3>2. s2 + x <= s + y /\ s + y < budget + z
      BY <1>7, <2>4, <3>1
    <3>3. s2 + x < budget + z
      BY <1>8, <3>2
    <3>4. QED
      BY <3>1, <3>3
  <2>6. QED
    BY <1>1, <1>3, <1>6, <2>5, Zenon
<1>10. ASSUME later = from, NEW t \in Chargeable, Chargeable' \subseteq Chargeable \ {t},
              NEW r \in TurnRow, rows' = Append(rows, r), r.cost <= MaxTurnCost
       PROVE  LLMSpentByNamespace(later)' + Cardinality(Chargeable') * MaxTurnCost
                      < budget + Cardinality(Clients) * MaxTurnCost
  <2>1. Cardinality(K2) \in Nat /\ Cardinality(K2) + 1 <= Cardinality(K)
    <3>1. t \in K /\ K2 \subseteq K \ {t}
      BY <1>2, <1>3, <1>10
    <3>2. IsFiniteSet(K \ {t}) /\ Cardinality(K \ {t}) = Cardinality(K) - 1
      BY <1>4, <3>1, FS_RemoveElement
    <3>3. IsFiniteSet(K2) /\ Cardinality(K2) <= Cardinality(K \ {t})
      BY <3>1, <3>2, FS_Subset
    <3>4. Cardinality(K2) \in Nat
      BY <3>3, FS_CardinalityType
    <3>5. QED
      BY <1>4, <3>2, <3>3, <3>4
  <2>2. r.cost \in Nat
    BY DEF TurnRow
  <2>3. s2 <= s + r.cost
    <3>1. LLMSpentByNamespace(from)' <= LLMSpentByNamespace(from) + r.cost
      BY <1>0, <1>10, SpentAppend
    <3>2. QED
      BY <1>5, <1>6, <1>10, <3>1
  <2>4. s2 + Cardinality(K2) * M <= s + Cardinality(K) * M
    BY <1>1, <1>4, <1>8, <1>10, <2>1, <2>2, <2>3, TotalFalls
  <2>5. s2 + Cardinality(K2) * M < budget + c * M
    <3>1. PICK x \in Nat, y \in Nat, z \in Nat :
            x = Cardinality(K2) * M /\ y = Cardinality(K) * M /\ z = c * M
      BY <1>4, <2>1
    <3>2. s2 + x <= s + y /\ s + y < budget + z
      BY <1>7, <2>4, <3>1
    <3>3. s2 + x < budget + z
      BY <1>8, <3>2
    <3>4. QED
      BY <3>1, <3>3
  <2>6. QED
    BY <1>1, <1>3, <1>6, <2>5, Zenon
<1>11. QED
  BY <1>9, <1>10
-----------------------------------------------------------------------------
(* The steps of the specification *)

\* What a turn's invariant looks at.
LEMMA TurnKept ==
  ASSUME NEW u \in Turns, TurnInv(u), go'[u] = go[u], engine' = engine, req'[u].box = req[u].box,
         CtxDone(u) => CtxDone(u)',
         u > posted' => u > posted /\ handler'[u] = "none",
         RowsFor(u)' = RowsFor(u), \A i \in DOMAIN rows : rows'[i] = rows[i]
  PROVE  TurnInv(u)'
<1>1. CutInv(u)'
  BY DEF TurnInv, CutInv
<1>2. LoopInv(u)' /\ UseInv(u)'
  BY DEF TurnInv, LoopInv, UseInv
<1>3. LifeInv(u)'
  BY DEF TurnInv, LifeInv
<1>4. ChargeInv(u)'
  <2>1. go[u].pc \in Working \cup {"none", "stub"} => RowsFor(u) = {}
    BY DEF TurnInv, ChargeInv
  <2>2. ASSUME go[u].pc = "finish", engine # "stub", ~go[u].unsaved
        PROVE  \E i \in DOMAIN rows' : RowsFor(u)' = {i} /\ rows'[i].cost = CostCents(go'[u].used)
    <3>1. PICK i \in DOMAIN rows : RowsFor(u) = {i} /\ rows[i].cost = CostCents(go[u].used)
      BY <2>2 DEF TurnInv, ChargeInv
    <3>2. i \in RowsFor(u)' /\ rows'[i] = rows[i]
      BY <3>1
    <3>3. i \in DOMAIN rows'
      BY <3>2 DEF RowsFor
    <3>4. QED
      BY <3>1, <3>2, <3>3
  <2>3. go[u].pc = "finish" /\ engine # "stub" /\ go[u].unsaved => RowsFor(u) = {}
    BY DEF TurnInv, ChargeInv
  <2>4. QED
    BY <2>1, <2>2, <2>3 DEF ChargeInv
<1>5. QED
  BY <1>1, <1>2, <1>3, <1>4 DEF TurnInv

\* The budget's bound after a step in which the windows only move on.
LEMMA BudgetKept ==
  ASSUME TypeInv, TypeInv', BudgetInv, since5d <= since5d', sinceMonth <= sinceMonth',
         \/ rows' = rows /\ Chargeable' \subseteq Chargeable
         \/ /\ since5d' = since5d /\ sinceMonth' = sinceMonth
            /\ \E t \in Chargeable :
                 /\ Chargeable' \subseteq Chargeable \ {t}
                 /\ \E r \in TurnRow : rows' = Append(rows, r) /\ r.cost <= MaxTurnCost
  PROVE  BudgetInv'
<1>1. Len(rows) \in Nat /\ Len(rows') \in Nat
  BY DEF TypeInv
<1>2. PICK n \in 1..Len(rows) + 1, n2 \in Nat : n = since5d /\ n2 = since5d' /\ n <= n2
  BY <1>1 DEF TypeInv
<1>3. PICK m \in 1..Len(rows) + 1, m2 \in Nat : m = sinceMonth /\ m2 = sinceMonth' /\ m <= m2
  BY <1>1 DEF TypeInv
<1>4. Within(LLMBudgetCentsPer5d, n) /\ Within(LLMBudgetCentsPerMonth, m)
  BY <1>2, <1>3 DEF BudgetInv
<1>5. LLMBudgetCentsPer5d \in Int /\ LLMBudgetCentsPerMonth \in Int
  BY TurnAssumption
<1>6. Within(LLMBudgetCentsPer5d, n2)'
  <2>1. CASE rows' = rows /\ Chargeable' \subseteq Chargeable
    BY <1>2, <1>4, <1>5, <2>1, WithinKept
  <2>2. CASE ~(rows' = rows /\ Chargeable' \subseteq Chargeable)
    BY <1>2, <1>4, <1>5, <2>2, WithinKept
  <2>3. QED
    BY <2>1, <2>2
<1>7. Within(LLMBudgetCentsPerMonth, m2)'
  <2>1. CASE rows' = rows /\ Chargeable' \subseteq Chargeable
    BY <1>3, <1>4, <1>5, <2>1, WithinKept
  <2>2. CASE ~(rows' = rows /\ Chargeable' \subseteq Chargeable)
    BY <1>3, <1>4, <1>5, <2>2, WithinKept
  <2>3. QED
    BY <2>1, <2>2
<1>8. QED
  BY <1>2, <1>3, <1>6, <1>7 DEF BudgetInv, Within, LLMSpentByNamespace

\* A step that leaves the goroutines and the table alone: the handler's.
LEMMA HandlerStep ==
  ASSUME Inv, go' = go, rows' = rows, engine' = engine, posted' = posted, req' = req,
         since5d' = since5d, sinceMonth' = sinceMonth, TypeInv',
         \A u \in Turns : /\ CtxDone(u) => CtxDone(u)'
                          /\ handler[u] = "none" => handler'[u] = "none"
                          /\ Running(u)' => Running(u)
  PROVE  Inv'
<1>1. TurnsInv'
  <2> SUFFICES ASSUME NEW u \in Turns
               PROVE  TurnInv(u)'
    BY DEF TurnsInv
  <2>1. TurnInv(u)
    BY DEF Inv, TurnsInv
  <2>2. u > posted => handler[u] = "none"
    BY <2>1 DEF TurnInv, LifeInv
  <2>3. RowsFor(u)' = RowsFor(u)
    BY DEF RowsFor
  <2>4. QED
    BY <2>1, <2>2, <2>3, TurnKept
<1>2. ClientInv'
  BY DEF Inv, ClientInv
<1>3. Chargeable' \subseteq Chargeable
  BY DEF Chargeable
<1>4. BudgetInv'
  <2>1. TypeInv /\ BudgetInv /\ since5d <= since5d' /\ sinceMonth <= sinceMonth'
    BY DEF Inv, TypeInv
  <2>2. QED
    BY <1>3, <2>1, BudgetKept
<1>5. QED
  BY <1>1, <1>2, <1>4 DEF Inv
\* An engine's step.
LEMMA EngineInv ==
  ASSUME Inv, NEW t \in Turns, EngineRun(t)
  PROVE  Inv'
<1>1. TypeInv /\ TurnInv(t) /\ BudgetInv
  BY DEF Inv, TurnsInv
<1>2. StepOK(t)
  BY <1>1, EngineStepOK
<1>3. /\ TypeInv' /\ TurnInv(t)'
      /\ engine' = engine /\ posted' = posted /\ req' = req /\ handler' = handler
      /\ since5d' = since5d /\ sinceMonth' = sinceMonth
      /\ \A u \in Turns : u # t => go'[u] = go[u]
  BY <1>2 DEF StepOK
<1>4. \/ rows' = rows
      \/ \E r \in TurnRow : rows' = Append(rows, r) /\ r.turn = t
  BY <1>2 DEF StepOK, Pays
<1>5. TurnsInv'
  <2> SUFFICES ASSUME NEW u \in Turns, u # t
               PROVE  TurnInv(u)'
    BY <1>3 DEF TurnsInv
  <2>1. TurnInv(u) /\ go'[u] = go[u]
    BY <1>3 DEF Inv, TurnsInv
  <2>2. u > posted => handler[u] = "none"
    BY <2>1 DEF TurnInv, LifeInv
  <2>3. RowsFor(u)' = RowsFor(u) /\ \A i \in DOMAIN rows : rows'[i] = rows[i]
    <3>1. CASE rows' = rows
      BY <3>1 DEF RowsFor
    <3>2. ASSUME NEW r \in TurnRow, rows' = Append(rows, r), r.turn = t
          PROVE  RowsFor(u)' = RowsFor(u) /\ \A i \in DOMAIN rows : rows'[i] = rows[i]
      <4>1. /\ RowsFor(u)' = RowsFor(u) \cup (IF r.turn = u THEN {Len(rows) + 1} ELSE {})
            /\ \A i \in DOMAIN rows : rows'[i] = rows[i]
        BY <1>1, <3>2, RowAppended
      <4>2. QED
        BY <3>2, <4>1
    <3>3. QED
      BY <1>4, <3>1, <3>2
  <2>4. CtxDone(u) => CtxDone(u)'
    BY <1>3, <2>1 DEF CtxDone
  <2>5. QED
    BY <1>3, <2>1, <2>2, <2>3, <2>4, TurnKept
<1>6. ClientInv'
  BY <1>3 DEF Inv, ClientInv, Running
<1>7. \A u \in Chargeable' : u # t => u \in Chargeable
  BY <1>3 DEF Chargeable, CtxDone
<1>8. BudgetInv'
  <2>1. CASE /\ rows' = rows
             /\ go'[t].pc \in Working => (go[t].pc \in Working /\ go'[t].expired = go[t].expired)
    <3>1. t \in Chargeable' => t \in Chargeable
      BY <1>3, <2>1 DEF Chargeable, CtxDone
    <3>2. Chargeable' \subseteq Chargeable
      BY <1>7, <3>1
    <3>3. since5d <= since5d' /\ sinceMonth <= sinceMonth'
      BY <1>1, <1>3 DEF TypeInv
    <3>4. QED
      BY <1>1, <1>3, <2>1, <3>2, <3>3, BudgetKept
  <2>2. CASE Pays(t)
    <3>1. t \in Chargeable /\ t \notin Chargeable'
      BY <2>2 DEF Pays, Chargeable, Working
    <3>2. Chargeable' \subseteq Chargeable \ {t}
      BY <1>7, <3>1
    <3>3. since5d <= since5d' /\ sinceMonth <= sinceMonth'
      BY <1>1, <1>3 DEF TypeInv
    <3>4. \E r \in TurnRow : rows' = Append(rows, r) /\ r.cost <= MaxTurnCost
      BY <2>2 DEF Pays
    <3>5. QED
      BY <1>1, <1>3, <3>1, <3>2, <3>3, <3>4, BudgetKept
  <2>3. QED
    BY <1>2, <2>1, <2>2 DEF StepOK
<1>9. QED
  BY <1>3, <1>5, <1>6, <1>8 DEF Inv

\* The handler's steps: a frame is drained, the handler returns, the client hangs up.
LEMMA DrainInv ==
  ASSUME Inv, NEW t \in Turns, Drain(t) \/ HandlerReturns(t) \/ HangUp(t)
  PROVE  Inv'
<1>1. /\ go' = go /\ rows' = rows /\ engine' = engine /\ posted' = posted /\ req' = req
      /\ since5d' = since5d /\ sinceMonth' = sinceMonth
  BY DEF Drain, HandlerReturns, HangUp, requestVars, tableVars
<1>2. TypeInv /\ handler \in [Turns -> {"none", "drain", "gone", "done"}]
      /\ out \in [Turns -> Seq(Frames)] /\ \A u \in Turns : Len(out[u]) <= Cap
  BY DEF Inv, TypeInv
<1>3. PICK w \in {"drain", "gone", "done"} :
        /\ handler' = [handler EXCEPT ![t] = w]
        /\ handler[t] = "drain" \/ handler[t] = "gone"
        /\ w = "drain" => handler[t] = "drain"
  <2>1. CASE Drain(t)
    BY <2>1 DEF Drain, Running
  <2>2. CASE HandlerReturns(t)
    BY <2>2 DEF HandlerReturns, Running
  <2>3. CASE HangUp(t)
    BY <2>3 DEF HangUp
  <2>4. QED
    BY <2>1, <2>2, <2>3
<1>4. out' \in [Turns -> Seq(Frames)] /\ \A u \in Turns : Len(out'[u]) <= Cap
  <2>1. CASE out' = out
    BY <1>2, <2>1
  <2>2. CASE out[t] # <<>> /\ out' = [out EXCEPT ![t] = Tail(out[t])]
    <3>1. PICK s \in Seq(Frames) : s = out[t] /\ s # <<>> /\ Len(s) <= Cap
      BY <1>2, <2>2
    <3>2. Tail(s) \in Seq(Frames) /\ Len(Tail(s)) <= Cap
      BY <3>1, Bounds
    <3>3. QED
      BY <1>2, <2>2, <3>1, <3>2
  <2>3. QED
    BY <2>1, <2>2 DEF Drain, HandlerReturns, HangUp
<1>5. TypeInv'
  <2>1. handler' \in [Turns -> {"none", "drain", "gone", "done"}]
    BY <1>2, <1>3
  <2>2. QED
    BY <1>1, <1>2, <1>4, <2>1 DEF TypeInv
<1>6. \A u \in Turns : /\ CtxDone(u) => CtxDone(u)'
                       /\ handler[u] = "none" => handler'[u] = "none"
                       /\ Running(u)' => Running(u)
  <2> SUFFICES ASSUME NEW u \in Turns
               PROVE  /\ CtxDone(u) => CtxDone(u)'
                      /\ handler[u] = "none" => handler'[u] = "none"
                      /\ Running(u)' => Running(u)
    OBVIOUS
  <2>1. handler'[u] = IF u = t THEN w ELSE handler[u]
    BY <1>2, <1>3
  <2>2. QED
    BY <1>1, <1>3, <2>1 DEF CtxDone, Running
<1>7. QED
  BY <1>1, <1>5, <1>6, HandlerStep

\* The engine's deadline.
LEMMA DeadlineInv ==
  ASSUME Inv, NEW t \in Turns, Deadline(t)
  PROVE  Inv'
<1>1. /\ out' = out /\ rows' = rows /\ engine' = engine /\ posted' = posted /\ req' = req
      /\ handler' = handler /\ since5d' = since5d /\ sinceMonth' = sinceMonth
      /\ go[t].pc \notin {"none", "closed"}
      /\ go' = [go EXCEPT ![t] = [go[t] EXCEPT !.expired = TRUE]]
  BY DEF Deadline, requestVars, tableVars
<1>2. TypeInv /\ BudgetInv /\ \A u \in Turns : TurnInv(u)
  BY DEF Inv, TurnsInv
<1>3. PICK h \in GoRow : h = go[t]
  BY <1>2, GoFields
<1>4. PICK g \in GoRow :
        /\ g = [h EXCEPT !.expired = TRUE]
        /\ g.expired = TRUE /\ g.pc = h.pc /\ g.messages = h.messages /\ g.iter = h.iter
        /\ g.calls = h.calls /\ g.results = h.results /\ g.used = h.used /\ g.spent = h.spent
        /\ g.late = h.late /\ g.unsaved = h.unsaved
  <2>1. [h EXCEPT !.expired = TRUE] \in GoRow
    BY DEF GoRow
  <2>2. QED
    BY <2>1 DEF GoRow
<1>5. go' = [go EXCEPT ![t] = g]
  BY <1>1, <1>3, <1>4
<1>6. TypeInv' /\ go'[t] = g /\ \A u \in Turns : u # t => go'[u] = go[u]
  <2>1. PICK f \in Seq(Frames) : Len(f) <= Cap /\ out' = [out EXCEPT ![t] = f]
    BY <1>1, <1>2, StaysTyped
  <2>2. QED
    BY <1>1, <1>2, <1>5, <2>1, StepTyped
<1>7. TurnsInv'
  <2> SUFFICES ASSUME NEW u \in Turns
               PROVE  TurnInv(u)'
    BY DEF TurnsInv
  <2>1. CASE u = t
    <3>1. TurnInv(t)
      BY <1>2
    <3>2. CutInv(t)'
      BY <1>3, <1>4, <1>6, <3>1 DEF TurnInv, CutInv, CtxDone
    <3>3. LoopInv(t)' /\ UseInv(t)'
      BY <1>1, <1>3, <1>4, <1>6, <3>1 DEF TurnInv, LoopInv, UseInv
    <3>4. LifeInv(t)'
      <4>1. Idle.pc = "none"
        BY DEF Idle
      <4>2. ~(t > posted)
        BY <1>1, <3>1, <4>1 DEF TurnInv, LifeInv
      <4>3. QED
        BY <1>1, <1>3, <1>4, <1>6, <3>1, <4>2 DEF TurnInv, LifeInv
    <3>5. ChargeInv(t)'
      BY <1>1, <1>3, <1>4, <1>6, <3>1 DEF TurnInv, ChargeInv, RowsFor
    <3>6. QED
      BY <2>1, <3>2, <3>3, <3>4, <3>5 DEF TurnInv
  <2>2. CASE u # t
    <3>1. TurnInv(u) /\ go'[u] = go[u]
      BY <1>2, <1>6, <2>2
    <3>2. u > posted => handler[u] = "none"
      BY <3>1 DEF TurnInv, LifeInv
    <3>3. RowsFor(u)' = RowsFor(u) /\ (CtxDone(u) => CtxDone(u)')
      BY <1>1, <3>1 DEF RowsFor, CtxDone
    <3>4. QED
      BY <1>1, <3>1, <3>2, <3>3, TurnKept
  <2>3. QED
    BY <2>1, <2>2
<1>8. ClientInv'
  BY <1>1 DEF Inv, ClientInv, Running
<1>9. BudgetInv'
  <2>1. Chargeable' \subseteq Chargeable
    BY <1>1, <1>4, <1>6 DEF Chargeable, CtxDone
  <2>2. since5d <= since5d' /\ sinceMonth <= sinceMonth'
    BY <1>1, <1>2 DEF TypeInv
  <2>3. QED
    BY <1>1, <1>2, <1>6, <2>1, <2>2, BudgetKept
<1>10. QED
  BY <1>6, <1>7, <1>8, <1>9 DEF Inv

\* The windows move on.
LEMMA WindowInv ==
  ASSUME Inv, FiveDaysPass \/ NewMonth
  PROVE  Inv'
<1>1. /\ out' = out /\ rows' = rows /\ engine' = engine /\ posted' = posted /\ req' = req
      /\ handler' = handler /\ go' = go
  BY DEF FiveDaysPass, NewMonth, requestVars
<1>2. TypeInv /\ BudgetInv /\ \A u \in Turns : TurnInv(u)
  BY DEF Inv, TurnsInv
<1>3. /\ since5d <= since5d' /\ sinceMonth <= sinceMonth'
      /\ since5d' \in 1..Len(rows) + 1 /\ sinceMonth' \in 1..Len(rows) + 1
  <2>1. Len(rows) \in Nat /\ since5d \in 1..Len(rows) + 1 /\ sinceMonth \in 1..Len(rows) + 1
    BY <1>2 DEF TypeInv
  <2>2. QED
    BY <2>1 DEF FiveDaysPass, NewMonth
<1>4. TypeInv'
  BY <1>1, <1>2, <1>3 DEF TypeInv
<1>5. TurnsInv'
  <2> SUFFICES ASSUME NEW u \in Turns
               PROVE  TurnInv(u)'
    BY DEF TurnsInv
  <2>1. TurnInv(u) /\ (u > posted => handler[u] = "none")
    BY <1>2 DEF TurnInv, LifeInv
  <2>2. RowsFor(u)' = RowsFor(u) /\ (CtxDone(u) => CtxDone(u)')
    BY <1>1 DEF RowsFor, CtxDone
  <2>3. QED
    BY <1>1, <2>1, <2>2, TurnKept
<1>6. ClientInv'
  BY <1>1 DEF Inv, ClientInv, Running
<1>7. BudgetInv'
  <2>1. Chargeable' \subseteq Chargeable
    BY <1>1 DEF Chargeable, CtxDone
  <2>2. QED
    BY <1>1, <1>2, <1>3, <1>4, <2>1, BudgetKept
<1>8. QED
  BY <1>4, <1>5, <1>6, <1>7 DEF Inv
\* A request that is refused, or admitted: then the gate has read less than the budget in
\* both windows, and no client has two turns.
LEMMA RequestInv ==
  ASSUME Inv, NEW c \in Clients, NEW b \in Boxes, aiTurn(c, b)
  PROVE  Inv'
<1>1. PICK t \in Turns : t = posted + 1
  BY DEF aiTurn
<1>2. /\ \A u \in Turns : ~(req[u].client = c /\ Running(u))
      /\ posted' = t
      /\ req' = [req EXCEPT ![t] = [client |-> c, box |-> b]]
      /\ engine' = engine /\ rows' = rows /\ since5d' = since5d /\ sinceMonth' = sinceMonth
      /\ out' = out
  BY <1>1 DEF aiTurn, tableVars
<1>3. TypeInv /\ ClientInv /\ BudgetInv /\ \A u \in Turns : TurnInv(u)
  BY DEF Inv, TurnsInv
<1>4. /\ handler \in [Turns -> {"none", "drain", "gone", "done"}] /\ go \in [Turns -> GoRow]
      /\ req \in [Turns -> RequestRow] /\ posted \in 0..MaxTurns /\ posted \in Nat
  BY <1>3, TurnAssumption DEF TypeInv
<1>5. t > posted /\ go[t] = Idle /\ handler[t] = "none" /\ t \in 0..MaxTurns /\ t \in Nat
  <2>1. t > posted /\ t \in 0..MaxTurns /\ t \in Nat
    BY <1>1, <1>4, TurnAssumption DEF Turns
  <2>2. QED
    BY <1>3, <2>1 DEF TurnInv, LifeInv
<1>6. RowsFor(t) = {}
  BY <1>3, <1>5 DEF TurnInv, ChargeInv, Idle
<1>7. req' \in [Turns -> RequestRow] /\ req'[t].client = c /\ req'[t].box = b
      /\ \A u \in Turns : u # t => req'[u] = req[u]
  <2>1. PICK r \in RequestRow : r = [client |-> c, box |-> b] /\ r.client = c /\ r.box = b
    <3>1. [client |-> c, box |-> b] \in RequestRow
      BY DEF RequestRow
    <3>2. QED
      BY <3>1
  <2>2. QED
    BY <1>2, <1>4, <2>1
<1>8. PICK w \in {"drain", "done"}, pc \in {"none", "stub", "history"} :
        /\ handler' = [handler EXCEPT ![t] = w]
        /\ go' = [go EXCEPT ![t] = [Idle EXCEPT !.pc = pc]]
        /\ w = "drain" => b \in Mine /\ CheckLLM /\ pc # "none"
        /\ w = "done" => pc = "none"
  <2>1. CASE /\ b \in Mine /\ CheckLLM
             /\ handler' = [handler EXCEPT ![t] = "drain"]
             /\ go' = [go EXCEPT ![t].pc = IF engine = "stub" THEN "stub" ELSE "history"]
    <3>1. PICK pc \in {"stub", "history"} : pc = IF engine = "stub" THEN "stub" ELSE "history"
      OBVIOUS
    <3>2. go' = [go EXCEPT ![t] = [Idle EXCEPT !.pc = pc]]
      BY <1>5, <2>1, <3>1, Zenon
    <3>3. QED
      BY <2>1, <3>2
  <2>2. CASE handler' = [handler EXCEPT ![t] = "done"] /\ go' = go
    <3>1. Idle = [Idle EXCEPT !.pc = "none"]
      BY DEF Idle
    <3>2. go' = [go EXCEPT ![t] = [Idle EXCEPT !.pc = "none"]]
      BY <1>4, <1>5, <2>2, <3>1
    <3>3. QED
      BY <2>2, <3>2
  <2>3. QED
    BY <1>1, <2>1, <2>2 DEF aiTurn
<1>9. PICK g \in GoRow :
        /\ g = [Idle EXCEPT !.pc = pc] /\ (pc = "none" => g = Idle)
        /\ g.pc = pc /\ g.iter = 0 /\ g.used = 0 /\ g.spent = 0 /\ g.late = 0
        /\ g.expired = FALSE /\ g.unsaved = FALSE
  <2>1. PICK g0 \in GoRow :
          /\ g0 = Idle /\ g0.pc = "none" /\ g0.iter = 0 /\ g0.used = 0 /\ g0.spent = 0 /\ g0.late = 0
          /\ g0.expired = FALSE /\ g0.unsaved = FALSE
    BY IdleTyped DEF Idle
  <2>2. pc \in Pcs
    BY DEF Pcs
  <2>3. [g0 EXCEPT !.pc = pc] \in GoRow
    BY <2>2 DEF GoRow
  <2>4. pc = "none" => [g0 EXCEPT !.pc = pc] = g0
    BY <2>1 DEF GoRow
  <2>5. QED
    BY <2>1, <2>3, <2>4 DEF GoRow
<1>10. /\ go' = [go EXCEPT ![t] = g] /\ go' \in [Turns -> GoRow] /\ go'[t] = g
       /\ \A u \in Turns : u # t => go'[u] = go[u]
  BY <1>4, <1>8, <1>9
<1>11. /\ handler' \in [Turns -> {"none", "drain", "gone", "done"}] /\ handler'[t] = w
       /\ \A u \in Turns : u # t => handler'[u] = handler[u]
  BY <1>4, <1>8
<1>12. TypeInv'
  BY <1>2, <1>3, <1>5, <1>7, <1>10, <1>11 DEF TypeInv
<1>13. TurnsInv'
  <2> SUFFICES ASSUME NEW u \in Turns
               PROVE  TurnInv(u)'
    BY DEF TurnsInv
  <2>1. CASE u = t
    <3>1. CutInv(t)'
      BY <1>9, <1>10 DEF CutInv
    <3>2. LoopInv(t)'
      BY <1>8, <1>9, <1>10 DEF LoopInv
    <3>3. UseInv(t)'
      <4>1. 0 * Max(Usage) = 0
        BY Bounds
      <4>2. QED
        BY <1>9, <1>10, <4>1 DEF UseInv
    <3>4. LifeInv(t)'
      <4>1. ~(t > posted')
        BY <1>2, <1>5
      <4>2. QED
        BY <1>7, <1>8, <1>9, <1>10, <4>1 DEF LifeInv
    <3>5. ChargeInv(t)'
      <4>1. RowsFor(t)' = {}
        BY <1>2, <1>6 DEF RowsFor
      <4>2. QED
        BY <1>8, <1>9, <1>10, <4>1 DEF ChargeInv
    <3>6. QED
      BY <2>1, <3>1, <3>2, <3>3, <3>4, <3>5 DEF TurnInv
  <2>2. CASE u # t
    <3>1. TurnInv(u) /\ go'[u] = go[u] /\ req'[u].box = req[u].box /\ handler'[u] = handler[u]
      BY <1>3, <1>7, <1>10, <1>11, <2>2
    <3>2. u > posted' => u > posted
      <4>1. u \in Nat
        BY TurnAssumption DEF Turns
      <4>2. QED
        BY <1>2, <1>4, <1>5, <4>1
    <3>3. u > posted' => handler'[u] = "none"
      BY <3>1, <3>2 DEF TurnInv, LifeInv
    <3>4. RowsFor(u)' = RowsFor(u) /\ (CtxDone(u) => CtxDone(u)')
      BY <1>2, <3>1 DEF RowsFor, CtxDone
    <3>5. QED
      BY <1>2, <3>1, <3>2, <3>3, <3>4, TurnKept
  <2>3. QED
    BY <2>1, <2>2
<1>14. ClientInv'
  <2>1. \A u \in Turns : Running(u)' => req'[u].client \in Clients
    BY <1>3, <1>7, <1>11 DEF ClientInv, Running
  <2>2. \A u \in Turns : u # t /\ Running(u)' => Running(u) /\ req'[u].client = req[u].client
                                                 /\ req[u].client # c
    BY <1>2, <1>7, <1>11 DEF Running
  <2>3. ASSUME NEW u \in Turns, NEW v \in Turns,
               Running(u)', Running(v)', req'[u].client = req'[v].client
        PROVE  u = v
    <3>1. CASE u = t
      BY <1>7, <2>2, <2>3, <3>1
    <3>2. CASE v = t
      BY <1>7, <2>2, <2>3, <3>2
    <3>3. CASE u # t /\ v # t
      BY <1>3, <2>2, <2>3, <3>3 DEF ClientInv
    <3>4. QED
      BY <3>1, <3>2, <3>3
  <2>4. QED
    BY <2>1, <2>3 DEF ClientInv
<1>15. BudgetInv'
  <2>1. CASE w = "done"
    <3>1. t \notin Chargeable'
      BY <1>8, <1>9, <1>10, <2>1 DEF Chargeable, Working
    <3>2. Chargeable' \subseteq Chargeable
      BY <1>10, <1>11, <3>1 DEF Chargeable, CtxDone
    <3>3. since5d <= since5d' /\ sinceMonth <= sinceMonth'
      BY <1>2, <1>3 DEF TypeInv
    <3>4. QED
      BY <1>2, <1>3, <1>12, <3>2, <3>3, BudgetKept
  <2>2. CASE w = "drain"
    <3>1. PICK K : K = Chargeable'
      OBVIOUS
    <3>2. IsFiniteSet(K) /\ Cardinality(K) <= Cardinality(Clients) /\ Cardinality(K) \in Nat
      <4>1. PICK client : client = [u \in Turns |-> req'[u].client]
        OBVIOUS
      <4>2. \A u \in K : u \in Turns /\ Running(u)'
        BY <1>11, <3>1 DEF Chargeable, CtxDone, Running
      <4>3. \A u \in K : client[u] \in Clients
        BY <1>14, <4>1, <4>2 DEF ClientInv
      <4>4. \A u \in K, v \in K : client[u] = client[v] => u = v
        BY <1>14, <4>1, <4>2 DEF ClientInv
      <4>5. QED
        BY <4>3, <4>4, OneEach, FS_CardinalityType
    <3>3. PICK M \in Nat, n \in Nat : M = MaxTurnCost /\ n = Cardinality(Clients)
      BY Costs, ChargeableFinite
    <3>4. PICK k \in Nat : k = Cardinality(K) /\ k <= n
      BY <3>2, <3>3
    <3>5. k * M <= n * M /\ k * M \in Nat /\ n * M \in Nat
      <4>1. PICK d \in Nat : n = k + d
        <5>1. n - k \in Nat /\ n = k + (n - k)
          BY <3>4
        <5>2. QED
          BY <5>1
      <4>2. n * M = k * M + d * M /\ d * M \in Nat /\ k * M \in Nat
        BY <4>1
      <4>3. n * M \in Nat
        BY <4>2
      <4>4. QED
        BY <4>2, <4>3
    <3>6. ASSUME NEW budget \in Int, NEW s \in Nat, budget >= 0 => s < budget
          PROVE  budget > 0 => s + k * M < budget + n * M
      BY <3>5, <3>6
    <3>7. Len(rows) \in Nat /\ since5d \in 1..Len(rows) + 1 /\ sinceMonth \in 1..Len(rows) + 1
      BY <1>3 DEF TypeInv
    <3>8. LLMSpentByNamespace(since5d) \in Nat /\ LLMSpentByNamespace(sinceMonth) \in Nat
      <4>1. since5d \in Nat \ {0} /\ sinceMonth \in Nat \ {0}
        BY <3>7
      <4>2. QED
        BY <1>3, <4>1, SpentType
    <3>9. LLMSpentByNamespace(since5d)' = LLMSpentByNamespace(since5d)
          /\ LLMSpentByNamespace(sinceMonth)' = LLMSpentByNamespace(sinceMonth)
      BY <1>2 DEF LLMSpentByNamespace
    <3>10. LLMBudgetCentsPer5d \in Int /\ LLMBudgetCentsPerMonth \in Int
      BY TurnAssumption
    <3>11. CheckLLM
      BY <1>8, <2>2
    <3>12. LLMBudgetCentsPer5d > 0 => LLMSpentByNamespace(since5d) + k * M < LLMBudgetCentsPer5d + n * M
      BY <3>6, <3>8, <3>10, <3>11 DEF CheckLLM
    <3>13. LLMBudgetCentsPerMonth > 0 => LLMSpentByNamespace(sinceMonth) + k * M < LLMBudgetCentsPerMonth + n * M
      BY <3>6, <3>8, <3>10, <3>11 DEF CheckLLM
    <3>14. QED
      BY <3>1, <3>3, <3>4, <3>9, <3>12, <3>13, Zenon DEF BudgetInv, Within
  <2>3. QED
    BY <1>8, <2>1, <2>2
<1>16. QED
  BY <1>12, <1>13, <1>14, <1>15 DEF Inv

\* The process dies: every goroutine is gone and no context is left.
LEMMA RestartInv ==
  ASSUME Inv, Restart
  PROVE  Inv'
<1>1. /\ rows' = rows /\ engine' = engine /\ posted' = posted /\ req' = req
      /\ since5d' = since5d /\ sinceMonth' = sinceMonth
      /\ handler' = [u \in Turns |-> IF Running(u) THEN "done" ELSE handler[u]]
      /\ go' = [u \in Turns |-> IF go[u].pc = "none" THEN go[u] ELSE Ended]
      /\ out' = [u \in Turns |-> <<>>]
  BY DEF Restart, requestVars, tableVars, Ended
<1>2. TypeInv /\ BudgetInv /\ \A u \in Turns : TurnInv(u)
  BY DEF Inv, TurnsInv
<1>3. /\ handler \in [Turns -> {"none", "drain", "gone", "done"}] /\ go \in [Turns -> GoRow]
  BY <1>2 DEF TypeInv
<1>4. \A u \in Turns : /\ handler'[u] \in {"none", "done"} /\ (handler[u] = "none" => handler'[u] = "none")
                       /\ ~Running(u)' /\ CtxDone(u)'
  BY <1>1, <1>3 DEF Running, CtxDone
<1>5. \A u \in Turns : go'[u] = go[u] \/ (go'[u] = Ended /\ go[u].pc # "none")
  BY <1>1
<1>6. TypeInv'
  <2>1. handler' \in [Turns -> {"none", "drain", "gone", "done"}]
    BY <1>1, <1>3
  <2>2. go' \in [Turns -> GoRow]
    BY <1>1, <1>3, IdleTyped
  <2>3. out' \in [Turns -> Seq(Frames)] /\ \A u \in Turns : Len(out'[u]) <= Cap
    BY <1>1, Bounds
  <2>4. QED
    BY <1>1, <1>2, <2>1, <2>2, <2>3 DEF TypeInv
<1>7. TurnsInv'
  <2> SUFFICES ASSUME NEW u \in Turns
               PROVE  TurnInv(u)'
    BY DEF TurnsInv
  <2>1. TurnInv(u) /\ RowsFor(u)' = RowsFor(u)
    BY <1>1, <1>2 DEF RowsFor
  <2>2. CASE go'[u] = go[u]
    <3>1. u > posted => handler'[u] = "none"
      BY <1>4, <2>1 DEF TurnInv, LifeInv
    <3>2. QED
      BY <1>1, <1>4, <2>1, <2>2, <3>1, TurnKept
  <2>3. CASE go'[u] = Ended /\ go[u].pc # "none"
    <3>1. ~(u > posted)
      <4>1. Idle.pc = "none"
        BY DEF Idle
      <4>2. QED
        BY <2>1, <2>3, <4>1 DEF TurnInv, LifeInv
    <3>2. /\ Ended.pc = "closed" /\ Ended.late = 0 /\ Ended.used = 0 /\ Ended.spent = 0
          /\ Ended.iter = 0 /\ Ended.unsaved = FALSE /\ 0 * Max(Usage) = 0
      BY Bounds DEF Ended, Idle
    <3>3. CutInv(u)' /\ LoopInv(u)' /\ UseInv(u)'
      BY <2>3, <3>2 DEF CutInv, LoopInv, UseInv
    <3>4. LifeInv(u)' /\ ChargeInv(u)'
      BY <1>1, <2>3, <3>1, <3>2 DEF LifeInv, ChargeInv, Working
    <3>5. QED
      BY <3>3, <3>4 DEF TurnInv
  <2>4. QED
    BY <1>5, <2>2, <2>3
<1>8. ClientInv'
  BY <1>4 DEF ClientInv
<1>9. BudgetInv'
  <2>1. Chargeable' \subseteq Chargeable
    BY <1>4 DEF Chargeable
  <2>2. since5d <= since5d' /\ sinceMonth <= sinceMonth'
    BY <1>1, <1>2 DEF TypeInv
  <2>3. QED
    BY <1>1, <1>2, <1>6, <2>1, <2>2, BudgetKept
<1>10. QED
  BY <1>6, <1>7, <1>8, <1>9 DEF Inv
\* The invariant holds when the relay starts.
LEMMA InitInv ==
  ASSUME Init
  PROVE  Inv
<1>1. /\ rows = <<>> /\ since5d = 1 /\ sinceMonth = 1 /\ posted = 0
      /\ req = [t \in Turns |-> [client |-> NoClient, box |-> NoBox]]
      /\ handler = [t \in Turns |-> "none"]
      /\ go = [t \in Turns |-> Idle]
      /\ out = [t \in Turns |-> <<>>]
  BY DEF Init
<1>2. Len(rows) = 0 /\ DOMAIN rows = {} /\ rows \in Seq(TurnRow)
  BY <1>1
<1>3. TypeInv
  <2>1. engine \in {"stub", "openai", "anthropic", "gemini"}
    <3>1. PICK d \in Deployments : engine = WireEngine(d) /\ engine # "fatal"
      BY DEF Init
    <3>2. WireEngine(d) \in {"stub", "openai", "anthropic", "gemini", "fatal"}
      BY DEF WireEngine, NewOpenAIEngine, NewAnthropicEngine, NewGeminiEngine
    <3>3. QED
      BY <3>1, <3>2
  <2>2. since5d \in 1..Len(rows) + 1 /\ sinceMonth \in 1..Len(rows) + 1 /\ posted \in 0..MaxTurns
    BY <1>1, <1>2, TurnAssumption
  <2>3. req \in [Turns -> RequestRow]
    BY <1>1 DEF RequestRow
  <2>4. go \in [Turns -> GoRow]
    BY <1>1, IdleTyped
  <2>5. out \in [Turns -> Seq(Frames)] /\ \A t \in Turns : Len(out[t]) <= Cap
    BY <1>1, Bounds
  <2>6. handler \in [Turns -> {"none", "drain", "gone", "done"}]
    BY <1>1
  <2>7. QED
    BY <1>2, <2>1, <2>2, <2>3, <2>4, <2>5, <2>6 DEF TypeInv
<1>4. TurnsInv
  <2> SUFFICES ASSUME NEW t \in Turns
               PROVE  TurnInv(t)
    BY DEF TurnsInv
  <2>1. go[t] = Idle /\ handler[t] = "none"
    BY <1>1
  <2>2. /\ Idle.pc = "none" /\ Idle.late = 0 /\ Idle.used = 0 /\ Idle.spent = 0
        /\ Idle.iter = 0 /\ Idle.unsaved = FALSE /\ 0 * Max(Usage) = 0
    BY Bounds DEF Idle
  <2>3. CutInv(t) /\ LoopInv(t) /\ UseInv(t)
    BY <2>1, <2>2 DEF CutInv, LoopInv, UseInv
  <2>4. LifeInv(t) /\ ChargeInv(t)
    BY <1>2, <2>1, <2>2 DEF LifeInv, ChargeInv, RowsFor
  <2>5. QED
    BY <2>3, <2>4 DEF TurnInv
<1>5. ClientInv
  BY <1>1 DEF ClientInv, Running
<1>6. BudgetInv
  <2>1. Chargeable = {}
    BY <1>1 DEF Chargeable, CtxDone
  <2>2. Cardinality(Chargeable) = 0
    BY <2>1, FS_EmptySet
  <2>3. LLMSpentByNamespace(1) = 0
    <3>1. Counted(1) = {}
      BY <1>2 DEF Counted
    <3>2. SumOver([i \in DOMAIN rows |-> rows[i].cost], {}) = 0
      BY FS_EmptySet, SumOverType
    <3>3. QED
      BY <3>1, <3>2, SpentIs
  <2>4. PICK M \in Nat, n \in Nat : M = MaxTurnCost /\ n = Cardinality(Clients)
    BY Costs, ChargeableFinite
  <2>5. n * M \in Nat /\ 0 * M = 0
    BY <2>4
  <2>6. \A budget \in Int : budget > 0 => 0 + 0 * M < budget + n * M
    BY <2>5
  <2>7. QED
    BY <1>1, <2>2, <2>3, <2>4, <2>6, TurnAssumption DEF BudgetInv, Within
<1>7. QED
  BY <1>3, <1>4, <1>5, <1>6 DEF Inv

\* Every step keeps the invariant.
LEMMA NextInv ==
  ASSUME Inv, [Next]_vars
  PROVE  Inv'
<1>1. CASE UNCHANGED vars
  <2>1. /\ go' = go /\ rows' = rows /\ engine' = engine /\ posted' = posted /\ req' = req
        /\ since5d' = since5d /\ sinceMonth' = sinceMonth /\ handler' = handler /\ out' = out
    BY <1>1 DEF vars
  <2>2. TypeInv'
    BY <2>1 DEF Inv, TypeInv
  <2>3. \A u \in Turns : /\ CtxDone(u) => CtxDone(u)'
                         /\ handler[u] = "none" => handler'[u] = "none"
                         /\ Running(u)' => Running(u)
    BY <2>1 DEF CtxDone, Running
  <2>4. QED
    BY <2>1, <2>2, <2>3, HandlerStep
<1>2. ASSUME NEW c \in Clients, NEW b \in Boxes, aiTurn(c, b)
      PROVE  Inv'
  BY <1>2, RequestInv
<1>3. ASSUME NEW t \in Turns, Drain(t) \/ HandlerReturns(t) \/ HangUp(t)
      PROVE  Inv'
  BY <1>3, DrainInv
<1>4. ASSUME NEW t \in Turns, Deadline(t)
      PROVE  Inv'
  BY <1>4, DeadlineInv
<1>5. ASSUME NEW t \in Turns, EngineRun(t)
      PROVE  Inv'
  BY <1>5, EngineInv
<1>6. CASE FiveDaysPass \/ NewMonth
  BY <1>6, WindowInv
<1>7. CASE Restart
  BY <1>7, RestartInv
<1>8. QED
  BY <1>1, <1>2, <1>3, <1>4, <1>5, <1>6, <1>7 DEF Next

-----------------------------------------------------------------------------
(* Theorems *)

\* The inductive invariant of the turns: in every reachable state the variables have
\* their types, a goroutine takes at most one reply after its context ended, the table
\* has its row once or not at all, and what is spent with what may still be charged
\* stays below the budget and one turn for each client (ai.go:98, openai_engine.go:257).
THEOREM TurnCorrect == Spec => []Inv
<1>1. Init => Inv
  BY InitInv
<1>2. Inv /\ [Next]_vars => Inv'
  BY NextInv
<1>3. QED
  BY <1>1, <1>2, PTL DEF Spec

\* The variables keep their types: no channel holds more than its capacity, no goroutine
\* goes round its loop more than cfg.MaxIters times (openai_engine.go:212).
THEOREM TurnTypes == Spec => []TypeOK
<1>1. Inv => TypeOK
  <2> SUFFICES ASSUME TypeInv
               PROVE  TypeOK
    BY DEF Inv
  <2>1. \A i \in DOMAIN rows :
          /\ rows[i].turn \in Turns /\ rows[i].box \in Boxes /\ rows[i].cost \in Nat
          /\ rows[i].messages \in Seq(Messages)
    <3>1. \A i \in DOMAIN rows : rows[i] \in TurnRow
      BY DEF TypeInv
    <3>2. QED
      BY <3>1 DEF TurnRow
  <2>2. \A t \in Turns :
          /\ go[t].pc \in Pcs /\ go[t].messages \in Seq(Messages)
          /\ go[t].iter \in 0..MaxIters /\ go[t].calls \in 0..MaxCalls
          /\ go[t].results \in 0..MaxCalls /\ go[t].text \in 0..MaxText
          /\ go[t].used \in Nat /\ go[t].spent \in Nat /\ go[t].late \in Nat
          /\ go[t].said \in BOOLEAN /\ go[t].expired \in BOOLEAN /\ go[t].unsaved \in BOOLEAN
    BY GoFields
  <2>3. \A t \in Turns : out[t] \in Seq({"delta", "last"}) /\ Len(out[t]) <= Cap
    BY DEF TypeInv, Frames
  <2>4. QED
    BY <2>1, <2>2, <2>3 DEF TypeInv, TypeOK, Pcs, RequestRow
<1>2. QED
  BY <1>1, TurnCorrect, PTL

\* After the client hung up, or the deadline passed, a turn takes at most the one reply
\* that was already under way (ai.go:137).
THEOREM OneReply == Spec => []OneReplyAfterCut
<1>1. Inv => OneReplyAfterCut
  BY DEF Inv, TurnsInv, TurnInv, CutInv, OneReplyAfterCut
<1>2. QED
  BY <1>1, TurnCorrect, PTL

\* A turn that tells its client that it finished has one row, which charges exactly what
\* its engine was told and so no more than the provider consumed, unless the row was
\* refused (openai_engine.go:257).  The engine may have been told less, or nothing.
THEOREM ChargedOnce == Spec => []FinishedIsCharged
<1>1. Inv => FinishedIsCharged
  <2> SUFFICES ASSUME Inv, NEW t \in Turns, go[t].pc = "finish", engine # "stub"
               PROVE  LET charged == {rows[i].cost : i \in RowsFor(t)}
                      IN /\ Cardinality(RowsFor(t)) = (IF go[t].unsaved THEN 0 ELSE 1)
                         /\ charged \subseteq {CostCents(go[t].used)}
                         /\ go[t].used <= go[t].spent
    BY DEF FinishedIsCharged
  <2>1. ChargeInv(t) /\ go[t].used <= go[t].spent
    BY DEF Inv, TurnsInv, TurnInv, UseInv
  <2>2. CASE go[t].unsaved
    <3>1. RowsFor(t) = {}
      BY <2>1, <2>2 DEF ChargeInv
    <3>2. Cardinality(RowsFor(t)) = 0
      BY <3>1, FS_EmptySet
    <3>3. QED
      BY <2>1, <2>2, <3>1, <3>2
  <2>3. CASE ~go[t].unsaved
    <3>1. PICK i \in DOMAIN rows : RowsFor(t) = {i} /\ rows[i].cost = CostCents(go[t].used)
      BY <2>1, <2>3 DEF ChargeInv
    <3>2. Cardinality(RowsFor(t)) = 1
      BY <3>1, FS_Singleton
    <3>3. {rows[j].cost : j \in RowsFor(t)} = {CostCents(go[t].used)}
      BY <3>1
    <3>4. QED
      BY <2>1, <2>3, <3>2, <3>3
  <2>4. QED
    BY <2>2, <2>3
<1>2. QED
  BY <1>1, TurnCorrect, PTL

\* Turns that pass the gate together overspend a window by less than one turn for each
\* client, however many there are and however long they run (ai.go:98, billing's gate).
THEOREM LLMOvershoot == Spec => []LLMOvershootBounded
<1>1. Inv => LLMOvershootBounded
  <2> SUFFICES ASSUME Inv
               PROVE  LLMOvershootBounded
    OBVIOUS
  <2>1. TypeInv /\ Within(LLMBudgetCentsPer5d, since5d) /\ Within(LLMBudgetCentsPerMonth, sinceMonth)
    BY DEF Inv, BudgetInv
  <2>2. PICK k \in Nat, M \in Nat : k = Cardinality(Chargeable) /\ M = MaxTurnCost
    BY Costs, ChargeableFinite
  <2>3. PICK x \in Nat : x = Cardinality(Clients) * M
    BY <2>2, ChargeableFinite
  <2>4. k * M \in Nat
    BY <2>2
  <2>5. since5d \in Nat \ {0} /\ sinceMonth \in Nat \ {0}
    <3>1. Len(rows) \in Nat
      BY <2>1 DEF TypeInv
    <3>2. QED
      BY <2>1, <3>1 DEF TypeInv
  <2>6. ASSUME NEW budget \in Int, NEW from \in Nat \ {0}, Within(budget, from), budget > 0
        PROVE  LLMSpentByNamespace(from) < budget + Cardinality(Clients) * MaxTurnCost
    <3>1. LLMSpentByNamespace(from) \in Nat
      BY <2>1, SpentType
    <3>2. LLMSpentByNamespace(from) + k * M < budget + x
      BY <2>2, <2>3, <2>6 DEF Within
    <3>3. LLMSpentByNamespace(from) < budget + x
      BY <2>4, <3>1, <3>2
    <3>4. QED
      BY <2>2, <2>3, <3>3
  <2>7. QED
    BY <2>1, <2>5, <2>6, TurnAssumption DEF LLMOvershootBounded
<1>2. QED
  BY <1>1, TurnCorrect, PTL
\* A goroutine that ends without a frame, and why it may.
MuteEnd(t) == go[t].pc # "closed" /\ go'[t].pc = "closed" /\ out'[t] = out[t]
Excused(t) == CtxDone(t)' \/ CtxDone(t) \/ Len(out[t]) = Cap

\* A frame that is sent shows in the channel.
LEMMA PutShows ==
  ASSUME TypeInv, NEW t \in Turns, NEW frame \in Frames, Put(t, frame)
  PROVE  out'[t] # out[t]
<1>1. out \in [Turns -> Seq(Frames)] /\ out[t] \in Seq(Frames)
  BY DEF TypeInv
<1>2. out'[t] = Append(out[t], frame)
  BY <1>1 DEF Put
<1>3. Len(Append(out[t], frame)) = Len(out[t]) + 1 /\ Len(out[t]) \in Nat
  BY <1>1
<1>4. QED
  BY <1>2, <1>3

\* An error's frame is dropped only where the channel is full.
LEMMA AbortExcused ==
  ASSUME TypeInv, NEW t \in Turns, NEW fault, Abort(t, fault), MuteEnd(t)
  PROVE  Excused(t)
<1>1. CASE Room(t)
  BY <1>1, PutShows DEF Abort, emitErr, MuteEnd, Frames
<1>2. CASE ~Room(t)
  <2>1. Len(out[t]) \in Nat /\ Len(out[t]) <= Cap /\ Cap \in Nat
    BY Bounds DEF TypeInv
  <2>2. Len(out[t]) = Cap
    BY <1>2, <2>1 DEF Room
  <2>3. QED
    BY <2>2 DEF Excused
<1>3. QED
  BY <1>1, <1>2

\* Every way in which an engine's step may close the channel.
LEMMA EngineExcused ==
  ASSUME TypeInv, NEW t \in Turns, EngineRun(t), MuteEnd(t)
  PROVE  Excused(t)
<1>0. go \in [Turns -> GoRow]
  BY DEF TypeInv
<1>1. ASSUME NEW pc, pc # "closed", Goto(t, pc)
      PROVE  FALSE
  <2>1. PICK h \in GoRow : h = go[t]
    BY GoFields
  <2>2. [h EXCEPT !.pc = pc].pc = pc
    BY DEF GoRow
  <2>3. go'[t].pc = pc
    BY <1>0, <1>1, <2>1, <2>2 DEF Goto
  <2>4. QED
    BY <1>1, <2>3 DEF MuteEnd
<1>2. ASSUME NEW fault, Abort(t, fault)
      PROVE  Excused(t)
  BY <1>2, AbortExcused
<1>3. ASSUME NEW frame \in Frames, Put(t, frame)
      PROVE  FALSE
  BY <1>3, PutShows DEF MuteEnd
<1>4. "delta" \in Frames /\ "last" \in Frames
  BY DEF Frames
<1>5. ASSUME NEW g, SendOrReturn(t, g)
      PROVE  Excused(t)
  BY <1>3, <1>4, <1>5 DEF SendOrReturn, Excused
<1>6. CASE engine # "stub" /\ ProviderStep(t)
  <2>1. CASE LoadHistory(t, Prompt, HistoryOf(req[t].box))
    <3>1. CASE Abort(t, "db")
      BY <1>2, <3>1
    <3>2. CASE ~Abort(t, "db")
      <4>1. PICK chain : go' = [go EXCEPT ![t] = [go[t] EXCEPT !.pc = "ask", !.messages = chain]]
        BY <2>1, <3>2 DEF LoadHistory
      <4>2. PICK h \in GoRow : h = go[t]
        BY GoFields
      <4>3. [h EXCEPT !.pc = "ask", !.messages = chain].pc = "ask"
        BY DEF GoRow
      <4>4. go'[t].pc = "ask"
        BY <1>0, <4>1, <4>2, <4>3
      <4>5. QED
        BY <4>4 DEF MuteEnd
    <3>3. QED
      BY <3>1, <3>2
  <2>2. CASE Ask(t)
    BY <1>1, <1>2, <2>2 DEF Ask
  <2>3. CASE Token(t)
    BY <1>2, <1>3, <1>4, <2>3 DEF Token
  <2>4. CASE Reply(t, ReplySet)
    <3>1. PICK h \in GoRow, r \in ReplySet : h = go[t] /\ go' = [go EXCEPT ![t] = Replied(t, h, r)]
      BY <2>4, GoFields DEF Reply
    <3>2. Replied(t, h, r).pc \in {"insert", "call"}
      BY Zenon DEF Replied, GoRow
    <3>3. go'[t].pc \in {"insert", "call"}
      BY <1>0, <3>1, <3>2
    <3>4. QED
      BY <3>3 DEF MuteEnd
  <2>5. CASE Announce(t)
    BY <1>5, <2>5 DEF Announce
  <2>6. CASE Report(t, ResultsOf(go[t]))
    BY <1>5, <2>6 DEF Report
  <2>7. CASE Persist(t)
    <3>1. CASE Goto(t, "finish")
      BY <1>1, <3>1
    <3>2. CASE go' = [go EXCEPT ![t] = [go[t] EXCEPT !.pc = "finish", !.unsaved = TRUE]]
      <4>1. PICK h \in GoRow : h = go[t]
        BY GoFields
      <4>2. [h EXCEPT !.pc = "finish", !.unsaved = TRUE].pc = "finish"
        BY DEF GoRow
      <4>3. go'[t].pc = "finish"
        BY <1>0, <3>2, <4>1, <4>2
      <4>4. QED
        BY <4>3 DEF MuteEnd
    <3>3. QED
      BY <2>7, <3>1, <3>2 DEF Persist
  <2>8. CASE Finish(t)
    BY <1>3, <1>4, <2>8 DEF Finish
  <2>9. QED
    BY <1>6, <2>1, <2>2, <2>3, <2>4, <2>5, <2>6, <2>7, <2>8 DEF ProviderStep
<1>7. CASE engine = "stub" /\ StubRun(t)
  <2>1. CASE Finish(t)
    BY <1>3, <1>4, <2>1 DEF Finish
  <2>2. CASE ~Finish(t)
    BY <1>1, <1>3, <1>4, <1>7, <2>2 DEF StubRun, Excused
  <2>3. QED
    BY <2>1, <2>2
<1>8. QED
  BY <1>6, <1>7, EngineSteps

\* The contract of Engine (ai.go:86) is broken in no other way than these two: the
\* context ended, or the error met a full channel.
THEOREM MuteEnds == Spec => MuteEndExplained
<1>1. ASSUME Inv, [Next]_vars, NEW t \in Turns, MuteEnd(t)
      PROVE  Excused(t)
  <2>0. TypeInv
    BY <1>1 DEF Inv
  <2>1. TypeInv /\ go \in [Turns -> GoRow]
    BY <2>0 DEF TypeInv
  <2>2. ASSUME go' = go
        PROVE  FALSE
    BY <1>1, <2>2 DEF MuteEnd
  <2>3. CASE UNCHANGED vars
    BY <2>2, <2>3 DEF vars
  <2>4. ASSUME NEW c \in Clients, NEW b \in Boxes, aiTurn(c, b)
        PROVE  FALSE
    <3>1. PICK u \in Turns : go' = go \/ \E pc \in {"stub", "history"} : Goto(u, pc)
      BY <2>4 DEF aiTurn, Goto
    <3>2. PICK pc \in {"stub", "history"} : Goto(u, pc)
      BY <2>2, <3>1
    <3>3. PICK h \in GoRow : h = go[u]
      BY <2>1, GoFields
    <3>4. [h EXCEPT !.pc = pc].pc = pc
      BY DEF GoRow
    <3>5. go'[t].pc = IF u = t THEN pc ELSE go[t].pc
      BY <2>1, <3>2, <3>3, <3>4 DEF Goto
    <3>6. QED
      BY <1>1, <3>5 DEF MuteEnd
  <2>5. ASSUME NEW u \in Turns, Drain(u) \/ HandlerReturns(u) \/ HangUp(u)
        PROVE  FALSE
    BY <2>2, <2>5 DEF Drain, HandlerReturns, HangUp
  <2>6. ASSUME NEW u \in Turns, Deadline(u)
        PROVE  FALSE
    <3>1. PICK h \in GoRow : h = go[u]
      BY <2>1, GoFields
    <3>2. [h EXCEPT !.expired = TRUE].pc = h.pc
      BY DEF GoRow
    <3>3. go'[t].pc = go[t].pc
      BY <2>1, <2>6, <3>1, <3>2 DEF Deadline
    <3>4. QED
      BY <1>1, <3>3 DEF MuteEnd
  <2>7. ASSUME NEW u \in Turns, EngineRun(u)
        PROVE  Excused(t)
    <3>1. CASE u = t
      BY <1>1, <2>1, <2>7, <3>1, EngineExcused
    <3>2. CASE u # t
      <4>1. StepOK(u)
        BY <1>1, <2>1, <2>7, EngineStepOK DEF Inv, TurnsInv
      <4>2. go'[t] = go[t]
        BY <3>2, <4>1 DEF StepOK
      <4>3. QED
        BY <1>1, <4>2 DEF MuteEnd
    <3>3. QED
      BY <3>1, <3>2
  <2>8. CASE FiveDaysPass \/ NewMonth
    BY <2>2, <2>8 DEF FiveDaysPass, NewMonth
  <2>9. CASE Restart
    <3>1. handler'[t] = IF Running(t) THEN "done" ELSE handler[t]
      BY <2>9 DEF Restart
    <3>2. handler'[t] # "drain"
      BY <3>1 DEF Running
    <3>3. QED
      BY <3>2 DEF Excused, CtxDone
  <2>10. QED
    BY <1>1, <2>3, <2>4, <2>5, <2>6, <2>7, <2>8, <2>9 DEF Next
<1>2. Inv /\ [Next]_vars =>
        [\A t \in Turns :
           (go[t].pc # "closed" /\ go'[t].pc = "closed" /\ out'[t] = out[t])
             => CtxDone(t)' \/ CtxDone(t) \/ Len(out[t]) = Cap]_vars
  BY <1>1 DEF MuteEnd, Excused
<1>3. QED
  BY <1>2, TurnCorrect, PTL DEF Spec, MuteEndExplained

-----------------------------------------------------------------------------
(* Chains *)

\* What a chain owes: the results that its last assistant message called for and that
\* have not come.  Only a result may follow as long as something is owed, and only then.
Owes(before, m, after) ==
  IF m.role = "assistant" THEN before = 0 /\ after = m.calls
  ELSE IF m.role = "tool" THEN m.calls >= 1 /\ before = after + m.calls
  ELSE before = 0 /\ after = 0 /\ (m.role = "blank" => m.calls = 0)

\* d tells what m owes after each of its messages.
Debts(m, d) ==
  /\ d \in [0..Len(m) -> Nat] /\ d[0] = 0
  /\ \A i \in 1..Len(m) : Owes(d[i-1], m[i], d[i])

\* The chains that owe n results.
Owing(n) == {m \in Seq(Messages) : \E d : Debts(m, d) /\ d[Len(m)] = n}

\* Where a chain has a system prompt.
Prompts(m) == {i \in DOMAIN m : m[i].role = "system"}

\* The empty chain owes nothing.
LEMMA OwingEmpty == <<>> \in Owing(0)
<1>1. Len(<<>>) = 0 /\ <<>> \in Seq(Messages)
  OBVIOUS
<1>2. Debts(<<>>, [i \in 0..0 |-> 0])
  BY DEF Debts
<1>3. QED
  BY <1>1, <1>2 DEF Owing

\* A message more.
LEMMA OwingAppend ==
  ASSUME NEW a \in Nat, NEW b \in Nat, NEW m \in Owing(a), NEW x \in Messages, Owes(a, x, b)
  PROVE  Append(m, x) \in Owing(b)
<1>1. PICK d : Debts(m, d) /\ d[Len(m)] = a
  BY DEF Owing
<1>2. m \in Seq(Messages) /\ Len(m) \in Nat
  BY DEF Owing
<1>3. PICK n \in Nat : n = Len(m)
  BY <1>2
<1>4. PICK w \in Seq(Messages) :
        /\ w = Append(m, x) /\ Len(w) = n + 1 /\ w[n+1] = x /\ \A i \in 1..n : w[i] = m[i]
  <2>1. Append(m, x) \in Seq(Messages) /\ Len(Append(m, x)) = n + 1
    BY <1>2, <1>3
  <2>2. Append(m, x)[n+1] = x /\ \A i \in 1..n : Append(m, x)[i] = m[i]
    BY <1>2, <1>3
  <2>3. QED
    BY <2>1, <2>2
<1> DEFINE e == [i \in 0..(n+1) |-> IF i <= n THEN d[i] ELSE b]
<1>5. d \in [0..n -> Nat] /\ d[0] = 0 /\ d[n] = a /\ \A i \in 1..n : Owes(d[i-1], m[i], d[i])
  BY <1>1, <1>3 DEF Debts
<1>6. e \in [0..(n+1) -> Nat] /\ e[0] = 0 /\ e[n+1] = b /\ \A i \in 0..n : e[i] = d[i]
  <2>1. ASSUME NEW i \in 0..(n+1)
        PROVE  e[i] \in Nat
    <3>1. CASE i <= n
      BY <1>5, <3>1
    <3>2. CASE ~(i <= n)
      BY <3>2
    <3>3. QED
      BY <3>1, <3>2
  <2>2. e[0] = d[0] /\ e[n+1] = b /\ \A i \in 0..n : e[i] = d[i]
    OBVIOUS
  <2>3. QED
    BY <1>5, <2>1, <2>2
<1> HIDE DEF e
<1>7. ASSUME NEW i \in 1..(n+1)
      PROVE  Owes(e[i-1], w[i], e[i])
  <2>1. CASE i \in 1..n
    <3>1. i - 1 \in 0..n /\ i \in 0..n
      BY <2>1
    <3>2. QED
      BY <1>4, <1>5, <1>6, <2>1, <3>1
  <2>2. CASE i = n + 1
    <3>1. i - 1 = n /\ n \in 0..n
      BY <2>2
    <3>2. QED
      BY <1>4, <1>5, <1>6, <2>2, <3>1
  <2>3. QED
    BY <2>1, <2>2
<1>8. Debts(w, e)
  BY <1>4, <1>6, <1>7 DEF Debts
<1>9. QED
  BY <1>4, <1>6, <1>8 DEF Owing

\* A chain that owes nothing may be followed by any chain.
LEMMA OwingConcat ==
  ASSUME NEW b \in Nat, NEW m \in Owing(0), NEW o \in Owing(b)
  PROVE  m \o o \in Owing(b)
<1>1. PICK d : Debts(m, d) /\ d[Len(m)] = 0
  BY DEF Owing
<1>2. PICK e : Debts(o, e) /\ e[Len(o)] = b
  BY DEF Owing
<1>3. m \in Seq(Messages) /\ o \in Seq(Messages)
  BY DEF Owing
<1>4. PICK n \in Nat, k \in Nat : n = Len(m) /\ k = Len(o)
  BY <1>3
<1>5. PICK w \in Seq(Messages) :
        /\ w = m \o o /\ Len(w) = n + k /\ \A i \in 1..n : w[i] = m[i]
        /\ \A i \in 1..k : w[n+i] = o[i]
  <2>1. m \o o \in Seq(Messages) /\ Len(m \o o) = n + k
    BY <1>3, <1>4
  <2>2. \A i \in 1..n : (m \o o)[i] = m[i]
    BY <1>3, <1>4
  <2>3. \A i \in 1..k : (m \o o)[n+i] = o[i]
    <3> SUFFICES ASSUME NEW i \in 1..k
                 PROVE  (m \o o)[n+i] = o[i]
      OBVIOUS
    <3>1. n + i \in 1..(n+k) /\ ~(n + i <= n) /\ (n + i) - n = i
      OBVIOUS
    <3>2. QED
      BY <1>3, <1>4, <3>1
  <2>4. QED
    BY <2>1, <2>2, <2>3
<1>6. d \in [0..n -> Nat] /\ d[0] = 0 /\ d[n] = 0 /\ \A i \in 1..n : Owes(d[i-1], m[i], d[i])
  BY <1>1, <1>4 DEF Debts
<1>7. e \in [0..k -> Nat] /\ e[0] = 0 /\ e[k] = b /\ \A i \in 1..k : Owes(e[i-1], o[i], e[i])
  BY <1>2, <1>4 DEF Debts
<1> DEFINE f == [i \in 0..(n+k) |-> IF i <= n THEN d[i] ELSE e[i-n]]
<1>8. /\ f \in [0..(n+k) -> Nat] /\ \A i \in 0..n : f[i] = d[i]
      /\ \A i \in 0..k : f[n+i] = e[i]
  <2>1. ASSUME NEW i \in 0..(n+k)
        PROVE  f[i] \in Nat
    <3>1. CASE i <= n
      BY <1>6, <3>1
    <3>2. CASE ~(i <= n)
      <4>1. i - n \in 0..k
        BY <3>2
      <4>2. QED
        BY <1>7, <3>2, <4>1
    <3>3. QED
      BY <3>1, <3>2
  <2>2. ASSUME NEW i \in 0..k
        PROVE  f[n+i] = e[i]
    <3>1. n + i \in 0..(n+k) /\ (n + i) - n = i
      OBVIOUS
    <3>2. CASE i = 0
      BY <1>6, <1>7, <3>2
    <3>3. CASE i # 0
      <4>1. ~(n + i <= n)
        BY <3>3
      <4>2. QED
        BY <3>1, <4>1
    <3>4. QED
      BY <3>2, <3>3
  <2>3. \A i \in 0..n : f[i] = d[i]
    OBVIOUS
  <2>4. QED
    BY <2>1, <2>2, <2>3
<1> HIDE DEF f
<1>9. ASSUME NEW i \in 1..(n+k)
      PROVE  Owes(f[i-1], w[i], f[i])
  <2>1. CASE i \in 1..n
    <3>1. i - 1 \in 0..n /\ i \in 0..n
      BY <2>1
    <3>2. QED
      BY <1>5, <1>6, <1>8, <2>1, <3>1
  <2>2. CASE i \notin 1..n
    <3>1. PICK j \in 1..k : i = n + j
      <4>1. i - n \in 1..k /\ i = n + (i - n)
        BY <2>2
      <4>2. QED
        BY <4>1
    <3>2. i - 1 = n + (j - 1) /\ j - 1 \in 0..k /\ j \in 0..k
      BY <3>1
    <3>3. QED
      BY <1>5, <1>7, <1>8, <3>1, <3>2
  <2>3. QED
    BY <2>1, <2>2
<1>10. f[0] = 0 /\ f[n+k] = b
  BY <1>6, <1>7, <1>8
<1>11. Debts(w, f)
  BY <1>5, <1>8, <1>9, <1>10 DEF Debts
<1>12. QED
  BY <1>5, <1>10, <1>11 DEF Owing

\* Leaving out the system prompts of a chain leaves its debts.
LEMMA OwingStripped ==
  ASSUME NEW m \in Owing(0), NEW g, g = [i \in DOMAIN m |-> g[i]],
         \A i \in DOMAIN m : g[i] = (IF m[i].role = "system" THEN <<>> ELSE <<m[i]>>)
  PROVE  FlattenSeq(g) \in Owing(0) /\ Prompts(FlattenSeq(g)) = {}
<1>1. PICK d : Debts(m, d) /\ d[Len(m)] = 0
  BY DEF Owing
<1>2. m \in Seq(Messages)
  BY DEF Owing
<1>3. PICK n \in Nat : n = Len(m) /\ DOMAIN m = 1..n /\ \A i \in 1..n : m[i] \in Messages
  BY <1>2
<1>4. d \in [0..n -> Nat] /\ d[0] = 0 /\ d[n] = 0 /\ \A i \in 1..n : Owes(d[i-1], m[i], d[i])
  BY <1>1, <1>3 DEF Debts
<1>5. Prompts(<<>>) = {}
  BY DEF Prompts
<1>6. CASE n = 0
  <2>1. g = <<>> /\ Len(<<>>) = 0
    BY <1>3, <1>6
  <2>2. FlattenSeq(g) = <<>>
    BY <2>1 DEF FlattenSeq
  <2>3. QED
    BY <1>5, <2>2, OwingEmpty
<1>7. CASE n # 0
  \* A message more, without the prompts.
  <2>1. ASSUME NEW i \in 1..n, NEW p \in Owing(d[i-1]), Prompts(p) = {}
        PROVE  p \o g[i] \in Owing(d[i]) /\ Prompts(p \o g[i]) = {}
    <3>0. /\ i - 1 \in 0..n /\ i \in 0..n /\ i \in DOMAIN m
          /\ p \in Seq(Messages) /\ m[i] \in Messages
      BY <1>3 DEF Owing
    <3>1. d[i-1] \in Nat /\ d[i] \in Nat /\ Owes(d[i-1], m[i], d[i])
      BY <1>4, <3>0
    <3>2. CASE m[i].role = "system"
      <4>1. d[i-1] = 0 /\ d[i] = 0
        BY <3>1, <3>2 DEF Owes
      <4>2. g[i] = <<>> /\ p \o <<>> = p
        BY <3>0, <3>2
      <4>3. QED
        BY <2>1, <4>1, <4>2
    <3>3. CASE m[i].role # "system"
      <4>1. g[i] = <<m[i]>> /\ p \o <<m[i]>> = Append(p, m[i])
        BY <3>0, <3>3
      <4>2. Append(p, m[i]) \in Owing(d[i])
        BY <2>1, <3>0, <3>1, OwingAppend
      <4>3. Prompts(Append(p, m[i])) = {}
        <5>1. ASSUME NEW j \in DOMAIN Append(p, m[i])
              PROVE  Append(p, m[i])[j].role # "system"
          <6>1. Append(p, m[i])[j] = m[i] \/ (j \in DOMAIN p /\ Append(p, m[i])[j] = p[j])
            BY <3>0
          <6>2. QED
            BY <2>1, <3>3, <6>1 DEF Prompts
        <5>2. QED
          BY <5>1 DEF Prompts
      <4>4. QED
        BY <4>1, <4>2, <4>3
    <3>4. QED
      BY <3>2, <3>3
  <2>2. g \in Seq(Seq(Messages)) /\ g # <<>> /\ Len(g) = n
    <3>1. \A i \in DOMAIN m : g[i] \in Seq(Messages)
      <4> SUFFICES ASSUME NEW i \in DOMAIN m
                   PROVE  g[i] \in Seq(Messages)
        OBVIOUS
      <4>1. m[i] \in Messages
        BY <1>3
      <4>2. <<>> \in Seq(Messages) /\ <<m[i]>> \in Seq(Messages)
        BY <4>1
      <4>3. QED
        BY <4>2
    <3>2. g \in Seq(Seq(Messages))
      BY <1>2, <3>1, MappedSeq
    <3>3. DOMAIN g = 1..n
      BY <1>3
    <3>4. QED
      BY <1>7, <3>2, <3>3
  <2>3. PICK f : IsFlatten(f, g) /\ FlattenSeq(g) = f[n]
    BY <2>2, FlattenIs
  <2>4. \A i \in 1..n : f[i] = IF i = 1 THEN g[i] ELSE f[i-1] \o g[i]
    BY <2>2, <2>3 DEF IsFlatten
  <2> DEFINE Good(i) == f[i] \in Owing(d[i]) /\ Prompts(f[i]) = {}
             Bad == {i \in 1..n : ~Good(i)}
  <2>5. Good(1)
    <3>1. 1 \in 1..n /\ 1 - 1 = 0
      BY <1>3, <1>7
    <3>2. <<>> \o g[1] \in Owing(d[1]) /\ Prompts(<<>> \o g[1]) = {}
      BY <1>4, <1>5, <2>1, <3>1, OwingEmpty
    <3>3. <<>> \o g[1] = g[1]
      BY <2>2, <3>1
    <3>4. QED
      BY <2>4, <3>1, <3>2, <3>3
  <2>6. ASSUME Bad # {}
        PROVE  FALSE
    <3>1. Bad \in SUBSET Nat
      OBVIOUS
    <3>2. PICK k \in Bad : \A j \in Bad : k <= j
      BY <2>6, <3>1, LeastElement
    <3>3. k # 1 /\ k \in 1..n
      BY <2>5
    <3>4. k - 1 \in 1..n /\ ~(k <= k - 1)
      BY <3>3
    <3>5. Good(k - 1)
      BY <3>2, <3>4
    <3>6. f[k] = f[k-1] \o g[k]
      BY <2>4, <3>3
    <3>7. Good(k)
      BY <2>1, <3>3, <3>5, <3>6
    <3>8. QED
      BY <3>2, <3>7
  <2>7. Good(n)
    <3>1. n \in 1..n
      BY <1>3, <1>7
    <3>2. QED
      BY <2>6, <3>1
  <2>8. QED
    BY <1>4, <2>3, <2>7
<1>8. QED
  BY <1>6, <1>7

\* In a chain that owes nothing every call has its results directly behind it, and
\* nothing else is a result.
LEMMA OwingAnswered ==
  ASSUME NEW m \in Owing(0), NEW i \in DOMAIN m
  PROVE  /\ m[i].role \in {"assistant", "blank"} => ResultsAfter(m, i) = m[i].calls
         /\ m[i].role = "tool" => i > 1 /\ m[i-1].role \in {"assistant", "tool"}
<1>1. PICK d : Debts(m, d) /\ d[Len(m)] = 0
  BY DEF Owing
<1>2. m \in Seq(Messages)
  BY DEF Owing
<1>3. PICK n \in Nat : n = Len(m) /\ DOMAIN m = 1..n /\ \A j \in 1..n : m[j] \in Messages
  BY <1>2
<1>4. d \in [0..n -> Nat] /\ d[0] = 0 /\ d[n] = 0 /\ \A j \in 1..n : Owes(d[j-1], m[j], d[j])
  BY <1>1, <1>3 DEF Debts
<1>5. \A j \in 1..n : m[j].calls \in Nat
  BY <1>3, Bounds DEF Messages
<1>6. i \in 1..n /\ i \in Nat /\ i - 1 \in 0..n
  BY <1>3
<1>7. ASSUME m[i].role = "tool"
      PROVE  i > 1 /\ m[i-1].role \in {"assistant", "tool"}
  <2>1. d[i-1] # 0 /\ d[i-1] \in Nat
    <3>1. Owes(d[i-1], m[i], d[i]) /\ d[i-1] \in Nat /\ d[i] \in Nat
      BY <1>4, <1>6
    <3>2. m[i].calls \in Nat
      BY <1>5, <1>6
    <3>3. QED
      BY <1>7, <3>1, <3>2 DEF Owes
  <2>2. i # 1
    BY <1>4, <2>1
  <2>3. i > 1 /\ i - 1 \in 1..n
    BY <1>6, <2>2
  <2>4. Owes(d[(i-1)-1], m[i-1], d[i-1])
    BY <1>4, <2>3
  <2>5. QED
    BY <2>1, <2>3, <2>4 DEF Owes
<1>8. ASSUME m[i].role \in {"assistant", "blank"}
      PROVE  ResultsAfter(m, i) = m[i].calls
  <2> DEFINE f == [j \in DOMAIN m |-> m[j].calls]
             Run == {j \in i+1..n : \A k \in i+1..j : m[k].role = "tool"}
             Upto == {j \in i..n : \A k \in i+1..j : m[k].role = "tool"}
  <2>1. \A j \in 1..n : f[j] = m[j].calls /\ f[j] \in Nat
    BY <1>3, <1>5
  <2>2. i \in Upto /\ Upto \subseteq i..n /\ Upto \in SUBSET (0..n) /\ Upto # {}
    BY <1>6
  <2>3. PICK e \in Upto : \A j \in Upto : j <= e
    BY <2>2, GreatestElement
  <2>4. e \in i..n /\ \A k \in i+1..e : m[k].role = "tool"
    OBVIOUS
  <2>5. Run = i+1..e
    <3>1. ASSUME NEW j \in Run
          PROVE  j \in i+1..e
      <4>1. j \in Upto
        BY <1>6
      <4>2. QED
        BY <2>3, <2>4, <4>1
    <3>2. ASSUME NEW j \in i+1..e
          PROVE  j \in Run
      <4>1. j \in i+1..n /\ \A k \in i+1..j : k \in i+1..e
        BY <2>4, <1>6
      <4>2. QED
        BY <2>4, <4>1
    <3>3. QED
      BY <3>1, <3>2
  <2>6. ResultsAfter(m, i) = SumOver(f, i+1..e)
    BY <1>3, <2>5, SumFunctionIs DEF ResultsAfter
  \* What came so far, and what is owed then, is what was called for.
  <2> DEFINE Bad == {j \in i..e : SumOver(f, i+1..j) + d[j] # m[i].calls}
  <2>7. SumOver(f, i+1..i) + d[i] = m[i].calls
    <3>1. i+1..i = {}
      BY <1>6
    <3>2. SumOver(f, {}) = 0
      BY FS_EmptySet, SumOverType, Zenon
    <3>3. d[i] = m[i].calls
      BY <1>4, <1>6, <1>8 DEF Owes
    <3> HIDE DEF f
    <3>4. QED
      BY <1>5, <1>6, <3>1, <3>2, <3>3
  <2>8. ASSUME Bad # {}
        PROVE  FALSE
    <3>1. Bad \in SUBSET Nat
      BY <1>6, <2>4
    <3>2. PICK k \in Bad : \A j \in Bad : k <= j
      BY <2>8, <3>1, LeastElement
    <3>3. k \in i..e /\ k # i
      BY <2>7
    <3>4. /\ k - 1 \in i..e /\ ~(k <= k - 1) /\ k \in 1..n /\ k - 1 \in 0..n /\ k \in i+1..e
          /\ k \notin i+1..(k-1) /\ i+1..k = (i+1..(k-1)) \cup {k}
      BY <1>6, <2>4, <3>3
    <3>5. SumOver(f, i+1..(k-1)) + d[k-1] = m[i].calls
      BY <3>2, <3>4
    <3>6. \A j \in (i+1..(k-1)) \cup {k} : f[j] \in Nat
      <4>1. \A j \in (i+1..(k-1)) \cup {k} : j \in 1..n
        BY <1>6, <3>4
      <4> HIDE DEF f
      <4>2. QED
        BY <2>1, <4>1
    <3>7. IsFiniteSet(i+1..(k-1))
      <4>1. i + 1 \in Int /\ k - 1 \in Int
        BY <1>6, <3>4
      <4>2. QED
        BY <4>1, FS_Interval
    <3> HIDE DEF f
    <3>8. SumOver(f, i+1..k) = SumOver(f, i+1..(k-1)) + f[k] /\ SumOver(f, i+1..(k-1)) \in Nat
      <4> DEFINE J == i+1..(k-1)
      <4>1. i+1..k = J \cup {k} /\ k \notin J /\ IsFiniteSet(J)
        BY <3>4, <3>7
      <4>2. (\A j \in J \cup {k} : f[j] \in Nat) /\ (\A j \in J : f[j] \in Nat)
        BY <3>6
      <4> HIDE DEF J
      <4>3. SumOver(f, J \cup {k}) = SumOver(f, J) + f[k]
        BY <4>1, <4>2, SumOverInsert
      <4>4. SumOver(f, J) \in Nat
        BY <4>1, <4>2, SumOverType
      <4>5. QED
        BY <4>1, <4>3, <4>4 DEF J
    <3>9. d[k-1] = d[k] + f[k] /\ d[k] \in Nat /\ f[k] \in Nat
      <4>1. m[k].role = "tool"
        BY <2>4, <3>4
      <4>2. Owes(d[k-1], m[k], d[k]) /\ d[k] \in Nat
        BY <1>4, <3>4
      <4>3. QED
        BY <2>1, <3>4, <4>1, <4>2 DEF Owes
    <3>10. SumOver(f, i+1..k) + d[k] = m[i].calls
      BY <3>5, <3>8, <3>9
    <3>11. QED
      BY <3>2, <3>10
  <2>9. d[e] = 0
    <3>1. CASE e = n
      BY <1>4, <3>1
    <3>2. CASE e # n
      <4>1. e + 1 \in 1..n /\ e + 1 \in i..n /\ (e + 1) - 1 = e /\ ~(e + 1 <= e)
        BY <1>6, <2>4, <3>2
      <4>2. e + 1 \notin Upto
        BY <2>3, <4>1
      <4>3. m[e+1].role # "tool"
        <5>1. \A k \in i+1..(e+1) : k \in i+1..e \/ k = e + 1
          BY <1>6, <2>4
        <5>2. QED
          BY <2>4, <4>1, <4>2, <5>1
      <4>4. Owes(d[e], m[e+1], d[e+1])
        BY <1>4, <4>1
      <4>5. QED
        BY <4>3, <4>4 DEF Owes
    <3>3. QED
      BY <3>1, <3>2
  <2>10. e \in i..e /\ IsFiniteSet(i+1..e) /\ SumOver(f, i+1..e) \in Nat
    <3>1. e \in i..e /\ i + 1 \in Int /\ e \in Int
      BY <1>6, <2>4
    <3>2. IsFiniteSet(i+1..e)
      BY <3>1, FS_Interval
    <3>3. \A j \in i+1..e : f[j] \in Nat
      BY <1>6, <2>1, <2>4
    <3> HIDE DEF f
    <3>4. QED
      BY <3>1, <3>2, <3>3, SumOverType
  <2>11. SumOver(f, i+1..e) + d[e] = m[i].calls
    BY <2>8, <2>10
  <2> HIDE DEF f
  <2>12. QED
    BY <2>6, <2>9, <2>10, <2>11
<1>9. QED
  BY <1>7, <1>8

-----------------------------------------------------------------------------
(* The chains of the goroutines and of the table *)

Prompted(e) == IF e = "openai" THEN {1} ELSE {}

\* Before its row a goroutine's chain owes the results of the calls it has not yet
\* answered, has the system prompt in front if the engine keeps it there, and is asked
\* about when it ends with the user's side.  OpenAI's engine answers call by call, the
\* others answer all calls of a reply at once.
Sound(e, g) ==
  /\ g.pc \in {"ask", "stream", "insert"} => g.messages \in Owing(0)
  /\ g.pc \in {"call", "tool"} =>
       g.messages \in Owing(IF e = "openai" THEN g.calls ELSE g.calls + g.results)
  /\ g.pc \in {"ask", "stream", "call", "tool", "insert"} => Prompts(g.messages) = Prompted(e)
  /\ g.pc \in {"ask", "stream"} => Last(g.messages).role \in {"user", "tool"}

\* The chain of a row.
Settled(e, r) == r.messages \in Owing(0) /\ Prompts(r.messages) = Prompted(e)

ChainInv ==
  /\ \A t \in Turns : Sound(engine, go[t])
  /\ \A i \in DOMAIN rows : Settled(engine, rows[i])

\* A message that is not a system prompt leaves the prompts where they are.
LEMMA PromptsAppend ==
  ASSUME NEW m \in Seq(Messages), NEW x \in Messages, x.role # "system"
  PROVE  Prompts(Append(m, x)) = Prompts(m)
<1>1. /\ DOMAIN m = 1..Len(m) /\ Len(m) \in Nat /\ DOMAIN Append(m, x) = 1..(Len(m) + 1)
      /\ Append(m, x)[Len(m) + 1] = x /\ \A i \in 1..Len(m) : Append(m, x)[i] = m[i]
  OBVIOUS
<1>2. \A i \in 1..(Len(m) + 1) : i \in 1..Len(m) \/ i = Len(m) + 1
  BY <1>1
<1>3. 1..Len(m) \subseteq 1..(Len(m) + 1)
  BY <1>1
<1>4. QED
  BY <1>1, <1>2, <1>3 DEF Prompts

\* The prompts of two chains, one behind the other, when the second has none.
LEMMA PromptsConcat ==
  ASSUME NEW m \in Seq(Messages), NEW o \in Seq(Messages), Prompts(o) = {}
  PROVE  Prompts(m \o o) = Prompts(m)
<1>1. /\ DOMAIN m = 1..Len(m) /\ Len(m) \in Nat /\ Len(o) \in Nat /\ DOMAIN o = 1..Len(o)
      /\ DOMAIN (m \o o) = 1..(Len(m) + Len(o))
      /\ \A i \in 1..Len(m) : (m \o o)[i] = m[i]
  OBVIOUS
<1>2. ASSUME NEW i \in 1..(Len(m) + Len(o)), i \notin 1..Len(m)
      PROVE  (m \o o)[i].role # "system"
  <2>1. i - Len(m) \in DOMAIN o /\ ~(i <= Len(m))
    BY <1>1, <1>2
  <2>2. (m \o o)[i] = o[i - Len(m)]
    BY <1>1, <2>1
  <2>3. QED
    BY <2>1, <2>2 DEF Prompts
<1>3. 1..Len(m) \subseteq 1..(Len(m) + Len(o))
  BY <1>1
<1>4. QED
  BY <1>1, <1>2, <1>3 DEF Prompts

\* A history made of settled rows owes nothing and has no prompt.
LEMMA HistorySettled ==
  ASSUME TypeInv, ChainInv, NEW b
  PROVE  HistoryOf(b) \in Owing(0) /\ Prompts(HistoryOf(b)) = {}
<1> DEFINE f == [i \in DOMAIN rows |-> IF i \in Recent(b) THEN rows[i].messages ELSE <<>>]
<1>1. rows \in Seq(TurnRow) /\ Prompts(<<>>) = {}
  BY DEF TypeInv, Prompts
<1>2. f = [i \in DOMAIN rows |-> f[i]]
  OBVIOUS
<1>3. Replay(b) = FlattenSeq(f)
  BY DEF Replay
<1>4. ASSUME NEW C, <<>> \in C, \A x \in C, y \in C : x \o y \in C,
             \A i \in DOMAIN rows : rows[i].messages \in C
      PROVE  Replay(b) \in C
  <2>1. \A i \in DOMAIN rows : f[i] \in C
    BY <1>4
  <2> HIDE DEF f
  <2>2. f \in Seq(C)
    BY <1>1, <1>2, <2>1, MappedSeq
  <2>3. QED
    BY <1>3, <1>4, <2>2, FlattenIn
<1> HIDE DEF f
<1>5. CASE engine = "openai"
  <2>1. \A x \in Owing(0), y \in Owing(0) : x \o y \in Owing(0)
    BY OwingConcat
  <2>2. \A i \in DOMAIN rows : rows[i].messages \in Owing(0)
    BY DEF ChainInv, Settled
  <2>3. PICK m \in Owing(0) : m = Replay(b)
    <3> DEFINE C == Owing(0)
    <3>1. <<>> \in C /\ (\A x \in C, y \in C : x \o y \in C)
          /\ (\A i \in DOMAIN rows : rows[i].messages \in C)
      BY <2>1, <2>2, OwingEmpty
    <3> HIDE DEF C
    <3>2. Replay(b) \in C
      BY <1>4, <3>1
    <3>3. QED
      BY <3>2 DEF C
  <2> DEFINE g == [i \in DOMAIN m |-> IF m[i].role = "system" THEN <<>> ELSE <<m[i]>>]
  <2>4. /\ g = [i \in DOMAIN m |-> g[i]]
        /\ \A i \in DOMAIN m : g[i] = (IF m[i].role = "system" THEN <<>> ELSE <<m[i]>>)
    OBVIOUS
  <2>5. HistoryOf(b) = FlattenSeq(g)
    BY <1>5, <2>3 DEF HistoryOf, OpenAIHistory
  <2> HIDE DEF g
  <2>6. QED
    BY <2>4, <2>5, OwingStripped
<1>6. CASE engine # "openai"
  <2> DEFINE C == {m \in Owing(0) : Prompts(m) = {}}
  <2>1. <<>> \in C
    BY <1>1, OwingEmpty
  <2>2. ASSUME NEW x \in C, NEW y \in C
        PROVE  x \o y \in C
    <3>1. x \in Owing(0) /\ y \in Owing(0) /\ Prompts(x) = {} /\ Prompts(y) = {}
      OBVIOUS
    <3>2. x \in Seq(Messages) /\ y \in Seq(Messages)
      BY <3>1 DEF Owing
    <3>3. x \o y \in Owing(0) /\ Prompts(x \o y) = {}
      BY <3>1, <3>2, OwingConcat, PromptsConcat
    <3>4. QED
      BY <3>3
  <2>3. \A i \in DOMAIN rows : rows[i].messages \in C
    BY <1>6 DEF ChainInv, Settled, Prompted
  <2> HIDE DEF C
  <2>4. Replay(b) \in C
    BY <1>4, <2>1, <2>2, <2>3
  <2>5. HistoryOf(b) = Replay(b)
    BY <1>6 DEF HistoryOf
  <2>6. QED
    BY <2>4, <2>5 DEF C
<1>7. QED
  BY <1>5, <1>6

\* A goroutine's step keeps the invariant if it leaves its own chain and its row sound.
LEMMA ChainKept ==
  ASSUME TypeInv, ChainInv, NEW t \in Turns, StepOK(t), Sound(engine, go'[t]),
         rows' = rows \/ \E r \in TurnRow : rows' = Append(rows, r) /\ Settled(engine, r)
  PROVE  ChainInv'
<1>1. engine' = engine /\ \A u \in Turns : u # t => go'[u] = go[u]
  BY DEF StepOK
<1>2. \A u \in Turns : Sound(engine', go'[u])
  BY <1>1 DEF ChainInv
<1>3. \A i \in DOMAIN rows' : Settled(engine', rows'[i])
  <2>1. CASE rows' = rows
    BY <1>1, <2>1 DEF ChainInv
  <2>2. ASSUME NEW r \in TurnRow, rows' = Append(rows, r), Settled(engine, r)
        PROVE  \A i \in DOMAIN rows' : Settled(engine', rows'[i])
    <3>1. /\ Len(rows) \in Nat
          /\ DOMAIN rows = 1..Len(rows) /\ DOMAIN rows' = 1..(Len(rows) + 1)
          /\ rows'[Len(rows) + 1] = r /\ \A i \in DOMAIN rows : rows'[i] = rows[i]
      BY <2>2, RowAppended
    <3>2. ASSUME NEW i \in 1..(Len(rows) + 1)
          PROVE  Settled(engine', rows'[i])
      <4>1. CASE i \in DOMAIN rows
        BY <1>1, <3>1, <4>1 DEF ChainInv
      <4>2. CASE i \notin DOMAIN rows
        <5>1. i = Len(rows) + 1
          BY <3>1, <4>2
        <5>2. QED
          BY <1>1, <2>2, <3>1, <5>1
      <4>3. QED
        BY <4>1, <4>2
    <3>3. QED
      BY <3>1, <3>2
  <2>3. QED
    BY <2>1, <2>2
<1>4. QED
  BY <1>2, <1>3 DEF ChainInv

\* A goroutine without a chain to send is sound; so is one whose step failed.
LEMMA SoundEnd ==
  /\ \A e, g : g.pc \notin {"ask", "stream", "call", "tool", "insert"} => Sound(e, g)
  /\ \A t \in Turns : TypeInv /\ Close(t) => Sound(engine, go'[t])
<1>1. \A e, g : g.pc \notin {"ask", "stream", "call", "tool", "insert"} => Sound(e, g)
  BY DEF Sound
<1>2. ASSUME NEW t \in Turns, TypeInv, Close(t)
      PROVE  Sound(engine, go'[t])
  <2>1. go'[t] = Ended
    BY <1>2 DEF TypeInv, Close, Ended
  <2>2. QED
    BY <1>1, <2>1, IdleTyped
<1>3. QED
  BY <1>1, <1>2

\* The chain a turn begins with.
LEMMA FirstChainSound ==
  ASSUME TypeInv, ChainInv, NEW t \in Turns, NEW b, NEW g,
         g.messages = Prompt \o HistoryOf(b) \o <<[role |-> "user", turn |-> t, calls |-> 0]>>,
         g.pc = "ask"
  PROVE  Sound(engine, g)
<1> DEFINE user == [role |-> "user", turn |-> t, calls |-> 0]
           system == [role |-> "system", turn |-> 0, calls |-> 0]
<1>1. user \in Messages /\ system \in Messages /\ user.role = "user" /\ system.role = "system"
  BY Bounds, TurnAssumption DEF Messages, Roles, Turns
<1>2. PICK h \in Owing(0) : h = HistoryOf(b) /\ Prompts(h) = {} /\ h \in Seq(Messages)
  BY HistorySettled DEF Owing
<1>3. Owes(0, user, 0) /\ Owes(0, system, 0)
  BY DEF Owes
<1>4. PICK p \in Owing(0) : p = Prompt /\ p \in Seq(Messages) /\ Prompts(p) = Prompted(engine)
  <2>1. CASE engine = "openai"
    <3>1. Prompt = <<system>>
      BY <2>1 DEF Prompt
    <3> HIDE DEF system
    <3>2. Append(<<>>, system) \in Owing(0) /\ Append(<<>>, system) = <<system>>
      <4>1. 0 \in Nat /\ <<>> \in Owing(0) /\ system \in Messages /\ Owes(0, system, 0)
        BY <1>1, <1>3, OwingEmpty
      <4>2. Append(<<>>, system) \in Owing(0)
        BY <4>1, OwingAppend
      <4>3. Append(<<>>, system) = <<system>>
        BY <1>1
      <4>4. QED
        BY <4>2, <4>3
    <3>3. Prompts(<<system>>) = {1}
      BY <1>1 DEF Prompts
    <3>4. <<system>> \in Seq(Messages)
      BY <1>1
    <3>5. QED
      BY <2>1, <3>1, <3>2, <3>3, <3>4 DEF Prompted
  <2>2. CASE engine # "openai"
    <3>1. Prompt = <<>> /\ Prompted(engine) = {}
      BY <2>2 DEF Prompt, Prompted
    <3>2. Prompts(<<>>) = {} /\ <<>> \in Seq(Messages)
      BY DEF Prompts
    <3>3. QED
      BY <3>1, <3>2, OwingEmpty
  <2>3. QED
    BY <2>1, <2>2
<1> HIDE DEF user, system
<1>5. p \o h \in Owing(0) /\ p \o h \in Seq(Messages)
  BY <1>2, <1>4, OwingConcat
<1>6. Prompts(p \o h) = Prompted(engine)
  BY <1>2, <1>4, PromptsConcat
<1>7. PICK c \in Owing(0) : c = p \o h /\ c \in Seq(Messages) /\ Prompts(c) = Prompted(engine)
  BY <1>5, <1>6
<1>8. Append(c, user) \in Owing(0) /\ Prompts(Append(c, user)) = Prompted(engine)
  BY <1>1, <1>3, <1>7, OwingAppend, PromptsAppend
<1>9. Last(Append(c, user)) = user
  BY <1>1, <1>7 DEF Last
<1>10. g.messages = Append(c, user)
  <2>1. g.messages = p \o h \o <<user>>
    BY <1>2, <1>4 DEF user
  <2>2. c \o <<user>> = Append(c, user)
    BY <1>1, <1>7
  <2>3. QED
    BY <1>7, <2>1, <2>2
<1>11. QED
  BY <1>1, <1>8, <1>9, <1>10 DEF Sound

\* The chain after a reply owes the results of its calls.
LEMMA RepliedSound ==
  ASSUME TypeInv, NEW t \in Turns, NEW h \in GoRow, h.pc = "stream", Sound(engine, h),
         NEW r \in ReplySet, h.iter < MaxIters, h.late = 0
  PROVE  Sound(engine, Replied(t, h, r))
<1> DEFINE message == ReplyMessage(t, r)
<1>1. PICK g \in GoRow :
        /\ g = Replied(t, h, r) /\ g.messages = Append(h.messages, message)
        /\ g.pc = (IF r.calls = 0 THEN "insert" ELSE "call")
        /\ g.calls = r.calls /\ g.results = 0
  BY RepliedFields
<1>2. r.calls \in 0..MaxCalls /\ r.calls \in Nat /\ r.blank \in BOOLEAN /\ (r.blank => r.calls = 0)
  BY Bounds DEF ReplySet
<1>3. /\ message \in Messages /\ message.calls = r.calls
      /\ message.role = (IF r.blank THEN "blank" ELSE "assistant")
  BY <1>2 DEF ReplyMessage, Messages, Roles, Turns
<1>4. h.messages \in Owing(0) /\ Prompts(h.messages) = Prompted(engine)
      /\ h.messages \in Seq(Messages)
  BY DEF Sound, GoRow
<1> HIDE DEF message
<1>5. Owes(0, message, r.calls)
  BY <1>2, <1>3 DEF Owes
<1>6. Append(h.messages, message) \in Owing(r.calls)
  BY <1>2, <1>3, <1>4, <1>5, OwingAppend
<1>7. Prompts(Append(h.messages, message)) = Prompted(engine)
  BY <1>3, <1>4, PromptsAppend
<1>8. r.calls = 0 => g.pc = "insert" /\ Append(h.messages, message) \in Owing(0)
  BY <1>1, <1>6
<1>9. r.calls # 0 => g.pc = "call"
  BY <1>1
<1>10. g.calls + g.results = r.calls
  BY <1>1, <1>2
<1>11. Sound(engine, g)
  BY <1>1, <1>6, <1>7, <1>8, <1>9, <1>10 DEF Sound
<1>12. QED
  BY <1>1, <1>11

\* The chain with one result more.
LEMMA ReportedSound ==
  ASSUME NEW e, e = engine, NEW h \in GoRow, h.pc = "tool", Sound(e, h),
         h.messages # <<>>, h.calls >= 1, h.calls + h.results <= MaxCalls,
         NEW g, g.messages = h.messages \o ResultsOf(h), g.calls = h.calls - 1,
         g.results = h.results + 1, g.pc = IF h.calls > 1 THEN "call" ELSE Again(h)
  PROVE  Sound(e, g)
<1>1. /\ h.messages \in Seq(Messages) /\ h.calls \in 0..MaxCalls /\ h.results \in 0..MaxCalls
      /\ MaxCalls \in Nat /\ Prompts(h.messages) = Prompted(e)
  BY Bounds DEF GoRow, Sound
<1>2. h.calls \in Nat /\ h.results \in Nat /\ h.calls - 1 \in Nat /\ 1 \in 0..MaxCalls
      /\ h.results + 1 \in 0..MaxCalls
  <2>1. PICK m \in Nat, c \in Nat, d \in Nat : m = MaxCalls /\ c = h.calls /\ d = h.results
    <3>1. h.calls \in Nat /\ h.results \in Nat
      BY <1>1
    <3>2. QED
      BY <1>1, <3>1
  <2>2. c >= 1 /\ c + d <= m
    BY <2>1
  <2>3. c - 1 \in Nat /\ 1 \in 0..m /\ d + 1 \in 0..m
    BY <2>2
  <2>4. QED
    BY <2>1, <2>3
<1>3. PICK n \in 0..MaxTurns : n = Last(h.messages).turn
  <2>1. Last(h.messages) \in Messages
    BY <1>1 DEF Last
  <2>2. QED
    BY <2>1 DEF Messages
<1> DEFINE answer(c) == [role |-> "tool", turn |-> n, calls |-> c]
\* A message that brings c results.
<1>4. ASSUME NEW c \in 0..MaxCalls, c >= 1, NEW owed \in Nat, h.messages \in Owing(owed + c)
      PROVE  /\ h.messages \o <<answer(c)>> \in Owing(owed)
             /\ Prompts(h.messages \o <<answer(c)>>) = Prompted(e)
             /\ Last(h.messages \o <<answer(c)>>).role = "tool"
  <2>1. answer(c) \in Messages /\ answer(c).role = "tool" /\ answer(c).calls = c
    BY <1>4 DEF Messages, Roles
  <2>2. Owes(owed + c, answer(c), owed) /\ owed + c \in Nat
    BY <1>1, <1>4, <2>1 DEF Owes
  <2> HIDE DEF answer
  <2>3. h.messages \o <<answer(c)>> = Append(h.messages, answer(c))
    BY <1>1, <2>1
  <2>4. Append(h.messages, answer(c)) \in Owing(owed)
    BY <1>4, <2>1, <2>2, OwingAppend
  <2>5. Prompts(Append(h.messages, answer(c))) = Prompted(e)
    BY <1>1, <2>1, PromptsAppend
  <2>6. Last(Append(h.messages, answer(c))) = answer(c)
    BY <1>1, <2>1 DEF Last
  <2>7. QED
    BY <2>1, <2>3, <2>4, <2>5, <2>6
<1>5. /\ g.pc \in {"call", "ask", "insert"}
      /\ h.calls > 1 => g.pc = "call"
      /\ ~(h.calls > 1) => g.pc \in {"ask", "insert"}
  BY DEF Again
<1>6. ~(h.calls > 1) => h.calls = 1
  BY <1>2
<1>7. CASE e = "openai"
  <2>1. ResultsOf(h) = <<answer(1)>>
    BY <1>3, <1>7 DEF ResultsOf, OpenAIResults
  <2>2. h.messages \in Owing(h.calls) /\ (h.calls - 1) + 1 = h.calls
    BY <1>2, <1>7 DEF Sound
  <2> HIDE DEF answer
  <2>3. /\ g.messages \in Owing(h.calls - 1) /\ Prompts(g.messages) = Prompted(e)
        /\ Last(g.messages).role = "tool"
    BY <1>2, <1>4, <2>1, <2>2
  <2>4. h.calls = 1 => g.messages \in Owing(0)
    BY <2>3
  <2>5. QED
    <3>1. CASE h.calls > 1
      BY <1>5, <1>7, <2>3, <3>1 DEF Sound
    <3>2. CASE ~(h.calls > 1)
      <4>1. g.pc \in {"ask", "insert"} /\ g.messages \in Owing(0)
        BY <1>5, <1>6, <2>4, <3>2
      <4>2. QED
        BY <2>3, <4>1 DEF Sound
    <3>3. QED
      BY <3>1, <3>2
<1>8. CASE e # "openai"
  <2>1. h.messages \in Owing(h.calls + h.results)
    BY <1>8 DEF Sound
  <2>2. CASE h.calls > 1
    <3>1. ResultsOf(h) = <<>>
      BY <1>8, <2>2 DEF ResultsOf, BundledResults
    <3>2. g.messages = h.messages
      BY <1>1, <3>1
    <3>3. g.calls + g.results = h.calls + h.results
      <4>1. PICK c \in Nat, d \in Nat : c = h.calls /\ d = h.results
        BY <1>2, Zenon
      <4>2. (c - 1) + (d + 1) = c + d
        OBVIOUS
      <4>3. QED
        BY <4>1, <4>2, Zenon
    <3>4. g.pc = "call" /\ g.messages \in Owing(g.calls + g.results)
          /\ Prompts(g.messages) = Prompted(e)
      BY <1>1, <1>5, <2>1, <2>2, <3>2, <3>3
    <3>5. QED
      BY <1>8, <3>4 DEF Sound
  <2>3. CASE ~(h.calls > 1)
    <3>1. ResultsOf(h) = <<answer(h.results + 1)>>
      BY <1>3, <1>8, <2>3 DEF ResultsOf, BundledResults
    <3>2. h.messages \in Owing(0 + (h.results + 1)) /\ h.results + 1 >= 1
      <4>1. h.calls + h.results = 0 + (h.results + 1) /\ h.results + 1 >= 1
        BY <1>2, <1>6, <2>3
      <4>2. QED
        BY <2>1, <4>1
    <3> HIDE DEF answer
    <3>3. /\ g.messages \in Owing(0) /\ Prompts(g.messages) = Prompted(e)
          /\ Last(g.messages).role = "tool"
      BY <1>2, <1>4, <3>1, <3>2
    <3>4. QED
      BY <1>5, <2>3, <3>3 DEF Sound
  <2>4. QED
    BY <2>2, <2>3
<1>9. QED
  BY <1>7, <1>8

\* A goroutine that answers goes on or returns, and either way its chain is sound.
LEMMA SentSound ==
  ASSUME TypeInv, NEW t \in Turns, NEW g, Sound(engine, g), SendOrReturn(t, g)
  PROVE  Sound(engine, go'[t])
<1>1. CASE go' = [go EXCEPT ![t] = g]
  BY <1>1 DEF TypeInv
<1>2. CASE Close(t)
  BY <1>2, SoundEnd
<1>3. QED
  BY <1>1, <1>2 DEF SendOrReturn

\* Every step of an engine that talks to a provider leaves its chain sound.
LEMMA ProviderSound ==
  ASSUME TypeInv, ChainInv, NEW t \in Turns, TurnInv(t), ProviderStep(t)
  PROVE  Sound(engine, go'[t])
<1>1. ASSUME NEW fault, Abort(t, fault)
      PROVE  Sound(engine, go'[t])
  BY <1>1, SoundEnd DEF Abort, emitErr
<1>2. Sound(engine, go[t]) /\ go \in [Turns -> GoRow]
  BY DEF ChainInv, TypeInv
<1>3. PICK h \in GoRow : h = go[t] /\ h.messages \in Seq(Messages)
  BY GoFields
<1>4. CASE LoadHistory(t, Prompt, HistoryOf(req[t].box))
  <2> DEFINE chain == Prompt \o HistoryOf(req[t].box) \o <<[role |-> "user", turn |-> t, calls |-> 0]>>
  <2>1. CASE go' = [go EXCEPT ![t] = [go[t] EXCEPT !.pc = "ask", !.messages = chain]]
    <3> HIDE DEF chain
    <3>1. go'[t] = [h EXCEPT !.pc = "ask", !.messages = chain]
      BY <1>2, <1>3, <2>1
    <3>2. go'[t].pc = "ask" /\ go'[t].messages = chain
      BY <3>1 DEF GoRow
    <3>3. QED
      BY <3>2, FirstChainSound DEF chain
  <2>2. QED
    BY <1>1, <1>4, <2>1 DEF LoadHistory
<1>5. CASE Ask(t)
  <2>1. CASE Goto(t, "stream")
    <3>1. go'[t] = [h EXCEPT !.pc = "stream"]
      BY <1>2, <1>3, <2>1 DEF Goto
    <3>2. go'[t].pc = "stream" /\ go'[t].messages = h.messages
      BY <3>1 DEF GoRow
    <3>3. h.pc = "ask"
      BY <1>3, <1>5 DEF Ask
    <3>4. QED
      BY <1>2, <1>3, <3>2, <3>3 DEF Sound
  <2>2. QED
    BY <1>1, <1>5, <2>1 DEF Ask
<1>6. CASE Token(t)
  <2>1. CASE go' = [go EXCEPT ![t].said = TRUE]
    <3>1. go'[t] = [h EXCEPT !.said = TRUE]
      BY <1>2, <1>3, <2>1
    <3>2. /\ go'[t].pc = h.pc /\ go'[t].messages = h.messages
          /\ go'[t].calls = h.calls /\ go'[t].results = h.results
      BY <3>1 DEF GoRow
    <3>3. QED
      BY <1>2, <1>3, <3>2 DEF Sound
  <2>2. QED
    BY <1>1, <1>6, <2>1 DEF Token
<1>7. CASE Reply(t, ReplySet)
  <2>1. PICK r \in ReplySet : go' = [go EXCEPT ![t] = Replied(t, go[t], r)]
    BY <1>7 DEF Reply
  <2>2. go'[t] = Replied(t, h, r)
    BY <1>2, <1>3, <2>1
  <2>3. h.pc = "stream" /\ h.iter < MaxIters /\ h.late = 0
    BY <1>3, <1>7 DEF Reply, TurnInv, CutInv, LoopInv
  <2>4. QED
    BY <1>2, <1>3, <2>2, <2>3, RepliedSound
<1>8. CASE Announce(t)
  <2>1. h.pc = "call" /\ SendOrReturn(t, [h EXCEPT !.pc = "tool"])
    BY <1>3, <1>8 DEF Announce
  <2>2. PICK g \in GoRow :
          /\ g = [h EXCEPT !.pc = "tool"]
          /\ g.pc = "tool" /\ g.messages = h.messages /\ g.calls = h.calls /\ g.results = h.results
    <3>1. [h EXCEPT !.pc = "tool"] \in GoRow
      BY DEF GoRow, Pcs
    <3>2. QED
      BY <3>1 DEF GoRow
  <2>3. Sound(engine, g)
    BY <1>2, <1>3, <2>1, <2>2 DEF Sound
  <2>4. QED
    BY <2>1, <2>2, <2>3, SentSound
<1>9. CASE Report(t, ResultsOf(go[t]))
  <2> DEFINE chain == h.messages \o ResultsOf(h)
             pc == IF h.calls > 1 THEN "call" ELSE Again(h)
  <2>1. h.pc = "tool" /\ h.messages # <<>> /\ h.calls >= 1 /\ h.calls + h.results <= MaxCalls
    BY <1>3, <1>9 DEF Report, TurnInv, LoopInv
  <2>2. SendOrReturn(t, [h EXCEPT !.messages = chain, !.calls = h.calls - 1,
                                  !.results = h.results + 1, !.pc = pc])
    BY <1>3, <1>9 DEF Report
  <2>3. PICK g :
          /\ g = [h EXCEPT !.messages = chain, !.calls = h.calls - 1,
                           !.results = h.results + 1, !.pc = pc]
          /\ g.messages = chain /\ g.calls = h.calls - 1 /\ g.results = h.results + 1 /\ g.pc = pc
    <3> DEFINE new == [h EXCEPT !.messages = chain, !.calls = h.calls - 1,
                                !.results = h.results + 1, !.pc = pc]
    <3>1. /\ new.messages = chain /\ new.calls = h.calls - 1
          /\ new.results = h.results + 1 /\ new.pc = pc
      <4> HIDE DEF chain, pc
      <4>1. QED
        BY DEF GoRow
    <3> HIDE DEF new
    <3>2. \E g : g = new /\ g.messages = chain /\ g.calls = h.calls - 1
                /\ g.results = h.results + 1 /\ g.pc = pc
      BY <3>1
    <3>3. QED
      BY <3>2 DEF new
  <2>4. Sound(engine, g)
    BY <1>2, <1>3, <2>1, <2>3, ReportedSound
  <2>5. SendOrReturn(t, g)
    BY <2>2, <2>3
  <2>6. QED
    BY <2>4, <2>5, SentSound
<1>10. CASE Persist(t)
  <2>1. CASE Goto(t, "finish")
    <3>1. go'[t] = [h EXCEPT !.pc = "finish"]
      BY <1>2, <1>3, <2>1 DEF Goto
    <3>2. go'[t].pc = "finish"
      BY <3>1 DEF GoRow
    <3>3. QED
      BY <3>2, SoundEnd
  <2>2. CASE go' = [go EXCEPT ![t].pc = "finish", ![t].unsaved = TRUE]
    <3>1. go'[t] = [h EXCEPT !.pc = "finish", !.unsaved = TRUE]
      BY <1>2, <1>3, <2>2
    <3>2. go'[t].pc = "finish"
      BY <3>1 DEF GoRow
    <3>3. QED
      BY <3>2, SoundEnd
  <2>3. QED
    BY <1>10, <2>1, <2>2 DEF Persist
<1>11. CASE Finish(t)
  BY <1>11, SoundEnd DEF Finish
<1>12. QED
  BY <1>4, <1>5, <1>6, <1>7, <1>8, <1>9, <1>10, <1>11 DEF ProviderStep

\* The row that a step writes is settled.
LEMMA RowSettled ==
  ASSUME TypeInv, ChainInv, NEW t \in Turns, TurnInv(t), ProviderStep(t)
  PROVE  rows' = rows \/ \E r \in TurnRow : rows' = Append(rows, r) /\ Settled(engine, r)
<1>1. ASSUME NEW fault, Abort(t, fault)
      PROVE  rows' = rows
  BY <1>1, TurnAssumption DEF Abort, emitErr, InsertTurn
<1>2. CASE Persist(t)
  <2> DEFINE r == [turn |-> t, box |-> req[t].box, messages |-> go[t].messages,
                   cost |-> CostCents(go[t].used)]
  <2>1. go[t].pc = "insert" /\ Sound(engine, go[t])
    BY <1>2 DEF Persist, ChainInv
  <2>2. Settled(engine, r)
    BY <2>1 DEF Sound, Settled
  <2>3. CASE InsertTurn(r)
    <3>1. r \in TurnRow \/ r.box \notin Boxes
      BY GoFields, Costs DEF TurnRow
    <3>2. QED
      BY <2>2, <2>3, <3>1 DEF InsertTurn
  <2>4. QED
    BY <1>2, <2>3 DEF Persist
<1>3. CASE ~Persist(t)
  <2>1. rows' = rows \/ \E fault : Abort(t, fault)
    BY <1>3 DEF ProviderStep, LoadHistory, Ask, Token, Reply, Announce, Report, Finish,
                SendOrReturn, tableVars
  <2>2. QED
    BY <1>1, <2>1
<1>4. QED
  BY <1>2, <1>3

\* The stub has neither chains nor rows.
LEMMA StubEnds ==
  ASSUME TypeInv, NEW t \in Turns, StubRun(t)
  PROVE  go'[t].pc \notin {"ask", "stream", "call", "tool", "insert"} /\ rows' = rows
<1>1. rows' = rows /\ go \in [Turns -> GoRow]
  BY DEF StubRun, Finish, tableVars, TypeInv
<1>2. PICK h \in GoRow : h = go[t]
  BY GoFields
<1>3. CASE Close(t)
  <2>1. go'[t] = Ended
    BY <1>1, <1>3 DEF Close, Ended
  <2>2. QED
    BY <1>1, <2>1, IdleTyped
<1>4. CASE go' = [go EXCEPT ![t].text = @ + 1] /\ go[t].pc = "stub"
  <2>1. go'[t] = [h EXCEPT !.text = h.text + 1] /\ h.pc = "stub"
    BY <1>1, <1>2, <1>4
  <2>2. go'[t].pc = "stub"
    BY <2>1 DEF GoRow
  <2>3. QED
    BY <1>1, <2>2
<1>5. CASE Goto(t, "finish")
  <2>1. go'[t] = [h EXCEPT !.pc = "finish"]
    BY <1>1, <1>2, <1>5 DEF Goto
  <2>2. go'[t].pc = "finish"
    BY <2>1 DEF GoRow
  <2>3. QED
    BY <1>1, <2>2
<1>6. QED
  BY <1>3, <1>4, <1>5 DEF StubRun, Finish

\* Every step keeps the chains and the table sound.
LEMMA ChainNext ==
  ASSUME Inv, ChainInv, [Next]_vars
  PROVE  ChainInv'
<1>0. TypeInv /\ go \in [Turns -> GoRow] /\ \A t \in Turns : TurnInv(t)
  BY DEF Inv, TypeInv, TurnsInv
<1>1. ASSUME engine' = engine, rows' = rows, \A u \in Turns : Sound(engine, go'[u])
      PROVE  ChainInv'
  BY <1>1 DEF ChainInv
<1>2. ASSUME engine' = engine, rows' = rows, go' = go
      PROVE  ChainInv'
  BY <1>2 DEF ChainInv
<1>3. CASE UNCHANGED vars
  BY <1>2, <1>3 DEF vars
<1>4. ASSUME NEW c \in Clients, NEW b \in Boxes, aiTurn(c, b)
      PROVE  ChainInv'
  <2>1. engine' = engine /\ rows' = rows
    BY <1>4 DEF aiTurn, tableVars
  <2>2. CASE go' = go
    BY <1>2, <2>1, <2>2
  <2>3. CASE go' # go
    <3>1. PICK pc \in {"stub", "history"} : go' = [go EXCEPT ![posted + 1].pc = pc]
      BY <1>4, <2>3 DEF aiTurn
    <3>2. ASSUME NEW u \in Turns
          PROVE  Sound(engine, go'[u])
      <4>1. CASE u # posted + 1
        BY <1>0, <3>1, <4>1 DEF ChainInv
      <4>2. CASE u = posted + 1
        <5>1. PICK h \in GoRow : h = go[u]
          BY <1>0, GoFields
        <5>2. go'[u] = [h EXCEPT !.pc = pc]
          BY <1>0, <3>1, <4>2, <5>1
        <5>3. go'[u].pc = pc
          BY <5>2 DEF GoRow
        <5>4. QED
          BY <3>1, <5>3, SoundEnd
      <4>3. QED
        BY <4>1, <4>2
    <3>3. QED
      BY <1>1, <2>1, <3>2
  <2>4. QED
    BY <2>2, <2>3
<1>5. ASSUME NEW t \in Turns, Drain(t) \/ HandlerReturns(t) \/ HangUp(t)
      PROVE  ChainInv'
  BY <1>2, <1>5 DEF Drain, HandlerReturns, HangUp, requestVars, tableVars
<1>6. ASSUME NEW t \in Turns, Deadline(t)
      PROVE  ChainInv'
  <2>1. engine' = engine /\ rows' = rows /\ go' = [go EXCEPT ![t].expired = TRUE]
    BY <1>6 DEF Deadline, requestVars, tableVars
  <2>2. PICK h \in GoRow : h = go[t]
    BY <1>0, GoFields
  <2>3. go'[t] = [h EXCEPT !.expired = TRUE] /\ \A u \in Turns : u # t => go'[u] = go[u]
    BY <1>0, <2>1, <2>2
  <2>4. /\ go'[t].pc = h.pc /\ go'[t].messages = h.messages
        /\ go'[t].calls = h.calls /\ go'[t].results = h.results
    BY <2>3 DEF GoRow
  <2>5. Sound(engine, h)
    BY <2>2 DEF ChainInv
  <2>6. Sound(engine, go'[t])
    BY <2>4, <2>5 DEF Sound
  <2>7. \A u \in Turns : Sound(engine, go'[u])
    BY <2>3, <2>6 DEF ChainInv
  <2>8. QED
    BY <1>1, <2>1, <2>7
<1>7. ASSUME NEW t \in Turns, EngineRun(t)
      PROVE  ChainInv'
  <2>1. StepOK(t)
    BY <1>0, <1>7, EngineStepOK
  <2>2. CASE ProviderStep(t)
    BY <1>0, <2>1, <2>2, ProviderSound, RowSettled, ChainKept
  <2>3. CASE StubRun(t)
    <3>1. Sound(engine, go'[t]) /\ rows' = rows
      BY <1>0, <2>3, StubEnds, SoundEnd
    <3>2. QED
      BY <1>0, <2>1, <3>1, ChainKept
  <2>4. QED
    BY <1>0, <1>7, <2>2, <2>3, EngineSteps
<1>8. CASE FiveDaysPass \/ NewMonth
  BY <1>2, <1>8 DEF FiveDaysPass, NewMonth, requestVars
<1>9. CASE Restart
  <2>1. engine' = engine /\ rows' = rows
    BY <1>9 DEF Restart, requestVars, tableVars
  <2>2. ASSUME NEW u \in Turns
        PROVE  Sound(engine, go'[u])
    <3>1. go'[u] = go[u] \/ go'[u] = Ended
      BY <1>9 DEF Restart, Ended
    <3>2. QED
      BY <3>1, SoundEnd, IdleTyped DEF ChainInv
  <2>3. QED
    BY <1>1, <2>1, <2>2
<1>10. QED
  BY <1>3, <1>4, <1>5, <1>6, <1>7, <1>8, <1>9 DEF Next

-----------------------------------------------------------------------------
(* Blank messages *)

\* A blank message ends its turn, so that it can come into a history only from a row.
Done == {t \in Turns : go[t].pc \in {"finish", "closed"}}
Past(D) == {x \in Messages : x.role = "blank" => x.turn \in D}

\* A chain that is to be sent or answered has blank messages of other turns only; one
\* that is to be written may end with its own.
Clean(t, g, D) ==
  /\ g.pc \in {"ask", "stream", "call", "tool"} => g.messages \in Seq(Past(D))
  /\ g.pc = "insert" => g.messages \in Seq(Past(D \cup {t}))

BlankInv ==
  /\ \A t \in Turns : Clean(t, go[t], Done)
  /\ \A i \in DOMAIN rows : rows[i].messages \in Seq(Past(Done))

\* What was clean stays so when more turns are done.
LEMMA CleanGrows ==
  ASSUME NEW D, NEW E, D \subseteq E
  PROVE  /\ \A m : m \in Seq(Past(D)) => m \in Seq(Past(E))
         /\ \A t, g : Clean(t, g, D) => Clean(t, g, E)
<1>1. ASSUME NEW A, NEW B, A \subseteq B, NEW m \in Seq(Past(A))
      PROVE  m \in Seq(Past(B))
  <2>1. Past(A) \subseteq Past(B)
    BY <1>1 DEF Past
  <2> DEFINE P == Past(A)
             Q == Past(B)
  <2>2. P \subseteq Q /\ m \in Seq(P)
    BY <2>1
  <2> HIDE DEF P, Q
  <2>3. m \in Seq(Q)
    BY <2>2
  <2>4. QED
    BY <2>3 DEF Q
<1>2. \A m : m \in Seq(Past(D)) => m \in Seq(Past(E))
  BY <1>1
<1>3. ASSUME NEW t, NEW g, Clean(t, g, D)
      PROVE  Clean(t, g, E)
  <2>1. D \cup {t} \subseteq E \cup {t}
    OBVIOUS
  <2>2. g.messages \in Seq(Past(D \cup {t})) => g.messages \in Seq(Past(E \cup {t}))
    BY <1>1, <2>1
  <2>3. QED
    BY <1>2, <1>3, <2>2 DEF Clean
<1>4. QED
  BY <1>2, <1>3

\* A goroutine without a chain is clean; so is one that has ended.
LEMMA CleanEnd ==
  /\ \A t, g, D : g.pc \notin {"ask", "stream", "call", "tool", "insert"} => Clean(t, g, D)
  /\ \A t \in Turns : \A D : TypeInv /\ Close(t) => Clean(t, go'[t], D)
<1>1. \A t, g, D : g.pc \notin {"ask", "stream", "call", "tool", "insert"} => Clean(t, g, D)
  BY DEF Clean
<1>2. ASSUME NEW t \in Turns, NEW D, TypeInv, Close(t)
      PROVE  Clean(t, go'[t], D)
  <2>1. go'[t] = Ended
    BY <1>2 DEF TypeInv, Close, Ended
  <2>2. QED
    BY <1>1, <2>1, IdleTyped
<1>3. QED
  BY <1>1, <1>2

\* A goroutine that answers goes on or returns, and either way it is clean.
LEMMA SentClean ==
  ASSUME TypeInv, NEW t \in Turns, NEW g, NEW D, Clean(t, g, D), SendOrReturn(t, g)
  PROVE  Clean(t, go'[t], D)
<1>1. CASE go' = [go EXCEPT ![t] = g]
  BY <1>1 DEF TypeInv
<1>2. CASE Close(t)
  BY <1>2, CleanEnd
<1>3. QED
  BY <1>1, <1>2 DEF SendOrReturn

\* The chain a turn begins with has only the blank messages of the rows.
LEMMA FirstChainClean ==
  ASSUME TypeInv, BlankInv, NEW t \in Turns, NEW b
  PROVE  Prompt \o HistoryOf(b) \o <<[role |-> "user", turn |-> t, calls |-> 0]>> \in Seq(Past(Done))
<1> DEFINE user == [role |-> "user", turn |-> t, calls |-> 0]
           system == [role |-> "system", turn |-> 0, calls |-> 0]
           P == Past(Done)
<1>1. user \in P /\ system \in P
  BY Bounds, TurnAssumption DEF Messages, Roles, Turns, Past
<1>2. HistoryOf(b) \in Seq(P)
  BY HistoriesMadeOf DEF BlankInv, HistoryOf
<1> HIDE DEF user, system, P
<1>3. Prompt \in Seq(P)
  <2>1. <<system>> \in Seq(P) /\ <<>> \in Seq(P)
    BY <1>1
  <2>2. QED
    BY <2>1 DEF Prompt, system
<1>4. Prompt \o HistoryOf(b) \o <<user>> \in Seq(P)
  <2>1. <<user>> \in Seq(P)
    BY <1>1
  <2>2. QED
    BY <1>2, <1>3, <2>1
<1>5. QED
  BY <1>4 DEF user, P

\* A blank reply makes no calls, so nothing but its row comes after it.
LEMMA RepliedClean ==
  ASSUME TypeInv, NEW t \in Turns, NEW h \in GoRow, h.pc = "stream", NEW D, Clean(t, h, D),
         NEW r \in ReplySet, h.iter < MaxIters, h.late = 0
  PROVE  Clean(t, Replied(t, h, r), D)
<1> DEFINE message == ReplyMessage(t, r)
<1>1. PICK g \in GoRow :
        /\ g = Replied(t, h, r) /\ g.messages = Append(h.messages, message)
        /\ g.pc = (IF r.calls = 0 THEN "insert" ELSE "call")
  BY RepliedFields
<1>2. r.calls \in 0..MaxCalls /\ r.blank \in BOOLEAN /\ (r.blank => r.calls = 0)
  BY DEF ReplySet
<1>3. /\ message \in Messages /\ message.turn = t
      /\ message.role = (IF r.blank THEN "blank" ELSE "assistant")
  BY <1>2 DEF ReplyMessage, Messages, Roles, Turns
<1>4. h.messages \in Seq(Past(D)) /\ h.messages \in Seq(Past(D \cup {t}))
  <2>1. h.messages \in Seq(Past(D)) /\ D \subseteq D \cup {t}
    BY DEF Clean
  <2>2. QED
    BY <2>1, CleanGrows
<1> HIDE DEF message
<1>5. message \in Past(D \cup {t}) /\ (r.calls # 0 => message \in Past(D))
  BY <1>2, <1>3 DEF Past
<1>6. Append(h.messages, message) \in Seq(Past(D \cup {t}))
  <2> DEFINE P == Past(D \cup {t})
  <2>1. message \in P /\ h.messages \in Seq(P)
    BY <1>4, <1>5
  <2> HIDE DEF P
  <2>2. Append(h.messages, message) \in Seq(P)
    BY <2>1
  <2>3. QED
    BY <2>2 DEF P
<1>7. r.calls # 0 => Append(h.messages, message) \in Seq(Past(D))
  <2> DEFINE P == Past(D)
  <2>1. (r.calls # 0 => message \in P) /\ h.messages \in Seq(P)
    BY <1>4, <1>5
  <2> HIDE DEF P
  <2>2. r.calls # 0 => Append(h.messages, message) \in Seq(P)
    BY <2>1
  <2>3. QED
    BY <2>2 DEF P
<1>8. Clean(t, g, D)
  BY <1>1, <1>6, <1>7 DEF Clean
<1>9. QED
  BY <1>1, <1>8

\* Results are not blank.
LEMMA ReportedClean ==
  ASSUME TypeInv, NEW t \in Turns, NEW h \in GoRow, h.pc = "tool", NEW D, Clean(t, h, D),
         h.messages # <<>>, h.calls >= 1, h.calls + h.results <= MaxCalls,
         NEW g, g.messages = h.messages \o ResultsOf(h),
         g.pc = IF h.calls > 1 THEN "call" ELSE Again(h)
  PROVE  Clean(t, g, D)
<1>1. PICK o : o = ResultsOf(h) /\ o \in Seq(Answers)
  BY ResultsTyped
<1>2. Answers \subseteq Past(D)
  BY DEF Answers, Past
<1> DEFINE P == Past(D)
<1>3. Answers \subseteq P /\ h.messages \in Seq(P)
  BY <1>2 DEF Clean
<1> HIDE DEF P
<1>4. o \in Seq(P)
  BY <1>1, <1>3
<1>5. h.messages \o o \in Seq(P)
  BY <1>3, <1>4
<1>6. g.messages \in Seq(Past(D))
  BY <1>1, <1>5 DEF P
<1>7. g.messages \in Seq(Past(D \cup {t}))
  <2>1. D \subseteq D \cup {t}
    OBVIOUS
  <2>2. QED
    BY <1>6, <2>1, CleanGrows
<1>8. QED
  BY <1>6, <1>7 DEF Clean

\* Every step of an engine that talks to a provider leaves its goroutine clean.
LEMMA ProviderClean ==
  ASSUME TypeInv, BlankInv, NEW t \in Turns, TurnInv(t), ProviderStep(t)
  PROVE  Clean(t, go'[t], Done)
<1>1. ASSUME NEW fault, Abort(t, fault)
      PROVE  Clean(t, go'[t], Done)
  BY <1>1, CleanEnd DEF Abort, emitErr
<1>2. Clean(t, go[t], Done) /\ go \in [Turns -> GoRow]
  BY DEF BlankInv, TypeInv
<1>3. PICK h \in GoRow : h = go[t]
  BY GoFields
<1>4. CASE LoadHistory(t, Prompt, HistoryOf(req[t].box))
  <2> DEFINE chain == Prompt \o HistoryOf(req[t].box) \o <<[role |-> "user", turn |-> t, calls |-> 0]>>
  <2>0. chain \in Seq(Past(Done))
    BY FirstChainClean
  <2>1. CASE go' = [go EXCEPT ![t] = [go[t] EXCEPT !.pc = "ask", !.messages = chain]]
    <3> HIDE DEF chain
    <3>1. go'[t] = [h EXCEPT !.pc = "ask", !.messages = chain]
      BY <1>2, <1>3, <2>1
    <3>2. go'[t].pc = "ask" /\ go'[t].messages = chain
      BY <3>1 DEF GoRow
    <3>3. QED
      BY <2>0, <3>2 DEF Clean
  <2>2. QED
    BY <1>1, <1>4, <2>1 DEF LoadHistory
<1>5. CASE Ask(t)
  <2>1. CASE Goto(t, "stream")
    <3>1. go'[t] = [h EXCEPT !.pc = "stream"]
      BY <1>2, <1>3, <2>1 DEF Goto
    <3>2. go'[t].pc = "stream" /\ go'[t].messages = h.messages
      BY <3>1 DEF GoRow
    <3>3. h.pc = "ask"
      BY <1>3, <1>5 DEF Ask
    <3>4. QED
      BY <1>2, <1>3, <3>2, <3>3 DEF Clean
  <2>2. QED
    BY <1>1, <1>5, <2>1 DEF Ask
<1>6. CASE Token(t)
  <2>1. CASE go' = [go EXCEPT ![t].said = TRUE]
    <3>1. go'[t] = [h EXCEPT !.said = TRUE]
      BY <1>2, <1>3, <2>1
    <3>2. go'[t].pc = h.pc /\ go'[t].messages = h.messages
      BY <3>1 DEF GoRow
    <3>3. QED
      BY <1>2, <1>3, <3>2 DEF Clean
  <2>2. QED
    BY <1>1, <1>6, <2>1 DEF Token
<1>7. CASE Reply(t, ReplySet)
  <2>1. PICK r \in ReplySet : go' = [go EXCEPT ![t] = Replied(t, go[t], r)]
    BY <1>7 DEF Reply
  <2>2. go'[t] = Replied(t, h, r)
    BY <1>2, <1>3, <2>1
  <2>3. h.pc = "stream" /\ h.iter < MaxIters /\ h.late = 0
    BY <1>3, <1>7 DEF Reply, TurnInv, CutInv, LoopInv
  <2>4. QED
    BY <1>2, <1>3, <2>2, <2>3, RepliedClean
<1>8. CASE Announce(t)
  <2>1. h.pc = "call" /\ SendOrReturn(t, [h EXCEPT !.pc = "tool"])
    BY <1>3, <1>8 DEF Announce
  <2>2. PICK g \in GoRow : g = [h EXCEPT !.pc = "tool"] /\ g.pc = "tool" /\ g.messages = h.messages
    <3>1. [h EXCEPT !.pc = "tool"] \in GoRow
      BY DEF GoRow, Pcs
    <3>2. QED
      BY <3>1 DEF GoRow
  <2>3. Clean(t, g, Done)
    BY <1>2, <1>3, <2>1, <2>2 DEF Clean
  <2>4. QED
    BY <2>1, <2>2, <2>3, SentClean
<1>9. CASE Report(t, ResultsOf(go[t]))
  <2> DEFINE chain == h.messages \o ResultsOf(h)
             pc == IF h.calls > 1 THEN "call" ELSE Again(h)
             new == [h EXCEPT !.messages = chain, !.calls = h.calls - 1,
                              !.results = h.results + 1, !.pc = pc]
  <2>1. h.pc = "tool" /\ h.messages # <<>> /\ h.calls >= 1 /\ h.calls + h.results <= MaxCalls
    BY <1>3, <1>9 DEF Report, TurnInv, LoopInv
  <2>2. SendOrReturn(t, new)
    BY <1>3, <1>9 DEF Report
  <2>3. new.messages = chain /\ new.pc = pc
    <3> HIDE DEF chain, pc
    <3>1. QED
      BY DEF GoRow
  <2> HIDE DEF new
  <2>4. Clean(t, new, Done)
    BY <1>2, <1>3, <2>1, <2>3, ReportedClean
  <2>5. QED
    BY <2>2, <2>4, SentClean
<1>10. CASE Persist(t)
  <2>1. CASE Goto(t, "finish")
    <3>1. go'[t] = [h EXCEPT !.pc = "finish"]
      BY <1>2, <1>3, <2>1 DEF Goto
    <3>2. go'[t].pc = "finish"
      BY <3>1 DEF GoRow
    <3>3. QED
      BY <3>2, CleanEnd
  <2>2. CASE go' = [go EXCEPT ![t].pc = "finish", ![t].unsaved = TRUE]
    <3>1. go'[t] = [h EXCEPT !.pc = "finish", !.unsaved = TRUE]
      BY <1>2, <1>3, <2>2
    <3>2. go'[t].pc = "finish"
      BY <3>1 DEF GoRow
    <3>3. QED
      BY <3>2, CleanEnd
  <2>3. QED
    BY <1>10, <2>1, <2>2 DEF Persist
<1>11. CASE Finish(t)
  BY <1>11, CleanEnd DEF Finish
<1>12. QED
  BY <1>4, <1>5, <1>6, <1>7, <1>8, <1>9, <1>10, <1>11 DEF ProviderStep

\* A goroutine that is done stays so: its last step closes its channel.
LEMMA DoneGrows ==
  ASSUME TypeInv, NEW t \in Turns, StepOK(t), ProviderStep(t) \/ StubRun(t)
  PROVE  Done \subseteq Done'
<1>1. go \in [Turns -> GoRow] /\ \A u \in Turns : u # t => go'[u] = go[u]
  BY DEF TypeInv, StepOK
<1>2. ASSUME go[t].pc \in {"finish", "closed"}
      PROVE  go'[t].pc \in {"finish", "closed"}
  <2>1. Finish(t)
    BY <1>2 DEF ProviderStep, StubRun, LoadHistory, Ask, Token, Reply, Announce, Report, Persist
  <2>2. go'[t] = Ended
    BY <1>1, <2>1 DEF Finish, Close, Ended
  <2>3. QED
    BY <2>2, IdleTyped
<1>3. QED
  BY <1>1, <1>2 DEF Done

\* The row that a step writes has blank messages of turns that are done: its own turn is.
LEMMA RowClean ==
  ASSUME TypeInv, BlankInv, NEW t \in Turns, TurnInv(t), ProviderStep(t), StepOK(t), Done \subseteq Done'
  PROVE  \/ rows' = rows
         \/ \E r \in TurnRow : rows' = Append(rows, r) /\ r.messages \in Seq(Past(Done'))
<1>1. CASE rows' = rows
  BY <1>1
<1>2. CASE rows' # rows
  <2>1. ASSUME NEW fault, Abort(t, fault)
        PROVE  FALSE
    BY <1>2, <2>1, TurnAssumption DEF Abort, emitErr, InsertTurn
  <2>2. Persist(t)
    BY <1>2, <2>1 DEF ProviderStep, LoadHistory, Ask, Token, Reply, Announce, Report, Finish,
                      SendOrReturn, tableVars
  <2> DEFINE r == [turn |-> t, box |-> req[t].box, messages |-> go[t].messages,
                   cost |-> CostCents(go[t].used)]
  <2>3. go[t].pc = "insert" /\ InsertTurn(r) /\ Goto(t, "finish")
    BY <1>2, <2>2 DEF Persist
  <2>4. PICK h \in GoRow : h = go[t]
    BY GoFields
  <2>5. go'[t] = [h EXCEPT !.pc = "finish"]
    BY <2>3, <2>4 DEF Goto, TypeInv
  <2>6. go'[t].pc = "finish"
    BY <2>5 DEF GoRow
  <2>7. Done \cup {t} \subseteq Done'
    BY <2>6 DEF Done
  <2>8. go[t].messages \in Seq(Past(Done \cup {t}))
    BY <2>3 DEF BlankInv, Clean
  <2>9. go[t].messages \in Seq(Past(Done'))
    BY <2>7, <2>8, CleanGrows
  <2>10. r \in TurnRow
    <3>1. r \in TurnRow \/ r.box \notin Boxes
      BY GoFields, Costs DEF TurnRow
    <3>2. QED
      BY <1>2, <2>3, <3>1 DEF InsertTurn
  <2>11. rows' = Append(rows, r) /\ r.messages = go[t].messages
    BY <1>2, <2>3 DEF InsertTurn
  <2>12. QED
    BY <2>9, <2>10, <2>11
<1>3. QED
  BY <1>1, <1>2

\* The rows stay clean as turns are done, and with one clean row more.
LEMMA RowsStayClean ==
  ASSUME TypeInv, BlankInv, Done \subseteq Done',
         \/ rows' = rows
         \/ \E r \in TurnRow : rows' = Append(rows, r) /\ r.messages \in Seq(Past(Done'))
  PROVE  \A i \in DOMAIN rows' : rows'[i].messages \in Seq(Past(Done'))
<1>1. \A i \in DOMAIN rows : rows[i].messages \in Seq(Past(Done'))
  BY CleanGrows DEF BlankInv
<1>2. CASE rows' = rows
  BY <1>1, <1>2
<1>3. ASSUME NEW r \in TurnRow, rows' = Append(rows, r), r.messages \in Seq(Past(Done'))
      PROVE  \A i \in DOMAIN rows' : rows'[i].messages \in Seq(Past(Done'))
  <2>1. /\ Len(rows) \in Nat
        /\ DOMAIN rows = 1..Len(rows) /\ DOMAIN rows' = 1..(Len(rows) + 1)
        /\ rows'[Len(rows) + 1] = r /\ \A i \in DOMAIN rows : rows'[i] = rows[i]
    BY <1>3, RowAppended
  <2>2. \A i \in DOMAIN rows' : i \in DOMAIN rows \/ i = Len(rows) + 1
    BY <2>1
  <2>3. QED
    BY <1>1, <1>3, <2>1, <2>2
<1>4. QED
  BY <1>2, <1>3

\* Every step keeps the chains and the table clean.
LEMMA BlankNext ==
  ASSUME Inv, BlankInv, [Next]_vars
  PROVE  BlankInv'
<1>0. TypeInv /\ go \in [Turns -> GoRow] /\ \A t \in Turns : TurnInv(t)
  BY DEF Inv, TypeInv, TurnsInv
\* Where no row is written, each goroutine may stay as it is, end, or go on clean.
<1>1. ASSUME rows' = rows, Done \subseteq Done', \A u \in Turns : Clean(u, go'[u], Done)
      PROVE  BlankInv'
  <2>1. \A u \in Turns : Clean(u, go'[u], Done')
    BY <1>1, CleanGrows
  <2>2. \A i \in DOMAIN rows' : rows'[i].messages \in Seq(Past(Done'))
    BY <1>0, <1>1, RowsStayClean
  <2>3. QED
    BY <2>1, <2>2 DEF BlankInv
<1>2. ASSUME rows' = rows, go' = go
      PROVE  BlankInv'
  <2>1. Done' = Done
    BY <1>2 DEF Done
  <2>2. QED
    BY <1>1, <1>2, <2>1 DEF BlankInv
<1>3. CASE UNCHANGED vars
  BY <1>2, <1>3 DEF vars
<1>4. ASSUME NEW c \in Clients, NEW b \in Boxes, aiTurn(c, b)
      PROVE  BlankInv'
  <2>1. rows' = rows
    BY <1>4 DEF aiTurn, tableVars
  <2>2. CASE go' = go
    BY <1>2, <2>1, <2>2
  <2>3. CASE go' # go
    <3>0. posted + 1 \in Turns /\ posted + 1 > posted
      BY <1>0, <1>4 DEF aiTurn, TypeInv, Turns
    <3>1. PICK pc \in {"stub", "history"} : go' = [go EXCEPT ![posted + 1].pc = pc]
      BY <1>4, <2>3 DEF aiTurn
    <3>2. go[posted + 1].pc = "none"
      <4>1. LifeInv(posted + 1)
        BY <1>0, <3>0 DEF TurnInv
      <4>2. QED
        BY <3>0, <4>1 DEF LifeInv, Idle
    <3>3. ASSUME NEW u \in Turns
          PROVE  /\ Clean(u, go'[u], Done)
                 /\ go[u].pc \in {"finish", "closed"} => go'[u].pc \in {"finish", "closed"}
      <4>1. CASE u # posted + 1
        BY <1>0, <3>1, <4>1 DEF BlankInv
      <4>2. CASE u = posted + 1
        <5>1. PICK h \in GoRow : h = go[u]
          BY <1>0, GoFields
        <5>2. go'[u] = [h EXCEPT !.pc = pc]
          BY <1>0, <3>1, <4>2, <5>1
        <5>3. go'[u].pc = pc
          BY <5>2 DEF GoRow
        <5>4. QED
          BY <3>1, <3>2, <4>2, <5>3, CleanEnd
      <4>3. QED
        BY <4>1, <4>2
    <3>4. Done \subseteq Done'
      BY <3>3 DEF Done
    <3>5. QED
      BY <1>1, <2>1, <3>3, <3>4
  <2>4. QED
    BY <2>2, <2>3
<1>5. ASSUME NEW t \in Turns, Drain(t) \/ HandlerReturns(t) \/ HangUp(t)
      PROVE  BlankInv'
  BY <1>2, <1>5 DEF Drain, HandlerReturns, HangUp, requestVars, tableVars
<1>6. ASSUME NEW t \in Turns, Deadline(t)
      PROVE  BlankInv'
  <2>1. rows' = rows /\ go' = [go EXCEPT ![t].expired = TRUE]
    BY <1>6 DEF Deadline, requestVars, tableVars
  <2>2. PICK h \in GoRow : h = go[t]
    BY <1>0, GoFields
  <2>3. go'[t] = [h EXCEPT !.expired = TRUE] /\ \A u \in Turns : u # t => go'[u] = go[u]
    BY <1>0, <2>1, <2>2
  <2>4. go'[t].pc = h.pc /\ go'[t].messages = h.messages
    BY <2>3 DEF GoRow
  <2>5. Clean(t, h, Done)
    BY <2>2 DEF BlankInv
  <2>6. Clean(t, go'[t], Done)
    BY <2>4, <2>5 DEF Clean
  <2>7. \A u \in Turns : Clean(u, go'[u], Done)
    BY <2>3, <2>6 DEF BlankInv
  <2>8. Done \subseteq Done'
    BY <2>2, <2>3, <2>4 DEF Done
  <2>9. QED
    BY <1>1, <2>1, <2>7, <2>8
<1>7. ASSUME NEW t \in Turns, EngineRun(t)
      PROVE  BlankInv'
  <2>1. StepOK(t) /\ (ProviderStep(t) \/ StubRun(t))
    BY <1>0, <1>7, EngineStepOK, EngineSteps
  <2>2. Done \subseteq Done' /\ \A u \in Turns : u # t => go'[u] = go[u]
    BY <1>0, <2>1, DoneGrows DEF StepOK
  <2>3. CASE ProviderStep(t)
    <3>1. Clean(t, go'[t], Done)
      BY <1>0, <2>3, ProviderClean
    <3>2. \A u \in Turns : Clean(u, go'[u], Done')
      BY <2>2, <3>1, CleanGrows DEF BlankInv
    <3>3. \A i \in DOMAIN rows' : rows'[i].messages \in Seq(Past(Done'))
      BY <1>0, <2>1, <2>2, <2>3, RowClean, RowsStayClean
    <3>4. QED
      BY <3>2, <3>3 DEF BlankInv
  <2>4. CASE StubRun(t)
    <3>1. go'[t].pc \notin {"ask", "stream", "call", "tool", "insert"} /\ rows' = rows
      BY <1>0, <2>4, StubEnds
    <3>2. \A u \in Turns : Clean(u, go'[u], Done)
      BY <2>2, <3>1, CleanEnd DEF BlankInv
    <3>3. QED
      BY <1>1, <2>2, <3>1, <3>2
  <2>5. QED
    BY <2>1, <2>3, <2>4
<1>8. CASE FiveDaysPass \/ NewMonth
  BY <1>2, <1>8 DEF FiveDaysPass, NewMonth, requestVars
<1>9. CASE Restart
  <2>1. rows' = rows
    BY <1>9 DEF Restart, requestVars, tableVars
  <2>2. \A u \in Turns : go'[u] = Ended \/ (go'[u] = go[u] /\ go[u].pc = "none")
    BY <1>9 DEF Restart, Ended
  <2>3. Done \subseteq Done'
    BY <2>2, IdleTyped DEF Done
  <2>4. \A u \in Turns : Clean(u, go'[u], Done)
    BY <2>2, CleanEnd, IdleTyped
  <2>5. QED
    BY <1>1, <2>1, <2>3, <2>4
<1>10. QED
  BY <1>3, <1>4, <1>5, <1>6, <1>7, <1>8, <1>9 DEF Next

\* Of the chains that are sent, for every engine, number of calls and history, the system
\* prompt is where it belongs and nowhere else, each call is answered directly behind it,
\* nothing else is an answer and the user's side comes last (openai_engine.go:391).  A
\* message with neither text nor calls, which a provider refuses, may be in a chain, but
\* never one that this turn received.
THEOREM ChainsOrdered == Spec => []OnlyBlanksRefused
<1>1. Init => ChainInv /\ BlankInv
  <2> SUFFICES ASSUME Init
               PROVE  ChainInv /\ BlankInv
    OBVIOUS
  <2>1. \A t \in Turns : go[t].pc = "none"
    BY DEF Init, Idle
  <2>2. DOMAIN rows = {}
    BY DEF Init
  <2>3. QED
    BY <2>1, <2>2, SoundEnd, CleanEnd DEF ChainInv, BlankInv
<1>2. Inv /\ ChainInv /\ BlankInv /\ [Next]_vars => ChainInv' /\ BlankInv'
  BY ChainNext, BlankNext
<1>3. ChainInv /\ BlankInv => OnlyBlanksRefused
  <2> SUFFICES ASSUME ChainInv, BlankInv, NEW t \in Turns, go[t].pc \in {"ask", "stream"}
               PROVE  LET m == go[t].messages
                      IN /\ {i \in DOMAIN m : m[i].role = "system"}
                              = (IF engine = "openai" THEN {1} ELSE {})
                         /\ \A i \in DOMAIN m :
                              /\ m[i].role \in {"assistant", "blank"} => ResultsAfter(m, i) = m[i].calls
                              /\ m[i].role = "tool" => i > 1 /\ m[i - 1].role \in {"assistant", "tool"}
                              /\ m[i].role = "blank" => m[i].turn # t
                         /\ Last(m).role \in {"user", "tool"}
    BY DEF OnlyBlanksRefused
  <2>1. PICK m \in Owing(0) :
          /\ m = go[t].messages /\ Prompts(m) = Prompted(engine)
          /\ Last(m).role \in {"user", "tool"}
    BY DEF ChainInv, Sound
  <2>2. \A i \in DOMAIN m :
          /\ m[i].role \in {"assistant", "blank"} => ResultsAfter(m, i) = m[i].calls
          /\ m[i].role = "tool" => i > 1 /\ m[i - 1].role \in {"assistant", "tool"}
    BY <2>1, OwingAnswered
  <2>3. {i \in DOMAIN m : m[i].role = "system"} = (IF engine = "openai" THEN {1} ELSE {})
    BY <2>1 DEF Prompts, Prompted
  <2>4. m \in Seq(Past(Done)) /\ t \notin Done
    BY <2>1 DEF BlankInv, Clean, Done
  <2>5. \A i \in DOMAIN m : m[i] \in Past(Done)
    BY <2>4
  <2>6. \A i \in DOMAIN m : m[i].role = "blank" => m[i].turn # t
    BY <2>4, <2>5 DEF Past
  <2>7. QED
    BY <2>1, <2>2, <2>3, <2>6
<1>4. QED
  BY <1>1, <1>2, <1>3, TurnCorrect, PTL DEF Spec

=============================================================================
