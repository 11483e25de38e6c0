------------------------------- MODULE AITurn -------------------------------
(***************************************************************************)
(* POST /ai/turn: the budget gate and the SSE loop of handler/ai.go, the   *)
(* goroutine each engine of internal/ai starts, and the ai_turns table     *)
(* that holds both the conversation and what it cost.                      *)
(*                                                                         *)
(* A turn is two goroutines joined by a bounded channel: the engine's      *)
(* fills out[t] and the handler drains it into the response.  They also    *)
(* share a context, which ends when the client hangs up, when the handler  *)
(* returns or at the engine's timeout.  A select on the channel and the    *)
(* context may take either branch when both are ready.                     *)
(*                                                                         *)
(* The engines differ in how they replay the history, in what they keep of *)
(* a reply and in how they put tool results into the chain; the steps they *)
(* share are parameterised by those.  A chat message is its role, the turn *)
(* it belongs to, and how many tool calls it makes or answers; "blank" is  *)
(* the role of an assistant's message with neither text nor calls.  A      *)
(* frame is "delta" (Token, ToolCall, ToolRes) or "last" (Finished, Err).  *)
(*                                                                         *)
(* The relay's HTTP server sets no WriteTimeout (main.go:335), so a client *)
(* that neither reads nor leaves blocks the handler in a write, which no   *)
(* timeout of the program ends.  What is said of the end of a turn assumes *)
(* that a client reads or leaves: every write returns.                     *)
(***************************************************************************)
EXTENDS Integers, Sequences, FiniteSets, SequencesExt

CONSTANTS
  Clients,       \* the app screens of one user, each with one turn at a time
  Boxes,         \* box ids a request may name
  Mine,          \* the boxes in the user's namespace
  Deployments,   \* the AI configurations the relay may be started with
  Cap,           \* capacity of the frame channel (16 in the engines, 8 in the stub)
  MaxIters,      \* cfg.MaxIters
  HistoryLimit,  \* the limit of turns.Recent (20)
  LLMBudgetCentsPer5d, LLMBudgetCentsPerMonth, \* -1 is unlimited
  MaxTurns,      \* bound: requests
  CallIndices,   \* bound: the sets of indices that a reply's tool calls may have
  MaxText,       \* bound: text deltas in one reply
  Usage,         \* bound: what one provider call may consume
  Faults         \* subset of {"db", "provider", "crash"}

NoClient == "none"
NoBox == "none"

ASSUME TurnAssumption ==
  /\ NoBox \notin Boxes /\ Mine \subseteq Boxes
  /\ Cap \in Nat \ {0} /\ MaxIters \in Nat \ {0} /\ HistoryLimit \in Nat \ {0}
  /\ LLMBudgetCentsPer5d \in Int /\ LLMBudgetCentsPerMonth \in Int
  /\ MaxTurns \in Nat /\ MaxText \in Nat
  /\ CallIndices \subseteq SUBSET Nat /\ \A I \in CallIndices : IsFiniteSet(I)
  /\ CallIndices # {} /\ IsFiniteSet(CallIndices)
  /\ Usage \subseteq Nat \ {0} /\ Usage # {} /\ IsFiniteSet(Usage)
  /\ NoClient \notin Clients /\ IsFiniteSet(Clients) /\ Clients # {}
  /\ \A d \in Deployments :
       d \in [backend : STRING, key : BOOLEAN, url : BOOLEAN, model : BOOLEAN]

VARIABLES
  engine,     \* the engine main.go wired
  rows,       \* ai_turns, oldest first: [turn, box, messages, cost]
  since5d,    \* index of the first row younger than five days
  sinceMonth, \* index of the first row of this calendar month
  posted,     \* how many requests have been made; they are numbered from 1
  req,        \* what each request says: [client, box]
  handler,    \* aiTurn: "drain", or "gone" once its client has hung up
  go,         \* the engine's goroutine of each turn, with its local variables
  out         \* the frames in its channel

vars == <<engine, rows, since5d, sinceMonth, posted, req, handler, go, out>>
tableVars == <<rows, since5d, sinceMonth>>
requestVars == <<engine, posted, req>>

Turns == 1..MaxTurns

\* Registered provider ids; each has a base URL and a chat model.
Registry == {"deepseek", "openai", "moonshot", "zhipu", "dashscope", "minimax"}

\* Every other backend is a provider id that Resolve must know, except
\* openai-compatible, which brings its own URL and model.
NewOpenAIEngine(d) ==
  IF /\ d.key
     /\ d.backend \in Registry \/ (d.backend = "openai-compatible" /\ d.url /\ d.model)
  THEN "openai" ELSE "fatal"

NewAnthropicEngine(d) == IF d.key THEN "anthropic" ELSE "fatal"

NewGeminiEngine(d) == IF d.key THEN "gemini" ELSE "fatal"

WireEngine(d) ==
  CASE d.backend \in {"", "stub"} -> "stub"
    [] d.backend = "anthropic" -> NewAnthropicEngine(d)
    [] d.backend = "gemini" -> NewGeminiEngine(d)
    [] OTHER -> NewOpenAIEngine(d)

\* spent is what the provider consumed, used what the engine has seen of it;
\* late counts replies taken after the context had ended; said tells that text
\* of the reply under way has arrived, unsaved that the database refused the
\* turn's row.
Idle == [pc |-> "none", messages |-> <<>>, iter |-> 0, calls |-> 0, results |-> 0,
         text |-> 0, used |-> 0, spent |-> 0, late |-> 0,
         said |-> FALSE, expired |-> FALSE, unsaved |-> FALSE]

Init ==
  /\ \E d \in Deployments : engine = WireEngine(d) /\ engine # "fatal"
  /\ rows = <<>> /\ since5d = 1 /\ sinceMonth = 1
  /\ posted = 0
  /\ req = [t \in Turns |-> [client |-> NoClient, box |-> NoBox]]
  /\ handler = [t \in Turns |-> "none"]
  /\ go = [t \in Turns |-> Idle]
  /\ out = [t \in Turns |-> <<>>]

-----------------------------------------------------------------------------
(* The ai_turns table *)

\* RMB cents for a turn, rounded up: a turn that used anything costs at least
\* one cent.  Two units of Usage cost a cent.
CostCents(used) == IF used <= 0 THEN 0 ELSE (used + 1) \div 2

\* Where the last HistoryLimit turns of a box are in the table.
Recent(b) ==
  {i \in DOMAIN rows :
     rows[i].box = b /\ Cardinality({j \in i..Len(rows) : rows[j].box = b}) <= HistoryLimit}

\* Their messages, oldest first.
Replay(b) == FlattenSeq([i \in DOMAIN rows |-> IF i \in Recent(b) THEN rows[i].messages ELSE <<>>])

\* box_id references app_boxes, so a row for no box is refused.
InsertTurn(r) == rows' = IF r.box \in Boxes THEN Append(rows, r) ELSE rows

LLMSpentByNamespace(from) ==
  SumFunctionOnSet([i \in DOMAIN rows |-> rows[i].cost],
                   {i \in from..Len(rows) : rows[i].box \in Mine})

FiveDaysPass ==
  /\ since5d <= Len(rows)
  /\ since5d' = since5d + 1
  /\ UNCHANGED <<rows, sinceMonth, requestVars, handler, go, out>>

NewMonth ==
  /\ sinceMonth <= Len(rows)
  /\ sinceMonth' = Len(rows) + 1
  /\ UNCHANGED <<rows, since5d, requestVars, handler, go, out>>

-----------------------------------------------------------------------------
(* The gate and the handler *)

CheckLLMOffByOne ==
  /\ LLMBudgetCentsPer5d >= 0 => LLMSpentByNamespace(since5d) <= LLMBudgetCentsPer5d
  /\ LLMBudgetCentsPerMonth >= 0 => LLMSpentByNamespace(sinceMonth) <= LLMBudgetCentsPerMonth

\* One read of both windows; a cap is reached by spending it exactly.
CheckLLM ==
  /\ LLMBudgetCentsPer5d >= 0 => LLMSpentByNamespace(since5d) < LLMBudgetCentsPer5d
  /\ LLMBudgetCentsPerMonth >= 0 => LLMSpentByNamespace(sinceMonth) < LLMBudgetCentsPerMonth

Running(t) == handler[t] \in {"drain", "gone"}

\* A request up to Engine.Run, which starts the engine's goroutine: refused
\* for a box of another namespace, on a database error or by the gate.
aiTurn(c, b) ==
  LET t == posted + 1
      admitted == b \in Mine /\ CheckLLM
  IN /\ t \in Turns
     /\ ~ \E u \in Turns : req[u].client = c /\ Running(u)
     /\ posted' = t
     /\ req' = [req EXCEPT ![t] = [client |-> c, box |-> b]]
     /\ \/ /\ admitted
           /\ handler' = [handler EXCEPT ![t] = "drain"]
           /\ go' = [go EXCEPT ![t].pc = IF engine = "stub" THEN "stub" ELSE "history"]
        \/ /\ ~admitted \/ "db" \in Faults
           /\ handler' = [handler EXCEPT ![t] = "done"]
           /\ UNCHANGED go
     /\ UNCHANGED <<engine, tableVars, out>>

\* One turn of the SSE loop.  A frame is written whether or not the client
\* is still there; only then is the request's context looked at.
Drain(t) ==
  /\ Running(t) /\ out[t] # <<>>
  /\ out' = [out EXCEPT ![t] = Tail(@)]
  /\ handler' = [handler EXCEPT ![t] = IF @ = "gone" THEN "done" ELSE "drain"]
  /\ UNCHANGED <<requestVars, tableVars, go>>

\* The channel is closed and empty.
HandlerReturns(t) ==
  /\ Running(t) /\ out[t] = <<>> /\ go[t].pc = "closed"
  /\ handler' = [handler EXCEPT ![t] = "done"]
  /\ UNCHANGED <<requestVars, tableVars, go, out>>

\* net/http ends the request's context.
HangUp(t) ==
  /\ handler[t] = "drain"
  /\ handler' = [handler EXCEPT ![t] = "gone"]
  /\ UNCHANGED <<requestVars, tableVars, go, out>>

-----------------------------------------------------------------------------
(* What the engines share *)

\* The engine's context: the request's, which the handler also cancels when it
\* returns, with a timeout.
CtxDone(t) == handler[t] # "drain" \/ go[t].expired

\* context.WithTimeout, in effect only while nothing else has ended the
\* context; the stub has none.
Deadline(t) ==
  /\ engine # "stub"
  /\ go[t].pc \notin {"none", "closed"} /\ ~CtxDone(t)
  /\ go' = [go EXCEPT ![t].expired = TRUE]
  /\ UNCHANGED <<requestVars, tableVars, handler, out>>

Room(t) == Len(out[t]) < Cap

Put(t, frame) == out' = [out EXCEPT ![t] = Append(@, frame)]

Goto(t, pc) == go' = [go EXCEPT ![t].pc = pc]

Close(t) == go' = [go EXCEPT ![t] = [Idle EXCEPT !.pc = "closed"]]

emitErrLogsOnly(t) ==
  /\ InsertTurn([turn |-> t, box |-> NoBox, messages |-> <<>>, cost |-> 0])
  /\ Close(t) /\ UNCHANGED out

\* The send does not wait, and the row names no box.
emitErr(t) ==
  /\ IF Room(t) THEN Put(t, "last") ELSE UNCHANGED out
  /\ InsertTurn([turn |-> t, box |-> NoBox, messages |-> <<>>, cost |-> 0])
  /\ Close(t)

\* A step that waits for the database or the provider fails when the context
\* ends and when they do.
Abort(t, fault) ==
  /\ CtxDone(t) \/ fault \in Faults
  /\ emitErr(t)
  /\ UNCHANGED <<requestVars, since5d, sinceMonth, handler>>

LoadHistory(t, system, history) ==
  /\ go[t].pc = "history"
  /\ \/ /\ ~CtxDone(t)
        /\ go' = [go EXCEPT ![t] = [@ EXCEPT !.pc = "ask",
             !.messages = system \o history \o <<[role |-> "user", turn |-> t, calls |-> 0]>>]]
        /\ UNCHANGED <<requestVars, tableVars, handler, out>>
     \/ Abort(t, "db")

AskWithoutContext(t) ==
  /\ go[t].pc = "ask"
  /\ \/ /\ Goto(t, "stream")
        /\ UNCHANGED <<requestVars, tableVars, handler, out>>
     \/ Abort(t, "provider")

\* Opening the stream.
Ask(t) ==
  /\ go[t].pc = "ask"
  /\ \/ /\ ~CtxDone(t)
        /\ Goto(t, "stream")
        /\ UNCHANGED <<requestVars, tableVars, handler, out>>
     \/ Abort(t, "provider")

\* A text delta: a frame, or the end of the context, whichever select takes.
Token(t) ==
  /\ go[t].pc = "stream"
  /\ \/ /\ Room(t) /\ Put(t, "delta")
        /\ go' = [go EXCEPT ![t].said = TRUE]
        /\ UNCHANGED <<requestVars, tableVars, handler>>
     \/ Abort(t, "provider")

\* What a goroutine holds once it has read reply r.
Replied(t, g, r) ==
  [g EXCEPT
     !.pc = IF r.calls = 0 THEN "insert" ELSE "call",
     !.messages = Append(@, [role |-> IF r.blank THEN "blank" ELSE "assistant",
                             turn |-> t, calls |-> r.calls]),
     !.iter = @ + 1, !.calls = r.calls, !.results = 0, !.said = FALSE,
     !.used = @ + r.used, !.spent = @ + r.spent,
     !.late = @ + (IF CtxDone(t) THEN 1 ELSE 0)]

\* The end of the stream.  What is left of it may still be read after the
\* context has ended.
Reply(t, Replies) ==
  /\ go[t].pc = "stream"
  /\ \E r \in Replies : go' = [go EXCEPT ![t] = Replied(t, @, r)]
  /\ UNCHANGED <<requestVars, tableVars, handler, out>>

SendOrWait(t, sent) ==
  /\ Room(t) /\ Put(t, "delta") /\ go' = [go EXCEPT ![t] = sent]
  /\ UNCHANGED <<requestVars, tableVars, handler>>

\* A tool frame is sent, or the context has ended and the goroutine returns:
\* no last frame, no row.
SendOrReturn(t, sent) ==
  /\ \/ Room(t) /\ Put(t, "delta") /\ go' = [go EXCEPT ![t] = sent]
     \/ CtxDone(t) /\ Close(t) /\ UNCHANGED out
  /\ UNCHANGED <<requestVars, tableVars, handler>>

Announce(t) == go[t].pc = "call" /\ SendOrReturn(t, [go[t] EXCEPT !.pc = "tool"])

AgainOneMore(g) == IF g.iter <= MaxIters THEN "ask" ELSE "insert"

\* The loop condition, once all calls of a reply are answered.
Again(g) == IF g.iter < MaxIters THEN "ask" ELSE "insert"

\* RunTool has returned; fs_write and publish_box act on the box as BoxPublish
\* has it, and an error is the tool's result, never the turn's.  Once the result
\* is sent it enters the chain.
Report(t, results) ==
  /\ go[t].pc = "tool"
  /\ SendOrReturn(t, [go[t] EXCEPT
       !.messages = @ \o results,
       !.calls = @ - 1, !.results = @ + 1,
       !.pc = IF go[t].calls > 1 THEN "call" ELSE Again(go[t])])

PersistUnpriced(t) ==
  /\ go[t].pc = "insert"
  /\ \/ /\ ~CtxDone(t)
        /\ InsertTurn([turn |-> t, box |-> req[t].box, messages |-> go[t].messages, cost |-> 0])
        /\ Goto(t, "finish")
     \/ /\ CtxDone(t) \/ "db" \in Faults
        /\ go' = [go EXCEPT ![t].pc = "finish", ![t].unsaved = TRUE]
        /\ UNCHANGED rows
  /\ UNCHANGED <<requestVars, since5d, sinceMonth, handler, out>>

\* The row of a completed turn; an error is only logged.
Persist(t) ==
  /\ go[t].pc = "insert"
  /\ \/ /\ ~CtxDone(t)
        /\ InsertTurn([turn |-> t, box |-> req[t].box, messages |-> go[t].messages,
                       cost |-> CostCents(go[t].used)])
        /\ Goto(t, "finish")
     \/ /\ CtxDone(t) \/ "db" \in Faults
        /\ go' = [go EXCEPT ![t].pc = "finish", ![t].unsaved = TRUE]
        /\ UNCHANGED rows
  /\ UNCHANGED <<requestVars, since5d, sinceMonth, handler, out>>

\* The last frame is sent without looking at the context.
Finish(t) ==
  /\ go[t].pc = "finish"
  /\ Room(t) /\ Put(t, "last") /\ Close(t)
  /\ UNCHANGED <<requestVars, tableVars, handler>>

-----------------------------------------------------------------------------
(* The engines *)

OpenAIHistoryVerbatim(b) == Replay(b)

\* Without the system prompt each row begins with.
OpenAIHistory(b) ==
  LET m == Replay(b)
  IN FlattenSeq([i \in DOMAIN m |-> IF m[i].role = "system" THEN <<>> ELSE <<m[i]>>])

\* Calls stream in pieces under an index; only indices below their number
\* are assembled.
toolCalls(byIdx) == {i \in byIdx : i < Cardinality(byIdx)}

\* A provider that reports no usage leaves both counts at 0.
OpenAIReplies(said) ==
  UNION {{[calls |-> Cardinality(toolCalls(byIdx)), blank |-> ~said /\ toolCalls(byIdx) = {},
           used |-> used, spent |-> u] : used \in {0, u}} : byIdx \in CallIndices, u \in Usage}

\* One message per result.
OpenAIResults(g) ==
  <<[role |-> "tool", turn |-> Last(g.messages).turn, calls |-> 1]>>

OpenAIRun(t) ==
  /\ engine = "openai"
  /\ \/ LoadHistory(t, <<[role |-> "system", turn |-> 0, calls |-> 0]>>,
                    OpenAIHistory(req[t].box))
     \/ Ask(t) \/ Token(t) \/ Reply(t, OpenAIReplies(go[t].said))
     \/ Announce(t) \/ Report(t, OpenAIResults(go[t]))
     \/ Persist(t) \/ Finish(t)

AnthropicHistory(b) == Replay(b)

\* Of the content blocks text and tool_use are kept, others dropped.
contentBlocksToParams(blocks) == {i \in DOMAIN blocks : blocks[i] \in {"text", "tool_use"}}

extractToolUses(blocks) == {i \in contentBlocksToParams(blocks) : blocks[i] = "tool_use"}

ToolUses(I) == [i \in 1..Cardinality(I) |-> "tool_use"]

\* The text first, if any has come, then the calls.
Blocks(said) ==
  {first \o ToolUses(I) :
     first \in IF said THEN {<<"text">>} ELSE {<<>>, <<"thinking">>}, I \in CallIndices}

\* InputTokens leaves out what was read from or written to the prompt cache.
AnthropicReplies(said) ==
  UNION {{[calls |-> Cardinality(extractToolUses(blocks)),
           blank |-> contentBlocksToParams(blocks) = {}, used |-> used, spent |-> u] :
             used \in 1..u} : blocks \in Blocks(said), u \in Usage}

\* One message for all the results of a reply.
BundledResults(g) ==
  IF g.calls > 1 THEN <<>>
  ELSE <<[role |-> "tool", turn |-> Last(g.messages).turn, calls |-> g.results + 1]>>

AnthropicRun(t) ==
  /\ engine = "anthropic"
  /\ \/ LoadHistory(t, <<>>, AnthropicHistory(req[t].box))
     \/ Ask(t) \/ Token(t) \/ Reply(t, AnthropicReplies(go[t].said))
     \/ Announce(t) \/ Report(t, BundledResults(go[t]))
     \/ Persist(t) \/ Finish(t)

GeminiHistory(b) == Replay(b)

\* The usage of a chunk without content is passed over, so consumption may go
\* unseen.
GeminiReplies(said) ==
  UNION {{[calls |-> Cardinality(I), blank |-> ~said /\ I = {}, used |-> used, spent |-> u] :
             used \in 0..u} : I \in CallIndices, u \in Usage}

GeminiRun(t) ==
  /\ engine = "gemini"
  /\ \/ LoadHistory(t, <<>>, GeminiHistory(req[t].box))
     \/ Ask(t) \/ Token(t) \/ Reply(t, GeminiReplies(go[t].said))
     \/ Announce(t) \/ Report(t, BundledResults(go[t]))
     \/ Persist(t) \/ Finish(t)

\* The echo engine: text, then the last frame; nothing is stored.
StubRun(t) ==
  /\ engine = "stub"
  /\ \/ /\ go[t].pc = "stub"
        /\ \/ /\ go[t].text < MaxText /\ Room(t)
              /\ Put(t, "delta")
              /\ go' = [go EXCEPT ![t].text = @ + 1]
           \/ go[t].text = MaxText /\ Goto(t, "finish") /\ UNCHANGED out
           \/ /\ go[t].text < MaxText /\ CtxDone(t)
              /\ IF Room(t) THEN Put(t, "last") ELSE UNCHANGED out
              /\ Close(t)
        /\ UNCHANGED <<requestVars, tableVars, handler>>
     \/ Finish(t)

EngineRun(t) == OpenAIRun(t) \/ AnthropicRun(t) \/ GeminiRun(t) \/ StubRun(t)

\* The process dies and is started again with the same configuration.
Restart ==
  /\ "crash" \in Faults
  /\ \E t \in Turns : Running(t)
  /\ handler' = [t \in Turns |-> IF Running(t) THEN "done" ELSE handler[t]]
  /\ go' = [t \in Turns |-> IF go[t].pc = "none" THEN go[t] ELSE [Idle EXCEPT !.pc = "closed"]]
  /\ out' = [t \in Turns |-> <<>>]
  /\ UNCHANGED <<requestVars, tableVars>>

Next ==
  \/ \E c \in Clients, b \in Boxes : aiTurn(c, b)
  \/ \E t \in Turns : Drain(t) \/ HandlerReturns(t) \/ HangUp(t) \/ Deadline(t) \/ EngineRun(t)
  \/ FiveDaysPass \/ NewMonth \/ Restart

Spec == Init /\ [][Next]_vars

\* Steps that wait for the provider or a tool are taken for granted only once
\* the context has ended.
OwnStep(t) ==
  /\ go[t].pc \in {"ask", "stream", "tool"} => CtxDone(t)
  /\ EngineRun(t)

\* select chooses at random among the ready cases, so a delta does not win
\* for ever against the end of the context.
GiveUp(t) == go[t].pc = "stream" /\ CtxDone(t) /\ Abort(t, "provider")

Fairness ==
  \A t \in Turns :
    /\ WF_vars(OwnStep(t)) /\ WF_vars(GiveUp(t)) /\ WF_vars(Deadline(t))
    /\ WF_vars(Drain(t) \/ HandlerReturns(t))

FairSpec == Spec /\ Fairness

-----------------------------------------------------------------------------
(* Properties *)

MaxCalls == Max({Cardinality(I) : I \in CallIndices})
Roles == {"system", "user", "assistant", "blank", "tool"}
Messages == [role : Roles, turn : 0..MaxTurns, calls : 0..MaxCalls]

(* The variables keep their types; in particular no channel ever holds more
   than its capacity and no goroutine goes round its loop more than
   cfg.MaxIters times (openai_engine.go:212, anthropic_engine.go:143). *)
TypeOK ==
  /\ engine \in {"stub", "openai", "anthropic", "gemini"}
  /\ \A i \in DOMAIN rows :
       /\ rows[i].turn \in Turns /\ rows[i].box \in Boxes /\ rows[i].cost \in Nat
       /\ rows[i].messages \in Seq(Messages)
  /\ since5d \in 1..Len(rows) + 1 /\ sinceMonth \in 1..Len(rows) + 1
  /\ posted \in 0..MaxTurns
  /\ req \in [Turns -> [client : Clients \cup {NoClient}, box : Boxes \cup {NoBox}]]
  /\ handler \in [Turns -> {"none", "drain", "gone", "done"}]
  /\ \A t \in Turns :
       /\ go[t].pc \in {"none", "stub", "history", "ask", "stream", "call", "tool",
                        "insert", "finish", "closed"}
       /\ go[t].messages \in Seq(Messages)
       /\ go[t].iter \in 0..MaxIters /\ go[t].calls \in 0..MaxCalls
       /\ go[t].results \in 0..MaxCalls /\ go[t].text \in 0..MaxText
       /\ go[t].used \in Nat /\ go[t].spent \in Nat /\ go[t].late \in Nat
       /\ go[t].said \in BOOLEAN /\ go[t].expired \in BOOLEAN /\ go[t].unsaved \in BOOLEAN
       /\ out[t] \in Seq({"delta", "last"}) /\ Len(out[t]) <= Cap

MaxTurnCost == CostCents(MaxIters * Max(Usage))

(* The gate of /ai/turn reads what has been spent and the turn is charged when
   it ends (handler/ai.go:98, openai_engine.go:261), so concurrent turns pass
   it together.  Whatever they do, a window is overspent by less than one turn
   per client: of the turns that finish, only those that were running side by
   side can go beyond the cap. *)
LLMOvershootBounded ==
  LET Bounded(budget, from) ==
        budget > 0 => LLMSpentByNamespace(from) < budget + Cardinality(Clients) * MaxTurnCost
  IN /\ Bounded(LLMBudgetCentsPer5d, since5d)
     /\ Bounded(LLMBudgetCentsPerMonth, sinceMonth)

RowsFor(t) == {i \in DOMAIN rows : rows[i].turn = t}

(* When a turn is about to tell its client that it finished, its row is there,
   once, unless the database refused it or the context ended first, and charges
   what the engine was told over all the replies of the turn: never more than
   the provider consumed, but perhaps less.  An OpenAI-compatible provider may
   report no usage (openai_engine.go:328; ai.go:57 leaves the counts at 0, and
   the turn is free), Anthropic's input count leaves out cached tokens, Gemini's
   engine passes over the usage of a chunk without content. *)
FinishedIsCharged ==
  \A t \in Turns : go[t].pc = "finish" /\ engine # "stub" =>
    LET charged == {rows[i].cost : i \in RowsFor(t)}
    IN /\ Cardinality(RowsFor(t)) = (IF go[t].unsaved THEN 0 ELSE 1)
       /\ charged \subseteq {CostCents(go[t].used)}
       /\ go[t].used <= go[t].spent

\* The number of results that directly follow the i-th message.
ResultsAfter(m, i) ==
  SumFunctionOnSet([j \in DOMAIN m |-> m[j].calls],
    {j \in i + 1..Len(m) : \A k \in i + 1..j : m[k].role = "tool"})

(* A chain that is sent to a provider starts with the system prompt and has no
   other (OpenAI; the others send it separately), each tool call of every
   assistant message is answered directly after it, nothing else is an answer,
   and the chain ends with the user's side.  The chain is put together from rows
   of earlier turns, while others were cut off, failed and ran concurrently
   (loadHistory, openai_engine.go:391).  One thing a provider refuses is left: an
   assistant message with neither text nor calls, which the engines store and
   replay (openai_engine.go:383, anthropic_engine.go:300, gemini_engine.go:301).
   It is always another turn's: the turn that got it ended with it. *)
OnlyBlanksRefused ==
  \A t \in Turns : go[t].pc \in {"ask", "stream"} =>
    LET m == go[t].messages
    IN /\ {i \in DOMAIN m : m[i].role = "system"} = (IF engine = "openai" THEN {1} ELSE {})
       /\ \A i \in DOMAIN m :
            /\ m[i].role \in {"assistant", "blank"} => ResultsAfter(m, i) = m[i].calls
            /\ m[i].role = "tool" => i > 1 /\ m[i - 1].role \in {"assistant", "tool"}
            /\ m[i].role = "blank" => m[i].turn # t
       /\ Last(m).role \in {"user", "tool"}

(* After the client hung up, or the deadline passed, a turn takes at most the
   one reply that was already under way: the provider is not paid again for a
   conversation nobody reads (handler/ai.go:137: "client disconnects propagate
   into the engine goroutine and cancel in-flight SDK calls"). *)
OneReplyAfterCut == \A t \in Turns : go[t].late <= 1

(* The contract of Engine (ai.go:86) wants Finished or Err before the channel
   is closed.  The engines break it in two ways and no other: the context ended,
   or the error met a full channel, where emitErr drops the frame. *)
MuteEndExplained ==
  [][\A t \in Turns :
       (go[t].pc # "closed" /\ go'[t].pc = "closed" /\ out'[t] = out[t])
         => CtxDone(t)' \/ CtxDone(t) \/ Len(out[t]) = Cap]_vars

\* The last frame waits for room that nobody will make.
Leaked(t) == go[t].pc = "finish" /\ ~Room(t) /\ ~Running(t)

(* Every admitted turn comes to its end.  Its SSE loop returns, because the
   frames run out, the client leaves, or the engine's timeout ends a turn whose
   provider is silent (openai_engine.go:173), every write to the client taken to
   return; and its goroutine ends, with or without a reader, save for one
   window: the handler left and the channel was already full when the turn
   completed, so the unconditional send of the last frame
   (openai_engine.go:276) never returns. *)
TurnEnds ==
  \A t \in Turns : go[t].pc # "none" ~> ~Running(t) /\ (go[t].pc = "closed" \/ Leaked(t))

(* The history a turn sends has every earlier turn once: turns.go:14 says a row
   holds the messages "the agent sent/received during this turn", to be replayed
   into the next. *)
EachTurnOnce ==
  \A t \in Turns : go[t].pc \in {"ask", "stream"} =>
    \A u \in Turns :
      Cardinality({i \in DOMAIN go[t].messages :
        go[t].messages[i].role = "user" /\ go[t].messages[i].turn = u}) <= 1
=============================================================================
