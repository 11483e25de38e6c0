------------------------------ MODULE MCAITurn ------------------------------
(***************************************************************************)
(* Instances of AITurn for TLC.  Two turns that run side by side share only *)
(* the table, so the full product of their channels and contexts says      *)
(* nothing new.  A behaviour explores, as chosen at the start, either one  *)
(* client whose turns, two of them, meet every engine, tool call, hang-up, *)
(* deadline and restart (a turn that was left may still run beside the     *)
(* next), or two clients whose turns run at the same time on one engine    *)
(* and only fail or complete with one reply, whose usage is reported.  The  *)
(* second turn of one client, which replays what the first left, sends no  *)
(* text and has its usage reported.                                        *)
(***************************************************************************)
EXTENDS AITurn, TLC

CONSTANTS c1, b1

Deploy(b) == [backend |-> b, key |-> b # "stub", url |-> FALSE, model |-> FALSE]

\* A misspelt provider id stops the relay at start-up.
EveryEngine == {Deploy(b) : b \in {"stub", "deepseek", "anthropic", "gemini", "deepsek"}}
DeepSeek == {Deploy("deepseek")}
Unlimited == -1

VARIABLE focus

MCInit == Init /\ focus \in {"one", "many"} /\ (focus = "many" => engine \in {"openai", "anthropic"})

\* A second turn replays the first; of the engines OpenAI's does more than
\* that, since it takes the system prompts out.
OneClient ==
  \/ /\ posted < IF engine = "openai" THEN 2 ELSE 1
     /\ \E b \in Boxes : aiTurn(c1, b)
  \/ \E t \in Turns : HangUp(t) \/ Deadline(t)
  \/ Restart

ExactUsage(t) == go'[t].used = go'[t].spent

MCNext ==
  /\ UNCHANGED focus
  /\ \/ focus = "one" /\ OneClient
     \/ focus = "many" /\ \E c \in Clients : aiTurn(c, b1)
     \/ \E t \in Turns : Drain(t) \/ HandlerReturns(t) \/ EngineRun(t)
     \/ FiveDaysPass
     \/ focus = "many" /\ NewMonth
  /\ focus = "many" =>
       \A t \in Turns : go'[t].calls = 0 /\ "delta" \notin Range(out'[t]) /\ ExactUsage(t)
  /\ focus = "one" => ~go'[2].said /\ ExactUsage(2)

MCSpec == MCInit /\ [][MCNext]_<<vars, focus>>
MCFairSpec == MCSpec /\ Fairness
=============================================================================
