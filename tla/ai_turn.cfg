SPECIFICATION MCFairSpec
CONSTANTS
  c1 = c1
  b1 = b1
  Clients = {c1, c2}
  Boxes = {b1, b2}
  Mine = {b1}
  Deployments <- EveryEngine
  Cap = 1
  MaxIters = 2
  HistoryLimit = 2
  LLMBudgetCentsPer5d = 1
  LLMBudgetCentsPerMonth = 2
  MaxTurns = 3
  CallIndices = {{}, {1}, {0, 1}}
  MaxText = 1
  Usage = {1}
  Faults = {"db", "provider", "crash"}
CHECK_DEADLOCK FALSE
INVARIANTS TypeOK LLMOvershootBounded FinishedIsCharged OnlyBlanksRefused OneReplyAfterCut
PROPERTIES MuteEndExplained TurnEnds
