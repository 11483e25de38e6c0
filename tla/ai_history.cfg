SPECIFICATION MCSpec
CONSTANTS
  c1 = c1
  b1 = b1
  Clients = {c1}
  Boxes = {b1}
  Mine = {b1}
  Deployments <- DeepSeek
  Cap = 1
  MaxIters = 1
  HistoryLimit = 20
  LLMBudgetCentsPer5d <- Unlimited
  LLMBudgetCentsPerMonth <- Unlimited
  MaxTurns = 3
  CallIndices = {{}}
  MaxText = 1
  Usage = {1}
  Faults = {}
CHECK_DEADLOCK FALSE
INVARIANT EachTurnOnce
