SPECIFICATION Spec
CONSTANTS
  Conns = {c1, c2}
  SchemaCalls = {}
  SendBuffer = 2
  StreamMaxLen = 2
  MaxSeq = 1
  SentRoles = {"provider"}
  Faults = {}
CHECK_DEADLOCK FALSE
INVARIANT BroadcastIsSafe
