SPECIFICATION QuietSpec
CONSTANTS
  Conns = {c1, c2}
  SchemaCalls = {h1}
  SendBuffer = 1
  StreamMaxLen = 3
  MaxSeq = 3
  SentRoles = {}
  Faults = {}
CHECK_DEADLOCK FALSE
PROPERTY ReplayCompletes
