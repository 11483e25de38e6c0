SPECIFICATION OneTalksSpec
CONSTANTS
  Conns = {c1, c2}
  SchemaCalls = {}
  SendBuffer = 1
  StreamMaxLen = 3
  MaxSeq = 3
  SentRoles = {"provider"}
  Faults = {"quota"}
CHECK_DEADLOCK FALSE
PROPERTY DisconnectedLeaves
