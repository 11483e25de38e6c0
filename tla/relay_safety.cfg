SPECIFICATION Spec
CONSTANTS
  Conns = {c1, c2}
  SchemaCalls = {}
  SendBuffer = 1
  StreamMaxLen = 1
  MaxSeq = 2
  SentRoles = {"provider", "connector"}
  Faults = {"redis", "crash"}
CHECK_DEADLOCK FALSE
SYMMETRY Symmetry
INVARIANTS TypeOK MembersOpen SeqUnique DeliveredIsPersisted NoSilentGap SilentUntilRole
PROPERTY LiveReachesMembers
