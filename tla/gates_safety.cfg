SPECIFICATION MCSpec
CONSTANTS
  alice = alice
  Users = {alice}
  Conns = {a1, a2}
  Owner <- MCOwner
  Plans = {"free", "pro"}
  MessagesPerDay <- MCLimits
  None = None
  LastDay = 2
  MaxMessages = 4
  MaxEvents = 3
  MaxCheckouts = 2
  Tables = {t1}
  Columns = {a}
  Reserved = {u}
  Defs <- MCDefs
  Calls = {h1, h2, h3}
  Writes = {w1}
  Values = {"absent", "null", "number"}
  SchemaFaults = {"redis", "crash"}
SYMMETRY Symmetry
INVARIANTS TypeOK OvershootBounded InOrderAgrees
INVARIANTS NoOrphanColumns DevicesAgree AcceptedFits
PROPERTY OnlyWebhooksChangeRows
CHECK_DEADLOCK FALSE
