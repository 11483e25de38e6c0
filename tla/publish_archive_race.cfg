SPECIFICATION Spec
CONSTANTS
  Namespaces = {n1}
  Boxes = {b1}
  Versions = {v1, v2}
  Paths = {}
  Contents = {}
  Callers = {c1, c2}
  Creators = {k1}
  None = None
  Faults = {}
  SandboxCap <- NoLimit
  ActiveBoxCap <- NoLimit
  MonthLength = 2
  MaxTime = 0
PROPERTY ArchivedIsFinal
