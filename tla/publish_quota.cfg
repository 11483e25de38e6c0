SPECIFICATION Spec
CONSTANTS
  Namespaces = {n1}
  Boxes = {b1, b2, b3, b4}
  Versions = {v1, v2, v3}
  Paths = {}
  Contents = {}
  Callers = {c1, c2}
  Creators = {k1}
  None = None
  Faults = {}
  SandboxCap = 1
  ActiveBoxCap = 1
  MonthLength = 1
  MaxTime = 1
SYMMETRY QuotaSymmetry
INVARIANTS SandboxOvershootBounded ActiveOvershootBounded
