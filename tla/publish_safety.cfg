SPECIFICATION Spec
CONSTANTS
  Namespaces = {n1, n2}
  Boxes = {b1}
  Versions = {v1, v2}
  Paths = {p1, p2}
  Contents = {t1}
  Callers = {c1, c2}
  Creators = {k1}
  None = None
  Faults = {"db", "workspace", "build", "artifact", "sign", "crash"}
  SandboxCap <- NoLimit
  ActiveBoxCap <- NoLimit
  MonthLength = 1
  MaxTime = 0
SYMMETRY Symmetry
INVARIANTS BuiltFromCommittedTree TypeOK PublishInv CurrentIsDownloadable PublishedHasCurrent AnnouncedAfterPersistence
PROPERTY SettledBundlesImmutable
