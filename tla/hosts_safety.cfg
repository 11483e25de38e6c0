SPECIFICATION MCSpec
CONSTANTS
  alice = alice
  d1 = d1
  b1 = b1
  Users = {alice, bob}
  Devices = {d1, d2}
  Boxes = {b1}
  BoxOwner <- MCBoxOwner
  Versions = {v1, v2}
  VersionBox <- MCVersionBox
  None = None
  Codes = {k1}
  MaxOffers = 2
  Streams = {s1, s2}
  SubBufferSize = 1
  Shown <- MCShown
  Refreshes = {r1, r2}
SYMMETRY Symmetry
INVARIANTS TypeOK TokensAreScoped EventsStayInNamespace
PROPERTIES CodesAreOneShot 
CHECK_DEADLOCK FALSE
