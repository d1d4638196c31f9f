\* Two devices, or one that is plugged in twice.
\* No symmetry: it is not sound for liveness.
SPECIFICATION FairSpec
CONSTANTS
  p1 = p1
  s1 = s1
  s2 = s2
  serial = serial
  plain = plain
  Pages = {p1}
  Sids = {s1, s2}
  Ids = {serial, plain}
  Unserial = {plain}
  MaxProbes = 1
  MaxRequests = 2
  NoHandle = NoHandle
INVARIANTS
  TypeOK
  HandlesMatch
  ViewFollows
  ConsentHolds
PROPERTIES
  Enumerated
  GoneLeaves
\* All devices may be pulled and the page gone: then nothing can happen.
CHECK_DEADLOCK FALSE
