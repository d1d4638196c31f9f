\* No symmetry: it is not sound for liveness.
SPECIFICATION FairSpec
CONSTANTS
  d1 = d1
  d2 = d2
  Devs = {d1, d2}
  Layouts <- OneOrTwoPorts
  SocketSize = 2
  None = None
INVARIANTS
  TypeOK
  DescribesItsDevice
  OncePerWay
PROPERTIES
  PluggedIsFound
  GoneLeaves
\* Every device may be gone: then nothing can happen.
CHECK_DEADLOCK FALSE
