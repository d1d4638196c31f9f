\* A device with two drivers, one of them for two interfaces.
SPECIFICATION FairSpec
CONSTANTS
  Ifaces = {0, 1, 2}
  Root <- Composite
  MaxRequests = 4
INVARIANTS
  TypeOK
  HandlesSuffice
  NoLostWakeup
  PathsFollow
PROPERTIES
  ServiceSpec
  EndsSettle
\* The stub exits.
CHECK_DEADLOCK FALSE
