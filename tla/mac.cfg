\* Any call may fail.
SPECIFICATION FairSpec
CONSTANTS
  Ifaces = {0, 1}
  Configs = {1, 2}
  ConfigIfaces <- TwoConfigs
  Eps = {1, 2, 3}
  EpIface <- Owners
  Alts = {0, 1}
  PipeRef <- TwoSettings
  CallsMayFail = TRUE
  PipesMayFail = FALSE
  MaxRequests = 6
INVARIANTS
  TypeOK
  TransfersKeepPorts
  ClaimsMatchObjects
  EndpointsReachTheirPipes
PROPERTIES
  ServiceSpec
  UnplugSettles
\* The device is pulled, the stub may have panicked.
CHECK_DEADLOCK FALSE
