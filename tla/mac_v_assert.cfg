\* Any call may fail.
SPECIFICATION Spec
CONSTANTS
  Ifaces = {0, 1}
  Configs = {1, 2}
  ConfigIfaces <- TwoConfigs
  Eps = {1, 2, 3}
  EpIface <- Owners
  Alts = {0, 1}
  PipeRef <- TwoSettings
  CallsMayFail = FALSE
  PipesMayFail = FALSE
  MaxRequests = 6
INVARIANT AssertionHolds
CHECK_DEADLOCK FALSE
