\* No symmetry: it is not sound for liveness.
SPECIFICATION FairSpec
CONSTANTS
  p1 = p1
  p2 = p2
  Pages <- TwoPages
  Ifaces = {0}
  Configs = {1}
  ConfigIfaces <- OneConfig
  Protected = {}
  MaxTxn = 3
  IoctlMayFail = FALSE
  Null = Null
  Undefined = Undefined
INVARIANT NoOrphanOpen
PROPERTIES
  ControlCallsAnswered
  UnplugSettlesCalls
\* Every page may leave and the device may be gone: then nothing can happen.
CHECK_DEADLOCK FALSE
