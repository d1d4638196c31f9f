\* Two pages that await their calls.
SPECIFICATION PoliteSpec
CONSTANTS
  p1 = p1
  p2 = p2
  Pages <- TwoPages
  Ifaces = {0}
  Configs = {1}
  ConfigIfaces <- OneConfig
  Protected = {}
  MaxTxn = 5
  IoctlMayFail = FALSE
  Null = Null
  Undefined = Undefined
SYMMETRY PageSymmetry
INVARIANT ClaimExclusive
\* Every page may leave and the device may be gone: then nothing can happen.
CHECK_DEADLOCK FALSE
