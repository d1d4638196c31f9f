\* One page that awaits its calls.
SPECIFICATION PoliteSpec
CONSTANTS
  p1 = p1
  p2 = p2
  Pages = {p1}
  Ifaces = {0, 1}
  Configs = {1, 2}
  ConfigIfaces <- TwoConfigs
  Protected = {}
  MaxTxn = 8
  IoctlMayFail = FALSE
  Null = Null
  Undefined = Undefined
INVARIANT CopiesAgree
\* Every page may leave and the device may be gone: then nothing can happen.
CHECK_DEADLOCK FALSE
