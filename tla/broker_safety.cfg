\* Two pages, two configurations with different interfaces.
SPECIFICATION Spec
CONSTANTS
  p1 = p1
  p2 = p2
  Pages <- TwoPages
  Ifaces = {0, 1}
  Configs = {1, 2}
  ConfigIfaces <- TwoConfigs
  Protected = {}
  MaxTxn = 3
  IoctlMayFail = TRUE
  Null = Null
  Undefined = Undefined
SYMMETRY PageSymmetry
INVARIANTS
  TypeOK
  CallsMatch
  OpensAgree
  ClaimsAreHeld
PROPERTY ServiceSpec
\* Every page may leave and the device may be gone: then nothing can happen.
CHECK_DEADLOCK FALSE
