\* One device; every system call may fail.
SPECIFICATION Spec
CONSTANTS
  d1 = d1
  Devs = {d1}
  Kinds = {"ctrl", "data", "isoc"}
  MaxXfers = 3
  SyscallsMayFail = TRUE
  NoUrb = NoUrb
INVARIANTS
  TypeOK
  BoxesOutlive
  StdinNeverBlocks
PROPERTY ServiceSpec
\* With the ids used up and nothing under way the system rightly stops.
CHECK_DEADLOCK FALSE
