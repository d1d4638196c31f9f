\* One device that need not answer.
SPECIFICATION FairSpec
CONSTANTS
  d1 = d1
  Devs = {d1}
  Kinds = {"data"}
  MaxXfers = 3
  SyscallsMayFail = FALSE
  NoUrb = NoUrb
PROPERTIES
  TimeoutHitsOwn
  ProbesAnswered
  RemovalAnswersAll
\* With the ids used up and nothing under way the system rightly stops.
CHECK_DEADLOCK FALSE
