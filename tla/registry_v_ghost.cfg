\* One device, pulled while it is enumerated.
SPECIFICATION Spec
CONSTANTS
  p1 = p1
  s1 = s1
  s2 = s2
  serial = serial
  plain = plain
  Pages = {p1}
  Sids = {s1}
  Ids = {serial}
  Unserial = {}
  MaxProbes = 1
  MaxRequests = 1
  NoHandle = NoHandle
INVARIANT NoGhosts
CHECK_DEADLOCK FALSE
