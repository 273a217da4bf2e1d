CONSTANTS
  x = x
  y = y
  z = z
  k1 = k1
  k2 = k2
  NoCaller = NoCaller
  Caller = {x, y, z}
  Request <- TwoKeys
  failure_threshold = 2
  success_threshold = 2
SPECIFICATION FairSpec
INVARIANTS
  TypeOK
  BreakerCounters
  EntriesLead
PROPERTIES
  AnsweredUnlessAbandoned
