CONSTANTS
  s1 = s1
  s2 = s2
  l1 = l1
  l2 = l2
  NoSchedule = NoSchedule
  Schedule = {s1, s2}
  Loop = {l1, l2}
  Enabled = {s1}
  Limited = {s1}
  Limit <- OneLimit
  MaxDue = 2
SPECIFICATION FairSpec
INVARIANTS
  TypeOK
  Ledger
  RunsBounded
  FiresOncePerLoop
PROPERTIES
  DueRuns
CHECK_DEADLOCK FALSE
