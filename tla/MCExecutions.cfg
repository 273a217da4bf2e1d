CONSTANTS
  r1 = r1
  c1 = c1
  c2 = c2
  c3 = c3
  NoId = NoId
  Request = {r1}
  Command = {c1, c2, c3}
  GaugeModulus = 4
SPECIFICATION FairSpec
INVARIANTS
  TypeOK
  GaugeDrift
PROPERTIES
  FinishedChangesByLateWriters
  GraphqlRunRecorded
CHECK_DEADLOCK FALSE
