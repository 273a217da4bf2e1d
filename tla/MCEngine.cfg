CONSTANTS
  a = a
  b = b
  c = c
  d = d
  e = e
  f = f
  Node = {a, b, c, d, e, f}
  Preds <- WidePreds
  Levels <- WideLevels
  Configs <- EngineConfigs
  Workers = 2
SPECIFICATION FairSpec
INVARIANTS
  TypeOK
  InFlightBounded
  NodeLimitOverrun
  CheckpointConsistent
  PauseLosesNothing
PROPERTIES
  ImplementsDagRun
  Terminates
