CONSTANTS
  a = a
  b = b
  c = c
  d = d
  Node = {a, b, c, d}
  Preds <- ForkPreds
  Levels <- ForkLevels
  Configs <- RecoveryConfigs
  Workers = 1
  MaxResumes = 2
  MaxCrashes = 1
SPECIFICATION RFairSpec
INVARIANTS
  CheckpointResumable
  ResumeInDependencyOrder
  ResumeCompletesWorkflow
  ResumeKeepsResults
PROPERTIES
  ResumeEnds
