SPECIFICATION IntelSpec
CONSTANTS
  Jobs = {"j1", "ingest"}
  KindOf <- MCKinds
  Workers = {w1, w2}
  NoJob = NoJob
  CallLimit = 3
  MaxCrashes = 1
  MaxSlow = 1
  IsCalls = {c1, c2}
  IsKeys = {k1}
  ChangeSteps = {1}
  LastStep = 2
  MaxReplay = 2
  PageRows = {1, 2, 3, 4}
  PageTicks = 4
  Limits = {1, 2}
  MaxLimit = 2
  MaxFetch = 4
  MaxGeneration = 2
  IrSteps <- MCSteps
  IrBranches <- MCBranches
  IrStepBranch = {""}
  FreshDays = 14
  StaleDays = 30
  MaxReplays = 10
INVARIANTS
  
  
  StoredAsEvaluated
PROPERTIES
  OutcomeIsLatest
  JobEnds
CHECK_DEADLOCK FALSE
