SPECIFICATION LineSpec
CONSTANTS
  WorkNodes = {1, 2}
  Plans = {{1, 2}, {1}, {}}
  DependsOn <- Deps
  MaxBuildIterations = 3
  Outcomes <- MCOutcomes
  MaxCalls = 4
  MaxBuildKills = 1
  ForkNodes = {1, 2}
  MaxParallel = 2
  MaxWaves = 2
  MaxForkKills = 1
  Tasks = {t1, t2}
  Kids = {k1, k2}
  NoTask = NoTask
  MaxBudget = 3
  PerStage = 1
  OldSpend = 1
  MaxOvershoot = 1
  MaxLedgerCalls = 3
  MaxTaskDeaths = 1
  Line <- MCLine
  MaxInputs = 2
  GateStages = {"plan"}
  MaxReviewFixes = 1
  MaxCodes = 2
  MaxDocs = 1
  MaxRunKills = 1
  None = None
  TestNames = {"a", "b"}
  Params = {1, 2}
  ReqIds = {1, 2}
  MaxLines = 3
  TaskRetries = 1
  MaxMishaps = 3
INVARIANTS
  BuildAccounted
  DoneIsVerifiedBest
  ForkAccounted
  SpendAccounted
  PublishedCodeVouchedFor
  RulesAreSound
  CellTellsTheJob
PROPERTIES
  PublishedOnItsApprovals
CHECK_DEADLOCK FALSE
