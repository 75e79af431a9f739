SPECIFICATION FinanceSpec
CONSTANTS
  Clients = {"c1", "c2"}
  RequestIds = {"i1", "i2"}
  Tasks = {"s", "t"}
  Bodies = {"b1", "b2"}
  RunMax = 1
  RoleMax = 1
  ToolRuns = {"r"}
  ToolTasks = {"s", "t"}
  TaskRun <- MCTaskRun
  Grants = {"g1", "g2"}
  Records = {"p", "q"}
  TooLate = {"q"}
  MaxSent = 1
  Calls = {"c1", "c2"}
  Configs = {"c", "d"}
  Limits <- MCLimits
  CfgRuns = {"r"}
  MaxVersions = 2
  NL = "n"
  BL = " "
  Chars = {"x"}
  MaxPart = 4
  MaxParts = 2
  Outcomes = {"ran", "failed"}
  Evidence = {"e1", "e2"}
  HeldBy <- MCHeldBy
  Numbers = {7}
  Prints <- MCPrints
  NoNumber = 0
  ArgSets <- MCArgSets
INVARIANTS
  
  ReplaysAreAnswers
  CitedWasFetched
  ServedWasTested
  SpansPointIntoText
  
CHECK_DEADLOCK FALSE
