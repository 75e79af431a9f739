SPECIFICATION FuturesSpec
CONSTANTS
  Tokens = {"k1", "k2"}
  Requests = {"q1", "q2"}
  ArgsSet = {"a", "b"}
  Spenders = {"u", "v"}
  Attempts = {"a1", "a2", "a3", "a4"}
  SpenderOf <- MCSpenderOf
  KindOf <- MCKindOf
  UserLimit = 2
  ModuleLimit = 3
  SeededCalls = 2
  MaxCost = 2
  Conditions = {"m", "p"}
  Manual = {"m"}
  Servers = {"s"}
  MaxHypVersion = 3
  MaxCheck = 1
  Gates = {"g", "h"}
  Customers = {"u"}
  Products = {"cu"}
  MaxSourceVersion = 3
  MaxOpsVersion = 3
  MaxAdmission = 2
  FdCalls = {c1, c2}
  FdKeys = {k1}
  MaxObjects = 2
  MaxDraftRev = 2
  FePoints = {"p"}
  FeSources = {"s1"}
  MaxObservations = 3
  MaxRevision = 2
  MaxFeClock = 2
INVARIANTS
  GrantOpensOneCall
  
  LiveAsProbed
  
  CitesWhatWasKnown
PROPERTIES
  ClosedStaysClosed
CHECK_DEADLOCK FALSE
