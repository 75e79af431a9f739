SPECIFICATION Spec
CONSTANTS
  Runs = {r1}
  Owners = {u1}
  OwnerOf <- MCOneOwner
  Roles = {supporter}
  Orchs = {o1, o2}
  Requests = {q1}
  Worker = worker
  NoRun = NoRun
  GlobalActiveMax = 2
  MaxCrashes = 0
  Lossy = TRUE
  MonthPasses = TRUE
INVARIANTS
  FenceExclusive
PROPERTIES
  CanceledTaskStays
  
