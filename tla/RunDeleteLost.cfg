SPECIFICATION FairSpec
CONSTANTS
  Runs = {r1}
  Owners = {u1}
  OwnerOf <- MCOneOwner
  Roles = {supporter}
  Orchs = {o1}
  Requests = {q1}
  Worker = worker
  NoRun = NoRun
  GlobalActiveMax = 2
  MaxCrashes = 1
  Lossy = FALSE
  MonthPasses = FALSE
PROPERTIES
  DeleteHonoured
