SPECIFICATION Spec
CONSTANTS
  Runs = {r1}
  Owners = {u1}
  OwnerOf <- MCOneOwner
  Roles = {supporter}
  Orchs = {o1}
  Requests = {q1, q2}
  Worker = worker
  NoRun = NoRun
  GlobalActiveMax = 2
  MaxCrashes = 0
  Lossy = FALSE
  MonthPasses = FALSE
SYMMETRY MCAlike
INVARIANTS
  DeletedIsClosed
