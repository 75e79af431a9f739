SPECIFICATION PlatformSpec
CONSTANTS
  Tasks = {t1, t2}
  Slots = 1
  Epochs = {e1}
  NoEpoch = NoEpoch
  MaxRestarts = 1
  MayRaise = TRUE
  Backups = {"b1", "b2"}
  Writers = {"w1", "w2"}
  MaxReopens = 2
  Passwords = {"p", "q"}
  Logins = {"l", "m"}
  Tabs = {"t"}
  MaxHashes = 3
  Versions <- MCVersions
  File <- MCFile
  Edited <- MCEdited
  Releases <- MCReleases
  Servers = {"s1", "s2", "s3"}
  ReleaseOf <- MCReleaseOf
  AdUsers = {"u", "v"}
  Drafts = {"d1", "d3"}
  DraftOwner <- MCDraftOwner
  Keys = {"k"}
  Calls = {"c1", "c2"}
  MaxRevision = 2
  AdActiveMax = 1
  DailyResearchMax = 1
  NoCall = "none"
  FRuns = {"r1", "r2"}
  OwnerOf <- MCOneOwner
  Executions = {"x", "y"}
  DailyRuns = 2
  ExecutingMax = 2
  MaxAtWork = 3
INVARIANTS
  NoWriteInBackup
  ResetIsFinal
  ServesItsOwnSchema
  WithinLimits
  ExecutesOnce
PROPERTIES
  ImplementsBoard
  TasksAreServed
  EveryCallAnswered
  FuturesRunEndsAsAsked
CHECK_DEADLOCK FALSE
