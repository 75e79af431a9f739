SPECIFICATION StrategySpec
CONSTANTS
  Gens = {g1, g2}
  GenKeys = {k1, k2}
  Rules = {"a"}
  Convertible = {"a"}
  MaxRev = 3
  MaxSaved = 2
  BtRuns = {1, 2, 3}
  BtUsers = {"u", "v"}
  BtOwner <- MCOwner
  MaxActive = 1
  Bars = 5
  Share <- MCShare
  Prices = {3, 4}
  Volumes = {0, 6, 20}
  LotSize = 2
  MinFee = 1
  TPlus = 1
  TargetFrac = 100
  InitialCash = 20
  StopLoss = 40
  Splits = {2}
  MaxKeys = 4
  MkInstruments = {"i"}
  MaxVersions = 2
  MaxEvidence = 1
  RuleConds <- MCConds
  BarValues = {0, 1, 2}
  MaxBars = 7
  MaN = 2
  MaxLag = 3
  MaxCondNodes = 12
  MaxCondDepth = 3
  Loaders = {l1, l2}
  MaxDays = 3
  Holidays = {2}
  MaxSnaps = 1
  MdSeries <- MCSeries
  EnoughBars = 2
  PageLimit = 2
  StaleGap = 2
INVARIANTS
  NothingLostUnseen
  
  
  EachKeyOnce
  RuleMeansWhatItShows
  
CHECK_DEADLOCK FALSE
