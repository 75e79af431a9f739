INIT HypothesisInit
NEXT HypothesisNext
CONSTANTS
  Conditions = {"m", "p"}
  Manual = {"m"}
  Servers = {"s"}
  MaxHypVersion = 3
  MaxCheck = 1
INVARIANT
  UnseenAsksForReview
CHECK_DEADLOCK FALSE
