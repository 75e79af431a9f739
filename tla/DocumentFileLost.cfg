INIT Init
NEXT Next
CONSTANTS
  Owners = {"o"}
  Contents = {"c", "d"}
  WebPages = {"d"}
  Uploads = {"u", "v"}
  Asks = {"a", "b"}
  AskKeys = {"k", "l"}
  MaxQuestions = 1
INVARIANT
  DocumentHasItsFile
CHECK_DEADLOCK FALSE
