SPECIFICATION Spec
CONSTANTS
  Declared <- MCDeclared
  Target = "mid"
  Main = "main"
  OriginMain = "origin/main"
  Stack0 <- MCStack
  Heads0 <- MCHeads
  Requests <- MCRequests
  MaxMove = 2
INVARIANTS
  RunIsApproved
  
CHECK_DEADLOCK FALSE
