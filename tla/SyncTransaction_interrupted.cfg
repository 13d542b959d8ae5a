CONSTANTS
  N = 2
  Collateral = {11}
  Repos = {1}
  RepoOf <- OneRepo
  Allowed <- UpdateRefs
  EarlyCutoffs = TRUE
  Validate = FALSE
  Push = FALSE
  Concurrent = FALSE
  MaxUser = 0
  MaxCrash = 1
SPECIFICATION Spec
INVARIANTS
  ContinueCanBegin
