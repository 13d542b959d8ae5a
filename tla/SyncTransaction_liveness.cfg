CONSTANTS
  N = 2
  Collateral = {11}
  Repos = {1, 2}
  RepoOf <- TwoRepos
  Allowed <- UpdateRefs
  EarlyCutoffs = FALSE
  Validate = FALSE
  Push = TRUE
  Concurrent = FALSE
  MaxUser = 1
  MaxCrash = 2
SPECIFICATION FairSpec
PROPERTIES
  UserWorkKept
  KeepsPromise
  EveryRunEnds
  PublishedRunCompletes
