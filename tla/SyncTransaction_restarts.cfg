CONSTANTS
  N = 2
  Collateral = {11}
  Repos = {1, 2}
  RepoOf <- TwoRepos
  Allowed <- UpdateRefs
  EarlyCutoffs = FALSE
  Validate = TRUE
  Push = TRUE
  Concurrent = TRUE
  MaxUser = 1
  MaxCrash = 2
SPECIFICATION Spec
INVARIANTS
  TypeOK
  PreimagePinned
  PublicationOrdered
  JournalReadable
  EffectsExplained
  SafetyInv
PROPERTIES
  BranchWorkKept
  NoRewind
