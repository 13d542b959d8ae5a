CONSTANTS
  Files = {"a", "b"}
  Worktrees = {"w", "x"}
  Packages <- Renderings
  Deployed <- Single
  MaxRun = 3
  MaxKill = 1
  MaxUser = 2
SPECIFICATION Spec
INVARIANTS
  UserContentKept
  RecordedAsLeft
CHECK_DEADLOCK FALSE
