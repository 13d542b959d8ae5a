CONSTANTS
  old = old
  new = new
  more = more
  their = their
  none = none
  N = 3
  Archived = {2}
  Rewritten = {1}
  Commit <- Commits
  Old = old
  New = new
  Theirs = {their}
  Within <- Ancestry
  None = none
  Procs = {t1, t2}
  MaxPlans = 2
  MaxUser = 1
  MaxCrash = 1
SYMMETRY Terminals
SPECIFICATION Spec
INVARIANTS
  SavesAreValid
  ClearedIsPublished
  ObjectsProtected
  ParentsFirst
  
PROPERTIES
  NoUnseenWorkLost
CHECK_DEADLOCK FALSE
