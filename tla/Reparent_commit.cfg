CONSTANTS
  N = 2
  Held = {1, 2}
  Conflicts = {2}
  Published = {1, 2}
  Prior = {1}
  MaxKill = 2
  MaxUser = 2
SPECIFICATION Spec
INVARIANTS
  AtomicOutcome
  CommitFinal
  FollowupRecorded
  PinsKept
PROPERTIES
  NoMoveUnderHolder
CHECK_DEADLOCK FALSE
