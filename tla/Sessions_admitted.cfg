CONSTANTS
  Terminals = {1, 2}
  Branches = {"a", "b"}
  Affected = {"a"}
  Home = "a"
  MaxOpen = 3
  MaxTrouble = 1
SPECIFICATION Spec
INVARIANTS
  
  CommandRecorded
CHECK_DEADLOCK FALSE
