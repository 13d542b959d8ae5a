CONSTANTS
  N = 2
  Carry = {1, 2}
  PerEntry = {1}
  Total = {1, 2}
  Flaky = {"count"}
  MaxRun = 1
  MaxOwn = 2
  MaxMove = 2
SPECIFICATION Spec
INVARIANTS
  ApprovedWork
  WithinLimits
CHECK_DEADLOCK FALSE
