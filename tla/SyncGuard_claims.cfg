CONSTANTS
  t1 = t1
  t2 = t2
  t3 = t3
  Procs = {t1, t2, t3}
  Patient = {t1}
  MaxRuns = 5
  Scenes <- AllScenes
SPECIFICATION FairSpec

  
PROPERTIES
  ResidueCleared
CHECK_DEADLOCK FALSE
