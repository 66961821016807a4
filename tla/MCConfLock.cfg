SPECIFICATION FairSpec
CONSTANTS
  p1 = p1
  p2 = p2
  p3 = p3
  Procs = {p1, p2}
  Sems = {1, 2}
  Segs = {1, 2, 3}
  Values = {v}
  DefaultV = v
  Calls <- ManagerAndApp
  Faults = TRUE
  Mortal = {p2}
  MaxCrashes = 1
INVARIANTS TypeOK SemaphoreAdmitsOne SemaphoreIsGivenBack
PROPERTIES CallsReturn
CHECK_DEADLOCK FALSE
