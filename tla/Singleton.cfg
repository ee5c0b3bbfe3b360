CONSTANTS
  o1 = o1  o2 = o2  o3 = o3  o4 = o4
  Objs <- MCObjs
  AssertsOn = TRUE
SPECIFICATION Spec
INVARIANTS SingleTrackedInstance
CHECK_DEADLOCK FALSE
