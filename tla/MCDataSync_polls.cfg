SPECIFICATION Spec
CONSTANTS
  KBs = {"k1", "k2"}
  Ids = {1, 2, 3, 4}
  MaxTime = 2
  MaxFaults = 1
  MaxRequests = 1
INVARIANT TypeOK
 
 
PROPERTY UpdatesArrive
CHECK_DEADLOCK FALSE
