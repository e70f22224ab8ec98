SPECIFICATION Spec
CONSTANTS
  Subscribers = {s1, s2}
  MaxRequests = 2
  LastStep = 1
INVARIANTS
  EndIsTold
  WaiterExplained
  RetrievalIsScored
PROPERTIES
  EndReachesReader
CHECK_DEADLOCK FALSE
