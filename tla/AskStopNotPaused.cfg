SPECIFICATION Spec
CONSTANTS
  MaxStreams = 2
  LastStep = 1
PROPERTIES
  AcceptedStopPauses
CHECK_DEADLOCK FALSE
