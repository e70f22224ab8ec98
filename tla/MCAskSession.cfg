SPECIFICATION Spec
CONSTANTS
  MaxStreams = 3
  LastStep = 2
INVARIANTS
  SingleRunner
  EndIsReported
PROPERTIES
  StopTakesEffect
  StreamsClose
  Promise
CHECK_DEADLOCK FALSE
