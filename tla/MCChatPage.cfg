SPECIFICATION Spec
CONSTANTS
  MaxAsks = 2
  MaxRequests = 4
  MaxPresses = 1
INVARIANTS
  UnattendedExplained
  OfferExplained
  ShownIsResumed
  PausedIsOffered
PROPERTIES
  LoadingEnds
CHECK_DEADLOCK FALSE
