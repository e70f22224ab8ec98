SPECIFICATION Spec
CONSTANTS
  NumNames = 2
  MaxId = 3
  o1 = o1
  o2 = o2
  Ops = {o1, o2}
  MaxEdits = 2
  RemoteFks <- MCRemoteFks
INVARIANTS
  AllowedIsAsked
  ForeignKeysOnce
PROPERTIES
  DescriptionStays
SYMMETRY Symmetry
CHECK_DEADLOCK FALSE
