SPECIFICATION Spec
CONSTANTS
  Sources = {s1, k1}
  s1 = s1
  k1 = k1
  Keys = {k1}
  Ops = {o1, o2}
  Past = {b1, b2}
SYMMETRY Symmetry
INVARIANTS
  
  RowsExplained
  IndexedHasRow
  TwiceOnlyByOverlap
  OrphansExplained
CHECK_DEADLOCK FALSE
