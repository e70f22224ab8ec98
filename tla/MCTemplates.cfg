SPECIFICATION TemplatesSpec
CONSTANTS
  Statements = {s1, s2}
  Ops = {o1, o2, o3}
  Past = {b1, b2}
SYMMETRY Symmetry
INVARIANTS
  TwiceOnlyByOverlap
  DecidedOnce
CHECK_DEADLOCK FALSE
