SPECIFICATION Spec
CONSTANTS
  Runs = {r1, r2}
  q1 = q1
  q2 = q2
  q3 = q3
  Questions <- MCQuestions
  Similar <- MCSimilar
  MaxEdition = 1
SYMMETRY Symmetry
INVARIANTS
  FailureExplained
  ServedFits
CHECK_DEADLOCK FALSE
