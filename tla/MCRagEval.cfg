SPECIFICATION EvalSpec
CONSTANTS
  q1 = q1
  o1 = o1
  o2 = o2
  Tables = {"1.user", "1.users"}
  Names = {"user", "users"}
  NameOf <- MCNameOf
  Prefixes <- MCPrefixes
  Questions = {q1}
  Sessions = {o1, o2}
  TopK = 2
  Unit = 2
  MaxChunk = 2
  MaxRuns = 1
  MaxCase = 2
  MaxEdits = 2
INVARIANTS
  MeasuresExplained
  RunsAreWhole
  ImportedTwiceOnlyByOverlap
SYMMETRY Symmetry
CHECK_DEADLOCK FALSE
