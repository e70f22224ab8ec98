SPECIFICATION GraphSpec
CONSTANT NumTables = 4
INVARIANTS
  OnlyAnUnrelatedTableSeparates
CHECK_DEADLOCK FALSE
