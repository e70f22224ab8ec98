SPECIFICATION EventsSpec
CONSTANTS
  orders = orders
  customers = customers
  Tables <- MCTables
  MaxRagLoops = 2
  MaxSqlRetries = 2
INVARIANTS
  ExecutedSafely
  ExecutedAtMostOnce
  OutcomeToldOnce
  SilenceExplained
PROPERTIES
  VariantDecreases
  Termination
