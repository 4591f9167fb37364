SPECIFICATION FairSpec
CONSTANTS
  MaxSlots = 4
  MaxTasks = 4
  MaxDepth = 3
  MaxInFlight = 1
  MaxTime = 1
  Fuel = 1
  Delays <- DelaysZeroOne
  Budgets <- BudgetsOne
  Kinds <- CallsAndSpawns
  FreeYield = TRUE
PROPERTIES
  NeverHangs
  NobodyStarves
