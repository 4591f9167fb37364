SPECIFICATION Spec
CONSTANTS
  MaxSlots = 3
  MaxTasks = 2
  MaxDepth = 3
  MaxInFlight = 1
  MaxTime = 2
  Fuel = 2
  Delays <- DelaysOne
  Budgets <- BudgetsOneTwo
  Kinds <- Calls
  FreeYield = FALSE
INVARIANT
  DeadlinesAreInherited
