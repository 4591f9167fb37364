SPECIFICATION Spec
CONSTANTS
  MaxSlots = 4
  MaxTasks = 2
  MaxDepth = 3
  MaxInFlight = 1
  MaxTime = 0
  Fuel = 3
  Delays <- DelaysZero
  Budgets <- NoBudgets
  Kinds <- Calls
  FreeYield = FALSE
INVARIANT
  DeadlockIsMutual
