SPECIFICATION Spec
CONSTANTS
  MaxSlots = 3
  MaxTasks = 3
  MaxDepth = 3
  MaxInFlight = 1
  MaxTime = 2
  Fuel = 2
  Delays <- DelaysOne
  Budgets <- BudgetsOneTwo
  Kinds <- CallsAndSpawns
  FreeYield = FALSE
INVARIANTS
  TypeOK
  NoLostWakeup
  FreeSlotsAreUnreferenced
  IoPoolIsAccounted
  ProgramDeadlockIsReal
  CalleeHasStricterDeadline
  CancelledStaysDone
  AnswersReachTheirTask
  IInv
PROPERTY
  DoneIsFinal
