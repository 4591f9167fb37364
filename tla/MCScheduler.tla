---------------------------- MODULE MCScheduler ----------------------------
(* Small instances of Scheduler.  Delays and Budgets are sets of numbers of  *)
(* clock ticks.                                                              *)
EXTENDS SchedulerInvariant

DelaysOne == {1}
DelaysZeroOne == {0, 1}
DelaysZero == {0}
BudgetsOne == {1}
BudgetsOneTwo == {1, 2}
NoBudgets == {}
Calls == {"call"}
CallsAndSpawns == {"call", "spawn"}
=============================================================================
