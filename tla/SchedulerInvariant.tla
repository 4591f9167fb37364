------------------------- MODULE SchedulerInvariant -------------------------
(* The inductive invariant of Scheduler, in named parts.  SchedulerProofs     *)
(* proves that it is inductive; the runs check it on small instances.         *)
EXTENDS Scheduler

\* The thread's position agrees with what it has in hand, and the loops are
\* nested: only the outermost one was started by the program itself.
PcOK ==
  /\ pc = "run" <=> current # 0
  /\ pc = "notify" <=> finished # 0
  /\ pc # "halt" => drives # <<>>
  /\ \A i \in DOMAIN drives :
       /\ drives[i].how = "main" <=> i = 1
       /\ drives[i].caller = 0 <=> i = 1

\* tasks has len slots; handles, waits and waiters only concern spawned tasks.
SlotsOK ==
  /\ \A s \in Slot : state[s] = "Absent" <=> s > len
  /\ \A h \in handles : h <= len
  /\ \A s \in Slot : state[s] = "WaitingOnTask" => joinee[s] \in handles
  /\ \A s \in Slot : waiters[s] # <<>> => s \in handles
  /\ current <= len /\ \A i \in DOMAIN freeSlots : freeSlots[i] <= len
  /\ \A i \in DOMAIN drives : drives[i].target <= len /\ drives[i].caller <= len

\* The Running tasks are the one in hand and the callers of the nested loops,
\* all different; a loop's target is none of the callers below it.
StackOK ==
  /\ current # 0 => state[current] = "Running"
  /\ \A s \in Slot : state[s] = "Running" =>
       s = current \/ \E i \in DOMAIN drives : drives[i].caller = s
  /\ \A i \in DOMAIN drives : i > 1 =>
       state[drives[i].caller] = "Running" /\ drives[i].caller # current
  /\ \A i, j \in DOMAIN drives :
       /\ i # j => drives[i].caller # drives[j].caller
       /\ i # j => drives[i].target # drives[j].target
       /\ i <= j => drives[j].target # drives[i].caller
  /\ \A i \in DOMAIN drives : drives[i].target \notin handles

\* A freed slot: see FreeSlotsAreUnreferenced, which this part is enough for.
FreeOK ==
  /\ \A i \in DOMAIN freeSlots :
       /\ state[freeSlots[i]] = "Done" /\ ~cancelled[freeSlots[i]]
       /\ freeSlots[i] \notin handles
       /\ \A j \in DOMAIN drives : drives[j].target # freeSlots[i]
  /\ \A i, j \in DOMAIN freeSlots : freeSlots[i] = freeSlots[j] => i = j

\* At most one request per task.
IoOK ==
  /\ \A i, j \in DOMAIN ioQueue : ioQueue[i] = ioQueue[j] => i = j
  /\ \A i, j \in DOMAIN channel : channel[i] = channel[j] => i = j
  /\ \A i \in DOMAIN ioQueue : ioQueue[i] \notin workers
  /\ \A i \in DOMAIN channel : channel[i] \notin workers
  /\ \A i \in DOMAIN ioQueue, j \in DOMAIN channel : ioQueue[i] # channel[j]

\* current_task_deadline and its saved copies are the running tasks' own.
DeadlinesOK ==
  /\ current # 0 => currentDeadline = deadline[current]
  /\ \A i \in DOMAIN drives : i > 1 => drives[i].saved = deadline[drives[i].caller]

\* The program ends once; a sleep ends.
EndOK ==
  /\ exit # "none" => pc = "halt"
  /\ \A s \in Slot : state[s] = "SleepUntil" => until[s] # Never

IInv ==
  /\ TypeOK /\ PcOK /\ SlotsOK /\ NoLostWakeup
  /\ StackOK /\ FreeOK /\ IoOK /\ AnswersReachTheirTask /\ CancelledStaysDone
  /\ DeadlinesOK /\ CalleeHasStricterDeadline
  /\ IoPoolIsAccounted /\ EndOK /\ ProgramDeadlockIsReal
=============================================================================
