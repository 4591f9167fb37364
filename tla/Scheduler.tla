----------------------------- MODULE Scheduler -----------------------------
(***************************************************************************)
(* The cooperative task scheduler of the virtual machine: the task slots,  *)
(* the ready queue, the timers, the join waiters, the pool of blocking     *)
(* network requests, and the stack of nested scheduler loops that calls of *)
(* functions with resilience modifiers, and callbacks of map/filter/...,   *)
(* push (exec_frame_inner and drive_until_done).                           *)
(*                                                                         *)
(* One thread runs everything except the network workers, so an action is  *)
(* a piece of that thread's work between two points where the clock may    *)
(* advance or a worker may answer.  pc says where the thread is: at the    *)
(* head of drive_until_done, draining the channel, firing timers, picking  *)
(* a task, running one, waking joiners, blocked, or out of the program.    *)
(*                                                                         *)
(* What a task computes is abstracted to the operations that reach the     *)
(* scheduler; a running task takes any of them, at most Fuel times.        *)
(***************************************************************************)
EXTENDS Integers, Sequences, FiniteSets

CONSTANTS
  MaxSlots,     \* bound of the model on the length of VM::tasks
  MaxTasks,     \* MAX_TASKS: spawn fails when tasks has that many slots
  MaxDepth,     \* MAX_RESILIENT_DEPTH
  MaxInFlight,  \* MAX_IN_FLIGHT_IO
  MaxTime,      \* bound of the model on the clock
  Fuel,         \* bound of the model on the operations of one task
  Delays,       \* the arguments given to sleep and to join as a timeout
  Budgets,      \* the deadlines functions declare
  Kinds,        \* the calls that push a scheduler loop: a subset of CallKinds
  FreeYield     \* TRUE: sleep(0) costs no fuel, so a task may yield for ever

CallKinds == {"call", "spawn"}  \* call_fn; spawn of a resilient function

ASSUME ConstantsAssumption ==
  /\ MaxSlots \in Nat \ {0} /\ MaxTasks \in Nat /\ MaxDepth \in Nat
  /\ MaxInFlight \in Nat \ {0} /\ MaxTime \in Nat /\ Fuel \in Nat
  /\ Delays \subseteq Nat /\ Budgets \subseteq Nat
  /\ Kinds \subseteq CallKinds /\ FreeYield \in BOOLEAN

VARIABLES
  state,            \* Task::state, per slot ("Absent": not in tasks yet)
  result,           \* the value of TaskState::Done
  until,            \* SleepUntil's time, or WaitingOnTask's own deadline
  joinee,           \* WaitingOnTask's task_id
  deadline,         \* Task::deadline
  cancelled,        \* Task::cancelled
  len,              \* tasks.len()
  ready,            \* the ready queue
  timers,           \* the timer heap, entries <<when, task>>
  waiters,          \* per task, those waiting for it through join
  freeSlots,        \* free_slots
  ioInFlight,       \* io_in_flight
  ioQueue,          \* requests waiting for a worker
  workers,          \* tasks whose request a worker thread is executing
  channel,          \* finished requests sent to io_rx, not received yet
  drives,           \* the nested drive_until_done calls, innermost last
  current,          \* the task being run by the innermost loop, or 0
  currentDeadline,  \* current_task_deadline
  finished,         \* the argument of the wake_waiters_on under way, or 0
  handles,          \* tasks some SpawnHandle refers to
  fuel,             \* operations the task may still perform
  now,              \* Instant::now()
  pc, exit          \* where the thread is; how the program ended

taskVars == <<state, result, until, joinee, deadline, cancelled, len>>
queueVars == <<ready, timers, waiters>>
ioVars == <<ioInFlight, ioQueue, workers, channel>>
driveVars == <<drives, current, currentDeadline, freeSlots>>
userVars == <<handles, fuel>>
vars == <<taskVars, queueVars, ioVars, driveVars, userVars, finished, now, pc, exit>>

Slot == 1..MaxSlots
Never == MaxTime + 1        \* no deadline: after every instant of the clock
Time == 0..Never
TaskStates == {"Absent", "Ready", "Running", "SleepUntil", "WaitingOnTask",
               "WaitingIo", "Done"}
Results == {"ok", "err", "fail"}  \* Ok, Err(PropagateErr), Err(General)
Drive == [target : Slot, caller : Slot \cup {0}, saved : Time,
          how : CallKinds \cup {"main"}]

TasksType ==
  /\ state \in [Slot -> TaskStates] /\ result \in [Slot -> Results]
  /\ until \in [Slot -> Time] /\ joinee \in [Slot -> Slot]
  /\ deadline \in [Slot -> Time] /\ cancelled \in [Slot -> BOOLEAN]
  /\ len \in 1..MaxSlots
QueuesType ==
  /\ ready \in Seq(Slot) /\ timers \subseteq Time \X Slot
  /\ waiters \in [Slot -> Seq(Slot)] /\ freeSlots \in Seq(Slot)
IoType ==
  /\ ioInFlight \in Nat /\ ioQueue \in Seq(Slot)
  /\ workers \subseteq Slot /\ channel \in Seq(Slot)
LoopType ==
  /\ drives \in Seq(Drive) /\ current \in Slot \cup {0}
  /\ currentDeadline \in Time /\ finished \in Slot \cup {0}
  /\ handles \subseteq Slot /\ fuel \in [Slot -> 0..Fuel]
  /\ now \in 0..MaxTime
  /\ pc \in {"head", "drain", "wake", "pick", "wait", "run", "notify", "halt"}
  /\ exit \in Results \cup {"none", "deadlock"}
TypeOK == TasksType /\ QueuesType /\ IoType /\ LoopType

-----------------------------------------------------------------------------
Top == drives[Len(drives)]
Target == Top.target
Pushed(d) == Append(drives, d)
Popped == SubSeq(drives, 1, Len(drives) - 1)
Earlier(s, t) == IF s < t THEN s ELSE t

\* The slot exec_frame_inner takes for a new task: the last freed, or a new one.
NewSlot == IF freeSlots = <<>> THEN len + 1 ELSE freeSlots[Len(freeSlots)]
TakeSlot ==
  IF freeSlots = <<>>
    THEN len' = len + 1 /\ UNCHANGED freeSlots
    ELSE freeSlots' = SubSeq(freeSlots, 1, Len(freeSlots) - 1) /\ UNCHANGED len

\* Every spawn of a resilient function will push one more task when it ends.
PendingPushes == Cardinality({i \in DOMAIN drives : drives[i].how = "spawn"})
Room == len + PendingPushes < MaxSlots

TimerIsLive(tm) ==
  /\ state[tm[2]] \in {"SleepUntil", "WaitingOnTask"}
  /\ until[tm[2]] = tm[1]
LiveTimers == {tm \in timers : TimerIsLive(tm)}
NotAfter(tm, other) == tm[1] < other[1] \/ (tm[1] = other[1] /\ tm[2] <= other[2])

\* The instant drive_until_done blocks until: the earliest live timer or the
\* deadline of its own target.
WakeAt ==
  CHOOSE t \in {tm[1] : tm \in LiveTimers} \cup {deadline[Target]} :
    \A tm \in LiveTimers : t <= tm[1] /\ t <= deadline[Target]

Init ==
  /\ state = [s \in Slot |-> IF s = 1 THEN "Ready" ELSE "Absent"]
  /\ result = [s \in Slot |-> "ok"]
  /\ until = [s \in Slot |-> Never]
  /\ joinee = [s \in Slot |-> s]
  /\ \E d \in {b \in Budgets : b <= MaxTime} \cup {Never} :
        deadline = [s \in Slot |-> IF s = 1 THEN d ELSE Never]
  /\ cancelled = [s \in Slot |-> FALSE]
  /\ len = 1
  /\ ready = <<1>> /\ timers = {} /\ waiters = [s \in Slot |-> <<>>]
  /\ freeSlots = <<>>
  /\ ioInFlight = 0 /\ ioQueue = <<>> /\ workers = {} /\ channel = <<>>
  /\ drives = <<[target |-> 1, caller |-> 0, saved |-> Never, how |-> "main"]>>
  /\ current = 0 /\ currentDeadline = Never /\ finished = 0
  /\ handles = {} /\ fuel = [s \in Slot |-> Fuel]
  /\ now = 0 /\ pc = "head" /\ exit = "none"

\* A suspended task gets its value and becomes ready; its SuspendReason is gone.
Wake(s) ==
  /\ state' = [state EXCEPT ![s] = "Ready"]
  /\ until' = [until EXCEPT ![s] = Never] /\ joinee' = [joinee EXCEPT ![s] = s]
  /\ ready' = Append(ready, s)
WakeNobody == UNCHANGED <<state, until, joinee, ready>>

-----------------------------------------------------------------------------
\* Leaving the innermost loop with the outcome r of its call.

\* The value reaches the instruction that made the call: the calling task
\* runs on.  call_compiled turns Err(PropagateErr) into a value.
Resume(r) ==
  /\ Top.how = "call" /\ r # "fail"
  /\ current' = Top.caller /\ pc' = "run"
  /\ UNCHANGED <<state, result, len, handles, finished, exit>>

\* `?` in the interpreter loop: the error ends the calling task as well.
Propagate(r) ==
  /\ Top.how = "call" /\ r = "fail"
  /\ state' = [state EXCEPT ![Top.caller] = "Done"]
  /\ result' = [result EXCEPT ![Top.caller] = r]
  /\ finished' = Top.caller /\ current' = 0 /\ pc' = "notify"
  /\ UNCHANGED <<len, handles, exit>>

\* spawn of a resilient function: whatever the outcome, a finished task is
\* pushed for the handle, always in a new slot.
PushDone(r) ==
  /\ len < MaxSlots /\ len' = len + 1
  /\ state' = [state EXCEPT ![len + 1] = "Done"]
  /\ result' = [result EXCEPT ![len + 1] = r]
  /\ handles' = handles \cup {len + 1}

\* Mutant: the handle refers to the body's own slot, which was freed.
PushInPlace(r) ==
  /\ Top.how = "spawn" /\ handles' = handles \cup {Target}
  /\ current' = Top.caller /\ pc' = "run"
  /\ UNCHANGED <<state, result, len, finished, exit>>

PushFinished(r) ==
  /\ Top.how = "spawn" /\ PushDone(IF r = "err" THEN "ok" ELSE r)
  /\ current' = Top.caller /\ pc' = "run"
  /\ UNCHANGED <<finished, exit>>

ExitProgram(r) ==
  /\ Top.how = "main"
  /\ current' = 0 /\ pc' = "halt" /\ exit' = r
  /\ UNCHANGED <<state, result, len, handles, finished>>

\* Mutant: current_task_deadline is left as the nested loop's last task had it.
LeaveUnrestored(r) ==
  /\ drives' = Popped /\ UNCHANGED currentDeadline
  /\ Resume(r) \/ Propagate(r) \/ PushFinished(r) \/ ExitProgram(r)

Leave(r) ==
  /\ drives' = Popped /\ currentDeadline' = Top.saved
  /\ Resume(r) \/ Propagate(r) \/ PushFinished(r) \/ ExitProgram(r)

\* Mutant: the slot of a cancelled task is freed too.
DriveReturnsAlwaysFrees ==
  /\ pc = "head" /\ state[Target] = "Done"
  /\ deadline' = [deadline EXCEPT ![Target] = Never]
  /\ freeSlots' = Append(freeSlots, Target)
  /\ Leave(result[Target])
  /\ UNCHANGED <<until, joinee, cancelled, queueVars, ioVars, fuel, now>>

\* The target is Done: its slot is freed, unless the task was cancelled, and
\* the loop returns its result.
DriveReturns ==
  /\ pc = "head" /\ state[Target] = "Done"
  /\ deadline' = [deadline EXCEPT ![Target] = Never]
  /\ freeSlots' = IF cancelled[Target] THEN freeSlots ELSE Append(freeSlots, Target)
  /\ Leave(result[Target])
  /\ UNCHANGED <<until, joinee, cancelled, queueVars, ioVars, fuel, now>>

\* Mutant: a timed-out task is not marked cancelled.
DriveCancelsUnmarked ==
  /\ pc = "head" /\ state[Target] # "Done" /\ deadline[Target] <= now
  /\ state' = [state EXCEPT ![Target] = "Done"]
  /\ result' = [result EXCEPT ![Target] = "err"]
  /\ deadline' = [deadline EXCEPT ![Target] = Never]
  /\ until' = [until EXCEPT ![Target] = Never]
  /\ joinee' = [joinee EXCEPT ![Target] = Target]
  /\ finished' = Target /\ pc' = "notify"
  /\ UNCHANGED <<cancelled, len, queueVars, ioVars, driveVars, userVars, now, exit>>

\* cancel_with_timeout: the target is past its deadline.
DriveCancels ==
  /\ pc = "head" /\ state[Target] # "Done" /\ deadline[Target] <= now
  /\ state' = [state EXCEPT ![Target] = "Done"]
  /\ result' = [result EXCEPT ![Target] = "err"]
  /\ deadline' = [deadline EXCEPT ![Target] = Never]
  /\ cancelled' = [cancelled EXCEPT ![Target] = TRUE]
  /\ until' = [until EXCEPT ![Target] = Never]
  /\ joinee' = [joinee EXCEPT ![Target] = Target]
  /\ finished' = Target /\ pc' = "notify"
  /\ UNCHANGED <<len, queueVars, ioVars, driveVars, userVars, now, exit>>

\* Mutant: the channel is not drained while there are tasks to run.
DriveContinuesUndrained ==
  /\ pc = "head" /\ state[Target] # "Done" /\ deadline[Target] > now
  /\ pc' = IF ready = <<>> THEN "drain" ELSE "wake"
  /\ UNCHANGED <<taskVars, queueVars, ioVars, driveVars, userVars, finished, now, exit>>

DriveContinues ==
  /\ pc = "head" /\ state[Target] # "Done" /\ deadline[Target] > now
  /\ pc' = "drain"
  /\ UNCHANGED <<taskVars, queueVars, ioVars, driveVars, userVars, finished, now, exit>>

-----------------------------------------------------------------------------
\* Network requests: start_io, the worker threads, drain_io, deliver_io.

\* Mutants: one request too many; the error of a refused thread is not sent.
StartIoOverfull(job, inFlight, queue, sent) ==
  IF inFlight > MaxInFlight
    THEN /\ ioQueue' = Append(queue, job) /\ ioInFlight' = inFlight
         /\ channel' = sent /\ UNCHANGED workers
    ELSE /\ ioQueue' = queue /\ ioInFlight' = inFlight + 1
         /\ workers' = workers \cup {job} /\ channel' = sent

StartIoSilent(job, inFlight, queue, sent) ==
  IF inFlight >= MaxInFlight
    THEN /\ ioQueue' = Append(queue, job) /\ ioInFlight' = inFlight
         /\ channel' = sent /\ UNCHANGED workers
    ELSE /\ ioQueue' = queue /\ ioInFlight' = inFlight + 1 /\ channel' = sent
         /\ workers' = workers \cup {job} \/ UNCHANGED workers

\* start_io of job when inFlight requests run, queue waits and sent is in the
\* channel: queued if every place is taken; otherwise a worker thread takes it,
\* or, when the OS refuses a thread, the error is sent through the channel.
StartIo(job, inFlight, queue, sent) ==
  IF inFlight >= MaxInFlight
    THEN /\ ioQueue' = Append(queue, job) /\ ioInFlight' = inFlight
         /\ channel' = sent /\ UNCHANGED workers
    ELSE /\ ioQueue' = queue /\ ioInFlight' = inFlight + 1
         /\ \/ workers' = workers \cup {job} /\ channel' = sent
            \/ UNCHANGED workers /\ channel' = Append(sent, job)

\* A worker thread answers, at any moment.
WorkerAnswers(job) ==
  /\ pc # "halt" /\ job \in workers
  /\ workers' = workers \ {job} /\ channel' = Append(channel, job)
  /\ UNCHANGED <<taskVars, queueVars, ioInFlight, ioQueue, driveVars, userVars,
                 finished, now, pc, exit>>

\* Mutant: the task is woken without asking whether it still waits.
DeliverIoBlindly ==
  /\ channel # <<>> /\ Wake(Head(channel))
  /\ LET left == ioInFlight - 1 IN
     IF ioQueue = <<>>
       THEN ioInFlight' = left /\ channel' = Tail(channel) /\ UNCHANGED <<workers, ioQueue>>
       ELSE StartIo(Head(ioQueue), left, Tail(ioQueue), Tail(channel))
  /\ UNCHANGED <<result, deadline, cancelled, len, timers, waiters,
                 driveVars, userVars, finished, now, exit>>

\* deliver_io of the first answer in the channel: the freed place goes to the
\* first queued request, and the task is woken if it still waits.
DeliverIo ==
  LET task == Head(channel)
      left == IF ioInFlight = 0 THEN 0 ELSE ioInFlight - 1 IN
  /\ channel # <<>>
  /\ IF ioQueue = <<>>
       THEN ioInFlight' = left /\ channel' = Tail(channel) /\ UNCHANGED <<workers, ioQueue>>
       ELSE StartIo(Head(ioQueue), left, Tail(ioQueue), Tail(channel))
  /\ IF state[task] = "WaitingIo" THEN Wake(task) ELSE WakeNobody
  /\ UNCHANGED <<result, deadline, cancelled, len, timers, waiters,
                 driveVars, userVars, finished, now, exit>>

DrainIo == pc = "drain" /\ DeliverIo /\ UNCHANGED pc

DrainEnds ==
  /\ pc = "drain" /\ channel = <<>> /\ pc' = "wake"
  /\ UNCHANGED <<taskVars, queueVars, ioVars, driveVars, userVars, finished, now, exit>>

-----------------------------------------------------------------------------
\* wake_ready_sleepers: pops every timer that is due, waking the task of a
\* live one (from a sleep, or with the timeout of its join).
FireTimer ==
  \E tm \in timers :
    /\ pc = "wake" /\ tm[1] <= now /\ \A other \in timers : NotAfter(tm, other)
    /\ timers' = timers \ {tm}
    /\ IF TimerIsLive(tm) THEN Wake(tm[2]) ELSE WakeNobody
    /\ UNCHANGED <<result, deadline, cancelled, len, waiters, ioVars,
                   driveVars, userVars, finished, now, pc, exit>>

TimersFired ==
  /\ pc = "wake" /\ \A tm \in timers : tm[1] > now
  /\ pc' = "pick"
  /\ UNCHANGED <<taskVars, queueVars, ioVars, driveVars, userVars, finished, now, exit>>

-----------------------------------------------------------------------------
\* pick_ready_task, and the start of run_task_until_suspend.
PickTask ==
  /\ pc = "pick" /\ ready # <<>> /\ state[Head(ready)] = "Ready"
  /\ ready' = Tail(ready) /\ current' = Head(ready)
  /\ state' = [state EXCEPT ![Head(ready)] = "Running"]
  /\ currentDeadline' = deadline[Head(ready)]
  /\ pc' = "run"
  /\ UNCHANGED <<result, until, joinee, deadline, cancelled, len, timers, waiters, ioVars,
                 drives, freeSlots, userVars, finished, now, exit>>

SkipStale ==
  /\ pc = "pick" /\ ready # <<>> /\ state[Head(ready)] # "Ready"
  /\ ready' = Tail(ready)
  /\ UNCHANGED <<taskVars, timers, waiters, ioVars, driveVars, userVars, finished, now,
                 pc, exit>>

\* earliest_wake discards the dead timers that precede the first live one.
PruneTimers ==
  timers' = {tm \in timers : \E l \in LiveTimers : NotAfter(l, tm)}

NothingReady == pc = "pick" /\ ready = <<>>

Block ==
  /\ NothingReady /\ (WakeAt # Never \/ ioInFlight > 0)
  /\ PruneTimers /\ pc' = "wait"
  /\ UNCHANGED <<taskVars, ready, waiters, ioVars, driveVars, userVars, finished, now, exit>>

ReceiveIo == pc = "wait" /\ DeliverIo /\ pc' = "head"

WakeUp ==
  /\ pc = "wait" /\ channel = <<>> /\ WakeAt <= now
  /\ pc' = "head"
  /\ UNCHANGED <<taskVars, queueVars, ioVars, driveVars, userVars, finished, now, exit>>

\* Mutant: requests in flight are forgotten.
DeadlockedDespiteIo == NothingReady /\ WakeAt = Never

\* Nothing will ever wake a task: the loop fails; its target keeps its slot.
Deadlocked == NothingReady /\ WakeAt = Never /\ ioInFlight = 0

ReportDeadlock ==
  /\ Deadlocked /\ PruneTimers
  /\ Leave(IF Top.how = "main" THEN "deadlock" ELSE "fail")
  /\ UNCHANGED <<until, joinee, deadline, cancelled, ready, waiters, ioVars, freeSlots,
                 fuel, now>>

-----------------------------------------------------------------------------
\* What the running task does: the instructions that reach the scheduler.

Running == pc = "run"
Burn == fuel[current] > 0 /\ fuel' = [fuel EXCEPT ![current] = @ - 1]

\* The task ends: Done, then wake_waiters_on.
Finish(r) ==
  /\ Running
  /\ state' = [state EXCEPT ![current] = "Done"]
  /\ result' = [result EXCEPT ![current] = r]
  /\ finished' = current /\ current' = 0 /\ pc' = "notify"
  /\ fuel' = [fuel EXCEPT ![current] = 0]
  /\ UNCHANGED <<until, joinee, deadline, cancelled, len, queueVars, ioVars,
                 drives, currentDeadline, freeSlots, handles, now, exit>>

\* Its code returns, propagates an Err with `?` (or is stopped so by the check
\* made every 1024 jumps once it is past its deadline), or raises an error.
TaskEnds == \E r \in Results : Finish(r)

\* The end of run_task_until_suspend for a task that suspends.
Suspend(reason, when) ==
  /\ Running
  /\ state' = [state EXCEPT ![current] = reason]
  /\ until' = [until EXCEPT ![current] = when]
  /\ timers' = IF when = Never THEN timers ELSE timers \cup {<<when, current>>}
  /\ current' = 0 /\ pc' = "head"
  /\ UNCHANGED <<result, deadline, cancelled, len, ready, drives, currentDeadline,
                 freeSlots, handles, finished, now, exit>>

Sleep(d) ==
  /\ now + d <= MaxTime
  /\ Suspend("SleepUntil", now + d)
  /\ IF FreeYield /\ d = 0 THEN UNCHANGED fuel ELSE Burn
  /\ UNCHANGED <<joinee, waiters, ioVars>>

\* Mutant: a join without a timeout computes one all the same.
JoinBlocksAlwaysTimed(h, d) ==
  /\ state[h] # "Done"
  /\ d = Never \/ now + d <= MaxTime
  /\ Suspend("WaitingOnTask", now + d)
  /\ joinee' = [joinee EXCEPT ![current] = h]
  /\ waiters' = [waiters EXCEPT ![h] = Append(@, current)]
  /\ Burn /\ UNCHANGED ioVars

\* h.join(), or h.join(d), of a task that is not done.
JoinBlocks(h, d) ==
  /\ state[h] # "Done"
  /\ d = Never \/ now + d <= MaxTime
  /\ Suspend("WaitingOnTask", IF d = Never THEN Never ELSE now + d)
  /\ joinee' = [joinee EXCEPT ![current] = h]
  /\ waiters' = [waiters EXCEPT ![h] = Append(@, current)]
  /\ Burn /\ UNCHANGED ioVars

\* h.join() of a finished task, like isDone(), does not leave the interpreter.
JoinReturns(h) ==
  /\ Running /\ state[h] = "Done" /\ Burn
  /\ UNCHANGED <<taskVars, queueVars, ioVars, driveVars, handles, finished, now, pc, exit>>

\* httpGet and its like: start_io, or queue when every place is taken.
HttpRequest ==
  /\ Suspend("WaitingIo", Never) /\ Burn
  /\ StartIo(current, ioInFlight, ioQueue, channel)
  /\ UNCHANGED <<joinee, waiters>>

\* spawn of a plain function: always a new slot, never a freed one.
Spawn ==
  /\ Running /\ len < MaxTasks /\ Room /\ Burn
  /\ len' = len + 1
  /\ state' = [state EXCEPT ![len + 1] = "Ready"]
  /\ ready' = Append(ready, len + 1)
  /\ handles' = handles \cup {len + 1}
  /\ UNCHANGED <<result, until, joinee, deadline, cancelled, timers, waiters, ioVars,
                 driveVars, finished, now, pc, exit>>

SpawnOverLimit == Running /\ len >= MaxTasks /\ fuel[current] > 0 /\ Finish("fail")

\* A call that pushes a scheduler loop: a new task for the body, with the
\* deadline of exec_with_timeout when the function declares one (d # Never).
Call(how, d) ==
  /\ Running /\ Len(drives) < MaxDepth
  /\ freeSlots # <<>> \/ Room
  /\ how = "spawn" => len < MaxTasks /\ len + PendingPushes + 1 < MaxSlots
  /\ d = Never \/ now + d <= MaxTime
  /\ fuel[current] > 0 /\ TakeSlot
  /\ fuel' = [fuel EXCEPT ![current] = @ - 1, ![NewSlot] = Fuel]
  /\ state' = [state EXCEPT ![NewSlot] = "Ready"]
  /\ deadline' = [deadline EXCEPT ![NewSlot] =
                    IF d = Never THEN Never ELSE Earlier(currentDeadline, now + d)]
  /\ ready' = Append(ready, NewSlot)
  /\ drives' = Pushed([target |-> NewSlot, caller |-> current,
                       saved |-> currentDeadline, how |-> how])
  /\ current' = 0 /\ pc' = "head"
  /\ result' = [result EXCEPT ![NewSlot] = "ok"]
  /\ UNCHANGED <<until, joinee, cancelled, timers, waiters, ioVars,
                 currentDeadline, handles, finished, now, exit>>

\* MAX_RESILIENT_DEPTH reached: the call fails, and the caller with it; a
\* spawn gets the handle of a failed task.
CallTooDeep ==
  /\ Running /\ Len(drives) >= MaxDepth /\ "call" \in Kinds
  /\ fuel[current] > 0 /\ Finish("fail")

SpawnTooDeep ==
  /\ Running /\ Len(drives) >= MaxDepth /\ "spawn" \in Kinds
  /\ len < MaxTasks /\ Room /\ Burn /\ PushDone("fail")
  /\ UNCHANGED <<until, joinee, deadline, cancelled, queueVars, ioVars, driveVars,
                 finished, now, pc, exit>>

-----------------------------------------------------------------------------
\* wake_waiters_on(finished), one waiter at a time.
NotifyWaiter ==
  LET w == Head(waiters[finished]) IN
  /\ pc = "notify" /\ waiters[finished] # <<>>
  /\ waiters' = [waiters EXCEPT ![finished] = Tail(@)]
  /\ IF state[w] = "WaitingOnTask" /\ joinee[w] = finished
       THEN Wake(w) ELSE WakeNobody
  /\ UNCHANGED <<result, deadline, cancelled, len, timers, ioVars,
                 driveVars, userVars, finished, now, pc, exit>>

\* Mutant: only the first waiter is woken.
AllNotifiedEarly ==
  /\ pc = "notify" /\ finished' = 0 /\ pc' = "head"
  /\ UNCHANGED <<taskVars, queueVars, ioVars, driveVars, userVars, now, exit>>

AllNotified ==
  /\ pc = "notify" /\ waiters[finished] = <<>>
  /\ finished' = 0 /\ pc' = "head"
  /\ UNCHANGED <<taskVars, queueVars, ioVars, driveVars, userVars, now, exit>>

Tick ==
  /\ pc # "halt" /\ now < MaxTime /\ now' = now + 1
  /\ UNCHANGED <<taskVars, queueVars, ioVars, driveVars, userVars, finished, pc, exit>>

Halted == pc = "halt" /\ UNCHANGED vars

Drives == DriveReturns \/ DriveCancels \/ DriveContinues
Delivers == DrainIo \/ DrainEnds \/ FireTimer \/ TimersFired
Picks == PickTask \/ SkipStale \/ Block \/ ReceiveIo \/ WakeUp \/ ReportDeadlock
Suspends ==
  \/ \E d \in Delays : Sleep(d)
  \/ \E h \in handles, d \in Delays \cup {Never} : JoinBlocks(h, d)
  \/ HttpRequest
RunsOn ==
  \/ \E h \in handles : JoinReturns(h)
  \/ Spawn \/ SpawnOverLimit \/ CallTooDeep \/ SpawnTooDeep
  \/ \E how \in Kinds, d \in Budgets \cup {Never} : Call(how, d)
Notifies == NotifyWaiter \/ AllNotified

Thread == Drives \/ Delivers \/ Picks \/ Suspends \/ RunsOn \/ TaskEnds \/ Notifies
Next == Thread \/ (\E s \in Slot : WorkerAnswers(s)) \/ Tick \/ Halted

Spec == Init /\ [][Next]_vars

\* The OS runs the interpreter thread and the workers, and time passes.
Fairness ==
  /\ WF_vars(Thread) /\ WF_vars(Tick)
  /\ \A s \in Slot : WF_vars(WorkerAnswers(s))
FairSpec == Spec /\ Fairness

-----------------------------------------------------------------------------
\* Properties.

InSeq(seq, s) == \E i \in DOMAIN seq : seq[i] = s
Outstanding(s) == InSeq(ioQueue, s) \/ s \in workers \/ InSeq(channel, s)

\* Whatever a suspended task waits for will reach it: a sleeper has its timer,
\* a task blocked in join is among the waiters of a task that has not ended (or
\* whose waiters are being woken), and has its timer when the join has a
\* timeout; a task that waits for the network has a request on its way; and a
\* ready task is in the ready queue.
HasTimer(s) == <<until[s], s>> \in timers
WakeupComes(s) ==
  /\ state[s] = "Ready" => InSeq(ready, s)
  /\ state[s] = "SleepUntil" => HasTimer(s)
  /\ state[s] = "WaitingOnTask" =>
       /\ InSeq(waiters[joinee[s]], s)
       /\ state[joinee[s]] # "Done" \/ finished = joinee[s]
       /\ until[s] # Never => HasTimer(s)
  /\ state[s] = "WaitingIo" => Outstanding(s)
NoLostWakeup == \A s \in Slot : WakeupComes(s)

\* A slot on free_slots can be given to a new task without anyone noticing: the
\* old task is over, no handle, loop or waiter refers to it and no answer for
\* it can still arrive.
FreeSlotsAreUnreferenced ==
  \A i \in DOMAIN freeSlots :
    LET s == freeSlots[i] IN
    /\ state[s] = "Done" /\ ~cancelled[s] /\ ~Outstanding(s)
    /\ s \notin handles /\ waiters[s] = <<>>
    /\ \A j \in DOMAIN drives : drives[j].target # s /\ drives[j].caller # s
    /\ \A j \in DOMAIN freeSlots : freeSlots[j] = s => j = i

\* A late answer is harmless: whoever has a request outstanding either waits
\* for that answer or was cancelled, so deliver_io wakes nobody else with it.
AnswersReachTheirTask ==
  \A s \in Slot : Outstanding(s) => state[s] = "WaitingIo" \/ cancelled[s]

\* The pool never exceeds its limit, counts what it runs, and keeps a request
\* queued only while every place is taken.
IoPoolIsAccounted ==
  /\ ioInFlight = Cardinality(workers) + Len(channel)
  /\ ioInFlight <= MaxInFlight
  /\ ioQueue # <<>> => ioInFlight = MaxInFlight

\* A function that declares a deadline never outlives the task that called it:
\* current_task_deadline is the caller's own, also after nested loops have run
\* other tasks.
CalleeHasStricterDeadline ==
  \A i \in DOMAIN drives :
    LET d == drives[i] IN
    d.caller # 0 /\ deadline[d.target] # Never =>
      deadline[d.target] <= deadline[d.caller]

\* A cancelled task is over for good.
CancelledStaysDone == \A s \in Slot : cancelled[s] => state[s] = "Done"

\* When the whole program ends with a deadlock error, it is one: every task
\* that has not ended waits, without a timeout, for another one that has not.
ProgramDeadlockIsReal ==
  exit = "deadlock" =>
    \A s \in Slot : state[s] \in {"Absent", "Done"} \/
      (state[s] = "WaitingOnTask" /\ until[s] = Never /\ state[joinee[s]] # "Done")

\* What join and isDone see through a handle never changes once it is there.
DoneIsFinal ==
  [][\A h \in handles : state[h] = "Done" =>
       state'[h] = "Done" /\ result'[h] = result[h]]_vars

\* The program never hangs: it ends, if only with a deadlock error, unless some
\* task goes on yielding for ever.
NeverHangs == <>(pc = "halt") \/ []<>(\E s \in Slot : state[s] = "SleepUntil")

\* Nobody starves, even beside a task that yields for ever: a task that can go
\* on (ready, its timer due, or its answer received) leaves that condition.
Due(s) ==
  \/ state[s] = "Ready"
  \/ state[s] \in {"SleepUntil", "WaitingOnTask"} /\ until[s] <= now
  \/ state[s] = "WaitingIo" /\ InSeq(channel, s)
NobodyStarves == \A s \in Slot : Due(s) ~> (state[s] \in {"Running", "Done"} \/ pc = "halt")

\* The deadlock error means a mutual wait: following what each task waits for
\* (the task it joins, or the body of the call it made) from the task whose loop
\* gave up never leads to a call that has already ended, whose caller could go on.
Callee(s) == {drives[i].target : i \in {k \in DOMAIN drives : drives[k].caller = s}}
WaitsFor(s) ==
  CASE state[s] = "WaitingOnTask" -> joinee[s]
    [] state[s] = "Running" /\ Callee(s) # {} -> CHOOSE t \in Callee(s) : TRUE
    [] OTHER -> s
WaitChain[n \in Nat] == IF n = 0 THEN Target ELSE WaitsFor(WaitChain[n - 1])
DeadlockIsMutual ==
  Deadlocked => \A n \in 0..MaxSlots : state[WaitChain[n]] # "Done"

\* Nested calls inherit the stricter deadline: along a chain of calls, each made
\* by the body of the previous one, no deadline is later than an earlier one's.
DeadlinesAreInherited ==
  \A i, j \in DOMAIN drives :
    /\ i < j /\ deadline[drives[j].target] # Never
    /\ \A k \in i..(j - 1) : drives[k + 1].caller = drives[k].target
    => deadline[drives[j].target] <= deadline[drives[i].target]
=============================================================================
