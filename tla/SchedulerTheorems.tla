-------------------------- MODULE SchedulerTheorems --------------------------
(* Proofs about Scheduler, last part: network requests and deadlines, and the *)
(* theorems.                                                                  *)
EXTENDS SchedulerProofs, WellFoundedInduction

-----------------------------------------------------------------------------
(* Network requests.                                                         *)

\* start_io keeps requests distinct, and adds none but the one it is given.
LEMMA StartIoOnce ==
  ASSUME NEW job \in Slot, NEW n \in Nat, NEW queue \in Seq(Slot), NEW sent \in Seq(Slot),
         StartIo(job, n, queue, sent),
         ~InSeq(queue, job), ~InSeq(sent, job), job \notin workers,
         \A i, j \in DOMAIN queue : queue[i] = queue[j] => i = j,
         \A i, j \in DOMAIN sent : sent[i] = sent[j] => i = j,
         \A i \in DOMAIN queue : queue[i] \notin workers,
         \A i \in DOMAIN sent : sent[i] \notin workers,
         \A i \in DOMAIN queue, j \in DOMAIN sent : queue[i] # sent[j]
  PROVE  /\ IoOK'
         /\ \A s \in Slot : Outstanding(s)' =>
              s = job \/ InSeq(queue, s) \/ s \in workers \/ InSeq(sent, s)
<1>0. /\ \A i \in DOMAIN queue : queue[i] # job
      /\ \A i \in DOMAIN sent : sent[i] # job
  BY DEF InSeq
<1>1. CASE n >= MaxInFlight
  <2>1. ioQueue' = Append(queue, job) /\ channel' = sent /\ workers' = workers
    BY <1>1 DEF StartIo
  <2>2. /\ DOMAIN ioQueue' = DOMAIN queue \cup {Len(queue) + 1}
        /\ ioQueue'[Len(queue) + 1] = job
        /\ \A i \in DOMAIN queue : ioQueue'[i] = queue[i]
    BY <2>1, AppendType
  <2>3. IoOK'
    BY <1>0, <2>1, <2>2 DEF IoOK
  <2>4. \A s \in Slot : InSeq(ioQueue', s) <=> InSeq(queue, s) \/ s = job
    BY <2>1, AppendIn
  <2>5. QED BY <2>1, <2>3, <2>4 DEF Outstanding
<1>2. CASE ~(n >= MaxInFlight) /\ workers' = workers \cup {job} /\ channel' = sent
  <2>1. ioQueue' = queue
    BY <1>2 DEF StartIo
  <2>2. IoOK'
    BY <1>0, <1>2, <2>1 DEF IoOK
  <2>3. QED BY <1>2, <2>1, <2>2 DEF Outstanding
<1>3. CASE ~(n >= MaxInFlight) /\ workers' = workers /\ channel' = Append(sent, job)
  <2>1. ioQueue' = queue
    BY <1>3 DEF StartIo
  <2>2. /\ DOMAIN channel' = DOMAIN sent \cup {Len(sent) + 1}
        /\ channel'[Len(sent) + 1] = job
        /\ \A i \in DOMAIN sent : channel'[i] = sent[i]
    BY <1>3, AppendType
  <2>3. IoOK'
    BY <1>0, <1>3, <2>1, <2>2 DEF IoOK
  <2>4. \A s \in Slot : InSeq(channel', s) <=> InSeq(sent, s) \/ s = job
    BY <1>3, AppendIn
  <2>5. QED BY <1>3, <2>1, <2>3, <2>4 DEF Outstanding
<1>4. QED BY <1>1, <1>2, <1>3 DEF StartIo

\* Without its head, a queue of distinct tasks no longer holds it.
LEMMA TailDistinct ==
  ASSUME NEW q \in Seq(Slot), q # <<>>, \A i, j \in DOMAIN q : q[i] = q[j] => i = j
  PROVE  /\ \A i, j \in DOMAIN Tail(q) : Tail(q)[i] = Tail(q)[j] => i = j
         /\ \A i \in DOMAIN Tail(q) : Tail(q)[i] # Head(q) /\ \E k \in DOMAIN q : Tail(q)[i] = q[k]
         /\ ~InSeq(Tail(q), Head(q))
<1>1. /\ Head(q) = q[1] /\ 1 \in DOMAIN q
      /\ \A i \in DOMAIN Tail(q) : i + 1 \in DOMAIN q /\ Tail(q)[i] = q[i + 1]
      /\ DOMAIN Tail(q) \subseteq Nat \ {0}
  BY TailType
<1>2. QED BY <1>1 DEF InSeq

\* deliver_io removes the answer it delivers and no other request; it changes no
\* other task.
LEMMA DeliverIoOnce ==
  ASSUME TypeOK, IoOK, DeliverIo
  PROVE  /\ IoOK' /\ UNCHANGED cancelled
         /\ \A s \in Slot : Outstanding(s)' => Outstanding(s) /\ state'[s] = state[s]
<1> DEFINE task == Head(channel)
           left == IF ioInFlight = 0 THEN 0 ELSE ioInFlight - 1
<1>1. /\ channel \in Seq(Slot) /\ channel # <<>> /\ task \in Slot /\ Tail(channel) \in Seq(Slot)
      /\ ioQueue \in Seq(Slot) /\ left \in Nat
  BY TailType DEF TypeOK, IoType, DeliverIo
<1>2. /\ \A i, j \in DOMAIN Tail(channel) : Tail(channel)[i] = Tail(channel)[j] => i = j
      /\ \A i \in DOMAIN Tail(channel) : Tail(channel)[i] # task /\
           \E k \in DOMAIN channel : Tail(channel)[i] = channel[k]
      /\ ~InSeq(Tail(channel), task)
  BY <1>1, TailDistinct DEF IoOK
<1>3. \A s \in Slot : InSeq(channel, s) <=> InSeq(Tail(channel), s) \/ s = task
  BY <1>1, TailIn
<1>4. 1 \in DOMAIN channel /\ task = channel[1]
  BY <1>1, TailType
<1>5. task \notin workers /\ \A i \in DOMAIN ioQueue : ioQueue[i] # task
  BY <1>4 DEF IoOK
<1>6. \A s \in Slot : s # task => state'[s] = state[s]
  BY <1>1 DEF DeliverIo, Wake, WakeNobody, TypeOK, TasksType
<1>7. CASE ioQueue = <<>>
  <2>1. channel' = Tail(channel) /\ workers' = workers /\ ioQueue' = ioQueue
    BY <1>7 DEF DeliverIo
  <2>2. IoOK'
    BY <1>2, <1>7, <2>1 DEF IoOK
  <2>3. \A s \in Slot : Outstanding(s)' => Outstanding(s) /\ s # task
    BY <1>2, <1>3, <1>5, <2>1 DEF Outstanding, InSeq
  <2>4. QED BY <1>6, <2>2, <2>3 DEF DeliverIo
<1>8. CASE ioQueue # <<>>
  <2> DEFINE job == Head(ioQueue)
  <2>1. /\ StartIo(job, left, Tail(ioQueue), Tail(channel))
        /\ job \in Slot /\ Tail(ioQueue) \in Seq(Slot)
        /\ 1 \in DOMAIN ioQueue /\ job = ioQueue[1]
    BY <1>1, <1>8, TailType DEF DeliverIo
  <2>2. /\ \A i, j \in DOMAIN Tail(ioQueue) : Tail(ioQueue)[i] = Tail(ioQueue)[j] => i = j
        /\ \A i \in DOMAIN Tail(ioQueue) : Tail(ioQueue)[i] # job /\
             \E k \in DOMAIN ioQueue : Tail(ioQueue)[i] = ioQueue[k]
        /\ ~InSeq(Tail(ioQueue), job)
    BY <1>1, <1>8, TailDistinct DEF IoOK
  <2>3. job \notin workers /\ job # task
    BY <1>5, <2>1 DEF IoOK
  <2>4. ~InSeq(Tail(channel), job)
    BY <1>2, <2>1 DEF IoOK, InSeq
  <2>5. /\ \A i \in DOMAIN Tail(ioQueue) : Tail(ioQueue)[i] \notin workers
        /\ \A i \in DOMAIN Tail(channel) : Tail(channel)[i] \notin workers
        /\ \A i \in DOMAIN Tail(ioQueue), j \in DOMAIN Tail(channel) :
             Tail(ioQueue)[i] # Tail(channel)[j]
    BY <1>2, <2>2 DEF IoOK
  <2> HIDE DEF job, left
  <2>6. /\ IoOK'
        /\ \A s \in Slot : Outstanding(s)' =>
             s = job \/ InSeq(Tail(ioQueue), s) \/ s \in workers \/ InSeq(Tail(channel), s)
    BY <1>1, <1>2, <2>1, <2>2, <2>3, <2>4, <2>5, StartIoOnce
  <2>7. \A s \in Slot : InSeq(Tail(ioQueue), s) \/ s = job => InSeq(ioQueue, s) /\ s # task
    BY <1>5, <2>1, <2>2 DEF InSeq
  <2>8. \A s \in Slot : Outstanding(s)' => Outstanding(s) /\ s # task
    BY <1>2, <1>3, <1>5, <2>6, <2>7 DEF Outstanding
  <2>9. QED BY <1>6, <2>6, <2>8 DEF DeliverIo
<1>9. QED BY <1>7, <1>8

\* Requests that are left alone stay distinct, and answers reach their tasks, when
\* no task that waits for one changes without being cancelled.
LEMMA AnswersKept ==
  ASSUME IoOK, AnswersReachTheirTask, UNCHANGED <<ioQueue, workers, channel>>,
         \A s \in Slot : Outstanding(s) =>
           (state[s] = "WaitingIo" => state'[s] = "WaitingIo" \/ cancelled'[s]),
         \A s \in Slot : cancelled[s] => cancelled'[s]
  PROVE  IoOK' /\ AnswersReachTheirTask'
<1>1. \A s \in Slot : Outstanding(s)' <=> Outstanding(s)
  BY DEF Outstanding
<1>2. QED BY <1>1 DEF IoOK, AnswersReachTheirTask

\* Every step keeps requests distinct and answers due to their tasks.
LEMMA IoStep ==
  ASSUME TypeOK, PcOK, SlotsOK, StackOK, FreeOK, IoOK, AnswersReachTheirTask,
         CancelledStaysDone, [Next]_vars
  PROVE  IoOK' /\ AnswersReachTheirTask'
<1>0. /\ current # 0 => current \in Slot /\ state[current] = "Running" /\ ~Outstanding(current)
      /\ \A i \in DOMAIN drives : i > 1 =>
           drives[i].caller \in Slot /\ state[drives[i].caller] = "Running"
      /\ 0 \notin Slot /\ DOMAIN drives = 1..Len(drives) /\ Len(drives) \in Nat
  BY StackFacts DEF AnswersReachTheirTask, CancelledStaysDone
<1>1. CASE DrainIo \/ ReceiveIo
  <2>1. DeliverIo
    BY <1>1 DEF DrainIo, ReceiveIo
  <2>2. QED BY <2>1, DeliverIoOnce DEF AnswersReachTheirTask
<1>2. CASE FireTimer \/ NotifyWaiter
  <2>1. UNCHANGED <<ioQueue, workers, channel, cancelled>>
    BY <1>2 DEF FireTimer, NotifyWaiter, ioVars
  <2>2. \A s \in Slot : state[s] = "WaitingIo" => state'[s] = "WaitingIo"
    <3>1. CASE FireTimer
      <4>1. PICK tm \in timers : IF TimerIsLive(tm) THEN Wake(tm[2]) ELSE WakeNobody
        BY <3>1 DEF FireTimer
      <4>2. QED BY <4>1 DEF TimerIsLive, Wake, WakeNobody, TypeOK, TasksType
    <3>2. CASE NotifyWaiter
      BY <3>2 DEF NotifyWaiter, Wake, WakeNobody, TypeOK, TasksType
    <3>3. QED BY <1>2, <3>1, <3>2
  <2>3. QED BY <2>1, <2>2, AnswersKept
<1>3. CASE QuietStep
  BY <1>3, QuietStepFacts, AnswersKept
<1>4. CASE HttpRequest
  <2>1. /\ StartIo(current, ioInFlight, ioQueue, channel) /\ UNCHANGED cancelled
        /\ ioInFlight \in Nat /\ ioQueue \in Seq(Slot) /\ channel \in Seq(Slot)
    BY <1>4 DEF HttpRequest, Suspend, TypeOK, IoType
  <2>2. /\ current \in Slot /\ state'[current] = "WaitingIo"
        /\ \A s \in Slot : s # current => state'[s] = state[s]
    <3>1. current \in Slot
      BY <1>4, SuspendStepFacts DEF SuspendStep
    <3>2. QED BY <1>4, <3>1 DEF HttpRequest, Suspend, TypeOK, TasksType
  <2>3. ~Outstanding(current)
    BY <1>0, <2>2
  <2>4. /\ IoOK'
        /\ \A s \in Slot : Outstanding(s)' =>
             s = current \/ InSeq(ioQueue, s) \/ s \in workers \/ InSeq(channel, s)
    BY <2>1, <2>2, <2>3, StartIoOnce DEF IoOK, Outstanding
  <2>5. QED BY <2>1, <2>2, <2>4 DEF AnswersReachTheirTask, Outstanding
<1>5. CASE (\E d \in Delays : Sleep(d)) \/ (\E h \in handles, d \in Delays \cup {Never} : JoinBlocks(h, d))
  <2>1. UNCHANGED <<ioQueue, workers, channel>>
    BY <1>5 DEF Sleep, JoinBlocks, ioVars
  <2>2. /\ UNCHANGED cancelled /\ current \in Slot
        /\ \A s \in Slot : s # current => state'[s] = state[s]
    BY <1>5, SuspendStepFacts DEF SuspendStep
  <2>3. QED BY <1>0, <2>1, <2>2, AnswersKept
<1>6. CASE FinishStep
  <2>1. /\ UNCHANGED <<ioQueue, workers, channel, cancelled>> /\ current \in Slot
        /\ \A s \in Slot : state'[s] = IF s = current THEN "Done" ELSE state[s]
    BY <1>6, FinishStepFacts
  <2>2. QED BY <1>0, <2>1, AnswersKept
<1>7. CASE LeaveStep
  <2>1. UNCHANGED <<ioQueue, workers, channel, cancelled>>
    BY <1>7, LeaveStepFacts
  <2>2. \A s \in Slot : state[s] = "WaitingIo" => state'[s] = "WaitingIo"
    <3>1. len + 1 \in Slot => state[len + 1] = "Absent"
      BY DEF SlotsOK, TypeOK, TasksType, Slot
    <3>2. Len(drives) > 1 => state[Top.caller] = "Running"
      BY <1>0 DEF Top
    <3>3. QED BY <1>7, <3>1, <3>2, LeaveStepFacts
  <2>3. QED BY <2>1, <2>2, AnswersKept
<1>8. CASE DriveCancels
  <2>1. /\ \A s \in Slot : state'[s] = IF s = Target THEN "Done" ELSE state[s]
        /\ \A s \in Slot : cancelled'[s] = IF s = Target THEN TRUE ELSE cancelled[s]
        /\ UNCHANGED <<ioQueue, workers, channel>>
    BY <1>8, CancelFacts
  <2>2. QED BY <2>1, AnswersKept
<1>9. CASE PickTask
  <2>1. /\ current' \in Slot /\ state[current'] = "Ready"
        /\ \A s \in Slot : state'[s] = IF s = current' THEN "Running" ELSE state[s]
        /\ UNCHANGED <<ioQueue, workers, channel, cancelled>>
    BY <1>9, PickFacts
  <2>2. QED BY <2>1, AnswersKept
<1>10. CASE Spawn \/ SpawnTooDeep
  <2>1. /\ state[len + 1] = "Absent" /\ len + 1 \in Slot
        /\ \A s \in Slot : s # len + 1 => state'[s] = state[s]
        /\ UNCHANGED <<ioQueue, workers, channel, cancelled>>
    BY <1>10, SpawnFacts
  <2>2. QED BY <2>1, AnswersKept
<1>11. ASSUME NEW how \in Kinds, NEW d \in Budgets \cup {Never}, Call(how, d)
       PROVE  IoOK' /\ AnswersReachTheirTask'
  <2>0. PICK n : n = NewSlot
    OBVIOUS
  <2>1. n \in Slot /\ ~Outstanding(n)
    BY <1>11, <2>0, CallFresh
  <2>2. /\ \A s \in Slot : state'[s] = IF s = n THEN "Ready" ELSE state[s]
        /\ UNCHANGED <<ioQueue, workers, channel, cancelled>>
    BY <1>11, <2>0, CallFacts
  <2>3. QED BY <2>1, <2>2, AnswersKept
<1>12. ASSUME NEW x \in Slot, WorkerAnswers(x)
       PROVE  IoOK' /\ AnswersReachTheirTask'
  <2>1. /\ x \in workers /\ workers' = workers \ {x} /\ channel' = Append(channel, x)
        /\ UNCHANGED <<ioQueue, state, cancelled>> /\ channel \in Seq(Slot)
    BY <1>12 DEF WorkerAnswers, taskVars, TypeOK, IoType
  <2>2. /\ DOMAIN channel' = DOMAIN channel \cup {Len(channel) + 1}
        /\ channel'[Len(channel) + 1] = x
        /\ \A i \in DOMAIN channel : channel'[i] = channel[i]
    BY <2>1, AppendType
  <2>3. IoOK'
    BY <2>1, <2>2 DEF IoOK
  <2>4. \A s \in Slot : InSeq(channel', s) <=> InSeq(channel, s) \/ s = x
    BY <2>1, AppendIn
  <2>5. \A s \in Slot : Outstanding(s)' => Outstanding(s)
    BY <2>1, <2>4 DEF Outstanding
  <2>6. QED BY <2>1, <2>3, <2>5 DEF AnswersReachTheirTask
<1>13. QED
  BY <1>1, <1>2, <1>3, <1>4, <1>5, <1>6, <1>7, <1>8, <1>9, <1>10, <1>11, <1>12, StepCases
     DEF WakeStep, SuspendStep

-----------------------------------------------------------------------------
(* Deadlines.                                                                *)

\* Deadlines are instants, and the innermost loop's target is nobody's caller.
LEMMA DeadlineFacts ==
  ASSUME TypeOK, PcOK, StackOK
  PROVE  /\ \A s \in Slot : deadline[s] \in Nat
         /\ currentDeadline \in Nat
         /\ drives # <<>> => Target \in Slot /\ Len(drives) \in DOMAIN drives
         /\ drives # <<>> => \A i \in DOMAIN drives :
              drives[i].caller # Target /\ (drives[i].target = Target => i = Len(drives))
<1>1. (\A s \in Slot : deadline[s] \in Nat) /\ currentDeadline \in Nat
  BY TimeFacts DEF TypeOK, TasksType, LoopType
<1>2. ASSUME drives # <<>>
      PROVE  /\ Target \in Slot /\ Len(drives) \in DOMAIN drives
             /\ \A i \in DOMAIN drives :
                  drives[i].caller # Target /\ (drives[i].target = Target => i = Len(drives))
  <2>1. Target \in Slot /\ Len(drives) \in DOMAIN drives /\ Target = drives[Len(drives)].target
    BY <1>2, TopType DEF TypeOK, Target, Top
  <2>2. DOMAIN drives = 1..Len(drives) /\ Len(drives) \in Nat
    BY StackFacts
  <2>3. QED BY <2>1, <2>2 DEF StackOK
<1>3. QED BY <1>1, <1>2

\* The deadlines agree with the loops as long as both are left alone and the task
\* in hand, if there is still one, is the same.
LEMMA DeadlinesKept ==
  ASSUME DeadlinesOK, CalleeHasStricterDeadline,
         UNCHANGED <<deadline, drives, currentDeadline>>, current' \in {0, current}
  PROVE  DeadlinesOK' /\ CalleeHasStricterDeadline'
  BY DEF DeadlinesOK, CalleeHasStricterDeadline

\* Every step keeps the saved deadlines the callers' own, and a callee's deadline
\* no later than its caller's.
LEMMA DeadlinesStep ==
  ASSUME TypeOK, PcOK, SlotsOK, StackOK, FreeOK, AnswersReachTheirTask, CancelledStaysDone,
         DeadlinesOK, CalleeHasStricterDeadline, [Next]_vars
  PROVE  DeadlinesOK' /\ CalleeHasStricterDeadline'
<1>0. /\ DOMAIN drives = 1..Len(drives) /\ Len(drives) \in Nat /\ 0 \notin Slot
      /\ \A i \in DOMAIN drives :
           /\ drives[i].target \in Slot
           /\ i = 1 <=> drives[i].caller = 0
           /\ i > 1 => drives[i].caller \in Slot
  BY StackFacts
<1>1. CASE WakeStep \/ QuietStep
  BY <1>1, WakeStepFacts, QuietStepFacts, DeadlinesKept
<1>2. CASE SuspendStep \/ FinishStep
  <2>1. UNCHANGED <<deadline, drives>> /\ current' = 0
    BY <1>2, SuspendStepFacts, FinishStepFacts
  <2>2. UNCHANGED currentDeadline
    BY <1>2 DEF SuspendStep, FinishStep, Sleep, JoinBlocks, HttpRequest, Suspend, TaskEnds,
               SpawnOverLimit, CallTooDeep, Finish
  <2>3. QED BY <2>1, <2>2, DeadlinesKept
<1>3. CASE Spawn \/ SpawnTooDeep
  BY <1>3, SpawnFacts, DeadlinesKept
<1>4. CASE \E x \in Slot : WorkerAnswers(x)
  BY <1>4, DeadlinesKept DEF WorkerAnswers, taskVars, driveVars
<1>5. CASE PickTask
  BY <1>0, <1>5, PickFacts DEF DeadlinesOK, CalleeHasStricterDeadline
<1>6. CASE DriveCancels
  <2>1. /\ drives # <<>> /\ current = 0
        /\ \A s \in Slot : deadline'[s] = IF s = Target THEN Never ELSE deadline[s]
        /\ UNCHANGED <<drives, current, currentDeadline>>
    BY <1>6, CancelFacts
  <2>2. QED BY <1>0, <2>1, DeadlineFacts DEF DeadlinesOK, CalleeHasStricterDeadline
<1>7. CASE LeaveStep
  <2>1. /\ drives # <<>> /\ drives' = Popped /\ currentDeadline' = Top.saved
        /\ current' # 0 => Len(drives) > 1 /\ current' = Top.caller
    BY <1>7, LeaveStepFacts
  <2>2. \A s \in Slot : s # Target => deadline'[s] = deadline[s]
    <3>1. \/ UNCHANGED deadline
          \/ deadline' = [deadline EXCEPT ![Target] = Never]
      BY <1>7 DEF LeaveStep, DriveReturns, ReportDeadlock
    <3>2. QED BY <3>1 DEF TypeOK, TasksType
  <2>3. \A i \in DOMAIN drives' : i \in DOMAIN drives /\ i < Len(drives) /\ drives'[i] = drives[i]
    BY <2>1, PoppedFacts DEF TypeOK
  <2>4. \A i \in DOMAIN drives : i > 1 => deadline'[drives[i].caller] = deadline[drives[i].caller]
    BY <1>0, <2>1, <2>2, DeadlineFacts
  <2>5. \A i \in DOMAIN drives' : deadline'[drives'[i].target] = deadline[drives[i].target]
    BY <1>0, <2>1, <2>2, <2>3, DeadlineFacts
  <2>6. Len(drives) \in DOMAIN drives /\ Top = drives[Len(drives)]
    BY <2>1, DeadlineFacts DEF Top
  <2>7. DeadlinesOK'
    BY <1>0, <2>1, <2>3, <2>4, <2>6 DEF DeadlinesOK
  <2>8. CalleeHasStricterDeadline'
    BY <1>0, <2>3, <2>4, <2>5 DEF CalleeHasStricterDeadline
  <2>9. QED BY <2>7, <2>8
<1>8. ASSUME NEW how \in Kinds, NEW d \in Budgets \cup {Never}, Call(how, d)
      PROVE  DeadlinesOK' /\ CalleeHasStricterDeadline'
  <2>0. PICK n : n = NewSlot
    OBVIOUS
  <2>1. /\ n \in Slot /\ n # current
        /\ \A i \in DOMAIN drives : drives[i].target # n /\ drives[i].caller # n
    BY <1>8, <2>0, CallFresh
  <2>2. /\ current \in Slot /\ current' = 0 /\ UNCHANGED currentDeadline
        /\ \A s \in Slot : s # n => deadline'[s] = deadline[s]
        /\ deadline'[n] = IF d = Never THEN Never ELSE Earlier(currentDeadline, now + d)
        /\ DOMAIN drives' = 1..(Len(drives) + 1)
        /\ \A i \in DOMAIN drives : drives'[i] = drives[i]
        /\ drives'[Len(drives) + 1].target = n /\ drives'[Len(drives) + 1].caller = current
        /\ drives'[Len(drives) + 1].saved = currentDeadline
    BY <1>8, <2>0, CallFacts
  <2>3. currentDeadline = deadline[current]
    BY <1>0, <2>2 DEF DeadlinesOK
  <2>4. \A i \in DOMAIN drives' : i \in DOMAIN drives \/ i = Len(drives) + 1
    BY <1>0, <2>2
  <2>5. DeadlinesOK'
    BY <1>0, <2>1, <2>2, <2>3, <2>4 DEF DeadlinesOK
  <2>6. deadline'[n] # Never => deadline'[n] <= currentDeadline
    <3>1. d # Never => now + d \in Nat
      BY <1>8, ConstantsAssumption DEF TypeOK, LoopType, Never
    <3>2. QED BY <2>2, <3>1, DeadlineFacts DEF Earlier
  <2>7. CalleeHasStricterDeadline'
    BY <1>0, <2>1, <2>2, <2>3, <2>4, <2>6 DEF CalleeHasStricterDeadline
  <2>8. QED BY <2>5, <2>7
<1>9. QED BY <1>1, <1>2, <1>3, <1>4, <1>5, <1>6, <1>7, <1>8, StepCases

-----------------------------------------------------------------------------
(* The pool of network requests.                                             *)

\* The workers' number changes by one when a job is added or answered.
LEMMA WorkersCount ==
  ASSUME TypeOK
  PROVE  /\ IsFiniteSet(workers) /\ Cardinality(workers) \in Nat
         /\ \A s \in Slot : s \notin workers =>
              Cardinality(workers \cup {s}) = Cardinality(workers) + 1
         /\ \A s \in workers : Cardinality(workers \ {s}) = Cardinality(workers) - 1
<1>1. IsFiniteSet(workers)
  <2>1. IsFiniteSet(Slot)
    BY FS_Interval, ConstantsAssumption DEF Slot
  <2>2. QED BY <2>1, FS_Subset DEF TypeOK, IoType
<1>2. QED BY <1>1, FS_CardinalityType, FS_AddElement, FS_RemoveElement

\* start_io keeps the count right, given that a place was free or is now.
LEMMA StartIoPool ==
  ASSUME TypeOK, NEW job \in Slot, NEW n \in Nat, NEW queue \in Seq(Slot),
         NEW sent \in Seq(Slot), StartIo(job, n, queue, sent), job \notin workers,
         n = Cardinality(workers) + Len(sent), n <= MaxInFlight,
         queue # <<>> => n >= MaxInFlight - 1
  PROVE  IoPoolIsAccounted'
<1>0. MaxInFlight \in Nat /\ Len(sent) \in Nat /\ Cardinality(workers) \in Nat
      /\ Cardinality(workers \cup {job}) = Cardinality(workers) + 1
  BY WorkersCount, ConstantsAssumption
<1>1. CASE n >= MaxInFlight
  <2>1. channel' = sent /\ workers' = workers /\ ioInFlight' = n
    BY <1>1 DEF StartIo
  <2>2. QED BY <1>0, <1>1, <2>1 DEF IoPoolIsAccounted
<1>2. CASE ~(n >= MaxInFlight)
  <2>1. /\ ioQueue' = queue /\ ioInFlight' = n + 1
        /\ \/ workers' = workers \cup {job} /\ channel' = sent
           \/ workers' = workers /\ channel' = Append(sent, job)
    BY <1>2 DEF StartIo
  <2>2. Len(Append(sent, job)) = Len(sent) + 1
    BY AppendType
  <2>3. ioInFlight' = Cardinality(workers') + Len(channel')
    <3>1. CASE workers' = workers \cup {job} /\ channel' = sent
      <4>1. Cardinality(workers') = Cardinality(workers) + 1 /\ Len(channel') = Len(sent)
        BY <1>0, <3>1
      <4>2. QED BY <1>0, <2>1, <4>1
    <3>2. CASE workers' = workers /\ channel' = Append(sent, job)
      <4>1. Cardinality(workers') = Cardinality(workers) /\ Len(channel') = Len(sent) + 1
        BY <2>2, <3>2
      <4>2. QED BY <1>0, <2>1, <4>1
    <3>3. QED BY <2>1, <3>1, <3>2
  <2>4. ioInFlight' <= MaxInFlight /\ (ioQueue' # <<>> => ioInFlight' = MaxInFlight)
    BY <1>0, <1>2, <2>1
  <2>5. QED BY <2>3, <2>4 DEF IoPoolIsAccounted
<1>3. QED BY <1>1, <1>2

\* Every step keeps the pool accounted for.
LEMMA IoPoolStep ==
  ASSUME TypeOK, PcOK, SlotsOK, StackOK, FreeOK, IoOK, AnswersReachTheirTask,
         CancelledStaysDone, IoPoolIsAccounted, [Next]_vars
  PROVE  IoPoolIsAccounted'
<1>0. /\ MaxInFlight \in Nat \ {0} /\ Cardinality(workers) \in Nat
      /\ ioQueue \in Seq(Slot) /\ channel \in Seq(Slot) /\ ioInFlight \in Nat
      /\ Len(channel) \in Nat
  BY WorkersCount, ConstantsAssumption DEF TypeOK, IoType
<1>1. CASE DrainIo \/ ReceiveIo
  <2>1. DeliverIo /\ channel # <<>>
    BY <1>1 DEF DrainIo, ReceiveIo, DeliverIo
  <2>2. /\ Tail(channel) \in Seq(Slot) /\ Len(Tail(channel)) = Len(channel) - 1
        /\ Len(channel) > 0
    BY <1>0, <2>1, TailType
  <2>3. ioInFlight - 1 \in Nat /\ ioInFlight - 1 = Cardinality(workers) + Len(Tail(channel))
        /\ ioInFlight # 0
    BY <1>0, <2>2 DEF IoPoolIsAccounted
  <2>4. CASE ioQueue = <<>>
    <3>1. ioInFlight' = ioInFlight - 1 /\ channel' = Tail(channel)
          /\ workers' = workers /\ ioQueue' = ioQueue
      BY <2>1, <2>3, <2>4 DEF DeliverIo
    <3>2. QED BY <1>0, <2>3, <2>4, <3>1 DEF IoPoolIsAccounted
  <2>5. CASE ioQueue # <<>>
    <3>1. StartIo(Head(ioQueue), ioInFlight - 1, Tail(ioQueue), Tail(channel))
      BY <2>1, <2>3, <2>5 DEF DeliverIo
    <3>2. Head(ioQueue) \in Slot /\ Tail(ioQueue) \in Seq(Slot) /\ Head(ioQueue) \notin workers
      BY <1>0, <2>5, TailType DEF IoOK
    <3>3. ioInFlight = MaxInFlight
      BY <2>5 DEF IoPoolIsAccounted
    <3>4. PICK left \in Nat : left = ioInFlight - 1
      BY <2>3
    <3>5. /\ StartIo(Head(ioQueue), left, Tail(ioQueue), Tail(channel))
          /\ left = Cardinality(workers) + Len(Tail(channel))
          /\ left <= MaxInFlight /\ left >= MaxInFlight - 1
      BY <1>0, <2>3, <3>1, <3>3, <3>4
    <3>6. QED BY <2>2, <3>2, <3>4, <3>5, StartIoPool
  <2>6. QED BY <2>4, <2>5
<1>2. CASE HttpRequest
  <2>1. StartIo(current, ioInFlight, ioQueue, channel)
    BY <1>2 DEF HttpRequest
  <2>2. current \in Slot /\ current \notin workers
    BY <1>2, SuspendStepFacts, StackFacts, ConstantsAssumption
       DEF SuspendStep, Slot, AnswersReachTheirTask, CancelledStaysDone, Outstanding
  <2>3. QED BY <1>0, <2>1, <2>2, StartIoPool DEF IoPoolIsAccounted
<1>3. ASSUME NEW x \in Slot, WorkerAnswers(x) PROVE IoPoolIsAccounted'
  <2>1. /\ x \in workers /\ workers' = workers \ {x} /\ channel' = Append(channel, x)
        /\ UNCHANGED <<ioInFlight, ioQueue>>
    BY <1>3 DEF WorkerAnswers
  <2>2. Len(channel') = Len(channel) + 1
    BY <1>0, <2>1, AppendType
  <2>3. Cardinality(workers') = Cardinality(workers) - 1
    BY <2>1, WorkersCount
  <2>4. QED BY <1>0, <2>1, <2>2, <2>3 DEF IoPoolIsAccounted
<1>4. CASE UNCHANGED <<ioInFlight, ioQueue, workers, channel>>
  BY <1>4 DEF IoPoolIsAccounted
<1>5. CASE QuietStep \/ FinishStep \/ LeaveStep \/ DriveCancels \/ PickTask \/ Spawn \/ SpawnTooDeep
  <2>1. UNCHANGED <<ioInFlight, ioQueue, workers, channel>>
    BY <1>5, QuietStepFacts, FinishStepFacts, LeaveStepFacts, CancelFacts, PickFacts, SpawnFacts
  <2>2. QED BY <1>4, <2>1
<1>6. CASE FireTimer \/ NotifyWaiter \/ (\E d \in Delays : Sleep(d))
            \/ (\E h \in handles, d \in Delays \cup {Never} : JoinBlocks(h, d))
            \/ (\E how \in Kinds, d \in Budgets \cup {Never} : Call(how, d))
  BY <1>4, <1>6 DEF FireTimer, NotifyWaiter, Sleep, JoinBlocks, Call, ioVars
<1>7. QED
  BY <1>1, <1>2, <1>3, <1>5, <1>6, StepCases DEF WakeStep, SuspendStep

-----------------------------------------------------------------------------
(* The end of the program.                                                   *)

\* A set of instants that is not empty has a least one.
LEMMA LeastNat ==
  ASSUME NEW S, S \subseteq Nat, S # {}
  PROVE  \E m \in S : \A t \in S : m <= t
<1>1. PICK m \in S : \A t \in S : ~(<<t, m>> \in OpToRel(<, Nat))
  BY NatLessThanWellFounded, WFMin, Zenon
<1>2. \A t \in S : ~(t < m)
  BY <1>1 DEF OpToRel
<1>3. QED BY <1>2

\* Nothing that is Running, Ready, asleep or waiting for the network is left when
\* the outermost loop finds nothing to wait for.
LEMMA DeadlockFacts ==
  ASSUME IInv, Deadlocked, Len(drives) = 1
  PROVE  \A s \in Slot : state[s] \in {"Absent", "Done"} \/
           (state[s] = "WaitingOnTask" /\ until[s] = Never /\ state[joinee[s]] # "Done")
<1> USE DEF IInv
<1>0. /\ pc = "pick" /\ ready = <<>> /\ WakeAt = Never /\ ioInFlight = 0
      /\ current = 0 /\ finished = 0
  BY DEF Deadlocked, NothingReady, PcOK
<1> SUFFICES ASSUME NEW s \in Slot
             PROVE  state[s] \in {"Absent", "Done"} \/
               (state[s] = "WaitingOnTask" /\ until[s] = Never /\ state[joinee[s]] # "Done")
  OBVIOUS
<1>1. WakeupComes(s)
  BY DEF NoLostWakeup
<1>2. state[s] # "Ready"
  BY <1>0, <1>1 DEF WakeupComes, InSeq
<1>3. state[s] # "Running"
  BY <1>0, StackFacts DEF StackOK
<1>4. state[s] # "WaitingIo"
  <2>1. /\ Cardinality(workers) \in Nat /\ Len(channel) \in Nat
        /\ ioQueue = <<>> /\ IsFiniteSet(workers)
    BY <1>0, WorkersCount, ConstantsAssumption DEF IoPoolIsAccounted, TypeOK, IoType
  <2>2. Cardinality(workers) = 0 /\ Len(channel) = 0
    BY <1>0, <2>1 DEF IoPoolIsAccounted
  <2>3. workers = {} /\ channel = <<>>
    BY <2>1, <2>2, FS_EmptySet DEF TypeOK, IoType
  <2>4. QED BY <1>1, <2>1, <2>3 DEF WakeupComes, Outstanding, InSeq
<1>5. ASSUME state[s] \in {"SleepUntil", "WaitingOnTask"}, HasTimer(s) PROVE until[s] = Never
  <2>1. <<until[s], s>> \in LiveTimers
    BY <1>5 DEF HasTimer, LiveTimers, TimerIsLive
  <2>2. drives # <<>> /\ Target \in Slot
    BY <1>0, DeadlineFacts DEF PcOK
  <2>3. deadline[Target] \in Nat /\ until[s] \in 0..Never /\ Never \in Nat
        /\ \A tm \in LiveTimers : tm[1] \in Nat
    BY <2>2, TimeFacts, ConstantsAssumption
       DEF LiveTimers, TypeOK, TasksType, QueuesType, Time, Never
  <2>4. WakeAt <= until[s]
    <3> DEFINE T == {tm[1] : tm \in LiveTimers} \cup {deadline[Target]}
    <3>1. \E t \in T : \A tm \in LiveTimers : t <= tm[1] /\ t <= deadline[Target]
      <4>1. T \subseteq Nat /\ deadline[Target] \in T
        BY <2>3
      <4>2. PICK m \in T : \A t \in T : m <= t
        BY <4>1, LeastNat
      <4>3. QED BY <4>2
    <3>2. QED BY <2>1, <3>1 DEF WakeAt
  <2>5. QED BY <1>0, <2>3, <2>4
<1>6. state[s] # "SleepUntil"
  BY <1>1, <1>5 DEF WakeupComes, EndOK
<1>7. state[s] \in TaskStates
  BY DEF TypeOK, TasksType
<1>8. state[s] = "WaitingOnTask" => until[s] = Never /\ state[joinee[s]] # "Done"
  <2>1. state[s] = "WaitingOnTask" => joinee[s] # 0
    BY ConstantsAssumption DEF TypeOK, TasksType, Slot
  <2>2. QED BY <1>0, <1>1, <1>5, <2>1 DEF WakeupComes
<1>9. QED BY <1>2, <1>3, <1>4, <1>6, <1>7, <1>8 DEF TaskStates

\* Every step keeps the end of the program final, and sleeps bounded.
LEMMA EndStep ==
  ASSUME TypeOK, PcOK, SlotsOK, EndOK, [Next]_vars
  PROVE  EndOK'
<1>1. exit' # "none" => pc' = "halt"
  <2>1. CASE LeaveStep
    <3>1. PICK r : Leave(r) /\ pc \in {"head", "pick"}
      BY <2>1 DEF LeaveStep, DriveReturns, ReportDeadlock, Deadlocked, NothingReady
    <3>2. exit = "none"
      BY <3>1 DEF EndOK
    <3>3. QED BY <3>1, <3>2 DEF Leave, Resume, Propagate, PushFinished, ExitProgram
  <2>2. CASE UNCHANGED exit /\ (UNCHANGED pc \/ exit = "none")
    BY <2>2 DEF EndOK
  <2>3. ASSUME ~LeaveStep PROVE UNCHANGED exit /\ (UNCHANGED pc \/ pc # "halt")
    <3>1. CASE WakeStep \/ SuspendStep \/ FinishStep
      BY <3>1 DEF WakeStep, SuspendStep, FinishStep, DrainIo, ReceiveIo, DeliverIo, FireTimer,
                  NotifyWaiter, Sleep, JoinBlocks, HttpRequest, Suspend, TaskEnds,
                  SpawnOverLimit, CallTooDeep, Finish, Running
    <3>2. CASE QuietStep
      BY <3>2 DEF QuietStep, DriveContinues, DrainEnds, TimersFired, WakeUp, SkipStale, Block,
                  NothingReady, JoinReturns, AllNotified, Tick, Halted, vars
    <3>3. CASE DriveCancels \/ PickTask \/ Spawn \/ SpawnTooDeep
      BY <3>3 DEF DriveCancels, PickTask, Spawn, SpawnTooDeep
    <3>4. CASE \E how \in Kinds, d \in Budgets \cup {Never} : Call(how, d)
      BY <3>4 DEF Call, Running
    <3>5. CASE \E x \in Slot : WorkerAnswers(x)
      BY <3>5 DEF WorkerAnswers
    <3>6. QED BY <2>3, <3>1, <3>2, <3>3, <3>4, <3>5, StepCases
  <2>4. QED BY <2>1, <2>2, <2>3 DEF EndOK
<1>2. ASSUME NEW s \in Slot, state'[s] = "SleepUntil" PROVE until'[s] # Never
  <2>1. CASE state[s] = "SleepUntil" /\ until'[s] = until[s]
    BY <2>1 DEF EndOK
  <2>2. CASE UNCHANGED <<state, until>>
    BY <1>2, <2>1, <2>2
  <2>3. CASE \E w \in Slot : Wake(w)
    <3>1. PICK w \in Slot : Wake(w)
      BY <2>3
    <3>2. s # w /\ state[s] = "SleepUntil" /\ until'[s] = until[s]
      BY <1>2, <3>1 DEF Wake, TypeOK, TasksType
    <3>3. QED BY <2>1, <3>2
  <2>4. CASE WakeStep
    <3>1. WakeNobody \/ \E w \in Slot : Wake(w)
      <4>1. CASE DrainIo \/ ReceiveIo
        <5>1. Head(channel) \in Slot
          BY <4>1, TailType DEF DrainIo, ReceiveIo, DeliverIo, TypeOK, IoType
        <5>2. QED BY <4>1, <5>1 DEF DrainIo, ReceiveIo, DeliverIo
      <4>2. CASE FireTimer
        <5>1. \A tm \in timers : tm[2] \in Slot
          BY DEF TypeOK, QueuesType
        <5>2. QED BY <4>2, <5>1 DEF FireTimer
      <4>3. CASE NotifyWaiter
        <5>1. finished \in Slot
          BY <4>3 DEF NotifyWaiter, PcOK, TypeOK, LoopType
        <5>2. Head(waiters[finished]) \in Slot
          BY <4>3, <5>1, TailType DEF NotifyWaiter, TypeOK, QueuesType
        <5>3. QED BY <4>3, <5>2 DEF NotifyWaiter
      <4>4. QED BY <2>4, <4>1, <4>2, <4>3 DEF WakeStep
    <3>2. QED BY <2>2, <2>3, <3>1 DEF WakeNobody
  <2>5. CASE SuspendStep
    <3>1. PICK reason, when :
            Suspend(reason, when) /\ (reason = "SleepUntil" => when \in 0..MaxTime)
      <4>1. \A d \in Delays : now + d \in Nat
        BY ConstantsAssumption DEF TypeOK, LoopType
      <4>2. QED BY <2>5, <4>1 DEF SuspendStep, Sleep, JoinBlocks, HttpRequest
    <3>2. current \in Slot /\ Never \notin 0..MaxTime
      BY <2>5, SuspendStepFacts, ConstantsAssumption DEF Never
    <3>3. CASE s = current
      BY <1>2, <3>1, <3>2, <3>3 DEF Suspend, TypeOK, TasksType
    <3>4. CASE s # current
      BY <1>2, <2>1, <3>1, <3>2, <3>4 DEF Suspend, TypeOK, TasksType
    <3>5. QED BY <3>3, <3>4
  <2>6. CASE FinishStep
    BY <1>2, <2>1, <2>6, FinishStepFacts
  <2>7. CASE LeaveStep
    BY <1>2, <2>1, <2>7, LeaveStepFacts DEF LeaveStep, DriveReturns, ReportDeadlock
  <2>8. CASE QuietStep
    BY <2>2, <2>8, QuietStepFacts
       DEF QuietStep, DriveContinues, DrainEnds, TimersFired, WakeUp, SkipStale, Block,
           JoinReturns, AllNotified, Tick, Halted, vars, taskVars
  <2>9. CASE DriveCancels
    <3>1. s # Target /\ state[s] = "SleepUntil" /\ Target \in Slot
      BY <1>2, <2>9, CancelFacts
    <3>2. until'[s] = until[s]
      BY <2>9, <3>1 DEF DriveCancels, TypeOK, TasksType
    <3>3. QED BY <2>1, <3>1, <3>2
  <2>10. CASE PickTask
    BY <1>2, <2>1, <2>10, PickFacts DEF PickTask
  <2>11. CASE Spawn \/ SpawnTooDeep
    BY <1>2, <2>1, <2>11, SpawnFacts DEF Spawn, SpawnTooDeep
  <2>12. ASSUME NEW how \in Kinds, NEW d \in Budgets \cup {Never}, Call(how, d)
         PROVE  until'[s] # Never
    <3>1. PICK n : n = NewSlot
      OBVIOUS
    <3>2. state'[s] = IF s = n THEN "Ready" ELSE state[s]
      BY <2>12, <3>1, CallFacts
    <3>3. UNCHANGED until
      BY <2>12 DEF Call
    <3>4. QED BY <1>2, <2>1, <3>2, <3>3
  <2>13. CASE \E x \in Slot : WorkerAnswers(x)
    BY <2>2, <2>13 DEF WorkerAnswers, taskVars
  <2>14. QED
    BY <2>4, <2>5, <2>6, <2>7, <2>8, <2>9, <2>10, <2>11, <2>12, <2>13, StepCases
<1>3. QED BY <1>1, <1>2 DEF EndOK

\* The program ends with a deadlock error only when there is one.
LEMMA DeadlockStep ==
  ASSUME IInv, [Next]_vars
  PROVE  ProgramDeadlockIsReal'
<1> USE DEF IInv
<1>1. CASE exit = "deadlock"
  <2>1. pc = "halt"
    BY <1>1 DEF EndOK
  <2>2. UNCHANGED vars
    BY <2>1, NextCases
       DEF DriveReturns, DriveCancels, DriveContinues, DrainIo, DrainEnds, FireTimer, TimersFired,
           PickTask, SkipStale, Block, NothingReady, ReceiveIo, WakeUp, ReportDeadlock, Deadlocked,
           Sleep, JoinBlocks, HttpRequest, Suspend, JoinReturns, Spawn, SpawnOverLimit,
           CallTooDeep, SpawnTooDeep, Call, TaskEnds, Finish, Running, NotifyWaiter, AllNotified,
           WorkerAnswers, Tick, Halted
  <2>3. UNCHANGED <<state, until, joinee, exit>>
    BY <2>2 DEF vars, taskVars
  <2>4. QED BY <2>3 DEF ProgramDeadlockIsReal
<1>2. CASE exit # "deadlock" /\ exit' = "deadlock"
  <2>1. LeaveStep
    <3>1. ASSUME ~LeaveStep PROVE UNCHANGED exit
      BY <3>1, StepCases
         DEF WakeStep, SuspendStep, FinishStep, DrainIo, ReceiveIo, DeliverIo, FireTimer,
             NotifyWaiter, Sleep, JoinBlocks, HttpRequest, Suspend, TaskEnds, SpawnOverLimit,
             CallTooDeep, Finish, QuietStep, DriveContinues, DrainEnds, TimersFired, WakeUp,
             SkipStale, Block, JoinReturns, AllNotified, Tick, Halted, vars, DriveCancels,
             PickTask, Spawn, SpawnTooDeep, Call, WorkerAnswers
    <3>2. QED BY <1>2, <3>1
  <2>2. CASE DriveReturns
    <3>1. result[Target] # "deadlock"
      BY <2>2, DeadlineFacts DEF DriveReturns, PcOK, TypeOK, TasksType, Results
    <3>2. QED BY <1>2, <2>2, <3>1
              DEF DriveReturns, Leave, Resume, Propagate, PushFinished, ExitProgram
  <2>3. CASE ReportDeadlock
    <3>1. Deadlocked /\ UNCHANGED <<until, joinee>>
      BY <2>3 DEF ReportDeadlock
    <3>2. Top.how = "main" /\ UNCHANGED state
      BY <1>2, <2>3 DEF ReportDeadlock, Leave, Resume, Propagate, PushFinished, ExitProgram
    <3>3. Len(drives) = 1
      BY <3>1, <3>2, DeadlineFacts DEF PcOK, Top, Deadlocked, NothingReady
    <3>4. QED BY <3>1, <3>2, <3>3, DeadlockFacts DEF ProgramDeadlockIsReal
  <2>4. QED BY <2>1, <2>2, <2>3 DEF LeaveStep
<1>3. QED BY <1>1, <1>2 DEF ProgramDeadlockIsReal

-----------------------------------------------------------------------------
(* The theorems.                                                             *)

\* The invariant is inductive.
LEMMA IInvStep ==
  ASSUME IInv, [Next]_vars
  PROVE  IInv'
<1> USE DEF IInv
<1>1. TypeOK' /\ PcOK'
  BY TypeStep, PcStep
<1>2. SlotsOK' /\ NoLostWakeup'
  BY SlotsStep, WakeupStep
<1>3. StackOK' /\ FreeOK' /\ CancelledStaysDone'
  BY StackStep, FreeStep, CancelledStep
<1>4. IoOK' /\ AnswersReachTheirTask' /\ IoPoolIsAccounted'
  BY IoStep, IoPoolStep
<1>5. DeadlinesOK' /\ CalleeHasStricterDeadline'
  BY DeadlinesStep
<1>6. EndOK' /\ ProgramDeadlockIsReal'
  BY EndStep, DeadlockStep
<1>7. QED BY <1>1, <1>2, <1>3, <1>4, <1>5, <1>6

\* The inductive invariant holds in every state the scheduler reaches.
THEOREM Invariant == Spec => []IInv
<1>1. IInv /\ [Next]_vars => IInv'
  BY IInvStep
<1>2. QED BY <1>1, InitInv, PTL DEF Spec

\* Every variable keeps its type: queues hold task slots, a loop's target is a slot.
THEOREM TypeCorrect == Spec => []TypeOK
<1>1. IInv => TypeOK
  BY DEF IInv
<1>2. QED BY <1>1, Invariant, PTL

\* A suspended task's wakeup is always on its way: wake_ready_sleepers, deliver_io
\* and wake_waiters_on lose none, whatever the loops nest and the workers answer.
THEOREM LosesNoWakeup == Spec => []NoLostWakeup
<1>1. IInv => NoLostWakeup
  BY DEF IInv
<1>2. QED BY <1>1, Invariant, PTL

\* A task cancelled by its deadline is over for good.
THEOREM CancelledIsFinal == Spec => []CancelledStaysDone
<1>1. IInv => CancelledStaysDone
  BY DEF IInv
<1>2. QED BY <1>1, Invariant, PTL

\* deliver_io never wakes a task other than the one that made the request.
THEOREM AnswersAreSafe == Spec => []AnswersReachTheirTask
<1>1. IInv => AnswersReachTheirTask
  BY DEF IInv
<1>2. QED BY <1>1, Invariant, PTL

\* io_in_flight counts the requests a worker or the channel holds, and never
\* exceeds MAX_IN_FLIGHT_IO; a request is queued only while it is at the limit.
THEOREM PoolAccounting == Spec => []IoPoolIsAccounted
<1>1. IInv => IoPoolIsAccounted
  BY DEF IInv
<1>2. QED BY <1>1, Invariant, PTL

\* exec_with_timeout gives a callee no later deadline than its calling task has.
THEOREM StricterDeadlines == Spec => []CalleeHasStricterDeadline
<1>1. IInv => CalleeHasStricterDeadline
  BY DEF IInv
<1>2. QED BY <1>1, Invariant, PTL

\* A deadlock error that ends the program is a real deadlock.
THEOREM RealDeadlock == Spec => []ProgramDeadlockIsReal
<1>1. IInv => ProgramDeadlockIsReal
  BY DEF IInv
<1>2. QED BY <1>1, Invariant, PTL

\* A slot on free_slots is referred to by nothing: exec_frame_inner may give it to
\* a new task.
THEOREM FreeSlotsAreSafe == Spec => []FreeSlotsAreUnreferenced
<1>1. ASSUME IInv PROVE FreeSlotsAreUnreferenced
  <2> USE <1>1 DEF IInv
  <2>1. ASSUME NEW i \in DOMAIN freeSlots, NEW s, s = freeSlots[i]
        PROVE  /\ state[s] = "Done" /\ ~cancelled[s] /\ ~Outstanding(s)
               /\ s \notin handles /\ waiters[s] = <<>>
               /\ \A j \in DOMAIN drives : drives[j].target # s /\ drives[j].caller # s
               /\ \A j \in DOMAIN freeSlots : freeSlots[j] = s => j = i
    <3>1. s \in Slot
      BY <2>1 DEF TypeOK, QueuesType
    <3>2. /\ state[s] = "Done" /\ ~cancelled[s] /\ s \notin handles
          /\ \A j \in DOMAIN drives : drives[j].target # s
          /\ \A j \in DOMAIN freeSlots : freeSlots[j] = s => j = i
      BY <2>1 DEF FreeOK
    <3>3. ~Outstanding(s) /\ waiters[s] = <<>>
      BY <3>1, <3>2 DEF AnswersReachTheirTask, SlotsOK
    <3>4. \A j \in DOMAIN drives : drives[j].caller # s
      BY <3>1, <3>2, StackFacts
    <3>5. QED BY <3>2, <3>3, <3>4
  <2>2. QED BY <2>1 DEF FreeSlotsAreUnreferenced
<1>2. QED BY <1>1, Invariant, PTL

\* What join and isDone see through a handle never changes: a slot a handle refers
\* to is not freed and no step touches a task that is over.
THEOREM ResultsAreFinal == Spec => DoneIsFinal
<1> DEFINE A == \A h \in handles : state[h] = "Done" =>
                  state'[h] = "Done" /\ result'[h] = result[h]
<1>1. ASSUME IInv, [Next]_vars PROVE [A]_vars
  <2>1. \A h \in handles : h \in Slot
    BY <1>1 DEF IInv, TypeOK, LoopType
  <2>2. A
    BY <1>1, <2>1, DoneFacts DEF IInv
  <2>3. QED BY <2>2
<1>2. QED BY <1>1, Invariant, PTL DEF Spec, DoneIsFinal
=============================================================================
