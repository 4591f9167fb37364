-------------------------- MODULE SchedulerProofs --------------------------
(* Proofs about Scheduler, first part: sequences, the initial states, type    *)
(* correctness and control, and what waits, is stacked and is free.           *)
EXTENDS SchedulerInvariant, SequenceFacts, FiniteSetTheorems

-----------------------------------------------------------------------------
(* Sequences: the members of a queue that gains or loses one.                *)

\* The members of Append(q, e) are those of q, and e.
LEMMA AppendIn ==
  ASSUME NEW S, NEW q \in Seq(S), NEW e \in S, NEW x
  PROVE  InSeq(Append(q, e), x) <=> InSeq(q, x) \/ x = e
  BY AppendType DEF InSeq

\* Taking the head of a queue loses no other member.
LEMMA TailIn ==
  ASSUME NEW S, NEW q \in Seq(S), q # <<>>, NEW x
  PROVE  InSeq(q, x) <=> InSeq(Tail(q), x) \/ x = Head(q)
<1>1. /\ 1 \in DOMAIN q /\ Head(q) = q[1]
      /\ \A i \in DOMAIN Tail(q) : i + 1 \in DOMAIN q /\ Tail(q)[i] = q[i + 1]
      /\ \A i \in DOMAIN q : i = 1 \/ (i - 1 \in DOMAIN Tail(q) /\ Tail(q)[i - 1] = q[i])
  BY TailType
<1>2. ASSUME InSeq(q, x) PROVE InSeq(Tail(q), x) \/ x = Head(q)
  BY <1>1, <1>2 DEF InSeq
<1>3. ASSUME InSeq(Tail(q), x) \/ x = Head(q) PROVE InSeq(q, x)
  BY <1>1, <1>3 DEF InSeq
<1>4. QED BY <1>2, <1>3

-----------------------------------------------------------------------------
(* The initial states, and the cases of Next.                                *)

\* Next is the disjunction of the single actions.
LEMMA NextCases ==
  ASSUME Next
  PROVE \/ DriveReturns \/ DriveCancels \/ DriveContinues \/ DrainIo \/ DrainEnds \/ FireTimer \/ TimersFired
     \/ PickTask \/ SkipStale \/ Block \/ ReceiveIo \/ WakeUp \/ ReportDeadlock
     \/ (\E d \in Delays : Sleep(d))
     \/ (\E h \in handles, d \in Delays \cup {Never} : JoinBlocks(h, d))
     \/ HttpRequest
     \/ (\E h \in handles : JoinReturns(h))
     \/ Spawn \/ SpawnOverLimit \/ CallTooDeep \/ SpawnTooDeep
     \/ (\E how \in Kinds, d \in Budgets \cup {Never} : Call(how, d))
     \/ TaskEnds \/ NotifyWaiter \/ AllNotified
     \/ (\E s \in Slot : WorkerAnswers(s)) \/ Tick \/ Halted
  BY DEF Next, Thread, Drives, Delivers, Picks, Suspends, RunsOn, Notifies

\* The program starts in a state that satisfies the inductive invariant.
LEMMA InitInv == Init => IInv
<1> USE ConstantsAssumption DEF Never, Slot, Time
<1> SUFFICES ASSUME Init PROVE IInv
  OBVIOUS
<1>1. TypeOK
  <2>1. TasksType
    BY DEF Init, TasksType, TaskStates, Results
  <2>2. QueuesType /\ IoType
    BY DEF Init, QueuesType, IoType
  <2>3. LoopType
    BY DEF Init, LoopType, Drive
  <2>4. QED BY <2>1, <2>2, <2>3 DEF TypeOK
<1>2. PcOK /\ SlotsOK /\ NoLostWakeup /\ StackOK 
  BY DEF Init, PcOK, SlotsOK, NoLostWakeup, WakeupComes, HasTimer, StackOK, InSeq,
         Outstanding
<1>3. FreeOK /\ IoOK /\ AnswersReachTheirTask /\ CancelledStaysDone
  BY DEF Init, FreeOK, IoOK, AnswersReachTheirTask, CancelledStaysDone, InSeq, Outstanding
<1>4. DeadlinesOK /\ CalleeHasStricterDeadline
  BY DEF Init, DeadlinesOK, CalleeHasStricterDeadline
<1>5. IoPoolIsAccounted
  BY FS_EmptySet DEF Init, IoPoolIsAccounted
<1>6. EndOK /\ ProgramDeadlockIsReal
  BY DEF Init, EndOK, ProgramDeadlockIsReal
<1>7. QED BY <1>1, <1>2, <1>3, <1>4, <1>5, <1>6 DEF IInv

-----------------------------------------------------------------------------
(* Types.                                                                    *)

\* Instants, and the deadlines computed from them, are times.
LEMMA TimeFacts ==
  /\ MaxTime \in Nat /\ Never \in Time /\ Time \subseteq Nat
  /\ \A t \in 0..MaxTime : t \in Time
  /\ \A t \in 0..MaxTime, d \in Delays \cup Budgets :
       t + d <= MaxTime => t + d \in Time
  /\ \A s, t \in Time : Earlier(s, t) \in Time
  BY ConstantsAssumption DEF Time, Never, Earlier

\* While a loop is open, the innermost one has a target, a caller and a deadline.
LEMMA TopType ==
  ASSUME LoopType, drives # <<>>
  PROVE  /\ Len(drives) \in DOMAIN drives /\ Len(drives) \in Nat \ {0}
         /\ Top \in Drive /\ Target \in Slot /\ Top.caller \in Slot \cup {0}
         /\ Top.saved \in Time /\ Popped \in Seq(Drive)
<1>1. drives \in Seq(Drive)
  BY DEF LoopType
<1>2. Top \in Drive /\ Popped \in Seq(Drive) /\ Len(drives) \in DOMAIN drives
  BY <1>1, FrontType DEF Top, Popped
<1>3. QED BY <1>1, <1>2 DEF Drive, Target

\* The number of pushes to come is a number (the model counts a finite set).
LEMMA PendingPushesType ==
  ASSUME LoopType PROVE PendingPushes \in Nat
<1>1. IsFiniteSet(DOMAIN drives)
  BY FS_Interval DEF LoopType
<1>2. QED BY <1>1, FS_Subset, FS_CardinalityType DEF PendingPushes

\* The slot exec_frame_inner takes is a slot, fresh when none was freed.
LEMMA NewSlotType ==
  ASSUME TasksType, QueuesType, LoopType, freeSlots # <<>> \/ Room, TakeSlot
  PROVE  /\ NewSlot \in Slot /\ len' \in 1..MaxSlots /\ freeSlots' \in Seq(Slot)
         /\ freeSlots = <<>> => NewSlot = len + 1 /\ len' = len + 1
<1>1. CASE freeSlots = <<>>
  BY <1>1, PendingPushesType, ConstantsAssumption
     DEF TasksType, QueuesType, Room, TakeSlot, NewSlot, Slot
<1>2. CASE freeSlots # <<>>
  <2>1. freeSlots \in Seq(Slot)
    BY DEF QueuesType
  <2>2. NewSlot \in Slot /\ freeSlots' \in Seq(Slot)
    BY <1>2, <2>1, FrontType DEF TakeSlot, NewSlot
  <2>3. QED BY <1>2, <2>2 DEF TakeSlot, TasksType
<1>3. QED BY <1>1, <1>2

\* Waking a task keeps the types.
LEMMA WakeType ==
  ASSUME TasksType, QueuesType, NEW s \in Slot, Wake(s)
  PROVE  /\ state' \in [Slot -> TaskStates] /\ until' \in [Slot -> Time]
         /\ joinee' \in [Slot -> Slot] /\ ready' \in Seq(Slot)
  BY TimeFacts, AppendType DEF TasksType, QueuesType, Wake, TaskStates

\* A task that ends keeps the types.
LEMMA FinishType ==
  ASSUME TypeOK, PcOK, NEW r \in Results, Finish(r)
  PROVE  TypeOK'
<1>1. current \in Slot
  BY DEF TypeOK, LoopType, PcOK, Finish, Running
<1>2. TasksType'
  BY <1>1 DEF Finish, TypeOK, TasksType, TaskStates
<1>3. QueuesType' /\ IoType'
  BY DEF Finish, TypeOK, QueuesType, IoType, queueVars, ioVars
<1>4. fuel' \in [Slot -> 0..Fuel]
  BY <1>1, ConstantsAssumption DEF Finish, TypeOK, LoopType
<1>5. LoopType'
  BY <1>1, <1>4 DEF Finish, TypeOK, LoopType
<1>6. QED BY <1>2, <1>3, <1>5 DEF TypeOK

\* Fuel stays in its range.
LEMMA BurnType ==
  ASSUME LoopType, current \in Slot, Burn
  PROVE  fuel' \in [Slot -> 0..Fuel]
<1>1. fuel[current] - 1 \in 0..Fuel
  BY ConstantsAssumption DEF LoopType, Burn
<1>2. QED BY <1>1 DEF LoopType, Burn

\* Pushing a finished task keeps the types.
LEMMA PushDoneType ==
  ASSUME TasksType, LoopType, NEW r \in Results, PushDone(r)
  PROVE  /\ state' \in [Slot -> TaskStates] /\ result' \in [Slot -> Results]
         /\ len' \in 1..MaxSlots /\ handles' \subseteq Slot
<1>1. len + 1 \in Slot
  BY ConstantsAssumption DEF TasksType, PushDone, Slot
<1>2. QED BY <1>1 DEF TasksType, LoopType, PushDone, Slot, TaskStates

\* Leaving the innermost loop keeps the types, whatever its outcome.
LEMMA LeaveType ==
  ASSUME TasksType, LoopType, drives # <<>>,
         NEW r \in Results \cup {"deadlock"}, r = "deadlock" => Top.how = "main",
         Leave(r), UNCHANGED <<now, fuel>>
  PROVE  /\ state' \in [Slot -> TaskStates] /\ result' \in [Slot -> Results]
         /\ len' \in 1..MaxSlots
         /\ LoopType'
<1>1. drives' \in Seq(Drive) /\ currentDeadline' \in Time /\ Top.caller \in Slot \cup {0}
  BY TopType DEF Leave
<1>2. CASE Resume(r)
  BY <1>1, <1>2 DEF Resume, TasksType, LoopType
<1>3. CASE Propagate(r)
  BY <1>1, <1>3 DEF Propagate, TasksType, LoopType, TaskStates, Results
<1>4. CASE PushFinished(r)
  <2>1. (IF r = "err" THEN "ok" ELSE r) \in Results
    BY <1>4 DEF PushFinished, Results
  <2>2. PushDone(IF r = "err" THEN "ok" ELSE r)
    BY <1>4 DEF PushFinished
  <2>3. /\ state' \in [Slot -> TaskStates] /\ result' \in [Slot -> Results]
        /\ len' \in 1..MaxSlots /\ handles' \subseteq Slot
    BY <2>1, <2>2, PushDoneType
  <2>4. QED BY <1>1, <1>4, <2>3 DEF PushFinished, LoopType
<1>5. CASE ExitProgram(r)
  BY <1>1, <1>5 DEF ExitProgram, TasksType, LoopType
<1>6. QED BY <1>2, <1>3, <1>4, <1>5 DEF Leave

\* Suspending the task in hand keeps the types.
LEMMA SuspendType ==
  ASSUME TypeOK, PcOK, NEW w \in Time, NEW st \in TaskStates, Suspend(st, w),
         fuel' \in [Slot -> 0..Fuel]
  PROVE  /\ current \in Slot
         /\ state' \in [Slot -> TaskStates] /\ until' \in [Slot -> Time]
         /\ timers' \subseteq Time \X Slot
         /\ LoopType'
<1>1. current \in Slot
  BY DEF TypeOK, LoopType, PcOK, Suspend, Running
<1>2. state' \in [Slot -> TaskStates] /\ until' \in [Slot -> Time]
  BY <1>1 DEF Suspend, TypeOK, TasksType
<1>3. timers' \subseteq Time \X Slot
  BY <1>1 DEF Suspend, TypeOK, QueuesType
<1>4. LoopType'
  BY DEF Suspend, TypeOK, LoopType
<1>5. QED BY <1>1, <1>2, <1>3, <1>4

\* start_io keeps the types.
LEMMA StartIoType ==
  ASSUME NEW job \in Slot, NEW n \in Nat, NEW queue \in Seq(Slot), NEW sent \in Seq(Slot),
         workers \subseteq Slot, StartIo(job, n, queue, sent)
  PROVE  IoType'
<1>1. Append(queue, job) \in Seq(Slot) /\ Append(sent, job) \in Seq(Slot)
  BY AppendType
<1>2. CASE n >= MaxInFlight
  BY <1>1, <1>2 DEF StartIo, IoType
<1>3. CASE ~(n >= MaxInFlight)
  <2>1. ioQueue' = queue /\ ioInFlight' = n + 1
    BY <1>3 DEF StartIo
  <2>2. \/ workers' = workers \cup {job} /\ channel' = sent
        \/ workers' = workers /\ channel' = Append(sent, job)
    BY <1>3 DEF StartIo
  <2>3. workers' \subseteq Slot /\ channel' \in Seq(Slot)
    BY <1>1, <2>2
  <2>4. QED BY <2>1, <2>3 DEF IoType
<1>4. QED BY <1>2, <1>3

\* deliver_io keeps the types.
LEMMA DeliverIoType ==
  ASSUME TypeOK, DeliverIo
  PROVE  TasksType' /\ QueuesType' /\ IoType'
<1>1. Head(channel) \in Slot /\ Tail(channel) \in Seq(Slot)
  BY TailType DEF TypeOK, IoType, DeliverIo
<1>2. IoType'
  <2> DEFINE left == IF ioInFlight = 0 THEN 0 ELSE ioInFlight - 1
  <2>0. left \in Nat /\ workers \subseteq Slot /\ ioQueue \in Seq(Slot)
    BY DEF TypeOK, IoType
  <2>1. CASE ioQueue = <<>>
    BY <1>1, <2>0, <2>1 DEF IoType, DeliverIo
  <2>2. CASE ioQueue # <<>>
    <3>1. Head(ioQueue) \in Slot /\ Tail(ioQueue) \in Seq(Slot)
      BY <2>0, <2>2, TailType
    <3>2. StartIo(Head(ioQueue), left, Tail(ioQueue), Tail(channel))
      BY <2>2 DEF DeliverIo
    <3>3. QED BY <1>1, <2>0, <3>1, <3>2, StartIoType
  <2>3. QED BY <2>1, <2>2
<1>3. TasksType /\ QueuesType /\ UNCHANGED <<result, deadline, cancelled, len, timers,
                                              waiters, freeSlots>>
  BY DEF TypeOK, DeliverIo, driveVars
<1>4. CASE Wake(Head(channel))
  <2>1. /\ state' \in [Slot -> TaskStates] /\ until' \in [Slot -> Time]
        /\ joinee' \in [Slot -> Slot] /\ ready' \in Seq(Slot)
    BY <1>1, <1>3, <1>4, WakeType
  <2>2. QED BY <1>2, <1>3, <2>1 DEF TasksType, QueuesType
<1>5. CASE WakeNobody
  BY <1>2, <1>3, <1>5 DEF WakeNobody, TasksType, QueuesType
<1>6. QED BY <1>4, <1>5 DEF DeliverIo

\* Every step of the machine preserves type correctness.
LEMMA TypeStep ==
  ASSUME TypeOK, PcOK, SlotsOK, [Next]_vars
  PROVE  TypeOK'
<1> USE DEF TypeOK
<1>1. CASE DriveReturns
  <2>0. drives # <<>>
    BY <1>1 DEF PcOK, DriveReturns
  <2>1. Target \in Slot /\ result[Target] \in Results
    BY <2>0, TopType DEF TasksType
  <2>2. /\ state' \in [Slot -> TaskStates] /\ result' \in [Slot -> Results]
        /\ len' \in 1..MaxSlots /\ LoopType'
    BY <1>1, <2>0, <2>1, LeaveType DEF DriveReturns, Results
  <2>3. deadline' \in [Slot -> Time]
    BY <1>1, <2>1, TimeFacts DEF DriveReturns, TasksType
  <2>4. freeSlots' \in Seq(Slot)
    BY <1>1, <2>1, AppendType DEF DriveReturns, QueuesType
  <2>5. QED BY <1>1, <2>2, <2>3, <2>4
            DEF DriveReturns, TasksType, QueuesType, IoType, queueVars, ioVars
<1>2. CASE DriveCancels
  <2>1. Target \in Slot
    BY <1>2, TopType DEF PcOK, DriveCancels
  <2>2. TasksType'
    BY <1>2, <2>1, TimeFacts DEF DriveCancels, TasksType, TaskStates, Results
  <2>3. QED BY <1>2, <2>1, <2>2
            DEF DriveCancels, QueuesType, IoType, LoopType, queueVars, ioVars, driveVars, userVars
<1>3. CASE DriveContinues \/ DrainEnds \/ TimersFired \/ WakeUp
  BY <1>3 DEF DriveContinues, DrainEnds, TimersFired, WakeUp, TasksType, QueuesType, IoType,
              LoopType, taskVars, queueVars, ioVars, driveVars, userVars
<1>4. CASE DrainIo \/ ReceiveIo
  <2>1. TasksType' /\ QueuesType' /\ IoType'
    BY <1>4, DeliverIoType DEF DrainIo, ReceiveIo
  <2>2. LoopType'
    BY <1>4 DEF DrainIo, ReceiveIo, DeliverIo, LoopType, driveVars, userVars
  <2>3. QED BY <2>1, <2>2
<1>5. CASE FireTimer
  <2>1. PICK tm \in timers : /\ timers' = timers \ {tm}
                             /\ IF TimerIsLive(tm) THEN Wake(tm[2]) ELSE WakeNobody
    BY <1>5 DEF FireTimer
  <2>2. UNCHANGED <<result, deadline, cancelled, len, waiters, ioVars,
                    driveVars, userVars, finished, now, pc, exit>>
    BY <1>5 DEF FireTimer
  <2>3. tm[2] \in Slot
    BY DEF QueuesType
  <2>4. /\ state' \in [Slot -> TaskStates] /\ until' \in [Slot -> Time]
        /\ joinee' \in [Slot -> Slot] /\ ready' \in Seq(Slot)
    <3>1. CASE Wake(tm[2])
      BY <2>3, <3>1, WakeType
    <3>2. CASE WakeNobody
      BY <3>2 DEF WakeNobody, TasksType, QueuesType
    <3>3. QED BY <2>1, <3>1, <3>2
  <2>5. QED BY <2>1, <2>2, <2>4
            DEF TasksType, QueuesType, IoType, LoopType, ioVars, driveVars, userVars
<1>6. CASE PickTask
  <2>1. Head(ready) \in Slot /\ Tail(ready) \in Seq(Slot)
    BY <1>6, TailType DEF PickTask, QueuesType
  <2>2. QED BY <1>6, <2>1
            DEF PickTask, TasksType, QueuesType, IoType, LoopType, ioVars, userVars, TaskStates
<1>7. CASE SkipStale
  <2>1. Tail(ready) \in Seq(Slot)
    BY <1>7, TailType DEF SkipStale, QueuesType
  <2>2. QED BY <1>7, <2>1
            DEF SkipStale, TasksType, QueuesType, IoType, LoopType, taskVars, ioVars, driveVars, userVars
<1>8. CASE Block
  BY <1>8 DEF Block, PruneTimers, TasksType, QueuesType, IoType, LoopType, taskVars, ioVars,
              driveVars, userVars
<1>9. CASE ReportDeadlock
  <2>0. drives # <<>>
    BY <1>9 DEF PcOK, ReportDeadlock, Deadlocked, NothingReady
  <2>1. /\ state' \in [Slot -> TaskStates] /\ result' \in [Slot -> Results]
        /\ len' \in 1..MaxSlots /\ LoopType'
    BY <1>9, <2>0, LeaveType DEF ReportDeadlock, Results
  <2>2. QED BY <1>9, <2>1
            DEF ReportDeadlock, PruneTimers, TasksType, QueuesType, IoType, ioVars
<1>10. ASSUME NEW d \in Delays, Sleep(d) PROVE TypeOK'
  <2>1. current \in Slot /\ now + d \in Time
    BY <1>10, TimeFacts DEF Sleep, Suspend, Running, PcOK, LoopType
  <2>2. fuel' \in [Slot -> 0..Fuel]
    BY <1>10, <2>1, BurnType DEF Sleep, LoopType
  <2>3. /\ state' \in [Slot -> TaskStates] /\ until' \in [Slot -> Time]
        /\ timers' \subseteq Time \X Slot /\ LoopType'
    BY <1>10, <2>1, <2>2, SuspendType DEF Sleep, TaskStates
  <2>4. QED BY <1>10, <2>3 DEF Sleep, Suspend, TasksType, QueuesType, IoType, ioVars
<1>11. ASSUME NEW h \in handles, NEW d \in Delays \cup {Never}, JoinBlocks(h, d) PROVE TypeOK'
  <2>0. h \in Slot
    BY DEF LoopType
  <2>1. current \in Slot /\ (IF d = Never THEN Never ELSE now + d) \in Time
    BY <1>11, TimeFacts DEF JoinBlocks, Suspend, Running, PcOK, LoopType
  <2>2. fuel' \in [Slot -> 0..Fuel]
    BY <1>11, <2>1, BurnType DEF JoinBlocks
  <2>3. /\ state' \in [Slot -> TaskStates] /\ until' \in [Slot -> Time]
        /\ timers' \subseteq Time \X Slot /\ LoopType'
    BY <1>11, <2>1, <2>2, SuspendType DEF JoinBlocks, TaskStates
  <2>4. Append(waiters[h], current) \in Seq(Slot)
    BY <2>0, <2>1, AppendType DEF QueuesType
  <2>5. waiters' \in [Slot -> Seq(Slot)] /\ joinee' \in [Slot -> Slot]
    BY <1>11, <2>0, <2>1, <2>4 DEF JoinBlocks, QueuesType, TasksType
  <2>6. QED BY <1>11, <2>3, <2>5 DEF JoinBlocks, Suspend, TasksType, QueuesType, IoType, ioVars
<1>12. CASE HttpRequest
  <2>1. current \in Slot /\ Never \in Time
    BY <1>12, TimeFacts DEF HttpRequest, Suspend, Running, PcOK, LoopType
  <2>2. fuel' \in [Slot -> 0..Fuel]
    BY <1>12, <2>1, BurnType DEF HttpRequest
  <2>3. /\ state' \in [Slot -> TaskStates] /\ until' \in [Slot -> Time]
        /\ timers' \subseteq Time \X Slot /\ LoopType'
    BY <1>12, <2>1, <2>2, SuspendType DEF HttpRequest, TaskStates
  <2>4. IoType'
    BY <1>12, <2>1, StartIoType DEF HttpRequest, IoType
  <2>5. QED BY <1>12, <2>3, <2>4 DEF HttpRequest, Suspend, TasksType, QueuesType
<1>13. ASSUME NEW h \in handles, JoinReturns(h) PROVE TypeOK'
  <2>1. fuel' \in [Slot -> 0..Fuel]
    BY <1>13, BurnType DEF JoinReturns, Running, PcOK, LoopType
  <2>2. QED BY <1>13, <2>1 DEF JoinReturns, TasksType, QueuesType, IoType, LoopType, taskVars,
                               queueVars, ioVars, driveVars
<1>14. CASE Spawn
  <2>1. len + 1 \in Slot
    BY <1>14, PendingPushesType, ConstantsAssumption DEF Spawn, Room, TasksType, Slot
  <2>2. fuel' \in [Slot -> 0..Fuel]
    BY <1>14, BurnType DEF Spawn, Running, PcOK, LoopType
  <2>3. Append(ready, len + 1) \in Seq(Slot)
    BY <2>1, AppendType DEF QueuesType
  <2>4. TasksType'
    BY <1>14, <2>1 DEF Spawn, TasksType, TaskStates, Slot
  <2>5. QED BY <1>14, <2>1, <2>2, <2>3, <2>4
            DEF Spawn, QueuesType, IoType, LoopType, ioVars, driveVars
<1>15. CASE SpawnOverLimit \/ CallTooDeep \/ TaskEnds
  BY <1>15, FinishType DEF SpawnOverLimit, CallTooDeep, TaskEnds, Results
<1>16. CASE SpawnTooDeep
  <2>1. /\ state' \in [Slot -> TaskStates] /\ result' \in [Slot -> Results]
        /\ len' \in 1..MaxSlots /\ handles' \subseteq Slot
    BY <1>16, PushDoneType DEF SpawnTooDeep, Results
  <2>2. fuel' \in [Slot -> 0..Fuel]
    BY <1>16, BurnType DEF SpawnTooDeep, Running, PcOK, LoopType
  <2>3. QED BY <1>16, <2>1, <2>2
            DEF SpawnTooDeep, TasksType, QueuesType, IoType, LoopType, queueVars, ioVars, driveVars
<1>17. ASSUME NEW how \in Kinds, NEW d \in Budgets \cup {Never}, Call(how, d) PROVE TypeOK'
  <2>1. NewSlot \in Slot /\ len' \in 1..MaxSlots /\ freeSlots' \in Seq(Slot)
    BY <1>17, NewSlotType DEF Call
  <2>2. current \in Slot
    BY <1>17 DEF Call, Running, PcOK, LoopType
  <2>3. (IF d = Never THEN Never ELSE Earlier(currentDeadline, now + d)) \in Time
    BY <1>17, TimeFacts DEF Call, LoopType
  <2>4. TasksType'
    BY <1>17, <2>1, <2>3 DEF Call, TasksType, TaskStates, Results
  <2>5. Append(ready, NewSlot) \in Seq(Slot)
    BY <2>1, AppendType DEF QueuesType
  <2>6. drives' \in Seq(Drive)
    <3> DEFINE rec == [target |-> NewSlot, caller |-> current, saved |-> currentDeadline, how |-> how]
    <3>1. rec \in Drive
      BY <2>1, <2>2, ConstantsAssumption DEF Drive, LoopType
    <3>2. drives' = Append(drives, rec)
      BY <1>17 DEF Call, Pushed
    <3>3. QED BY <3>1, <3>2, AppendType DEF LoopType
  <2>7. fuel' \in [Slot -> 0..Fuel]
    <3>1. fuel[current] - 1 \in 0..Fuel /\ Fuel \in 0..Fuel
      BY <1>17, <2>2, ConstantsAssumption DEF Call, LoopType
    <3>2. QED BY <1>17, <2>1, <2>2, <3>1 DEF Call, LoopType
  <2>8. QED BY <1>17, <2>1, <2>4, <2>5, <2>6, <2>7
            DEF Call, QueuesType, IoType, LoopType, ioVars
<1>18. CASE NotifyWaiter
  <2>1. finished \in Slot
    BY <1>18 DEF NotifyWaiter, PcOK, LoopType
  <2>2. waiters[finished] \in Seq(Slot) /\ waiters[finished] # <<>>
    BY <1>18, <2>1 DEF NotifyWaiter, QueuesType
  <2>3. Head(waiters[finished]) \in Slot /\ Tail(waiters[finished]) \in Seq(Slot)
    BY <2>2, TailType
  <2>4. /\ state' \in [Slot -> TaskStates] /\ until' \in [Slot -> Time]
        /\ joinee' \in [Slot -> Slot] /\ ready' \in Seq(Slot)
    <3>1. CASE Wake(Head(waiters[finished]))
      BY <2>3, <3>1, WakeType
    <3>2. CASE WakeNobody
      BY <3>2 DEF WakeNobody, TasksType, QueuesType
    <3>3. QED BY <1>18, <3>1, <3>2 DEF NotifyWaiter
  <2>5. waiters' \in [Slot -> Seq(Slot)]
    BY <1>18, <2>3 DEF NotifyWaiter, QueuesType
  <2>6. QED BY <1>18, <2>4, <2>5
            DEF NotifyWaiter, TasksType, QueuesType, IoType, LoopType, ioVars, driveVars, userVars
<1>19. CASE AllNotified
  BY <1>19 DEF AllNotified, TasksType, QueuesType, IoType, LoopType, taskVars, queueVars, ioVars,
               driveVars, userVars
<1>20. ASSUME NEW s \in Slot, WorkerAnswers(s) PROVE TypeOK'
  <2>1. Append(channel, s) \in Seq(Slot)
    BY AppendType DEF IoType
  <2>2. QED BY <1>20, <2>1 DEF WorkerAnswers, TasksType, QueuesType, IoType, LoopType, taskVars,
                               queueVars, driveVars, userVars
<1>21. CASE Tick
  <2>1. now' \in 0..MaxTime
    BY <1>21, ConstantsAssumption DEF Tick, LoopType
  <2>2. QED BY <1>21, <2>1 DEF Tick, TasksType, QueuesType, IoType, LoopType, taskVars,
                               queueVars, ioVars, driveVars, userVars
<1>22. CASE Halted \/ UNCHANGED vars
  BY <1>22 DEF Halted, vars, TasksType, QueuesType, IoType, LoopType, taskVars, queueVars, ioVars,
               driveVars, userVars
<1>23. QED
  BY <1>1, <1>2, <1>3, <1>4, <1>5, <1>6, <1>7, <1>8, <1>9, <1>10, <1>11, <1>12, <1>13, <1>14,
     <1>15, <1>16, <1>17, <1>18, <1>19, <1>20, <1>21, <1>22, NextCases


-----------------------------------------------------------------------------
(* The stack of loops.                                                       *)

\* What the record of one loop holds.
LEMMA DriveType ==
  ASSUME LoopType, NEW i \in DOMAIN drives
  PROVE  /\ drives[i] \in Drive /\ drives[i].target \in Slot
         /\ drives[i].caller \in Slot \cup {0} /\ drives[i].saved \in Time
<1>1. drives \in Seq(Drive)
  BY DEF LoopType
<1>2. drives[i] \in Drive
  BY <1>1
<1>3. QED BY <1>2 DEF Drive

\* Popping the innermost loop leaves the others as they are.
LEMMA PoppedFacts ==
  ASSUME LoopType, drives # <<>>
  PROVE  /\ Len(drives) \in Nat \ {0} /\ DOMAIN drives = 1..Len(drives)
         /\ DOMAIN Popped = 1..(Len(drives) - 1)
         /\ \A i \in DOMAIN Popped : i \in DOMAIN drives /\ Popped[i] = drives[i]
         /\ Popped = <<>> <=> Len(drives) = 1
         /\ Popped \in Seq(Drive)
<1>1. drives \in Seq(Drive) /\ Len(drives) \in Nat \ {0} /\ DOMAIN drives = 1..Len(drives)
  BY DEF LoopType
<1>2. Popped \in Seq(Drive) /\ Len(Popped) = Len(drives) - 1
  BY <1>1, FrontType DEF Popped
<1>3. DOMAIN Popped = 1..(Len(drives) - 1) /\ (Popped = <<>> <=> Len(drives) = 1)
  BY <1>1, <1>2
<1>4. \A i \in DOMAIN Popped : i \in DOMAIN drives /\ Popped[i] = drives[i]
  BY <1>1, FrontType DEF Popped
<1>5. QED BY <1>1, <1>2, <1>3, <1>4

\* Pushing a loop for a call of the task in hand leaves the others as they are.
LEMMA PushedFacts ==
  ASSUME LoopType, NEW d \in Drive
  PROVE  /\ DOMAIN drives = 1..Len(drives) /\ Len(drives) \in Nat
         /\ DOMAIN Pushed(d) = 1..(Len(drives) + 1)
         /\ \A i \in DOMAIN drives : Pushed(d)[i] = drives[i]
         /\ Pushed(d)[Len(drives) + 1] = d /\ Pushed(d) # <<>>
<1>1. drives \in Seq(Drive)
  BY DEF LoopType
<1>2. QED BY <1>1 DEF Pushed

\* A loop that is not the program's own was started by a task, from inside
\* another loop.
LEMMA CallerFacts ==
  ASSUME LoopType, PcOK, drives # <<>>, Top.how # "main"
  PROVE  Top.caller \in Slot /\ Len(drives) > 1 /\ Popped # <<>>
<1>1. Len(drives) # 1 /\ Top.caller # 0 /\ Len(drives) \in DOMAIN drives
  BY TopType DEF PcOK, Top
<1>2. Top.caller \in Slot \cup {0}
  BY TopType
<1>3. QED BY <1>1, <1>2, PoppedFacts

\* The loop started by a call: the callee's slot, the task in hand, its deadline.
LEMMA CallDrive ==
  ASSUME TypeOK, PcOK, NEW how \in Kinds, NEW d \in Budgets \cup {Never}, Call(how, d),
         NEW rec, rec = [target |-> NewSlot, caller |-> current,
                         saved |-> currentDeadline, how |-> how]
  PROVE  /\ rec \in Drive /\ how # "main" /\ current \in Slot /\ NewSlot \in Slot
         /\ drives' = Pushed(rec) /\ drives # <<>>
         /\ rec.target = NewSlot /\ rec.caller = current
         /\ rec.saved = currentDeadline /\ rec.how = how
<1>1. how \in CallKinds /\ how # "main"
  BY ConstantsAssumption DEF CallKinds
<1>2. current \in Slot /\ drives # <<>>
  BY DEF Call, Running, PcOK, TypeOK, LoopType
<1>3. NewSlot \in Slot
  BY NewSlotType DEF TypeOK, Call
<1>4. currentDeadline \in Time
  BY DEF TypeOK, LoopType
<1>5. drives' = Pushed(rec)
  BY DEF Call
<1>6. QED BY <1>1, <1>2, <1>3, <1>4, <1>5 DEF Drive

-----------------------------------------------------------------------------
(* The thread's position.                                                    *)

\* Leaving a loop keeps the thread's position consistent.
LEMMA LeavePc ==
  ASSUME LoopType, PcOK, NEW r, Leave(r), pc \in {"head", "pick"}
  PROVE  PcOK'
<1>0. drives # <<>> /\ current = 0 /\ finished = 0
  BY DEF PcOK
<1>1. drives' = Popped
  BY DEF Leave
<1>2. \A i \in DOMAIN drives' :
        /\ drives'[i].how = "main" <=> i = 1
        /\ drives'[i].caller = 0 <=> i = 1
  BY <1>0, <1>1, PoppedFacts DEF PcOK
<1>3. CASE Resume(r) \/ PushFinished(r)
  <2>1. Top.caller # 0 /\ drives' # <<>>
    BY <1>0, <1>1, <1>3, CallerFacts, ConstantsAssumption DEF Resume, PushFinished, Slot
  <2>2. current' = Top.caller /\ pc' = "run" /\ finished' = 0
    BY <1>0, <1>3 DEF Resume, PushFinished
  <2>3. QED BY <1>2, <2>1, <2>2 DEF PcOK
<1>4. CASE Propagate(r)
  <2>1. Top.caller # 0 /\ drives' # <<>>
    BY <1>0, <1>1, <1>4, CallerFacts, ConstantsAssumption DEF Propagate, Slot
  <2>2. current' = 0 /\ pc' = "notify" /\ finished' = Top.caller
    BY <1>4 DEF Propagate
  <2>3. QED BY <1>2, <2>1, <2>2 DEF PcOK
<1>5. CASE ExitProgram(r)
  <2>1. current' = 0 /\ pc' = "halt" /\ finished' = 0
    BY <1>0, <1>5 DEF ExitProgram
  <2>2. QED BY <1>2, <2>1 DEF PcOK
<1>6. QED BY <1>3, <1>4, <1>5 DEF Leave

\* Every step keeps the thread's position consistent with what it has in hand.
LEMMA PcStep ==
  ASSUME TypeOK, PcOK, [Next]_vars
  PROVE  PcOK'
<1>1. CASE DriveReturns \/ ReportDeadlock
  <2>1. PICK r : Leave(r) /\ pc \in {"head", "pick"}
    BY <1>1 DEF DriveReturns, ReportDeadlock, Deadlocked, NothingReady
  <2>2. QED BY <2>1, LeavePc DEF TypeOK
<1>2. CASE DriveCancels
  <2>1. Target # 0
    BY <1>2, TopType, ConstantsAssumption DEF DriveCancels, PcOK, TypeOK, Slot
  <2>2. QED BY <1>2, <2>1 DEF DriveCancels, PcOK, driveVars
<1>3. CASE PickTask
  <2>1. Head(ready) \in Slot
    BY <1>3, TailType DEF PickTask, TypeOK, QueuesType
  <2>2. QED BY <1>3, <2>1, ConstantsAssumption DEF PickTask, PcOK, Slot
<1>4. ASSUME NEW how \in Kinds, NEW d \in Budgets \cup {Never}, Call(how, d) PROVE PcOK'
  <2> DEFINE rec == [target |-> NewSlot, caller |-> current,
                     saved |-> currentDeadline, how |-> how]
  <2>1. /\ rec \in Drive /\ how # "main" /\ current # 0 /\ drives' = Pushed(rec)
        /\ drives # <<>> /\ rec.caller = current /\ rec.how = how
    BY <1>4, CallDrive, ConstantsAssumption DEF Slot
  <2>2. pc' = "head" /\ current' = 0 /\ finished' = 0
    BY <1>4 DEF Call, Running, PcOK
  <2>3. /\ DOMAIN drives = 1..Len(drives) /\ Len(drives) \in Nat \ {0}
        /\ DOMAIN drives' = 1..(Len(drives) + 1) /\ drives' # <<>>
        /\ \A i \in DOMAIN drives : drives'[i] = drives[i]
        /\ drives'[Len(drives) + 1] = rec
    BY <2>1, PushedFacts DEF TypeOK, LoopType
  <2> HIDE DEF rec
  <2>4. QED BY <2>1, <2>2, <2>3 DEF PcOK
<1>5. CASE Thread /\ ~DriveReturns /\ ~ReportDeadlock /\ ~DriveCancels /\ ~PickTask
           /\ ~(\E how \in Kinds, d \in Budgets \cup {Never} : Call(how, d))
  <2>1. CASE DriveContinues \/ DrainEnds \/ TimersFired \/ WakeUp \/ SkipStale \/ Block
    BY <2>1 DEF DriveContinues, DrainEnds, TimersFired, WakeUp, SkipStale, Block, NothingReady,
                PcOK, driveVars
  <2>2. CASE DrainIo \/ ReceiveIo
    BY <2>2 DEF DrainIo, ReceiveIo, DeliverIo, PcOK, driveVars
  <2>3. CASE FireTimer
    BY <2>3 DEF FireTimer, PcOK, driveVars
  <2>4. CASE NotifyWaiter \/ AllNotified
    BY <2>4 DEF NotifyWaiter, AllNotified, PcOK, driveVars
  <2>5. CASE Suspends
    BY <2>5 DEF Suspends, Sleep, JoinBlocks, HttpRequest, Suspend, Running, PcOK
  <2>6. CASE TaskEnds \/ SpawnOverLimit \/ CallTooDeep
    BY <2>6 DEF TaskEnds, SpawnOverLimit, CallTooDeep, Finish, Running, PcOK
  <2>7. CASE Spawn \/ SpawnTooDeep \/ (\E h \in handles : JoinReturns(h))
    BY <2>7 DEF Spawn, SpawnTooDeep, JoinReturns, Running, PcOK, driveVars
  <2>8. QED BY <1>5, <2>1, <2>2, <2>3, <2>4, <2>5, <2>6, <2>7
            DEF Thread, Drives, Delivers, Picks, RunsOn, Notifies
<1>6. CASE (\E s \in Slot : WorkerAnswers(s)) \/ Tick \/ Halted \/ UNCHANGED vars
  BY <1>6 DEF WorkerAnswers, Tick, Halted, PcOK, driveVars, vars
<1>7. QED BY <1>1, <1>2, <1>3, <1>4, <1>5, <1>6 DEF Next

-----------------------------------------------------------------------------
(* Slots and handles.                                                        *)

\* Waking a suspended task only makes it ready.
LEMMA WakeFacts ==
  ASSUME TypeOK, NEW s \in Slot, state[s] # "Absent", Wake(s) \/ WakeNobody
  PROVE  /\ \A q \in Slot : state'[q] = "Absent" <=> state[q] = "Absent"
         /\ \A q \in Slot : state'[q] \in {"WaitingOnTask", "SleepUntil", "WaitingIo", "Done", "Running"} =>
              state'[q] = state[q] /\ joinee'[q] = joinee[q] /\ until'[q] = until[q]
         /\ \A q \in Slot : state'[q] # state[q] => q = s /\ state'[q] = "Ready"
  BY DEF Wake, WakeNobody, TypeOK, TasksType

\* The slots stay consistent when no task is added and none starts to wait.
LEMMA SlotsKept ==
  ASSUME TypeOK, SlotsOK, UNCHANGED len, UNCHANGED handles,
         \A i \in DOMAIN freeSlots' : freeSlots'[i] \in 0..len,
         \A q \in Slot : state'[q] = "Absent" <=> state[q] = "Absent",
         \A q \in Slot : state'[q] = "WaitingOnTask" =>
                           state[q] = "WaitingOnTask" /\ joinee'[q] = joinee[q],
         \A q \in Slot : waiters'[q] # <<>> => waiters[q] # <<>>, current' \in 0..len,
         \A i \in DOMAIN drives' : i \in DOMAIN drives /\ drives'[i] = drives[i]
  PROVE  SlotsOK'
  BY DEF SlotsOK

\* A slot with a state that is not Absent is one of tasks, and conversely.
LEMMA SlotsFacts ==
  ASSUME TypeOK, PcOK, SlotsOK
  PROVE  /\ current # 0 => current \in Slot
         /\ pc # "halt" => Target \in Slot /\ state[Target] # "Absent"
         /\ \A h \in handles : h \in Slot /\ state[h] # "Absent"
         /\ \A s \in Slot : waiters[s] # <<>> => state[s] # "Absent"
<1>1. current # 0 => current \in Slot
  BY DEF TypeOK, LoopType
<1>2. ASSUME pc # "halt" PROVE Target \in Slot /\ state[Target] # "Absent"
  <2>1. drives # <<>> /\ Len(drives) \in DOMAIN drives /\ Target \in Slot
    BY <1>2, TopType DEF PcOK, TypeOK
  <2>2. Target <= len
    BY <2>1 DEF SlotsOK, Target, Top
  <2>3. QED BY <2>1, <2>2 DEF SlotsOK, TypeOK, TasksType, Slot
<1>3. \A h \in handles : h \in Slot /\ state[h] # "Absent"
  BY DEF SlotsOK, TypeOK, TasksType, LoopType, Slot
<1>4. QED BY <1>1, <1>2, <1>3 DEF SlotsOK

\* Pushing a finished task for a handle keeps the slots consistent.
LEMMA PushDoneSlots ==
  ASSUME TypeOK, SlotsOK, NEW r, PushDone(r), UNCHANGED <<joinee, waiters>>,
         \A i \in DOMAIN drives' : i \in DOMAIN drives /\ drives'[i] = drives[i],
         current' \in 0..len, \A i \in DOMAIN freeSlots' : freeSlots'[i] \in 0..len
  PROVE  SlotsOK'
<1>1. len + 1 \in Slot /\ len \in Slot
  BY ConstantsAssumption DEF PushDone, TypeOK, TasksType, Slot
<1>2. \A q \in Slot : state'[q] = IF q = len + 1 THEN "Done" ELSE state[q]
  BY <1>1 DEF PushDone, TypeOK, TasksType
<1>3. handles' = handles \cup {len + 1} /\ len' = len + 1
  BY DEF PushDone
<1>4. \A q \in Slot : state'[q] = "Absent" <=> q > len'
  BY <1>1, <1>2, <1>3 DEF SlotsOK, Slot
<1>5. \A h \in handles' : h <= len'
  BY <1>1, <1>3 DEF SlotsOK, Slot, TypeOK, LoopType
<1>6. \A q \in Slot : state'[q] = "WaitingOnTask" => joinee'[q] \in handles'
  BY <1>2, <1>3 DEF SlotsOK
<1>7. \A q \in Slot : waiters'[q] # <<>> => q \in handles'
  BY <1>3 DEF SlotsOK
<1>8. \A i \in DOMAIN drives' : drives'[i].target <= len' /\ drives'[i].caller <= len'
  <2>1. ASSUME NEW i \in DOMAIN drives'
        PROVE  drives'[i].target <= len' /\ drives'[i].caller <= len'
    <3>1. /\ i \in DOMAIN drives /\ drives'[i] = drives[i]
          /\ drives[i].target \in Slot /\ drives[i].caller \in Slot \cup {0}
      BY DriveType DEF TypeOK
    <3>2. QED BY <1>1, <1>3, <3>1 DEF SlotsOK, Slot
  <2>2. QED BY <2>1
<1>9. QED BY <1>1, <1>3, <1>4, <1>5, <1>6, <1>7, <1>8 DEF SlotsOK, Slot

\* Leaving a loop keeps the slots consistent.
LEMMA LeaveSlots ==
  ASSUME TypeOK, PcOK, SlotsOK, drives # <<>>, NEW r, Leave(r), UNCHANGED <<joinee, waiters>>,
         \A i \in DOMAIN freeSlots' : freeSlots'[i] \in 0..len
  PROVE  SlotsOK'
<1>1. \A i \in DOMAIN drives' : i \in DOMAIN drives /\ drives'[i] = drives[i]
  BY PoppedFacts DEF Leave, TypeOK
<1>0. Top.caller \in 0..len /\ 0 \in 0..len
  BY TopType DEF SlotsOK, TypeOK, TasksType, Top, Slot
<1>2. CASE Resume(r) \/ ExitProgram(r)
  BY <1>0, <1>1, <1>2, SlotsKept DEF Resume, ExitProgram
<1>3. CASE Propagate(r)
  <2>1. Top.caller \in Slot
    BY <1>3, CallerFacts DEF Propagate, TypeOK
  <2>2. state[Top.caller] # "Absent"
    BY <2>1, TopType DEF SlotsOK, TypeOK, TasksType, Slot, Top
  <2>3. \A q \in Slot : state'[q] = IF q = Top.caller THEN "Done" ELSE state[q]
    BY <1>3, <2>1 DEF Propagate, TypeOK, TasksType
  <2>4. current' = 0 /\ len' = len /\ handles' = handles
    BY <1>3 DEF Propagate
  <2>5. /\ \A q \in Slot : state'[q] = "Absent" <=> state[q] = "Absent"
        /\ \A q \in Slot : state'[q] = "WaitingOnTask" => state[q] = "WaitingOnTask"
    BY <2>2, <2>3
  <2>6. QED BY <1>0, <1>1, <2>4, <2>5, SlotsKept
<1>4. CASE PushFinished(r)
  <2>1. PushDone(IF r = "err" THEN "ok" ELSE r)
    BY <1>4 DEF PushFinished
  <2>2. QED BY <1>0, <1>1, <1>4, <2>1, PushDoneSlots DEF PushFinished
<1>5. QED BY <1>2, <1>3, <1>4 DEF Leave

\* Every step keeps the slots consistent.
LEMMA SlotsStep ==
  ASSUME TypeOK, PcOK, SlotsOK, [Next]_vars
  PROVE  SlotsOK'
<1>0. /\ current \in 0..len /\ 0 \in 0..len /\ len \in Nat /\ len \in Slot
      /\ \A q \in Slot : (q \in 0..len) <=> state[q] # "Absent"
      /\ \A i \in DOMAIN freeSlots : freeSlots[i] \in 0..len
  <2>1. \A i \in DOMAIN freeSlots : freeSlots[i] \in Slot
    BY DEF TypeOK, QueuesType
  <2>2. QED BY <2>1 DEF SlotsOK, TypeOK, TasksType, LoopType, Slot
<1>1. CASE DriveReturns \/ ReportDeadlock
  <2>1. PICK r : Leave(r)
    BY <1>1 DEF DriveReturns, ReportDeadlock
  <2>2. drives # <<>> /\ UNCHANGED <<joinee, waiters>>
    BY <1>1 DEF DriveReturns, ReportDeadlock, Deadlocked, NothingReady, PcOK, queueVars
  <2>3. \A i \in DOMAIN freeSlots' : freeSlots'[i] \in 0..len
    <3>1. CASE freeSlots' = freeSlots
      BY <1>0, <3>1
    <3>2. CASE DriveReturns /\ freeSlots' = Append(freeSlots, Target)
      <4>1. Target \in Slot /\ Target \in 0..len /\ freeSlots \in Seq(Slot)
        BY <1>0, <3>2, SlotsFacts DEF DriveReturns, TypeOK, QueuesType
      <4>2. QED BY <1>0, <3>2, <4>1, AppendType
    <3>3. QED BY <1>1, <3>1, <3>2 DEF DriveReturns, ReportDeadlock
  <2>4. QED BY <2>1, <2>2, <2>3, LeaveSlots
<1>2. CASE DriveCancels
  <2>1. Target \in Slot /\ state[Target] # "Absent"
    BY <1>2, SlotsFacts DEF DriveCancels
  <2>2. /\ \A q \in Slot : state'[q] = IF q = Target THEN "Done" ELSE state[q]
        /\ \A q \in Slot : q # Target => joinee'[q] = joinee[q]
    BY <1>2, <2>1 DEF DriveCancels, TypeOK, TasksType
  <2>3. UNCHANGED <<len, handles, waiters, drives, current, freeSlots>>
    BY <1>2 DEF DriveCancels, queueVars, driveVars, userVars
  <2>4. QED BY <1>0, <2>1, <2>2, <2>3, SlotsKept
<1>3. CASE DrainIo \/ ReceiveIo \/ FireTimer \/ NotifyWaiter
  <2>1. \E s \in Slot : state[s] # "Absent" /\ (Wake(s) \/ WakeNobody)
    <3>1. CASE DrainIo \/ ReceiveIo
      <4>1. Head(channel) \in Slot
        BY <3>1, TailType DEF DrainIo, ReceiveIo, DeliverIo, TypeOK, IoType
      <4>2. CASE state[Head(channel)] = "WaitingIo"
        BY <3>1, <4>1, <4>2 DEF DrainIo, ReceiveIo, DeliverIo
      <4>3. CASE state[Head(channel)] # "WaitingIo"
        BY <1>0, <3>1, <4>3 DEF DrainIo, ReceiveIo, DeliverIo
      <4>4. QED BY <4>2, <4>3
    <3>2. CASE FireTimer
      <4>1. PICK tm \in timers : IF TimerIsLive(tm) THEN Wake(tm[2]) ELSE WakeNobody
        BY <3>2 DEF FireTimer
      <4>2. tm[2] \in Slot /\ (TimerIsLive(tm) => state[tm[2]] # "Absent")
        BY DEF TypeOK, QueuesType, TimerIsLive
      <4>3. CASE TimerIsLive(tm)
        BY <4>1, <4>2, <4>3
      <4>4. CASE ~TimerIsLive(tm)
        BY <1>0, <4>1, <4>4
      <4>5. QED BY <4>3, <4>4
    <3>3. CASE NotifyWaiter
      <4>1. finished \in Slot /\ waiters[finished] \in Seq(Slot) /\ waiters[finished] # <<>>
        BY <3>3 DEF NotifyWaiter, PcOK, TypeOK, LoopType, QueuesType
      <4>2. Head(waiters[finished]) \in Slot
        BY <4>1, TailType
      <4>3. QED BY <1>0, <3>3, <4>2 DEF NotifyWaiter
    <3>4. QED BY <1>3, <3>1, <3>2, <3>3
  <2>2. UNCHANGED <<len, handles, drives, current, freeSlots>>
    BY <1>3 DEF DrainIo, ReceiveIo, DeliverIo, FireTimer, NotifyWaiter, driveVars, userVars
  <2>3. \A q \in Slot : waiters'[q] # <<>> => waiters[q] # <<>>
    BY <1>3 DEF DrainIo, ReceiveIo, DeliverIo, FireTimer, NotifyWaiter, TypeOK, QueuesType
  <2>4. /\ \A q \in Slot : state'[q] = "Absent" <=> state[q] = "Absent"
        /\ \A q \in Slot : state'[q] = "WaitingOnTask" =>
              state[q] = "WaitingOnTask" /\ joinee'[q] = joinee[q]
    BY <2>1, WakeFacts
  <2>5. QED BY <1>0, <2>2, <2>3, <2>4, SlotsKept
<1>4. CASE PickTask
  <2>1. Head(ready) \in Slot
    BY <1>4, TailType DEF PickTask, TypeOK, QueuesType
  <2>2. \A q \in Slot : state'[q] = IF q = Head(ready) THEN "Running" ELSE state[q]
    BY <1>4, <2>1 DEF PickTask, TypeOK, TasksType
  <2>3. current' = Head(ready) /\ state[Head(ready)] = "Ready"
    BY <1>4 DEF PickTask
  <2>4. UNCHANGED <<len, handles, waiters, joinee, drives, freeSlots>>
    BY <1>4 DEF PickTask, userVars
  <2>5. QED BY <1>0, <2>1, <2>2, <2>3, <2>4, SlotsKept
<1>5. ASSUME NEW reason \in TaskStates \ {"Absent", "WaitingOnTask"}, NEW when,
             Suspend(reason, when), UNCHANGED <<joinee, waiters>>
      PROVE  SlotsOK'
  <2>1. current \in Slot /\ state[current] # "Absent"
    BY <1>0, <1>5 DEF Suspend, Running, PcOK, TypeOK, LoopType
  <2>2. \A q \in Slot : state'[q] = IF q = current THEN reason ELSE state[q]
    BY <1>5, <2>1 DEF Suspend, TypeOK, TasksType
  <2>3. current' = 0 /\ UNCHANGED <<len, handles, drives, freeSlots>>
    BY <1>5 DEF Suspend
  <2>4. QED BY <1>0, <1>5, <2>1, <2>2, <2>3, SlotsKept
<1>6. CASE HttpRequest \/ \E d \in Delays : Sleep(d)
  <2>1. CASE HttpRequest
    BY <1>5, <2>1 DEF HttpRequest, TaskStates
  <2>2. ASSUME NEW d \in Delays, Sleep(d) PROVE SlotsOK'
    BY <1>5, <2>2 DEF Sleep, TaskStates
  <2>3. QED BY <1>6, <2>1, <2>2
<1>7. ASSUME NEW h \in handles, NEW d \in Delays \cup {Never}, JoinBlocks(h, d)
      PROVE  SlotsOK'
  <2>1. /\ current \in Slot /\ state[current] # "Absent" /\ h \in Slot
    BY <1>0, <1>7 DEF JoinBlocks, Suspend, Running, PcOK, TypeOK, LoopType
  <2>2. /\ \A q \in Slot : state'[q] = IF q = current THEN "WaitingOnTask" ELSE state[q]
        /\ \A q \in Slot : joinee'[q] = IF q = current THEN h ELSE joinee[q]
        /\ \A q \in Slot : q # h => waiters'[q] = waiters[q]
    BY <1>7, <2>1 DEF JoinBlocks, Suspend, TypeOK, TasksType, QueuesType
  <2>3. current' = 0 /\ UNCHANGED <<len, handles, drives, freeSlots>>
    BY <1>7 DEF JoinBlocks, Suspend
  <2>4. QED BY <1>0, <2>1, <2>2, <2>3 DEF SlotsOK
<1>8. ASSUME NEW r, Finish(r)
      PROVE  SlotsOK'
  <2>1. current \in Slot /\ state[current] # "Absent"
    BY <1>0, <1>8 DEF Finish, Running, PcOK, TypeOK, LoopType
  <2>2. \A q \in Slot : state'[q] = IF q = current THEN "Done" ELSE state[q]
    BY <1>8, <2>1 DEF Finish, TypeOK, TasksType
  <2>3. current' = 0 /\ UNCHANGED <<len, handles, drives, joinee, waiters, freeSlots>>
    BY <1>8 DEF Finish, queueVars
  <2>4. QED BY <1>0, <2>1, <2>2, <2>3, SlotsKept
<1>9. CASE TaskEnds \/ SpawnOverLimit \/ CallTooDeep
  BY <1>8, <1>9 DEF TaskEnds, SpawnOverLimit, CallTooDeep
<1>10. CASE Spawn
  <2>1. len + 1 \in Slot
    BY <1>10, PendingPushesType, ConstantsAssumption DEF Spawn, Room, TypeOK, TasksType, Slot
  <2>2. \A q \in Slot : state'[q] = IF q = len + 1 THEN "Ready" ELSE state[q]
    BY <1>10, <2>1 DEF Spawn, TypeOK, TasksType
  <2>3. /\ len' = len + 1 /\ handles' = handles \cup {len + 1}
        /\ UNCHANGED <<joinee, waiters, drives, current, freeSlots>>
    BY <1>10 DEF Spawn, driveVars
  <2>4. \A q \in Slot : state'[q] = "Absent" <=> q > len'
    BY <1>0, <2>2, <2>3 DEF SlotsOK, Slot
  <2>5. \A h \in handles' : h <= len'
    BY <1>0, <2>1, <2>3 DEF SlotsOK, Slot, TypeOK, LoopType
  <2>6. \A i \in DOMAIN drives' : drives'[i].target <= len' /\ drives'[i].caller <= len'
    BY <1>0, <2>3, DriveType DEF SlotsOK, Slot, TypeOK
  <2>7. \A i \in DOMAIN freeSlots' : freeSlots'[i] <= len'
    BY <1>0, <2>3
  <2>8. QED BY <1>0, <2>2, <2>3, <2>4, <2>5, <2>6, <2>7 DEF SlotsOK
<1>11. CASE SpawnTooDeep
  <2>1. PushDone("fail") /\ UNCHANGED <<joinee, waiters, drives, current, freeSlots>>
    BY <1>11 DEF SpawnTooDeep, queueVars, driveVars
  <2>2. QED BY <1>0, <2>1, PushDoneSlots
<1>12. ASSUME NEW how \in Kinds, NEW d \in Budgets \cup {Never}, Call(how, d)
       PROVE  SlotsOK'
  <2> DEFINE rec == [target |-> NewSlot, caller |-> current,
                     saved |-> currentDeadline, how |-> how]
  <2>1. /\ rec \in Drive /\ current \in Slot /\ drives' = Pushed(rec)
        /\ rec.target = NewSlot /\ rec.caller = current /\ NewSlot \in Slot
    BY <1>12, CallDrive
  <2>2. /\ DOMAIN drives = 1..Len(drives) /\ Len(drives) \in Nat
        /\ DOMAIN drives' = 1..(Len(drives) + 1)
        /\ \A i \in DOMAIN drives : drives'[i] = drives[i]
        /\ drives'[Len(drives) + 1] = rec
    BY <2>1, PushedFacts DEF TypeOK
  <2> HIDE DEF rec
  <2>3. /\ \A q \in Slot : state'[q] = IF q = NewSlot THEN "Ready" ELSE state[q]
        /\ current' = 0 /\ UNCHANGED <<handles, joinee, waiters>>
    BY <1>12, <2>1 DEF Call, TypeOK, TasksType
  <2>4. len' \in Nat /\ len <= len' /\ NewSlot <= len'
        /\ \A q \in Slot : q > len' <=> (q > len /\ q # NewSlot)
    <3>1. CASE freeSlots = <<>>
      BY <1>0, <1>12, <3>1 DEF Call, TakeSlot, NewSlot, Slot
    <3>2. CASE freeSlots # <<>>
      <4>1. freeSlots \in Seq(Slot)
        BY DEF TypeOK, QueuesType
      <4>2. Len(freeSlots) \in DOMAIN freeSlots
        BY <3>2, <4>1, FrontType
      <4>3. NewSlot <= len /\ len' = len
        BY <1>0, <1>12, <3>2, <4>2 DEF Call, TakeSlot, NewSlot
      <4>4. QED BY <1>0, <2>1, <4>3 DEF Slot
    <3>3. QED BY <3>1, <3>2
  <2>5. \A q \in Slot : state'[q] = "Absent" <=> q > len'
    BY <2>3, <2>4 DEF SlotsOK
  <2>6. \A h \in handles' : h <= len'
    BY <1>0, <2>3, <2>4 DEF SlotsOK, TypeOK, LoopType, Slot
  <2>7. \A i \in DOMAIN drives' : drives'[i].target <= len' /\ drives'[i].caller <= len'
    <3>1. ASSUME NEW i \in DOMAIN drives
          PROVE  drives'[i].target <= len' /\ drives'[i].caller <= len'
      BY <1>0, <2>2, <2>4, DriveType DEF SlotsOK, TypeOK, Slot
    <3>2. drives'[Len(drives) + 1].target <= len' /\ drives'[Len(drives) + 1].caller <= len'
      BY <1>0, <2>1, <2>2, <2>4 DEF Slot
    <3>3. QED BY <2>2, <3>1, <3>2
  <2>8. \A i \in DOMAIN freeSlots' : freeSlots'[i] <= len'
    <3>1. freeSlots \in Seq(Slot)
      BY DEF TypeOK, QueuesType
    <3>2. CASE freeSlots = <<>>
      BY <1>0, <1>12, <2>4, <3>2 DEF Call, TakeSlot
    <3>3. CASE freeSlots # <<>>
      <4>1. \A i \in DOMAIN freeSlots' : i \in DOMAIN freeSlots /\ freeSlots'[i] = freeSlots[i]
        BY <1>12, <3>1, <3>3, FrontType DEF Call, TakeSlot
      <4>2. QED BY <1>0, <2>4, <4>1
    <3>4. QED BY <3>2, <3>3
  <2>9. QED BY <2>3, <2>4, <2>5, <2>6, <2>7, <2>8 DEF SlotsOK
<1>13. CASE \/ DriveContinues \/ DrainEnds \/ TimersFired \/ WakeUp \/ SkipStale \/ Block
            \/ (\E h \in handles : JoinReturns(h)) \/ AllNotified
            \/ (\E s \in Slot : WorkerAnswers(s)) \/ Tick \/ Halted \/ UNCHANGED vars
  <2>1. UNCHANGED <<state, joinee, len, waiters, drives, current, handles,
                  freeSlots>>
    BY <1>13 DEF DriveContinues, DrainEnds, TimersFired, WakeUp, SkipStale, Block, JoinReturns,
                 AllNotified, WorkerAnswers, Tick, Halted, vars, taskVars, queueVars,
                 driveVars, userVars
  <2>2. QED BY <2>1 DEF SlotsOK
<1>14. QED
  BY <1>1, <1>2, <1>3, <1>4, <1>6, <1>7, <1>9, <1>10, <1>11, <1>12, <1>13, NextCases

-----------------------------------------------------------------------------
(* Wakeups.                                                                  *)

\* A task that is not touched keeps its wakeup.
LEMMA WakeupKept ==
  ASSUME NEW s \in Slot, WakeupComes(s),
         state'[s] = state[s], until'[s] = until[s], joinee'[s] = joinee[s],
         state[s] = "Ready" /\ InSeq(ready, s) => InSeq(ready', s),
         state[s] \in {"SleepUntil", "WaitingOnTask"} /\ HasTimer(s) => HasTimer(s)',
         state[s] = "WaitingOnTask" /\ InSeq(waiters[joinee[s]], s) =>
           InSeq(waiters'[joinee[s]], s),
         state[s] = "WaitingOnTask" => state'[joinee[s]] # "Done" \/ finished' = joinee[s],
         state[s] = "WaitingIo" /\ Outstanding(s) => Outstanding(s)'
  PROVE  WakeupComes(s)'
  BY DEF WakeupComes

\* A task that is running or over needs no wakeup.
LEMMA NoWakeupNeeded ==
  ASSUME NEW s \in Slot, state'[s] \in {"Absent", "Running", "Done"}
  PROVE  WakeupComes(s)'
  BY DEF WakeupComes

\* A task made ready by Wake is in the ready queue, and no other lost its place.
LEMMA WakeQueues ==
  ASSUME TypeOK, NEW w \in Slot, Wake(w)
  PROVE  /\ state'[w] = "Ready" /\ WakeupComes(w)'
         /\ \A s \in Slot : InSeq(ready, s) => InSeq(ready', s)
         /\ \A s \in Slot : s # w =>
              state'[s] = state[s] /\ until'[s] = until[s] /\ joinee'[s] = joinee[s]
<1>1. state'[w] = "Ready"
  BY DEF Wake, TypeOK, TasksType
<1>2. ready \in Seq(Slot) /\ ready' = Append(ready, w)
  BY DEF Wake, TypeOK, QueuesType
<1>3. InSeq(ready', w) /\ \A s \in Slot : InSeq(ready, s) => InSeq(ready', s)
  BY <1>2, AppendIn
<1>4. WakeupComes(w)'
  BY <1>1, <1>3 DEF WakeupComes
<1>5. QED BY <1>1, <1>3, <1>4 DEF Wake, TypeOK, TasksType

\* The joined task is a slot of tasks with a handle.
LEMMA JoineeFacts ==
  ASSUME TypeOK, SlotsOK, NEW s \in Slot, state[s] = "WaitingOnTask"
  PROVE  joinee[s] \in Slot /\ joinee[s] # len + 1
  BY DEF TypeOK, TasksType, LoopType, SlotsOK, Slot

\* A request that start_io is given is on its way, and the others still are.
LEMMA StartIoOutstanding ==
  ASSUME NEW job \in Slot, NEW n \in Nat, NEW queue \in Seq(Slot), NEW sent \in Seq(Slot),
         StartIo(job, n, queue, sent)
  PROVE  /\ Outstanding(job)'
         /\ \A s \in Slot : InSeq(queue, s) \/ s \in workers \/ InSeq(sent, s) => Outstanding(s)'
<1>1. CASE n >= MaxInFlight
  <2>1. ioQueue' = Append(queue, job) /\ channel' = sent /\ workers' = workers
    BY <1>1 DEF StartIo
  <2>2. \A s \in Slot : InSeq(ioQueue', s) <=> InSeq(queue, s) \/ s = job
    BY <2>1, AppendIn
  <2>3. QED BY <2>1, <2>2 DEF Outstanding
<1>2. CASE ~(n >= MaxInFlight) /\ workers' = workers \cup {job}
  <2>1. ioQueue' = queue /\ (channel' = sent \/ channel' = Append(sent, job))
    BY <1>2 DEF StartIo
  <2>2. \A s \in Slot : InSeq(Append(sent, job), s) <=> InSeq(sent, s) \/ s = job
    BY AppendIn
  <2>3. \A s \in Slot : InSeq(sent, s) => InSeq(channel', s)
    BY <2>1, <2>2
  <2>4. QED BY <1>2, <2>1, <2>3 DEF Outstanding
<1>3. CASE ~(n >= MaxInFlight) /\ workers' # workers \cup {job}
  <2>1. ioQueue' = queue /\ channel' = Append(sent, job) /\ workers' = workers
    BY <1>3 DEF StartIo
  <2>2. \A s \in Slot : InSeq(channel', s) <=> InSeq(sent, s) \/ s = job
    BY <2>1, AppendIn
  <2>3. QED BY <2>1, <2>2 DEF Outstanding
<1>4. QED BY <1>1, <1>2, <1>3

\* deliver_io loses no wakeup: the answer received was for a task it wakes, or
\* for one that no longer waits.
LEMMA DeliverIoWakeups ==
  ASSUME TypeOK, NoLostWakeup, DeliverIo
  PROVE  NoLostWakeup'
<1> DEFINE task == Head(channel)
           left == IF ioInFlight = 0 THEN 0 ELSE ioInFlight - 1
<1>1. /\ channel \in Seq(Slot) /\ channel # <<>> /\ task \in Slot /\ Tail(channel) \in Seq(Slot)
      /\ ioQueue \in Seq(Slot) /\ left \in Nat
  BY TailType DEF TypeOK, IoType, DeliverIo
<1>2. \A s \in Slot : InSeq(channel, s) /\ s # task => InSeq(Tail(channel), s)
  BY <1>1, TailIn
<1>3. ASSUME NEW s \in Slot, s # task, Outstanding(s) PROVE Outstanding(s)'
  <2>1. CASE ioQueue = <<>>
    <3>1. channel' = Tail(channel) /\ workers' = workers /\ ioQueue' = ioQueue
      BY <2>1 DEF DeliverIo
    <3>2. QED BY <1>2, <1>3, <3>1 DEF Outstanding
  <2>2. CASE ioQueue # <<>>
    <3>1. StartIo(Head(ioQueue), left, Tail(ioQueue), Tail(channel))
      BY <2>2 DEF DeliverIo
    <3>2. /\ Head(ioQueue) \in Slot /\ Tail(ioQueue) \in Seq(Slot)
          /\ InSeq(ioQueue, s) => InSeq(Tail(ioQueue), s) \/ s = Head(ioQueue)
      BY <1>1, <2>2, TailType, TailIn
    <3>3. InSeq(Tail(ioQueue), s) \/ s = Head(ioQueue) \/ s \in workers \/ InSeq(Tail(channel), s)
      BY <1>2, <1>3, <3>2 DEF Outstanding
    <3> HIDE DEF left
    <3>4. QED BY <1>1, <3>1, <3>2, <3>3, StartIoOutstanding
  <2>3. QED BY <2>1, <2>2
<1>4. UNCHANGED <<timers, waiters, finished>>
  BY DEF DeliverIo
<1> HIDE DEF left
<1>5. ASSUME NEW s \in Slot PROVE WakeupComes(s)'
  <2>0. WakeupComes(s)
    BY DEF NoLostWakeup
  <2>1. CASE state[task] = "WaitingIo"
    <3>1. Wake(task)
      BY <2>1 DEF DeliverIo
    <3>2. CASE s = task
      BY <1>1, <3>1, <3>2, WakeQueues
    <3>3. CASE s # task
      <4>1. state'[s] = state[s] /\ until'[s] = until[s] /\ joinee'[s] = joinee[s]
        BY <1>1, <3>1, <3>3, WakeQueues
      <4>2. \A q \in Slot : state[q] # "Done" => state'[q] # "Done"
        BY <1>1, <3>1, WakeQueues
      <4>3. InSeq(ready, s) => InSeq(ready', s)
        BY <1>1, <3>1, WakeQueues
      <4>4. state[s] = "WaitingOnTask" => joinee[s] \in Slot
        BY DEF TypeOK, TasksType
      <4>5. QED
        BY <1>3, <1>4, <2>0, <3>3, <4>1, <4>2, <4>3, <4>4, WakeupKept DEF HasTimer, WakeupComes
    <3>4. QED BY <3>2, <3>3
  <2>2. CASE state[task] # "WaitingIo"
    <3>1. UNCHANGED <<state, until, joinee, ready>>
      BY <2>2 DEF DeliverIo, WakeNobody
    <3>2. state[s] = "WaitingIo" => s # task
      BY <2>2
    <3>3. QED BY <1>3, <1>4, <2>0, <3>1, <3>2, WakeupKept DEF HasTimer, WakeupComes
  <2>3. QED BY <2>1, <2>2
<1>6. QED BY <1>5 DEF NoLostWakeup

\* Ending a task loses no wakeup: while its waiters are being woken, finished
\* names it.
LEMMA EndingWakeups ==
  ASSUME TypeOK, SlotsOK, NoLostWakeup, NEW t \in Slot, finished = 0, finished' = t,
         \A q \in Slot : state'[q] = IF q = t THEN "Done" ELSE state[q],
         \A q \in Slot : q # t => until'[q] = until[q] /\ joinee'[q] = joinee[q],
         UNCHANGED <<ready, waiters, ioQueue, workers, channel>>,
         \A q \in Slot : state[q] \in {"SleepUntil", "WaitingOnTask"} /\ HasTimer(q) =>
                           <<until[q], q>> \in timers'
  PROVE  NoLostWakeup'
<1>1. ASSUME NEW s \in Slot PROVE WakeupComes(s)'
  <2>0. WakeupComes(s)
    BY DEF NoLostWakeup
  <2>1. CASE s = t
    BY <2>1, NoWakeupNeeded
  <2>2. CASE s # t
    <3>1. state'[s] = state[s] /\ until'[s] = until[s] /\ joinee'[s] = joinee[s]
      BY <2>2
    <3>2. state[s] = "WaitingOnTask" => state'[joinee[s]] # "Done" \/ finished' = joinee[s]
      <4>1. ASSUME state[s] = "WaitingOnTask"
            PROVE  joinee[s] \in Slot /\ state[joinee[s]] # "Done"
        BY <2>0, <4>1, JoineeFacts, ConstantsAssumption DEF WakeupComes, Slot
      <4>2. QED BY <4>1
    <3>3. Outstanding(s) => Outstanding(s)'
      BY DEF Outstanding
    <3>4. state[s] \in {"SleepUntil", "WaitingOnTask"} /\ HasTimer(s) => HasTimer(s)'
      BY <3>1 DEF HasTimer
    <3>5. QED BY <2>0, <3>1, <3>2, <3>3, <3>4, WakeupKept
  <2>3. QED BY <2>1, <2>2
<1>2. QED BY <1>1 DEF NoLostWakeup

\* Adding a task that is over, or ready and queued, loses no wakeup.
LEMMA AddingWakeups ==
  ASSUME TypeOK, SlotsOK, NoLostWakeup, NEW t \in Slot,
         \A q \in Slot : q # t => state'[q] = state[q],
         \/ state'[t] = "Done" /\ t = len + 1
         \/ state'[t] = "Ready" /\ InSeq(ready', t),
         \A q \in Slot : InSeq(ready, q) => InSeq(ready', q),
         UNCHANGED <<until, joinee, waiters, ioQueue, workers, channel, finished>>,
         \A q \in Slot : state[q] \in {"SleepUntil", "WaitingOnTask"} /\ HasTimer(q) =>
                           <<until[q], q>> \in timers'
  PROVE  NoLostWakeup'
<1>1. ASSUME NEW s \in Slot PROVE WakeupComes(s)'
  <2>0. WakeupComes(s)
    BY DEF NoLostWakeup
  <2>1. CASE s = t
    BY <2>1 DEF WakeupComes
  <2>2. CASE s # t
    <3>1. state'[s] = state[s] /\ until'[s] = until[s] /\ joinee'[s] = joinee[s]
      BY <2>2
    <3>2. state[s] = "WaitingOnTask" => state'[joinee[s]] # "Done" \/ finished' = joinee[s]
      <4>1. ASSUME state[s] = "WaitingOnTask"
            PROVE  /\ joinee[s] \in Slot /\ joinee[s] # len + 1
                   /\ state[joinee[s]] # "Done" \/ finished = joinee[s]
        BY <2>0, <4>1, JoineeFacts DEF WakeupComes
      <4>2. QED BY <4>1
    <3>3. Outstanding(s) => Outstanding(s)'
      BY DEF Outstanding
    <3>4. state[s] \in {"SleepUntil", "WaitingOnTask"} /\ HasTimer(s) => HasTimer(s)'
      BY <3>1 DEF HasTimer
    <3>5. QED BY <2>0, <3>1, <3>2, <3>3, <3>4, WakeupKept
  <2>3. QED BY <2>1, <2>2
<1>2. QED BY <1>1 DEF NoLostWakeup

\* Leaving a loop loses no wakeup.
LEMMA LeaveWakeups ==
  ASSUME TypeOK, PcOK, SlotsOK, NoLostWakeup, drives # <<>>, finished = 0, NEW r, Leave(r),
         UNCHANGED <<until, joinee, ready, waiters, ioQueue, workers, channel>>,
         \A q \in Slot : state[q] \in {"SleepUntil", "WaitingOnTask"} /\ HasTimer(q) =>
                           <<until[q], q>> \in timers'
  PROVE  NoLostWakeup'
<1>1. CASE Resume(r) \/ ExitProgram(r)
  <2>1. UNCHANGED <<state, finished>>
    BY <1>1 DEF Resume, ExitProgram
  <2>2. ASSUME NEW s \in Slot PROVE WakeupComes(s)'
    <3>1. WakeupComes(s)
      BY DEF NoLostWakeup
    <3>2. QED BY <2>1, <3>1 DEF WakeupComes, HasTimer, Outstanding
  <2>3. QED BY <2>2 DEF NoLostWakeup
<1>2. CASE Propagate(r)
  <2>1. Top.caller \in Slot
    BY <1>2, CallerFacts DEF Propagate, TypeOK
  <2>2. /\ finished' = Top.caller
        /\ \A q \in Slot : state'[q] = IF q = Top.caller THEN "Done" ELSE state[q]
    BY <1>2, <2>1 DEF Propagate, TypeOK, TasksType
  <2>3. QED BY <2>1, <2>2, EndingWakeups
<1>3. CASE PushFinished(r)
  <2>1. len + 1 \in Slot
    BY <1>3, ConstantsAssumption DEF PushFinished, PushDone, TypeOK, TasksType, Slot
  <2>2. UNCHANGED finished /\ \A q \in Slot : state'[q] = IF q = len + 1 THEN "Done" ELSE state[q]
    BY <1>3, <2>1 DEF PushFinished, PushDone, TypeOK, TasksType
  <2>3. QED BY <2>1, <2>2, AddingWakeups
<1>4. QED BY <1>1, <1>2, <1>3 DEF Leave

\* Discarding timers that are not live loses no wakeup.
LEMMA PruneKeeps ==
  ASSUME TypeOK, PruneTimers, NEW s \in Slot, state[s] \in {"SleepUntil", "WaitingOnTask"},
         HasTimer(s)
  PROVE  <<until[s], s>> \in timers'
<1>1. until[s] \in Nat
  BY TimeFacts DEF TypeOK, TasksType
<1>2. <<until[s], s>> \in LiveTimers
  BY DEF HasTimer, LiveTimers, TimerIsLive
<1>3. NotAfter(<<until[s], s>>, <<until[s], s>>)
  BY <1>1 DEF NotAfter, Slot
<1>4. QED BY <1>2, <1>3 DEF PruneTimers, LiveTimers

\* No step loses a wakeup.
LEMMA WakeupStep ==
  ASSUME TypeOK, PcOK, SlotsOK, NoLostWakeup, [Next]_vars
  PROVE  NoLostWakeup'
<1> USE DEF ioVars
<1>0. \A s \in Slot : WakeupComes(s)
  BY DEF NoLostWakeup
<1>1. CASE DriveReturns \/ ReportDeadlock
  <2>1. PICK r : Leave(r)
    BY <1>1 DEF DriveReturns, ReportDeadlock
  <2>2. /\ drives # <<>> /\ finished = 0
        /\ UNCHANGED <<until, joinee, ready, waiters, ioQueue, workers, channel>>
    BY <1>1 DEF DriveReturns, ReportDeadlock, Deadlocked, NothingReady, PcOK, queueVars
  <2>3. timers' = timers \/ PruneTimers
    BY <1>1 DEF DriveReturns, ReportDeadlock, queueVars
  <2>4. \A q \in Slot : state[q] \in {"SleepUntil", "WaitingOnTask"} /\ HasTimer(q) =>
                           <<until[q], q>> \in timers'
    BY <2>3, PruneKeeps DEF HasTimer
  <2>5. QED BY <2>1, <2>2, <2>4, LeaveWakeups
<1>2. CASE DriveCancels
  <2>1. Target \in Slot
    BY <1>2, SlotsFacts DEF DriveCancels
  <2>2. /\ \A q \in Slot : state'[q] = IF q = Target THEN "Done" ELSE state[q]
        /\ \A q \in Slot : q # Target => until'[q] = until[q] /\ joinee'[q] = joinee[q]
    BY <1>2, <2>1 DEF DriveCancels, TypeOK, TasksType
  <2>3. /\ finished = 0 /\ finished' = Target
        /\ UNCHANGED <<ready, waiters, ioQueue, workers, channel, timers>>
    BY <1>2 DEF DriveCancels, PcOK, queueVars
  <2>4. QED BY <2>1, <2>2, <2>3, EndingWakeups DEF HasTimer
<1>3. CASE DrainIo \/ ReceiveIo
  BY <1>3, DeliverIoWakeups DEF DrainIo, ReceiveIo
<1>4. CASE FireTimer
  <2>1. PICK tm \in timers : /\ timers' = timers \ {tm}
                             /\ IF TimerIsLive(tm) THEN Wake(tm[2]) ELSE WakeNobody
    BY <1>4 DEF FireTimer
  <2>2. UNCHANGED <<waiters, ioQueue, workers, channel, finished>>
    BY <1>4 DEF FireTimer
  <2>3. tm[2] \in Slot /\ tm = <<tm[1], tm[2]>>
    BY DEF TypeOK, QueuesType
  <2>4. ASSUME NEW s \in Slot PROVE WakeupComes(s)'
    <3>1. CASE TimerIsLive(tm)
      <4>1. Wake(tm[2])
        BY <2>1, <3>1
      <4>2. CASE s = tm[2]
        BY <2>3, <4>1, <4>2, WakeQueues
      <4>3. CASE s # tm[2]
        <5>1. /\ state'[s] = state[s] /\ until'[s] = until[s] /\ joinee'[s] = joinee[s]
              /\ InSeq(ready, s) => InSeq(ready', s)
          BY <2>3, <4>1, <4>3, WakeQueues
        <5>2. HasTimer(s) => HasTimer(s)'
          BY <2>1, <2>3, <4>3, <5>1 DEF HasTimer
        <5>3. state[s] = "WaitingOnTask" => state'[joinee[s]] # "Done" \/ finished' = joinee[s]
          <6>1. state[s] = "WaitingOnTask" => joinee[s] \in Slot
            BY JoineeFacts
          <6>2. \A q \in Slot : state[q] # "Done" => state'[q] # "Done"
            BY <2>3, <4>1, WakeQueues
          <6>3. QED BY <1>0, <2>2, <6>1, <6>2 DEF WakeupComes
        <5>4. Outstanding(s) => Outstanding(s)'
          BY <2>2 DEF Outstanding
        <5>5. QED BY <1>0, <2>2, <5>1, <5>2, <5>3, <5>4, WakeupKept
      <4>4. QED BY <4>2, <4>3
    <3>2. CASE ~TimerIsLive(tm)
      <4>1. UNCHANGED <<state, until, joinee, ready>>
        BY <2>1, <3>2 DEF WakeNobody
      <4>2. state[s] \in {"SleepUntil", "WaitingOnTask"} => tm # <<until[s], s>>
        BY <3>2 DEF TimerIsLive
      <4>3. state[s] \in {"SleepUntil", "WaitingOnTask"} /\ HasTimer(s) => HasTimer(s)'
        BY <2>1, <4>1, <4>2 DEF HasTimer
      <4>4. state[s] = "WaitingOnTask" => state'[joinee[s]] # "Done" \/ finished' = joinee[s]
        BY <1>0, <2>2, <4>1 DEF WakeupComes
      <4>5. Outstanding(s) => Outstanding(s)'
        BY <2>2 DEF Outstanding
      <4>6. QED BY <1>0, <2>2, <4>1, <4>3, <4>4, <4>5, WakeupKept
    <3>3. QED BY <3>1, <3>2
  <2>5. QED BY <2>4 DEF NoLostWakeup
<1>5. CASE PickTask \/ SkipStale
  <2>1. /\ ready \in Seq(Slot) /\ ready # <<>> /\ ready' = Tail(ready)
        /\ UNCHANGED <<until, joinee, timers, waiters, ioQueue, workers, channel, finished>>
    BY <1>5 DEF PickTask, SkipStale, TypeOK, QueuesType, taskVars
  <2>2. Head(ready) \in Slot
    BY <2>1, TailType
  <2>3. \A s \in Slot : s # Head(ready) /\ InSeq(ready, s) => InSeq(ready', s)
    BY <2>1, TailIn
  <2>4. /\ \A s \in Slot : s # Head(ready) => state'[s] = state[s]
        /\ \/ state'[Head(ready)] = "Running"
           \/ state' = state /\ state[Head(ready)] # "Ready"
    BY <1>5, <2>2 DEF PickTask, SkipStale, taskVars, TypeOK, TasksType
  <2>5. ASSUME NEW s \in Slot PROVE WakeupComes(s)'
    <3>1. CASE state'[s] = "Running"
      BY <3>1, NoWakeupNeeded
    <3>2. CASE state'[s] # "Running"
      <4>1. state'[s] = state[s] /\ (state[s] = "Ready" => s # Head(ready))
        BY <2>4, <3>2
      <4>2. state[s] = "WaitingOnTask" => state'[joinee[s]] # "Done" \/ finished' = joinee[s]
        <5>1. state[s] = "WaitingOnTask" => joinee[s] \in Slot
          BY JoineeFacts
        <5>2. QED BY <1>0, <2>1, <2>4, <5>1 DEF WakeupComes
      <4>3. (Outstanding(s) => Outstanding(s)') /\ (HasTimer(s) => HasTimer(s)')
        BY <2>1 DEF Outstanding, HasTimer
      <4>4. QED BY <1>0, <2>1, <2>3, <4>1, <4>2, <4>3, WakeupKept
    <3>3. QED BY <3>1, <3>2
  <2>6. QED BY <2>5 DEF NoLostWakeup
<1>6. CASE Block
  <2>1. /\ PruneTimers
        /\ UNCHANGED <<state, until, joinee, ready, waiters, ioQueue, workers, channel, finished>>
    BY <1>6 DEF Block, taskVars
  <2>2. ASSUME NEW s \in Slot PROVE WakeupComes(s)'
    <3>1. state[s] \in {"SleepUntil", "WaitingOnTask"} /\ HasTimer(s) => HasTimer(s)'
      BY <2>1, PruneKeeps DEF HasTimer
    <3>2. Outstanding(s) => Outstanding(s)'
      BY <2>1 DEF Outstanding
    <3>3. QED BY <1>0, <2>1, <3>1, <3>2 DEF WakeupComes
  <2>3. QED BY <2>2 DEF NoLostWakeup
<1>7. ASSUME NEW reason, NEW when, NEW c \in Slot, c = current, Suspend(reason, when),
             \A q \in Slot : q # c => joinee'[q] = joinee[q],
             \A q \in Slot : q # c =>
               \A h \in Slot : InSeq(waiters[h], q) => InSeq(waiters'[h], q),
             \A q \in Slot : q # c /\ Outstanding(q) => Outstanding(q)',
             reason # "Done",
             WakeupComes(c)'
      PROVE  NoLostWakeup'
  <2>2. /\ state'[c] = reason
        /\ \A q \in Slot : q # c => state'[q] = state[q] /\ until'[q] = until[q]
    BY <1>7 DEF Suspend, TypeOK, TasksType
  <2>3. timers \subseteq timers' /\ UNCHANGED <<ready, finished>>
    BY <1>7 DEF Suspend
  <2>4. ASSUME NEW s \in Slot, s # c PROVE WakeupComes(s)'
    <3>1. HasTimer(s) => HasTimer(s)'
      BY <2>2, <2>3, <2>4 DEF HasTimer
    <3>2. state[s] = "WaitingOnTask" => joinee[s] \in Slot
      BY JoineeFacts
    <3>3. state[s] = "WaitingOnTask" => state'[joinee[s]] # "Done" \/ finished' = joinee[s]
      BY <1>0, <1>7, <2>2, <2>3, <3>2 DEF WakeupComes
    <3>4. QED BY <1>0, <1>7, <2>2, <2>3, <2>4, <3>1, <3>2, <3>3, WakeupKept
  <2>5. QED BY <1>7, <2>4 DEF NoLostWakeup
<1>8. ASSUME NEW d \in Delays, Sleep(d) PROVE NoLostWakeup'
  <2>1. PICK c \in Slot : c = current
    BY <1>8 DEF Sleep, Suspend, Running, PcOK, TypeOK, LoopType
  <2>2. Suspend("SleepUntil", now + d) /\ UNCHANGED <<joinee, waiters, ioQueue, workers, channel>>
    BY <1>8 DEF Sleep
  <2>3. now + d # Never
    BY <1>8, ConstantsAssumption DEF Sleep, Never, TypeOK, LoopType
  <2>4. /\ state'[c] = "SleepUntil" /\ until'[c] = now + d
        /\ <<now + d, c>> \in timers'
    BY <2>1, <2>2, <2>3 DEF Suspend, TypeOK, TasksType
  <2>5. WakeupComes(c)'
    BY <2>4, <2>2 DEF WakeupComes, HasTimer, Suspend
  <2>6. \A q \in Slot : Outstanding(q) => Outstanding(q)'
    BY <2>2 DEF Outstanding
  <2>7. QED BY <1>7, <2>1, <2>2, <2>5, <2>6
<1>9. ASSUME NEW h \in handles, NEW d \in Delays \cup {Never}, JoinBlocks(h, d)
      PROVE  NoLostWakeup'
  <2> DEFINE when == IF d = Never THEN Never ELSE now + d
  <2>0. PICK c \in Slot : c = current
    BY <1>9 DEF JoinBlocks, Suspend, Running, PcOK, TypeOK, LoopType
  <2>1. c = current /\ h \in Slot
    BY <2>0 DEF TypeOK, LoopType
  <2>2. Suspend("WaitingOnTask", when) /\ UNCHANGED <<ioQueue, workers, channel>>
    BY <1>9 DEF JoinBlocks
  <2>3. /\ waiters[h] \in Seq(Slot) /\ waiters'[h] = Append(waiters[h], current)
        /\ \A g \in Slot : g # h => waiters'[g] = waiters[g]
        /\ joinee'[c] = h /\ \A q \in Slot : q # c => joinee'[q] = joinee[q]
    BY <1>9, <2>1 DEF JoinBlocks, TypeOK, TasksType, QueuesType
  <2>4. \A q \in Slot : InSeq(waiters'[h], q) <=> InSeq(waiters[h], q) \/ q = c
    BY <2>1, <2>3, AppendIn
  <2>5. /\ state'[c] = "WaitingOnTask" /\ until'[c] = when
        /\ when # Never => <<when, c>> \in timers'
        /\ \A q \in Slot : q # c => state'[q] = state[q]
    <3> HIDE DEF when
    <3>1. QED BY <2>1, <2>2 DEF Suspend, TypeOK, TasksType
  <2> HIDE DEF when
  <2>6. state'[h] # "Done"
    BY <1>9, <2>1, <2>5 DEF JoinBlocks
  <2>7. WakeupComes(c)'
    BY <2>1, <2>3, <2>4, <2>5, <2>6 DEF WakeupComes, HasTimer
  <2>8. \A q \in Slot : Outstanding(q) => Outstanding(q)'
    BY <2>2 DEF Outstanding
  <2>9. \A q \in Slot, g \in Slot : InSeq(waiters[g], q) => InSeq(waiters'[g], q)
    BY <2>3, <2>4
  <2>10. QED BY <1>7, <2>1, <2>2, <2>3, <2>7, <2>8, <2>9
<1>10. CASE HttpRequest
  <2>1. PICK c \in Slot : c = current
    BY <1>10 DEF HttpRequest, Suspend, Running, PcOK, TypeOK, LoopType
  <2>2. /\ Suspend("WaitingIo", Never) /\ UNCHANGED <<joinee, waiters>>
        /\ StartIo(current, ioInFlight, ioQueue, channel)
    BY <1>10 DEF HttpRequest
  <2>3. /\ Outstanding(c)'
        /\ \A q \in Slot : Outstanding(q) => Outstanding(q)'
    BY <2>1, <2>2, StartIoOutstanding DEF TypeOK, IoType, Outstanding
  <2>4. state'[c] = "WaitingIo"
    BY <2>1, <2>2 DEF Suspend, TypeOK, TasksType
  <2>5. WakeupComes(c)'
    BY <2>3, <2>4 DEF WakeupComes
  <2>6. QED BY <1>7, <2>1, <2>2, <2>3, <2>5
<1>11. ASSUME NEW r, Finish(r) PROVE NoLostWakeup'
  <2>1. current \in Slot /\ finished = 0 /\ finished' = current
    BY <1>11 DEF Finish, Running, PcOK, TypeOK, LoopType
  <2>2. /\ \A q \in Slot : state'[q] = IF q = current THEN "Done" ELSE state[q]
        /\ UNCHANGED <<until, joinee, ready, waiters, ioQueue, workers, channel, timers>>
    BY <1>11, <2>1 DEF Finish, TypeOK, TasksType, queueVars
  <2>3. QED BY <2>1, <2>2, EndingWakeups DEF HasTimer
<1>12. CASE TaskEnds \/ SpawnOverLimit \/ CallTooDeep
  BY <1>11, <1>12 DEF TaskEnds, SpawnOverLimit, CallTooDeep
<1>13. CASE Spawn
  <2>1. len + 1 \in Slot /\ ready \in Seq(Slot)
    BY <1>13, PendingPushesType, ConstantsAssumption
       DEF Spawn, Room, TypeOK, TasksType, QueuesType, Slot
  <2>2. /\ \A q \in Slot : state'[q] = IF q = len + 1 THEN "Ready" ELSE state[q]
        /\ ready' = Append(ready, len + 1)
        /\ UNCHANGED <<until, joinee, waiters, ioQueue, workers, channel, finished, timers>>
    BY <1>13, <2>1 DEF Spawn, TypeOK, TasksType
  <2>3. \A q \in Slot : InSeq(ready', q) <=> InSeq(ready, q) \/ q = len + 1
    BY <2>1, <2>2, AppendIn
  <2>4. QED BY <2>1, <2>2, <2>3, AddingWakeups DEF HasTimer
<1>14. CASE SpawnTooDeep
  <2>1. len + 1 \in Slot
    BY <1>14, ConstantsAssumption DEF SpawnTooDeep, PushDone, TypeOK, TasksType, Slot
  <2>2. /\ \A q \in Slot : state'[q] = IF q = len + 1 THEN "Done" ELSE state[q]
        /\ UNCHANGED <<until, joinee, ready, waiters, ioQueue, workers, channel, finished, timers>>
    BY <1>14, <2>1 DEF SpawnTooDeep, PushDone, TypeOK, TasksType, queueVars
  <2>3. QED BY <2>1, <2>2, AddingWakeups DEF HasTimer
<1>15. ASSUME NEW how \in Kinds, NEW d \in Budgets \cup {Never}, Call(how, d)
       PROVE  NoLostWakeup'
  <2>1. NewSlot \in Slot /\ ready \in Seq(Slot)
    BY <1>15, CallDrive DEF TypeOK, QueuesType
  <2>2. /\ \A q \in Slot : state'[q] = IF q = NewSlot THEN "Ready" ELSE state[q]
        /\ ready' = Append(ready, NewSlot)
        /\ UNCHANGED <<until, joinee, waiters, ioQueue, workers, channel, finished, timers>>
    BY <1>15, <2>1 DEF Call, TypeOK, TasksType
  <2>3. \A q \in Slot : InSeq(ready', q) <=> InSeq(ready, q) \/ q = NewSlot
    BY <2>1, <2>2, AppendIn
  <2>4. QED BY <2>1, <2>2, <2>3, AddingWakeups DEF HasTimer
<1>16. CASE NotifyWaiter
  <2> DEFINE w == Head(waiters[finished])
  <2>1. finished \in Slot /\ waiters[finished] \in Seq(Slot) /\ waiters[finished] # <<>>
    BY <1>16 DEF NotifyWaiter, PcOK, TypeOK, LoopType, QueuesType
  <2>2. w \in Slot
    BY <2>1, TailType
  <2>3. /\ waiters'[finished] = Tail(waiters[finished])
        /\ \A g \in Slot : g # finished => waiters'[g] = waiters[g]
    BY <1>16, <2>1 DEF NotifyWaiter, TypeOK, QueuesType
  <2>4. \A q \in Slot : InSeq(waiters[finished], q) <=> InSeq(waiters'[finished], q) \/ q = w
    BY <2>1, <2>3, TailIn
  <2>5. UNCHANGED <<timers, ioQueue, workers, channel, finished>>
    BY <1>16 DEF NotifyWaiter
  <2>6. ASSUME NEW s \in Slot,
               state[s] = "WaitingOnTask" => s # w \/ joinee[s] # finished
        PROVE  state[s] = "WaitingOnTask" /\ InSeq(waiters[joinee[s]], s) =>
                 InSeq(waiters'[joinee[s]], s)
    <3>1. state[s] = "WaitingOnTask" => joinee[s] \in Slot
      BY JoineeFacts
    <3>2. QED BY <2>3, <2>4, <2>6, <3>1
  <2>7. ASSUME NEW s \in Slot PROVE WakeupComes(s)'
    <3>0. (HasTimer(s) => <<until[s], s>> \in timers') /\ (Outstanding(s) => Outstanding(s)')
      BY <2>5 DEF HasTimer, Outstanding
    <3>1. CASE state[w] = "WaitingOnTask" /\ joinee[w] = finished
      <4>1. Wake(w)
        BY <1>16, <3>1 DEF NotifyWaiter
      <4> HIDE DEF w
      <4>2. CASE s = w
        BY <2>2, <4>1, <4>2, WakeQueues
      <4>3. CASE s # w
        <5>1. /\ state'[s] = state[s] /\ until'[s] = until[s] /\ joinee'[s] = joinee[s]
              /\ InSeq(ready, s) => InSeq(ready', s)
              /\ \A q \in Slot : state[q] # "Done" => state'[q] # "Done"
          BY <2>2, <4>1, <4>3, WakeQueues
        <5>2. state[s] = "WaitingOnTask" => state'[joinee[s]] # "Done" \/ finished' = joinee[s]
          BY <1>0, <2>5, <5>1, JoineeFacts DEF WakeupComes
        <5>3. HasTimer(s) => HasTimer(s)'
          BY <3>0, <5>1 DEF HasTimer
        <5>4. QED BY <1>0, <2>6, <3>0, <4>3, <5>1, <5>2, <5>3, WakeupKept
      <4>4. QED BY <4>2, <4>3
    <3>2. CASE ~(state[w] = "WaitingOnTask" /\ joinee[w] = finished)
      <4>1. UNCHANGED <<state, until, joinee, ready>>
        BY <1>16, <3>2 DEF NotifyWaiter, WakeNobody
      <4> HIDE DEF w
      <4>2. state[s] = "WaitingOnTask" => state'[joinee[s]] # "Done" \/ finished' = joinee[s]
        BY <1>0, <2>5, <4>1 DEF WakeupComes
      <4>3. HasTimer(s) => HasTimer(s)'
        BY <3>0, <4>1 DEF HasTimer
      <4>4. QED BY <1>0, <2>6, <3>0, <3>2, <4>1, <4>2, <4>3, WakeupKept
    <3>3. QED BY <3>1, <3>2
  <2>8. QED BY <2>7 DEF NoLostWakeup
<1>17. CASE AllNotified
  <2>1. /\ finished \in Slot /\ waiters[finished] = <<>>
        /\ UNCHANGED <<state, until, joinee, ready, timers, waiters, ioQueue, workers, channel>>
    BY <1>17 DEF AllNotified, PcOK, TypeOK, LoopType, taskVars, queueVars
  <2>2. \A s \in Slot : ~InSeq(waiters[finished], s)
    BY <2>1 DEF InSeq
  <2>3. ASSUME NEW s \in Slot PROVE WakeupComes(s)'
    <3>1. state[s] = "WaitingOnTask" => state[joinee[s]] # "Done"
      BY <1>0, <2>2 DEF WakeupComes
    <3>2. QED BY <1>0, <2>1, <3>1 DEF WakeupComes, HasTimer, Outstanding
  <2>4. QED BY <2>3 DEF NoLostWakeup
<1>18. ASSUME NEW x \in Slot, WorkerAnswers(x) PROVE NoLostWakeup'
  <2>1. /\ UNCHANGED <<state, until, joinee, ready, timers, waiters, ioQueue, finished>>
        /\ workers' = workers \ {x} /\ channel' = Append(channel, x) /\ channel \in Seq(Slot)
    BY <1>18 DEF WorkerAnswers, taskVars, queueVars, TypeOK, IoType
  <2>2. \A s \in Slot : InSeq(channel', s) <=> InSeq(channel, s) \/ s = x
    BY <2>1, AppendIn
  <2>3. ASSUME NEW s \in Slot PROVE WakeupComes(s)'
    <3>1. Outstanding(s) => Outstanding(s)'
      BY <2>1, <2>2 DEF Outstanding
    <3>2. QED BY <1>0, <2>1, <3>1 DEF WakeupComes, HasTimer
  <2>4. QED BY <2>3 DEF NoLostWakeup
<1>19. CASE \/ DriveContinues \/ DrainEnds \/ TimersFired \/ WakeUp
            \/ (\E h \in handles : JoinReturns(h)) \/ Tick \/ Halted \/ UNCHANGED vars
  <2>1. UNCHANGED <<state, until, joinee, ready, timers, waiters, ioQueue, workers, channel, finished>>
    BY <1>19 DEF DriveContinues, DrainEnds, TimersFired, WakeUp, JoinReturns, Tick, Halted, vars,
                 taskVars, queueVars
  <2>2. ASSUME NEW s \in Slot PROVE WakeupComes(s)'
    BY <1>0, <2>1 DEF WakeupComes, HasTimer, Outstanding
  <2>3. QED BY <2>2 DEF NoLostWakeup
<1>20. QED
  BY <1>1, <1>2, <1>3, <1>4, <1>5, <1>6, <1>8, <1>9, <1>10, <1>12, <1>13, <1>14, <1>15, <1>16,
     <1>17, <1>18, <1>19, NextCases

-----------------------------------------------------------------------------
(* What single steps do to the tasks.                                        *)

WakeStep == DrainIo \/ ReceiveIo \/ FireTimer \/ NotifyWaiter
SuspendStep ==
  \/ \E d \in Delays : Sleep(d)
  \/ \E h \in handles, d \in Delays \cup {Never} : JoinBlocks(h, d)
  \/ HttpRequest
FinishStep == TaskEnds \/ SpawnOverLimit \/ CallTooDeep
LeaveStep == DriveReturns \/ ReportDeadlock
QuietStep ==
  \/ DriveContinues \/ DrainEnds \/ TimersFired \/ WakeUp \/ SkipStale \/ Block
  \/ (\E h \in handles : JoinReturns(h)) \/ AllNotified \/ Tick \/ Halted \/ UNCHANGED vars

\* The steps, by what they do to the tasks.
LEMMA StepCases ==
  ASSUME [Next]_vars
  PROVE  \/ WakeStep \/ SuspendStep \/ FinishStep \/ LeaveStep \/ QuietStep
         \/ DriveCancels \/ PickTask \/ Spawn \/ SpawnTooDeep
         \/ (\E how \in Kinds, d \in Budgets \cup {Never} : Call(how, d))
         \/ (\E x \in Slot : WorkerAnswers(x))
  BY NextCases DEF WakeStep, SuspendStep, FinishStep, LeaveStep, QuietStep

\* A step that wakes tasks makes some suspended task ready and changes no other.
LEMMA WakeStepFacts ==
  ASSUME TypeOK, PcOK, WakeStep
  PROVE  /\ UNCHANGED <<result, deadline, cancelled, len, drives, current, currentDeadline,
                        freeSlots, handles>>
         /\ \A s \in Slot : state'[s] = state[s] \/
              (state[s] \in {"SleepUntil", "WaitingOnTask", "WaitingIo"} /\ state'[s] = "Ready")
<1>1. UNCHANGED <<result, deadline, cancelled, len, drives, current, currentDeadline,
                  freeSlots, handles>>
  BY DEF WakeStep, DrainIo, ReceiveIo, DeliverIo, FireTimer, NotifyWaiter, driveVars, userVars
<1>2. \/ WakeNobody
      \/ \E w \in Slot : state[w] \in {"SleepUntil", "WaitingOnTask", "WaitingIo"} /\ Wake(w)
  <2>1. CASE DrainIo \/ ReceiveIo
    <3>1. Head(channel) \in Slot
      BY <2>1, TailType DEF DrainIo, ReceiveIo, DeliverIo, TypeOK, IoType
    <3>2. QED BY <2>1, <3>1 DEF DrainIo, ReceiveIo, DeliverIo
  <2>2. CASE FireTimer
    <3>1. PICK tm \in timers : IF TimerIsLive(tm) THEN Wake(tm[2]) ELSE WakeNobody
      BY <2>2 DEF FireTimer
    <3>2. tm[2] \in Slot
      BY DEF TypeOK, QueuesType
    <3>3. QED BY <3>1, <3>2 DEF TimerIsLive
  <2>3. CASE NotifyWaiter
    <3>1. finished \in Slot /\ waiters[finished] \in Seq(Slot) /\ waiters[finished] # <<>>
      BY <2>3 DEF NotifyWaiter, PcOK, TypeOK, LoopType, QueuesType
    <3>2. Head(waiters[finished]) \in Slot
      BY <3>1, TailType
    <3>3. QED BY <2>3, <3>2 DEF NotifyWaiter
  <2>4. QED BY <2>1, <2>2, <2>3 DEF WakeStep
<1>3. QED BY <1>1, <1>2 DEF Wake, WakeNobody, TypeOK, TasksType

\* A step that suspends the task in hand changes no other task.
LEMMA SuspendStepFacts ==
  ASSUME TypeOK, PcOK, SuspendStep
  PROVE  /\ current \in Slot /\ current' = 0 /\ pc = "run"
         /\ UNCHANGED <<result, deadline, cancelled, len, drives, freeSlots, handles>>
         /\ state'[current] \in {"SleepUntil", "WaitingOnTask", "WaitingIo"}
         /\ \A s \in Slot : s # current => state'[s] = state[s]
<1>0. PICK reason \in {"SleepUntil", "WaitingOnTask", "WaitingIo"} : \E when : Suspend(reason, when)
  BY DEF SuspendStep, Sleep, JoinBlocks, HttpRequest
<1>1. PICK when : Suspend(reason, when)
  BY <1>0
<1>2. current \in Slot
  BY <1>1 DEF Suspend, Running, PcOK, TypeOK, LoopType
<1>3. QED BY <1>1, <1>2 DEF Suspend, Running, TypeOK, TasksType

\* A step that ends the task in hand changes no other task.
LEMMA FinishStepFacts ==
  ASSUME TypeOK, PcOK, FinishStep
  PROVE  /\ current \in Slot /\ current' = 0 /\ pc = "run"
         /\ UNCHANGED <<until, joinee, deadline, cancelled, len, drives, freeSlots, handles,
                        ioInFlight, ioQueue, workers, channel>>
         /\ \A s \in Slot : state'[s] = IF s = current THEN "Done" ELSE state[s]
         /\ \A s \in Slot : s # current => result'[s] = result[s]
<1>1. PICK r : Finish(r)
  BY DEF FinishStep, TaskEnds, SpawnOverLimit, CallTooDeep
<1>2. current \in Slot
  BY <1>1 DEF Finish, Running, PcOK, TypeOK, LoopType
<1>3. QED BY <1>1, <1>2 DEF Finish, Running, TypeOK, TasksType, ioVars

\* A step that leaves the innermost loop: the caller goes on or ends with it, or
\* a finished task is pushed, or the program ends.
LEMMA LeaveStepFacts ==
  ASSUME TypeOK, PcOK, LeaveStep
  PROVE  /\ drives # <<>> /\ current = 0 /\ drives' = Popped /\ currentDeadline' = Top.saved
         /\ UNCHANGED <<cancelled, ioInFlight, ioQueue, workers, channel>>
         /\ \/ /\ Len(drives) > 1 /\ Top.caller \in Slot /\ current' = Top.caller
               /\ UNCHANGED <<state, result, len, handles>>
            \/ /\ Len(drives) > 1 /\ Top.caller \in Slot /\ current' = 0
               /\ \A s \in Slot : state'[s] = IF s = Top.caller THEN "Done" ELSE state[s]
               /\ \A s \in Slot : s # Top.caller => result'[s] = result[s]
               /\ UNCHANGED <<len, handles>>
            \/ /\ Len(drives) > 1 /\ Top.caller \in Slot /\ current' = Top.caller
               /\ len + 1 \in Slot /\ len' = len + 1 /\ handles' = handles \cup {len + 1}
               /\ \A s \in Slot : state'[s] = IF s = len + 1 THEN "Done" ELSE state[s]
               /\ \A s \in Slot : s # len + 1 => result'[s] = result[s]
            \/ Len(drives) = 1 /\ current' = 0 /\ UNCHANGED <<state, result, len, handles>>
<1>1. PICK r : Leave(r) /\ pc \in {"head", "pick"}
  BY DEF LeaveStep, DriveReturns, ReportDeadlock, Deadlocked, NothingReady
<1>2. drives # <<>> /\ current = 0
  BY <1>1 DEF PcOK
<1>3. UNCHANGED <<cancelled, ioInFlight, ioQueue, workers, channel>>
  BY DEF LeaveStep, DriveReturns, ReportDeadlock, ioVars
<1>4. drives' = Popped /\ currentDeadline' = Top.saved
  BY <1>1 DEF Leave
<1>5. CASE Resume(r)
  BY <1>2, <1>3, <1>4, <1>5, CallerFacts DEF Resume, TypeOK
<1>6. CASE Propagate(r)
  <2>1. Len(drives) > 1 /\ Top.caller \in Slot
    BY <1>2, <1>6, CallerFacts DEF Propagate, TypeOK
  <2>2. QED BY <1>2, <1>3, <1>4, <1>6, <2>1 DEF Propagate, TypeOK, TasksType
<1>7. CASE PushFinished(r)
  <2>1. Len(drives) > 1 /\ Top.caller \in Slot
    BY <1>2, <1>7, CallerFacts DEF PushFinished, TypeOK
  <2>2. len + 1 \in Slot
    BY <1>7, ConstantsAssumption DEF PushFinished, PushDone, TypeOK, TasksType, Slot
  <2>3. QED BY <1>2, <1>3, <1>4, <1>7, <2>1, <2>2 DEF PushFinished, PushDone, TypeOK, TasksType
<1>8. CASE ExitProgram(r)
  <2>1. Len(drives) = 1
    BY <1>2, <1>8, TopType DEF ExitProgram, PcOK, TypeOK, Top
  <2>2. QED BY <1>2, <1>3, <1>4, <1>8, <2>1 DEF ExitProgram
<1>9. QED BY <1>1, <1>5, <1>6, <1>7, <1>8 DEF Leave

\* A quiet step changes no task, no loop and no request.
LEMMA QuietStepFacts ==
  ASSUME QuietStep
  PROVE  UNCHANGED <<state, result, deadline, cancelled, len, drives, current, currentDeadline,
                     freeSlots, handles, ioInFlight, ioQueue, workers, channel>>
  BY DEF QuietStep, DriveContinues, DrainEnds, TimersFired, WakeUp, SkipStale, Block,
         JoinReturns, AllNotified, Tick, Halted, vars, taskVars, driveVars, userVars, ioVars

\* cancel_with_timeout touches the innermost loop's target only.
LEMMA CancelFacts ==
  ASSUME TypeOK, PcOK, DriveCancels
  PROVE  /\ drives # <<>> /\ Len(drives) \in DOMAIN drives /\ Target = drives[Len(drives)].target
         /\ Target \in Slot /\ state[Target] # "Done" /\ current = 0
         /\ \A s \in Slot : state'[s] = IF s = Target THEN "Done" ELSE state[s]
         /\ \A s \in Slot : s # Target => result'[s] = result[s]
         /\ \A s \in Slot : deadline'[s] = IF s = Target THEN Never ELSE deadline[s]
         /\ \A s \in Slot : cancelled'[s] = IF s = Target THEN TRUE ELSE cancelled[s]
         /\ UNCHANGED <<len, drives, current, currentDeadline, freeSlots, handles,
                        ioInFlight, ioQueue, workers, channel>>
<1>1. drives # <<>> /\ current = 0
  BY DEF DriveCancels, PcOK
<1>2. Len(drives) \in DOMAIN drives /\ Target \in Slot /\ Target = drives[Len(drives)].target
  BY <1>1, TopType DEF TypeOK, Target, Top
<1>3. QED BY <1>1, <1>2 DEF DriveCancels, TypeOK, TasksType, driveVars, ioVars, userVars

\* pick_ready_task takes a ready task in hand.
LEMMA PickFacts ==
  ASSUME TypeOK, PcOK, PickTask
  PROVE  /\ current = 0 /\ current' \in Slot /\ state[current'] = "Ready"
         /\ \A s \in Slot : state'[s] = IF s = current' THEN "Running" ELSE state[s]
         /\ currentDeadline' = deadline[current']
         /\ UNCHANGED <<result, deadline, cancelled, len, drives, freeSlots, handles,
                        ioInFlight, ioQueue, workers, channel>>
<1>1. Head(ready) \in Slot
  BY TailType DEF PickTask, TypeOK, QueuesType
<1>2. QED BY <1>1 DEF PickTask, PcOK, TypeOK, TasksType, userVars, ioVars

\* spawn adds one task in a new slot: ready, or over when the nesting is too deep.
LEMMA SpawnFacts ==
  ASSUME TypeOK, PcOK, SlotsOK, Spawn \/ SpawnTooDeep
  PROVE  /\ len + 1 \in Slot /\ len' = len + 1 /\ handles' = handles \cup {len + 1}
         /\ state[len + 1] = "Absent"
         /\ \A s \in Slot : state'[s] = IF s = len + 1 THEN state'[len + 1] ELSE state[s]
         /\ state'[len + 1] \in {"Ready", "Done"}
         /\ \A s \in Slot : s # len + 1 => result'[s] = result[s]
         /\ UNCHANGED <<deadline, cancelled, drives, current, currentDeadline, freeSlots,
                        ioInFlight, ioQueue, workers, channel>>
<1>1. len + 1 \in Slot
  BY PendingPushesType, ConstantsAssumption
     DEF Spawn, SpawnTooDeep, Room, PushDone, TypeOK, TasksType, Slot
<1>2. state[len + 1] = "Absent"
  BY <1>1 DEF SlotsOK, TypeOK, TasksType, Slot
<1>3. CASE Spawn
  BY <1>1, <1>2, <1>3 DEF Spawn, TypeOK, TasksType, driveVars, ioVars
<1>4. CASE SpawnTooDeep
  BY <1>1, <1>2, <1>4 DEF SpawnTooDeep, PushDone, TypeOK, TasksType, driveVars, ioVars
<1>5. QED BY <1>3, <1>4

\* A call takes a slot nothing refers to.
LEMMA CallFresh ==
  ASSUME TypeOK, PcOK, SlotsOK, StackOK, FreeOK, AnswersReachTheirTask, CancelledStaysDone,
         NEW how \in Kinds, NEW d \in Budgets \cup {Never}, Call(how, d),
         NEW n, n = NewSlot
  PROVE  /\ n \in Slot /\ state[n] \in {"Absent", "Done"} /\ ~cancelled[n] /\ n \notin handles
         /\ ~Outstanding(n) /\ n # current
         /\ \A i \in DOMAIN drives : drives[i].target # n /\ drives[i].caller # n
         /\ \A i \in DOMAIN freeSlots' :
              i \in DOMAIN freeSlots /\ freeSlots'[i] = freeSlots[i] /\ freeSlots[i] # n
<1>1. n \in Slot /\ current \in Slot /\ freeSlots \in Seq(Slot) /\ len \in Slot
  BY CallDrive DEF TypeOK, QueuesType, TasksType, Slot
<1>2. /\ state[n] \in {"Absent", "Done"} /\ ~cancelled[n] /\ n \notin handles
      /\ \A i \in DOMAIN drives : drives[i].target # n
      /\ \A i \in DOMAIN freeSlots' :
              i \in DOMAIN freeSlots /\ freeSlots'[i] = freeSlots[i] /\ freeSlots[i] # n
  <2>1. CASE freeSlots = <<>>
    <3>1. n = len + 1 /\ freeSlots' = <<>>
      BY <2>1 DEF NewSlot, Call, TakeSlot
    <3>2. state[n] = "Absent" /\ n \notin handles
      BY <1>1, <3>1 DEF SlotsOK, Slot
    <3>3. \A i \in DOMAIN drives : drives[i].target # n
      BY <1>1, <3>1, DriveType DEF SlotsOK, TypeOK, Slot
    <3>4. ~cancelled[n]
      BY <1>1, <3>2 DEF CancelledStaysDone
    <3>5. QED BY <3>1, <3>2, <3>3, <3>4
  <2>2. CASE freeSlots # <<>>
    <3>1. /\ n = freeSlots[Len(freeSlots)] /\ Len(freeSlots) \in DOMAIN freeSlots
          /\ \A i \in DOMAIN freeSlots' :
               i \in DOMAIN freeSlots /\ i # Len(freeSlots) /\ freeSlots'[i] = freeSlots[i]
      BY <1>1, <2>2, FrontType DEF NewSlot, Call, TakeSlot
    <3>2. QED BY <3>1 DEF FreeOK
  <2>3. QED BY <2>1, <2>2
<1>3. ~Outstanding(n)
  BY <1>1, <1>2 DEF AnswersReachTheirTask
<1>4. n # current /\ \A i \in DOMAIN drives : drives[i].caller # n
  <2>1. state[current] = "Running"
    BY <1>1, ConstantsAssumption DEF StackOK, Slot
  <2>2. ASSUME NEW i \in DOMAIN drives PROVE drives[i].caller # n
    <3>1. i = 1 => drives[i].caller = 0
      BY DEF PcOK
    <3>2. i # 1 => state[drives[i].caller] = "Running"
      <4>1. DOMAIN drives = 1..Len(drives) /\ Len(drives) \in Nat
        BY DEF TypeOK, LoopType
      <4>2. QED BY <4>1 DEF StackOK
    <3>3. QED BY <1>1, <1>2, <3>1, <3>2 DEF Slot
  <2>3. QED BY <1>2, <2>1, <2>2
<1>5. QED BY <1>1, <1>2, <1>3, <1>4

\* A call makes the new task ready and changes no other.
LEMMA CallFacts ==
  ASSUME TypeOK, PcOK, NEW how \in Kinds, NEW d \in Budgets \cup {Never}, Call(how, d),
         NEW n, n = NewSlot
  PROVE  /\ current \in Slot /\ current' = 0
         /\ \A s \in Slot : state'[s] = IF s = n THEN "Ready" ELSE state[s]
         /\ \A s \in Slot : s # n => result'[s] = result[s] /\ deadline'[s] = deadline[s]
         /\ deadline'[n] = IF d = Never THEN Never ELSE Earlier(currentDeadline, now + d)
         /\ DOMAIN drives = 1..Len(drives) /\ Len(drives) \in Nat \ {0}
         /\ DOMAIN drives' = 1..(Len(drives) + 1)
         /\ \A i \in DOMAIN drives : drives'[i] = drives[i]
         /\ drives'[Len(drives) + 1].target = n /\ drives'[Len(drives) + 1].caller = current
         /\ drives'[Len(drives) + 1].saved = currentDeadline
         /\ UNCHANGED <<cancelled, handles, currentDeadline, ioInFlight, ioQueue, workers, channel>>
<1> DEFINE rec == [target |-> NewSlot, caller |-> current,
                   saved |-> currentDeadline, how |-> how]
<1>1. /\ rec \in Drive /\ current \in Slot /\ n \in Slot /\ drives' = Pushed(rec)
      /\ rec.target = n /\ rec.caller = current /\ rec.saved = currentDeadline /\ drives # <<>>
  BY CallDrive
<1> HIDE DEF rec
<1>2. /\ DOMAIN drives = 1..Len(drives) /\ Len(drives) \in Nat \ {0}
      /\ DOMAIN drives' = 1..(Len(drives) + 1)
      /\ \A i \in DOMAIN drives : drives'[i] = drives[i]
      /\ drives'[Len(drives) + 1] = rec
  BY <1>1, PushedFacts DEF TypeOK, LoopType
<1>3. /\ current' = 0
      /\ \A s \in Slot : state'[s] = IF s = n THEN "Ready" ELSE state[s]
      /\ \A s \in Slot : s # n => result'[s] = result[s] /\ deadline'[s] = deadline[s]
      /\ deadline'[n] = IF d = Never THEN Never ELSE Earlier(currentDeadline, now + d)
      /\ UNCHANGED <<cancelled, handles, currentDeadline, ioInFlight, ioQueue, workers, channel>>
  BY <1>1 DEF Call, TypeOK, TasksType, ioVars
<1>4. QED BY <1>1, <1>2, <1>3

-----------------------------------------------------------------------------
(* The stack of running tasks.                                               *)

\* The callers of the nested loops and the task in hand are running slots.
LEMMA StackFacts ==
  ASSUME TypeOK, PcOK, StackOK
  PROVE  /\ DOMAIN drives = 1..Len(drives) /\ Len(drives) \in Nat /\ 0 \notin Slot
         /\ current # 0 => current \in Slot /\ state[current] = "Running"
         /\ \A i \in DOMAIN drives :
              /\ drives[i].target \in Slot /\ drives[i].target \notin handles
              /\ i = 1 <=> drives[i].caller = 0
              /\ i > 1 => drives[i].caller \in Slot /\ state[drives[i].caller] = "Running"
<1>1. 0 \notin Slot /\ DOMAIN drives = 1..Len(drives) /\ Len(drives) \in Nat
  BY ConstantsAssumption DEF Slot, TypeOK, LoopType
<1>2. current # 0 => current \in Slot /\ state[current] = "Running"
  BY DEF StackOK, TypeOK, LoopType
<1>3. ASSUME NEW i \in DOMAIN drives
      PROVE  /\ drives[i].target \in Slot /\ drives[i].target \notin handles
             /\ i = 1 <=> drives[i].caller = 0
             /\ i > 1 => drives[i].caller \in Slot /\ state[drives[i].caller] = "Running"
  <2>1. drives[i].target \in Slot /\ drives[i].caller \in Slot \cup {0}
    BY DriveType DEF TypeOK
  <2>2. i = 1 <=> drives[i].caller = 0
    BY DEF PcOK
  <2>3. i > 1 => state[drives[i].caller] = "Running" /\ i # 1
    BY <1>1 DEF StackOK
  <2>4. QED BY <2>1, <2>2, <2>3 DEF StackOK
<1>4. QED BY <1>1, <1>2, <1>3

\* The stack stays consistent when loops, the task in hand and the running tasks
\* are left alone.
LEMMA StackKept ==
  ASSUME TypeOK, PcOK, StackOK, UNCHANGED <<drives, current>>,
         \A s \in Slot : state'[s] = "Running" <=> state[s] = "Running",
         \A i \in DOMAIN drives : drives[i].target \notin handles'
  PROVE  StackOK'
<1>1. current' # 0 => state'[current'] = "Running"
  BY StackFacts
<1>2. \A s \in Slot : state'[s] = "Running" =>
        s = current' \/ \E i \in DOMAIN drives' : drives'[i].caller = s
  BY DEF StackOK
<1>3. \A i \in DOMAIN drives' : i > 1 =>
        state'[drives'[i].caller] = "Running" /\ drives'[i].caller # current'
  BY StackFacts DEF StackOK
<1>4. QED BY <1>1, <1>2, <1>3 DEF StackOK

\* Every step keeps the stack consistent.
LEMMA StackStep ==
  ASSUME TypeOK, PcOK, SlotsOK, StackOK, FreeOK, AnswersReachTheirTask, CancelledStaysDone,
         [Next]_vars
  PROVE  StackOK'
<1>0. /\ DOMAIN drives = 1..Len(drives) /\ Len(drives) \in Nat /\ 0 \notin Slot
      /\ current # 0 => current \in Slot /\ state[current] = "Running"
      /\ \A i \in DOMAIN drives :
           /\ drives[i].target \in Slot /\ drives[i].target \notin handles
           /\ i = 1 <=> drives[i].caller = 0
           /\ i > 1 => drives[i].caller \in Slot /\ state[drives[i].caller] = "Running"
  BY StackFacts
<1>1. CASE WakeStep \/ QuietStep \/ \E x \in Slot : WorkerAnswers(x)
  <2>1. UNCHANGED <<drives, current, handles>>
    BY <1>1, WakeStepFacts, QuietStepFacts DEF WorkerAnswers, driveVars, userVars
  <2>2. \A s \in Slot : state'[s] = "Running" <=> state[s] = "Running"
    BY <1>1, WakeStepFacts, QuietStepFacts DEF WorkerAnswers, taskVars
  <2>3. QED BY <1>0, <2>1, <2>2, StackKept
<1>2. CASE SuspendStep \/ FinishStep
  <2>1. current \in Slot /\ current' = 0 /\ UNCHANGED <<drives, handles>>
    BY <1>2, SuspendStepFacts, FinishStepFacts
  <2>2. /\ state'[current] # "Running"
        /\ \A s \in Slot : s # current => state'[s] = state[s]
    BY <1>2, SuspendStepFacts, FinishStepFacts
  <2>3. QED BY <1>0, <2>1, <2>2 DEF StackOK
<1>3. CASE DriveCancels
  <2>1. /\ Len(drives) \in DOMAIN drives /\ Target = drives[Len(drives)].target /\ Target \in Slot
        /\ \A s \in Slot : state'[s] = IF s = Target THEN "Done" ELSE state[s]
        /\ current = 0 /\ UNCHANGED <<drives, current, handles>>
    BY <1>3, CancelFacts
  <2>2. state[Target] # "Running"
    <3>1. \A i \in DOMAIN drives : drives[i].caller # Target
      BY <1>0, <2>1 DEF StackOK
    <3>2. QED BY <1>0, <2>1, <3>1 DEF StackOK
  <2>3. QED BY <1>0, <2>1, <2>2, StackKept
<1>4. CASE Spawn \/ SpawnTooDeep
  <2>1. /\ len + 1 \in Slot /\ state[len + 1] = "Absent" /\ handles' = handles \cup {len + 1}
        /\ \A s \in Slot : s # len + 1 => state'[s] = state[s]
        /\ state'[len + 1] # "Running" /\ UNCHANGED <<drives, current>>
    BY <1>4, SpawnFacts
  <2>2. \A i \in DOMAIN drives : drives[i].target # len + 1
    BY <1>0, <2>1 DEF SlotsOK, Slot, TypeOK, TasksType
  <2>3. QED BY <1>0, <2>1, <2>2, StackKept
<1>5. CASE PickTask
  <2>1. /\ current = 0 /\ current' \in Slot /\ state[current'] = "Ready"
        /\ \A s \in Slot : state'[s] = IF s = current' THEN "Running" ELSE state[s]
        /\ UNCHANGED <<drives, handles>>
    BY <1>5, PickFacts
  <2>2. QED BY <1>0, <2>1 DEF StackOK
<1>6. CASE LeaveStep
  <2>1. /\ drives # <<>> /\ current = 0 /\ drives' = Popped
        /\ Len(drives) \in DOMAIN drives /\ Top = drives[Len(drives)]
    BY <1>6, LeaveStepFacts, TopType DEF TypeOK, Top
  <2>2. /\ DOMAIN drives' = 1..(Len(drives) - 1)
        /\ \A i \in DOMAIN drives' : i \in DOMAIN drives /\ i < Len(drives) /\ drives'[i] = drives[i]
    <3>1. /\ DOMAIN Popped = 1..(Len(drives) - 1)
          /\ \A i \in DOMAIN Popped : i \in DOMAIN drives /\ Popped[i] = drives[i]
      BY <2>1, PoppedFacts DEF TypeOK
    <3>2. QED BY <1>0, <2>1, <3>1
  <2>3. \A i, j \in DOMAIN drives' :
          /\ i # j => drives'[i].caller # drives'[j].caller
          /\ i # j => drives'[i].target # drives'[j].target
          /\ i <= j => drives'[j].target # drives'[i].caller
    BY <2>2 DEF StackOK
  <2>4. \A i \in DOMAIN drives' : drives'[i].caller # Top.caller
    BY <1>0, <2>1, <2>2 DEF StackOK
  <2>5. \A s \in Slot : state[s] = "Running" =>
          s = Top.caller \/ \E i \in DOMAIN drives' : drives'[i].caller = s
    <3>1. ASSUME NEW s \in Slot, state[s] = "Running", s # Top.caller
          PROVE  \E i \in DOMAIN drives' : drives'[i].caller = s
      <4>1. PICK i \in DOMAIN drives : drives[i].caller = s
        BY <1>0, <2>1, <3>1 DEF StackOK
      <4>2. i # Len(drives) /\ i \in DOMAIN drives'
        BY <1>0, <2>1, <2>2, <3>1, <4>1
      <4>3. QED BY <2>2, <4>1, <4>2
    <3>2. QED BY <3>1
  <2>6. ASSUME Len(drives) > 1 PROVE Top.caller \in Slot /\ state[Top.caller] = "Running"
    BY <1>0, <2>1, <2>6
  <2>7. CASE /\ Len(drives) > 1 /\ current' = Top.caller
             /\ UNCHANGED <<state, len, handles>>
    <3>1. state'[current'] = "Running"
      BY <2>6, <2>7
    <3>2. \A s \in Slot : state'[s] = "Running" =>
            s = current' \/ \E i \in DOMAIN drives' : drives'[i].caller = s
      BY <2>5, <2>7
    <3>3. \A i \in DOMAIN drives' : i > 1 =>
            state'[drives'[i].caller] = "Running" /\ drives'[i].caller # current'
      BY <1>0, <2>2, <2>4, <2>7
    <3>4. \A i \in DOMAIN drives' : drives'[i].target \notin handles'
      BY <1>0, <2>2, <2>7
    <3>5. QED BY <2>3, <3>1, <3>2, <3>3, <3>4 DEF StackOK
  <2>8. CASE /\ Len(drives) > 1 /\ current' = 0 /\ UNCHANGED handles
             /\ \A s \in Slot : state'[s] = IF s = Top.caller THEN "Done" ELSE state[s]
    <3>1. \A s \in Slot : state'[s] = "Running" =>
            \E i \in DOMAIN drives' : drives'[i].caller = s
      BY <2>5, <2>8
    <3>2. \A i \in DOMAIN drives' : i > 1 =>
            state'[drives'[i].caller] = "Running" /\ drives'[i].caller # current'
      <4>1. ASSUME NEW i \in DOMAIN drives', i > 1
            PROVE  state'[drives'[i].caller] = "Running" /\ drives'[i].caller # 0
        <5>1. /\ drives'[i].caller \in Slot /\ state[drives'[i].caller] = "Running"
              /\ drives'[i].caller # Top.caller
          BY <1>0, <2>2, <2>4, <4>1
        <5>2. QED BY <1>0, <2>8, <5>1
      <4>2. QED BY <2>8, <4>1
    <3>3. \A i \in DOMAIN drives' : drives'[i].target \notin handles'
      BY <1>0, <2>2, <2>8
    <3>4. QED BY <2>3, <2>8, <3>1, <3>2, <3>3 DEF StackOK
  <2>9. CASE /\ Len(drives) > 1 /\ current' = Top.caller
             /\ len + 1 \in Slot /\ handles' = handles \cup {len + 1}
             /\ \A s \in Slot : state'[s] = IF s = len + 1 THEN "Done" ELSE state[s]
    <3>0. state[len + 1] = "Absent"
      BY <2>9 DEF SlotsOK, TypeOK, TasksType, Slot
    <3>1. state'[current'] = "Running"
      BY <2>6, <2>9, <3>0
    <3>2. \A s \in Slot : state'[s] = "Running" =>
            s = current' \/ \E i \in DOMAIN drives' : drives'[i].caller = s
      BY <2>5, <2>9
    <3>3. \A i \in DOMAIN drives' : i > 1 =>
            state'[drives'[i].caller] = "Running" /\ drives'[i].caller # current'
      <4>1. ASSUME NEW i \in DOMAIN drives', i > 1
            PROVE  state'[drives'[i].caller] = "Running" /\ drives'[i].caller # current'
        <5>1. /\ drives'[i].caller \in Slot /\ state[drives'[i].caller] = "Running"
              /\ drives'[i].caller # Top.caller
          BY <1>0, <2>2, <2>4, <4>1
        <5>2. QED BY <2>9, <3>0, <5>1
      <4>2. QED BY <4>1
    <3>4. \A i \in DOMAIN drives' : drives'[i].target \notin handles'
      <4>1. \A i \in DOMAIN drives : drives[i].target # len + 1
        BY <1>0, <2>9 DEF SlotsOK, Slot, TypeOK, TasksType
      <4>2. QED BY <1>0, <2>2, <2>9, <4>1
    <3>5. QED BY <2>3, <3>1, <3>2, <3>3, <3>4 DEF StackOK
  <2>10. CASE Len(drives) = 1 /\ current' = 0 /\ UNCHANGED <<state, handles>>
    <3>1. DOMAIN drives' = {}
      BY <1>0, <2>2, <2>10
    <3>2. \A s \in Slot : state[s] # "Running"
      <4>1. Len(drives) = 1 /\ Top.caller = 0
        BY <1>0, <2>1, <2>10
      <4>2. QED BY <1>0, <2>5, <3>1, <4>1
    <3>3. QED BY <2>10, <3>1, <3>2 DEF StackOK
  <2>11. QED BY <1>6, <2>7, <2>8, <2>9, <2>10, LeaveStepFacts
<1>7. ASSUME NEW how \in Kinds, NEW d \in Budgets \cup {Never}, Call(how, d)
      PROVE  StackOK'
  <2>0. PICK n : n = NewSlot
    OBVIOUS
  <2>1. /\ n \in Slot /\ state[n] \in {"Absent", "Done"} /\ n \notin handles /\ n # current
        /\ \A i \in DOMAIN drives : drives[i].target # n /\ drives[i].caller # n
    BY <1>7, <2>0, CallFresh
  <2>2. /\ current \in Slot /\ current' = 0
        /\ \A s \in Slot : state'[s] = IF s = n THEN "Ready" ELSE state[s]
        /\ DOMAIN drives' = 1..(Len(drives) + 1) /\ Len(drives) \in Nat \ {0}
        /\ \A i \in DOMAIN drives : drives'[i] = drives[i]
        /\ drives'[Len(drives) + 1].target = n /\ drives'[Len(drives) + 1].caller = current
        /\ UNCHANGED handles
    BY <1>7, <2>0, CallFacts
  <2>3. \A i \in DOMAIN drives' : i \in DOMAIN drives \/ i = Len(drives) + 1
    BY <1>0, <2>2
  <2>4. state[current] = "Running" /\ current # 0
    BY <1>0, <2>2
  <2>5. \A s \in Slot : state'[s] = "Running" => \E i \in DOMAIN drives' : drives'[i].caller = s
    <3>1. ASSUME NEW s \in Slot, state[s] = "Running"
          PROVE  \E i \in DOMAIN drives' : drives'[i].caller = s
      <4>1. CASE s = current
        BY <2>2, <4>1
      <4>2. CASE s # current
        <5>1. PICK i \in DOMAIN drives : drives[i].caller = s
          BY <3>1, <4>2 DEF StackOK
        <5>2. QED BY <1>0, <2>2, <5>1
      <4>3. QED BY <4>1, <4>2
    <3>2. QED BY <2>1, <2>2, <3>1
  <2>6. \A i \in DOMAIN drives' : i > 1 =>
          state'[drives'[i].caller] = "Running" /\ drives'[i].caller # current'
    BY <1>0, <2>1, <2>2, <2>3, <2>4
  <2>7. \A i, j \in DOMAIN drives' :
          /\ i # j => drives'[i].caller # drives'[j].caller
          /\ i # j => drives'[i].target # drives'[j].target
          /\ i <= j => drives'[j].target # drives'[i].caller
    <3>1. \A i, j \in DOMAIN drives :
            /\ i # j => drives'[i].caller # drives'[j].caller
            /\ i # j => drives'[i].target # drives'[j].target
            /\ i <= j => drives'[j].target # drives'[i].caller
      BY <2>2 DEF StackOK
    <3>2. \A i \in DOMAIN drives : drives[i].caller # current
      BY <1>0, <2>4 DEF StackOK
    <3>3. \A i \in DOMAIN drives : i <= Len(drives) /\ ~(Len(drives) + 1 <= i)
      BY <1>0
    <3>4. QED BY <2>1, <2>2, <2>3, <3>1, <3>2, <3>3
  <2>8. \A i \in DOMAIN drives' : drives'[i].target \notin handles'
    BY <1>0, <2>1, <2>2, <2>3
  <2>9. QED BY <2>2, <2>5, <2>6, <2>7, <2>8 DEF StackOK
<1>8. QED BY <1>1, <1>2, <1>3, <1>4, <1>5, <1>6, <1>7, StepCases

-----------------------------------------------------------------------------
(* Freed slots and cancelled tasks.                                          *)

\* What a step may do to a task that is over, or to one that is not.
LEMMA DoneFacts ==
  ASSUME TypeOK, PcOK, SlotsOK, StackOK, FreeOK, AnswersReachTheirTask, CancelledStaysDone,
         [Next]_vars
  PROVE  /\ \A s \in Slot : state[s] = "Done" /\ state'[s] # "Done" =>
              /\ ~cancelled[s] /\ s \notin handles
              /\ \A i \in DOMAIN freeSlots' : freeSlots'[i] # s
         /\ \A s \in Slot : state[s] = "Done" /\ state'[s] = "Done" => result'[s] = result[s]
         /\ \A s \in Slot : cancelled'[s] # cancelled[s] =>
              state[s] # "Done" /\ state'[s] = "Done"
<1>0. /\ DOMAIN drives = 1..Len(drives) /\ Len(drives) \in Nat
      /\ current # 0 => current \in Slot /\ state[current] = "Running"
      /\ \A i \in DOMAIN drives :
           i > 1 => drives[i].caller \in Slot /\ state[drives[i].caller] = "Running"
  BY StackFacts
<1>1. CASE WakeStep \/ QuietStep \/ \E x \in Slot : WorkerAnswers(x)
  <2>1. UNCHANGED <<result, cancelled>>
    BY <1>1, WakeStepFacts, QuietStepFacts DEF WorkerAnswers, taskVars
  <2>2. \A s \in Slot : state[s] = "Done" => state'[s] = "Done"
    BY <1>1, WakeStepFacts, QuietStepFacts DEF WorkerAnswers, taskVars
  <2>3. QED BY <2>1, <2>2
<1>2. CASE SuspendStep
  <2>1. current \in Slot /\ UNCHANGED <<result, cancelled>> /\ state[current] = "Running"
    BY <1>0, <1>2, SuspendStepFacts, ConstantsAssumption DEF Slot
  <2>2. \A s \in Slot : s # current => state'[s] = state[s]
    BY <1>2, SuspendStepFacts
  <2>3. QED BY <2>1, <2>2
<1>3. CASE FinishStep
  <2>1. current \in Slot /\ UNCHANGED cancelled /\ state[current] = "Running"
    BY <1>0, <1>3, FinishStepFacts, ConstantsAssumption DEF Slot
  <2>2. \A s \in Slot : s # current => state'[s] = state[s] /\ result'[s] = result[s]
    BY <1>3, FinishStepFacts
  <2>3. QED BY <2>1, <2>2
<1>4. CASE DriveCancels
  BY <1>4, CancelFacts
<1>5. CASE Spawn \/ SpawnTooDeep
  <2>1. /\ state[len + 1] = "Absent" /\ UNCHANGED cancelled
        /\ \A s \in Slot : s # len + 1 => state'[s] = state[s] /\ result'[s] = result[s]
    BY <1>5, SpawnFacts
  <2>2. QED BY <2>1
<1>6. CASE PickTask
  BY <1>6, PickFacts
<1>7. CASE LeaveStep
  <2>1. UNCHANGED cancelled /\ (Len(drives) > 1 => state[Top.caller] = "Running")
    BY <1>0, <1>7, LeaveStepFacts DEF Top
  <2>2. \A s \in Slot : state[s] = "Done" => state'[s] = "Done" /\ result'[s] = result[s]
    <3>1. len + 1 \in Slot => state[len + 1] = "Absent"
      BY DEF SlotsOK, TypeOK, TasksType, Slot
    <3>2. QED BY <1>7, <2>1, <3>1, LeaveStepFacts
  <2>3. QED BY <2>1, <2>2
<1>8. ASSUME NEW how \in Kinds, NEW d \in Budgets \cup {Never}, Call(how, d)
      PROVE  /\ \A s \in Slot : state[s] = "Done" /\ state'[s] # "Done" =>
                   /\ ~cancelled[s] /\ s \notin handles
                   /\ \A i \in DOMAIN freeSlots' : freeSlots'[i] # s
             /\ \A s \in Slot : state[s] = "Done" /\ state'[s] = "Done" => result'[s] = result[s]
             /\ UNCHANGED cancelled
  <2>0. PICK n : n = NewSlot
    OBVIOUS
  <2>1. /\ n \in Slot /\ ~cancelled[n] /\ n \notin handles
        /\ \A i \in DOMAIN freeSlots' : freeSlots'[i] # n
    BY <1>8, <2>0, CallFresh
  <2>2. /\ \A s \in Slot : state'[s] = IF s = n THEN "Ready" ELSE state[s]
        /\ \A s \in Slot : s # n => result'[s] = result[s]
        /\ UNCHANGED cancelled
    BY <1>8, <2>0, CallFacts
  <2>3. QED BY <2>1, <2>2
<1>9. QED BY <1>1, <1>2, <1>3, <1>4, <1>5, <1>6, <1>7, <1>8, StepCases

\* A cancelled task stays over.
LEMMA CancelledStep ==
  ASSUME TypeOK, PcOK, SlotsOK, StackOK, FreeOK, AnswersReachTheirTask, CancelledStaysDone,
         [Next]_vars
  PROVE  CancelledStaysDone'
<1>1. ASSUME NEW s \in Slot, cancelled'[s] PROVE state'[s] = "Done"
  <2>1. CASE cancelled[s]
    BY <2>1, DoneFacts DEF CancelledStaysDone
  <2>2. CASE ~cancelled[s]
    BY <1>1, <2>2, DoneFacts
  <2>3. QED BY <2>1, <2>2
<1>2. QED BY <1>1 DEF CancelledStaysDone

\* The freed slots stay unreferenced, when they and the loops are left alone.
LEMMA FreeKept ==
  ASSUME TypeOK, SlotsOK, FreeOK, UNCHANGED <<freeSlots, cancelled>>,
         \A i \in DOMAIN freeSlots : state'[freeSlots[i]] = "Done",
         \A i \in DOMAIN drives' : i \in DOMAIN drives /\ drives'[i] = drives[i],
         handles' \subseteq handles \cup {len + 1}
  PROVE  FreeOK'
<1>1. \A i \in DOMAIN freeSlots : freeSlots[i] \in Slot /\ freeSlots[i] # len + 1
  <2>1. \A i \in DOMAIN freeSlots : freeSlots[i] \in Slot
    BY DEF TypeOK, QueuesType
  <2>2. QED BY <2>1 DEF SlotsOK, TypeOK, TasksType, Slot
<1>2. \A i \in DOMAIN freeSlots :
       /\ state'[freeSlots[i]] = "Done" /\ ~cancelled'[freeSlots[i]]
       /\ freeSlots[i] \notin handles'
       /\ \A j \in DOMAIN drives' : drives'[j].target # freeSlots[i]
  BY <1>1 DEF FreeOK
<1>3. QED BY <1>2 DEF FreeOK

\* Every step keeps the freed slots unreferenced.
LEMMA FreeStep ==
  ASSUME TypeOK, PcOK, SlotsOK, StackOK, FreeOK, AnswersReachTheirTask, CancelledStaysDone,
         [Next]_vars
  PROVE  FreeOK'
<1>0. freeSlots \in Seq(Slot) /\ \A i \in DOMAIN freeSlots : freeSlots[i] \in Slot
  BY DEF TypeOK, QueuesType
<1>1. CASE UNCHANGED <<freeSlots, cancelled, drives>> /\ handles' \subseteq handles \cup {len + 1}
  <2>1. \A i \in DOMAIN freeSlots : state'[freeSlots[i]] = "Done"
    <3>1. \A i \in DOMAIN freeSlots : state[freeSlots[i]] = "Done"
      BY DEF FreeOK
    <3>2. \A s \in Slot : state[s] = "Done" /\ state'[s] # "Done" =>
            \A i \in DOMAIN freeSlots : freeSlots[i] # s
      BY <1>1, DoneFacts
    <3>3. QED BY <1>0, <3>1, <3>2
  <2>2. QED BY <1>1, <2>1, FreeKept
<1>2. CASE WakeStep \/ QuietStep \/ SuspendStep \/ FinishStep \/ \E x \in Slot : WorkerAnswers(x)
  <2>1. UNCHANGED <<freeSlots, cancelled, drives, handles>>
    BY <1>2, WakeStepFacts, QuietStepFacts, SuspendStepFacts, FinishStepFacts
       DEF WorkerAnswers, taskVars, driveVars, userVars
  <2>2. QED BY <1>1, <2>1
<1>3. CASE Spawn \/ SpawnTooDeep \/ PickTask
  <2>1. UNCHANGED <<freeSlots, cancelled, drives>> /\ handles' \subseteq handles \cup {len + 1}
    BY <1>3, SpawnFacts, PickFacts
  <2>2. QED BY <1>1, <2>1
<1>4. CASE DriveCancels
  <2>1. /\ Len(drives) \in DOMAIN drives /\ Target = drives[Len(drives)].target /\ Target \in Slot
        /\ \A s \in Slot : state'[s] = IF s = Target THEN "Done" ELSE state[s]
        /\ \A s \in Slot : s # Target => cancelled'[s] = cancelled[s]
        /\ UNCHANGED <<freeSlots, drives, handles>>
    BY <1>4, CancelFacts
  <2>2. \A i \in DOMAIN freeSlots : freeSlots[i] # Target
    BY <2>1 DEF FreeOK
  <2>3. \A i \in DOMAIN freeSlots :
          state'[freeSlots[i]] = "Done" /\ ~cancelled'[freeSlots[i]]
    BY <1>0, <2>1, <2>2 DEF FreeOK
  <2>4. QED BY <2>1, <2>3 DEF FreeOK
<1>5. CASE LeaveStep
  <2>1. /\ drives # <<>> /\ drives' = Popped /\ UNCHANGED cancelled
        /\ handles' \subseteq handles \cup {len + 1}
    BY <1>5, LeaveStepFacts
  <2>2. \A i \in DOMAIN drives' : i \in DOMAIN drives /\ i < Len(drives) /\ drives'[i] = drives[i]
    BY <2>1, PoppedFacts DEF TypeOK
  <2>3. \A s \in Slot : state[s] = "Done" => state'[s] = "Done"
    <3>1. len + 1 \in Slot => state[len + 1] = "Absent"
      BY DEF SlotsOK, TypeOK, TasksType, Slot
    <3>2. QED BY <1>5, <3>1, LeaveStepFacts
  <2>4. CASE freeSlots' = freeSlots
    <3>1. \A i \in DOMAIN freeSlots : state'[freeSlots[i]] = "Done"
      BY <1>0, <2>3 DEF FreeOK
    <3>2. QED BY <2>1, <2>2, <2>4, <3>1, FreeKept
  <2>5. CASE DriveReturns /\ ~cancelled[Target] /\ freeSlots' = Append(freeSlots, Target)
    <3>1. /\ Target \in Slot /\ state[Target] = "Done" /\ Len(drives) \in DOMAIN drives
          /\ Target = drives[Len(drives)].target
      BY <2>1, <2>5, TopType DEF DriveReturns, TypeOK, Target, Top
    <3>2. Target \notin handles /\ Target # len + 1
      BY <3>1 DEF StackOK, SlotsOK, TypeOK, TasksType, Slot
    <3>3. \A j \in DOMAIN drives' : drives'[j].target # Target
      <4>1. \A j \in DOMAIN drives : j < Len(drives) => drives[j].target # Target
        <5>1. Len(drives) \in Nat
          BY <2>1, PoppedFacts DEF TypeOK
        <5>2. QED BY <3>1, <5>1 DEF StackOK
      <4>2. QED BY <2>2, <4>1
    <3>4. \A i \in DOMAIN freeSlots : freeSlots[i] # Target
      BY <3>1 DEF FreeOK
    <3>5. /\ DOMAIN freeSlots' = DOMAIN freeSlots \cup {Len(freeSlots) + 1}
          /\ freeSlots'[Len(freeSlots) + 1] = Target
          /\ \A i \in DOMAIN freeSlots : freeSlots'[i] = freeSlots[i]
      BY <1>0, <2>5, <3>1, AppendType
    <3>6. \A i \in DOMAIN freeSlots : freeSlots[i] # len + 1
      BY <1>0 DEF SlotsOK, TypeOK, TasksType, Slot
    <3>7. /\ \A i \in DOMAIN freeSlots :
               /\ state'[freeSlots[i]] = "Done" /\ ~cancelled'[freeSlots[i]]
               /\ freeSlots[i] \notin handles'
               /\ \A j \in DOMAIN drives' : drives'[j].target # freeSlots[i]
          /\ state'[Target] = "Done" /\ ~cancelled'[Target] /\ Target \notin handles'
      BY <1>0, <2>1, <2>2, <2>3, <2>5, <3>1, <3>2, <3>6 DEF FreeOK
    <3>8. \A i, j \in DOMAIN freeSlots' : freeSlots'[i] = freeSlots'[j] => i = j
      BY <3>4, <3>5 DEF FreeOK
    <3>9. \A i \in DOMAIN freeSlots' :
               /\ state'[freeSlots'[i]] = "Done" /\ ~cancelled'[freeSlots'[i]]
               /\ freeSlots'[i] \notin handles'
               /\ \A j \in DOMAIN drives' : drives'[j].target # freeSlots'[i]
      BY <3>3, <3>5, <3>7
    <3>10. QED BY <3>8, <3>9 DEF FreeOK
  <2>6. QED BY <1>5, <2>4, <2>5 DEF LeaveStep, DriveReturns, ReportDeadlock
<1>6. ASSUME NEW how \in Kinds, NEW d \in Budgets \cup {Never}, Call(how, d)
      PROVE  FreeOK'
  <2>0. PICK n : n = NewSlot
    OBVIOUS
  <2>1. /\ n \in Slot /\ n \notin handles
        /\ \A i \in DOMAIN freeSlots' :
             i \in DOMAIN freeSlots /\ freeSlots'[i] = freeSlots[i] /\ freeSlots[i] # n
    BY <1>6, <2>0, CallFresh
  <2>2. /\ \A s \in Slot : state'[s] = IF s = n THEN "Ready" ELSE state[s]
        /\ DOMAIN drives = 1..Len(drives) /\ DOMAIN drives' = 1..(Len(drives) + 1)
        /\ Len(drives) \in Nat
        /\ \A i \in DOMAIN drives : drives'[i] = drives[i]
        /\ drives'[Len(drives) + 1].target = n
        /\ UNCHANGED <<cancelled, handles>>
    BY <1>6, <2>0, CallFacts
  <2>3. \A i \in DOMAIN drives' : i \in DOMAIN drives \/ i = Len(drives) + 1
    BY <2>2
  <2>4. ASSUME NEW i \in DOMAIN freeSlots'
        PROVE  /\ state'[freeSlots'[i]] = "Done" /\ ~cancelled'[freeSlots'[i]]
               /\ freeSlots'[i] \notin handles'
               /\ \A j \in DOMAIN drives' : drives'[j].target # freeSlots'[i]
    <3>1. i \in DOMAIN freeSlots /\ freeSlots'[i] = freeSlots[i] /\ freeSlots[i] # n
      BY <2>1
    <3>2. /\ state[freeSlots[i]] = "Done" /\ ~cancelled[freeSlots[i]] /\ freeSlots[i] \notin handles
          /\ \A j \in DOMAIN drives : drives[j].target # freeSlots[i]
      BY <1>0, <3>1 DEF FreeOK
    <3>3. freeSlots[i] \in Slot
      BY <1>0, <3>1 DEF TypeOK, QueuesType
    <3>4. QED BY <2>2, <2>3, <3>1, <3>2, <3>3
  <2>5. \A i, j \in DOMAIN freeSlots' : freeSlots'[i] = freeSlots'[j] => i = j
    BY <2>1 DEF FreeOK
  <2>6. QED BY <2>4, <2>5 DEF FreeOK
<1>7. QED BY <1>2, <1>3, <1>4, <1>5, <1>6, StepCases
=============================================================================
