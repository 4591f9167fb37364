----------------------------- MODULE HttpServer -----------------------------
(***************************************************************************)
(* serve(port, handler): the accepting thread, one thread per connection,  *)
(* the signal handler, and the interpreter thread, which turns incoming    *)
(* requests into handler tasks and stops the server gracefully.            *)
(*                                                                         *)
(* The connection threads and the interpreter share the event channel, one *)
(* reply channel per request, the active counter and the stop flag.  Of    *)
(* the scheduler (see Scheduler) only the head of its loop, the draining   *)
(* of events, the picking of a task and the nesting of loops remain; tasks *)
(* are picked in any order, a handler task is named by its connection, and *)
(* the code of other tasks shows only in the calls of stopServer it makes. *)
(* The program calls serve once.                                           *)
(***************************************************************************)
EXTENDS Integers, Sequences, FiniteSets

CONSTANTS
  Conns,           \* the connections clients open
  MaxConnections,  \* MAX_CONNECTIONS
  HandlerKinds,    \* "plain", "resilient" (has modifiers), "builtin"
  Fuel             \* bound of the model: the times a handler waits or calls

Kinds == {"plain", "resilient", "builtin"}
Shutdown == "shutdown"
NoTask == "none"
ASSUME ServerAssumption ==
  /\ MaxConnections \in Nat /\ Fuel \in Nat /\ HandlerKinds \subseteq Kinds
  /\ HandlerKinds # {} /\ Shutdown \notin Conns /\ NoTask \notin Conns

VARIABLES
  conn,         \* per connection, where its client or its thread is
  client,       \* the status the client got ("none" so far; "reset": nothing)
  reply,        \* the reply channel of its request
  active,       \* ServerHandle::active
  acceptor,     \* the accepting thread: "off", "on", "done"
  stop,         \* ServerHandle::stop
  channel,      \* io_rx: requests (by connection) and Shutdown
  signals,      \* signals received
  server,       \* VM::server: "none", "serving", "stopping"
  handlerKind,  \* ServerState::handler
  serverTasks,  \* the keys of VM::server_tasks
  task,         \* the state of each handler task
  cancelled,    \* handler tasks marked cancelled
  grace,        \* shutdown_deadline: "off", "armed", "due"
  main,         \* the task that called serve
  nest,         \* the loops in progress below the innermost one
  current,      \* the handler task being run, or NoTask
  pc, after,    \* where the interpreter thread is; and after wait_idle
  fuel

netVars == <<conn, client, active, acceptor, stop>>
serverVars == <<server, handlerKind, serverTasks, grace>>
taskVars == <<task, cancelled, main, fuel>>
loopVars == <<nest, current, pc, after>>
vars == <<netVars, reply, channel, signals, serverVars, taskVars, loopVars>>

Loop == [how : {"call", "sync"}, who : Conns, back : {"run", "drain"}]
TypeOK ==
  /\ conn \in [Conns -> {"away", "backlog", "reading", "waiting", "closed"}]
  /\ client \in [Conns -> {"none", "200", "400", "500", "503", "504", "reset"}]
  /\ reply \in [Conns -> {"none", "200", "500", "503"}]
  /\ active \in 0..MaxConnections /\ acceptor \in {"off", "on", "done"} /\ stop \in BOOLEAN
  /\ channel \in Seq(Conns \cup {Shutdown}) /\ signals \in 0..2
  /\ server \in {"none", "serving", "stopping"} /\ handlerKind \in HandlerKinds
  /\ serverTasks \subseteq Conns /\ cancelled \subseteq Conns
  /\ task \in [Conns -> {"none", "ready", "running", "suspended", "done"}]
  /\ grace \in {"off", "armed", "due"}
  /\ main \in {"starts", "serving", "ready", "returned", "done"}
  /\ nest \in Seq(Loop) /\ current \in Conns \cup {NoTask}
  /\ pc \in {"start", "head", "drain", "pick", "run", "idle", "halt"}
  /\ after \in {"head", "drain", "run"} /\ fuel \in [Conns -> 0..Fuel]

Init ==
  /\ conn = [c \in Conns |-> "away"] /\ client = [c \in Conns |-> "none"]
  /\ reply = [c \in Conns |-> "none"] /\ active = 0 /\ acceptor = "off" /\ stop = FALSE
  /\ channel = <<>> /\ signals = 0 /\ server = "none" /\ handlerKind \in HandlerKinds
  /\ serverTasks = {} /\ task = [c \in Conns |-> "none"] /\ cancelled = {}
  /\ grace = "off" /\ main = "starts" /\ nest = <<>> /\ current = NoTask
  /\ pc = "start" /\ after = "head" /\ fuel = [c \in Conns |-> Fuel]

-----------------------------------------------------------------------------
\* The network side: clients, the accepting thread, the connection threads.

interpreterVars == <<reply, signals, serverVars, taskVars, loopVars>>

Connect(c) ==
  /\ conn[c] = "away" /\ acceptor = "on" /\ conn' = [conn EXCEPT ![c] = "backlog"]
  /\ UNCHANGED <<client, active, acceptor, stop, channel, interpreterVars>>

Hangup(c, status) ==
  conn' = [conn EXCEPT ![c] = "closed"] /\ client' = [client EXCEPT ![c] = status]

\* Mutant: the refused connection is counted all the same.
RefuseCounted(c) ==
  /\ conn[c] = "backlog" /\ acceptor = "on" /\ ~stop
  /\ \/ active >= MaxConnections /\ Hangup(c, "503") /\ UNCHANGED active
     \/ active < MaxConnections /\ Hangup(c, "reset") /\ active' = active + 1
  /\ UNCHANGED <<acceptor, stop, channel, interpreterVars>>

\* Too many connections, or the OS refuses a thread.
Refuse(c) ==
  /\ conn[c] = "backlog" /\ acceptor = "on" /\ ~stop
  /\ Hangup(c, IF active >= MaxConnections THEN "503" ELSE "reset")
  /\ UNCHANGED <<active, acceptor, stop, channel, interpreterVars>>

\* Mutant: the limit is compared off by one.
AcceptAtLimit(c) ==
  /\ conn[c] = "backlog" /\ acceptor = "on" /\ ~stop /\ active <= MaxConnections
  /\ active' = active + 1 /\ conn' = [conn EXCEPT ![c] = "reading"]
  /\ UNCHANGED <<client, acceptor, stop, channel, interpreterVars>>

Accept(c) ==
  /\ conn[c] = "backlog" /\ acceptor = "on" /\ ~stop /\ active < MaxConnections
  /\ active' = active + 1 /\ conn' = [conn EXCEPT ![c] = "reading"]
  /\ UNCHANGED <<client, acceptor, stop, channel, interpreterVars>>

\* The next connection, if only the one stop() makes, ends the thread; the
\* listener goes with what is in its backlog.
AcceptorEnds ==
  LET lost == {c \in Conns : conn[c] = "backlog"} IN
  /\ acceptor = "on" /\ stop /\ acceptor' = "done"
  /\ conn' = [c \in Conns |-> IF c \in lost THEN "closed" ELSE conn[c]]
  /\ client' = [c \in Conns |-> IF c \in lost THEN "reset" ELSE client[c]]
  /\ UNCHANGED <<active, stop, channel, interpreterVars>>

\* serve_connection: a request is read and sent to the interpreter, or not.
SendRequest(c) ==
  /\ conn[c] = "reading" /\ conn' = [conn EXCEPT ![c] = "waiting"]
  /\ channel' = Append(channel, c)
  /\ UNCHANGED <<client, active, acceptor, stop, interpreterVars>>

ThreadEnds(c, status) ==
  /\ Hangup(c, status) /\ active' = active - 1
  /\ UNCHANGED <<acceptor, stop, channel, interpreterVars>>

BadRequest(c) == conn[c] = "reading" /\ ThreadEnds(c, "400")
WriteReply(c) == conn[c] = "waiting" /\ reply[c] # "none" /\ ThreadEnds(c, reply[c])
HandlerTimeout(c) == conn[c] = "waiting" /\ ThreadEnds(c, "504")

\* install_shutdown_handler: the first signal is an event, the second exits.
Signal ==
  /\ main # "starts" /\ signals < 2 /\ signals' = signals + 1
  /\ IF signals = 0
       THEN channel' = Append(channel, Shutdown) /\ UNCHANGED pc
       ELSE pc' = "halt" /\ UNCHANGED channel
  /\ UNCHANGED <<netVars, reply, serverVars, taskVars, nest, current, after>>

GraceEnds ==
  /\ grace = "armed" /\ grace' = "due"
  /\ UNCHANGED <<netVars, reply, channel, signals, server, handlerKind, serverTasks,
                 taskVars, loopVars>>

-----------------------------------------------------------------------------
\* The interpreter thread: events.

\* start_server, and serve suspends its task; or the port cannot be opened.
StartServer ==
  /\ pc = "start" /\ pc' = "head" /\ current' = NoTask
  /\ \/ main' = "serving" /\ server' = "serving" /\ acceptor' = "on"
     \/ main' = "returned" /\ UNCHANGED <<server, acceptor>>
  /\ UNCHANGED <<conn, client, active, stop, reply, channel, signals, handlerKind,
                 serverTasks, grace, task, cancelled, fuel, nest, after>>

\* Mutant: the stop does not wait for the handlers.
MaybeFinishStopAtOnce(tasks, srv, timer, back) ==
  IF srv = "stopping"
    THEN server' = "none" /\ grace' = "off" /\ pc' = "idle" /\ after' = back
    ELSE server' = srv /\ grace' = timer /\ pc' = back /\ UNCHANGED after

\* maybe_finish_stop, when tasks are left in the registry: once the last one is
\* gone the server is, and wait_idle begins; then the thread goes on at back.
MaybeFinishStop(tasks, srv, timer, back) ==
  IF srv = "stopping" /\ tasks = {}
    THEN server' = "none" /\ grace' = "off" /\ pc' = "idle" /\ after' = back
    ELSE server' = srv /\ grace' = timer /\ pc' = back /\ UNCHANGED after

\* wait_idle: until the connection threads have ended, or for five seconds.
IdleEnds ==
  /\ pc = "idle" /\ pc' = after
  /\ main' = IF main = "serving" THEN "ready" ELSE main
  /\ UNCHANGED <<netVars, reply, channel, signals, serverVars, task, cancelled, fuel,
                 nest, current, after>>

\* Mutant: the grace period is not armed.
RequestServerStopUnarmed(back) ==
  IF server = "serving"
    THEN stop' = TRUE /\ MaybeFinishStop(serverTasks, "stopping", grace, back)
    ELSE UNCHANGED stop /\ MaybeFinishStop(serverTasks, server, grace, back)

\* request_server_stop, called where the thread goes on at back.
RequestServerStop(back) ==
  IF server = "serving"
    THEN stop' = TRUE /\ MaybeFinishStop(serverTasks, "stopping", "armed", back)
    ELSE UNCHANGED stop /\ MaybeFinishStop(serverTasks, server, grace, back)

\* Mutant: a request that arrives after the stop is dropped.
RefuseRequestSilently(c) ==
  /\ server # "serving" \/ handlerKind = "builtin"
  /\ UNCHANGED <<reply, serverTasks, task, nest, pc>>

\* on_http_request: 503 when the server stops or has stopped, 500 when its
\* handler is no function of the program.
RefuseRequest(c) ==
  /\ server # "serving" \/ handlerKind = "builtin"
  /\ reply' = [reply EXCEPT ![c] = IF server = "serving" THEN "500" ELSE "503"]
  /\ UNCHANGED <<serverTasks, task, nest, pc>>

\* A plain handler becomes a task of the scheduler.
StartHandler(c) ==
  /\ server = "serving" /\ handlerKind = "plain"
  /\ task' = [task EXCEPT ![c] = "ready"] /\ serverTasks' = serverTasks \cup {c}
  /\ UNCHANGED <<reply, nest, pc>>

\* A handler with modifiers runs here and now, in a loop of its own.
RunHandler(c) ==
  /\ server = "serving" /\ handlerKind = "resilient"
  /\ nest' = Append(nest, [how |-> "sync", who |-> c, back |-> "drain"])
  /\ pc' = "head" /\ UNCHANGED <<reply, serverTasks, task>>

OnHttpRequest(c) == RefuseRequest(c) \/ StartHandler(c) \/ RunHandler(c)

\* drain_io, one event at a time.
DrainRequest ==
  /\ pc = "drain" /\ channel # <<>> /\ Head(channel) # Shutdown
  /\ channel' = Tail(channel) /\ OnHttpRequest(Head(channel))
  /\ UNCHANGED <<netVars, signals, server, handlerKind, grace, cancelled, main, fuel,
                 current, after>>

DrainShutdown ==
  /\ pc = "drain" /\ channel # <<>> /\ Head(channel) = Shutdown
  /\ channel' = Tail(channel) /\ RequestServerStop("drain")
  /\ UNCHANGED <<conn, client, active, acceptor, reply, signals, handlerKind, serverTasks,
                 taskVars, nest, current>>

DrainEnds ==
  /\ pc = "drain" /\ channel = <<>> /\ pc' = "pick"
  /\ UNCHANGED <<netVars, reply, channel, signals, serverVars, taskVars, nest, current, after>>

\* What a handler waits for comes: its timer, or the answer to a request of its own.
HandlerWakes(c) ==
  /\ pc = "drain" /\ task[c] = "suspended" /\ task' = [task EXCEPT ![c] = "ready"]
  /\ UNCHANGED <<netVars, reply, channel, signals, serverVars, cancelled, main, fuel, loopVars>>

-----------------------------------------------------------------------------
\* The interpreter thread: its loop, and what handlers do.

\* Mutant: the handlers that were answered stay in the registry.
AbortServerTasksKept ==
  /\ pc = "head" /\ grace = "due" /\ (nest = <<>> => main # "done")
  /\ reply' = [c \in Conns |-> IF c \in serverTasks THEN "503" ELSE reply[c]]
  /\ task' = [c \in Conns |-> IF c \in serverTasks THEN "done" ELSE task[c]]
  /\ cancelled' = cancelled \cup serverTasks
  /\ MaybeFinishStop(serverTasks, server, "off", "drain")
  /\ UNCHANGED <<netVars, channel, signals, handlerKind, serverTasks, main, fuel, nest, current>>

\* abort_server_tasks: the grace is over, every handler left is answered 503
\* and marked done, whatever its state.
AbortServerTasks ==
  /\ pc = "head" /\ grace = "due" /\ (nest = <<>> => main # "done")
  /\ reply' = [c \in Conns |-> IF c \in serverTasks THEN "503" ELSE reply[c]]
  /\ task' = [c \in Conns |-> IF c \in serverTasks THEN "done" ELSE task[c]]
  /\ cancelled' = cancelled \cup serverTasks /\ serverTasks' = {}
  /\ MaybeFinishStop({}, server, "off", "drain")
  /\ UNCHANGED <<netVars, channel, signals, handlerKind, main, fuel, nest, current>>

LoopGoesOn ==
  /\ pc = "head" /\ grace # "due" /\ (nest = <<>> => main # "done") /\ pc' = "drain"
  /\ UNCHANGED <<netVars, reply, channel, signals, serverVars, taskVars, nest, current, after>>

\* The body of the innermost nested call is done: its caller goes on, or the
\* request a handler with modifiers was run for is answered.
NestedReturns ==
  LET l == nest[Len(nest)] IN
  /\ pc = "head" /\ nest # <<>>
  /\ nest' = SubSeq(nest, 1, Len(nest) - 1) /\ pc' = l.back
  /\ \/ l.how = "call" /\ current' = l.who /\ UNCHANGED reply
     \/ l.how = "sync" /\ UNCHANGED current
        /\ \E s \in {"200", "500"} : reply' = [reply EXCEPT ![l.who] = s]
  /\ UNCHANGED <<netVars, channel, signals, serverVars, taskVars, after>>

PickHandler(c) ==
  /\ pc = "pick" /\ task[c] = "ready" /\ task' = [task EXCEPT ![c] = "running"]
  /\ current' = c /\ pc' = "run"
  /\ UNCHANGED <<netVars, reply, channel, signals, serverVars, cancelled, main, fuel, nest, after>>

\* serve returns; later its task ends.
PickMain ==
  /\ pc = "pick" /\ main \in {"ready", "returned"} /\ pc' = "head"
  /\ main' = IF main = "ready" THEN "returned" ELSE "done"
  /\ UNCHANGED <<netVars, reply, channel, signals, serverVars, task, cancelled, fuel, nest,
                 current, after>>

NothingReady ==
  /\ pc = "pick" /\ main \notin {"ready", "returned"} /\ \A c \in Conns : task[c] # "ready"
  /\ pc' = "head"
  /\ UNCHANGED <<netVars, reply, channel, signals, serverVars, taskVars, nest, current, after>>

\* stopServer(), called by a handler, or by some other task that is picked.
StopServer ==
  /\ server = "serving" /\ pc \in {"run", "pick"}
  /\ RequestServerStop(IF pc = "run" THEN "run" ELSE "head")
  /\ UNCHANGED <<conn, client, active, acceptor, reply, channel, signals, handlerKind,
                 serverTasks, taskVars, nest, current>>

Burn == fuel[current] > 0 /\ fuel' = [fuel EXCEPT ![current] = @ - 1]

\* sleep, a network request or a join: the end of run_task_until_suspend.
HandlerSuspends ==
  /\ pc = "run" /\ Burn /\ task' = [task EXCEPT ![current] = "suspended"]
  /\ current' = NoTask /\ pc' = "head"
  /\ UNCHANGED <<netVars, reply, channel, signals, serverVars, cancelled, main, nest, after>>

\* A call of a function with modifiers, or a callback: a nested loop.
HandlerCalls ==
  /\ pc = "run" /\ Burn
  /\ nest' = Append(nest, [how |-> "call", who |-> current, back |-> "run"])
  /\ current' = NoTask /\ pc' = "head"
  /\ UNCHANGED <<netVars, reply, channel, signals, serverVars, task, cancelled, main, after>>

\* finish_server_task: the answer of a handler still in the registry is sent.
HandlerEnds ==
  /\ pc = "run" /\ task' = [task EXCEPT ![current] = "done"] /\ current' = NoTask
  /\ serverTasks' = serverTasks \ {current}
  /\ IF current \in serverTasks
       THEN /\ \E s \in {"200", "500"} : reply' = [reply EXCEPT ![current] = s]
            /\ MaybeFinishStop(serverTasks \ {current}, server, grace, "head")
       ELSE pc' = "head" /\ UNCHANGED <<reply, server, grace, after>>
  /\ UNCHANGED <<netVars, channel, signals, handlerKind, cancelled, main, fuel, nest>>

Exits ==
  /\ pc = "head" /\ nest = <<>> /\ main = "done" /\ pc' = "halt"
  /\ UNCHANGED <<netVars, reply, channel, signals, serverVars, taskVars, nest, current, after>>

Halted == pc = "halt" /\ UNCHANGED vars

ConnThread(c) == SendRequest(c) \/ BadRequest(c) \/ WriteReply(c) \/ HandlerTimeout(c)
Network ==
  /\ pc # "halt"
  /\ \/ \E c \in Conns : Connect(c) \/ Accept(c) \/ Refuse(c) \/ ConnThread(c)
     \/ AcceptorEnds
Events == StartServer \/ IdleEnds \/ DrainRequest \/ DrainShutdown \/ DrainEnds
Scheduling == AbortServerTasks \/ LoopGoesOn \/ PickMain \/ NothingReady \/ Exits
                \/ (\E c \in Conns : PickHandler(c))
HandlerRuns == HandlerSuspends \/ HandlerCalls \/ HandlerEnds
Next ==
  \/ Network \/ Events \/ Scheduling \/ HandlerRuns \/ NestedReturns \/ StopServer
  \/ \E c \in Conns : HandlerWakes(c)
  \/ pc # "halt" /\ (Signal \/ GraceEnds)
  \/ Halted

Spec == Init /\ [][Next]_vars

\* The threads run, a handler that runs comes to its end or waits, and the
\* grace period passes.  A connection thread waits for nothing without a limit:
\* reading, writing and the handler have theirs.  Nothing says that what a
\* handler waits for comes, that a loop of its own or a nested call returns
\* (only a resilient fn must have a deadline), or that anybody stops the server.
Fairness ==
  /\ WF_vars(Events) /\ WF_vars(Scheduling) /\ WF_vars(HandlerRuns)
  /\ WF_vars(GraceEnds) /\ WF_vars(pc # "halt" /\ AcceptorEnds)
  /\ \A c \in Conns : WF_vars(pc # "halt" /\ ConnThread(c))
FairSpec == Spec /\ Fairness

-----------------------------------------------------------------------------
\* Properties.

\* The connections that have a thread.
Busy == {c \in Conns : conn[c] \in {"reading", "waiting"}}

\* active counts the connection threads, whichever way each of them ended, and
\* the limit holds.
ActiveIsAccounted ==
  /\ active = Cardinality(Busy)
  /\ active <= MaxConnections

\* The promise of RequestService: a request is being handled while its task is
\* registered, and has been answered once something was sent to its thread.
ServiceRequest ==
  [c \in Conns |-> IF reply[c] # "none" THEN "answered"
                   ELSE IF c \in serverTasks THEN "handled" ELSE "new"]
Service == INSTANCE RequestService WITH
  request <- ServiceRequest, up <- main \in {"starts", "serving", "ready"}
ImplementsService == Service!Spec

\* Once somebody stops the server serve returns (or the process has ended),
\* even if handlers wait for ever.
StopCompletes == (server = "stopping") ~> (main \in {"returned", "done"} \/ pc = "halt")

\* The request is being handled in a loop of its own.
Nested(c) == \E i \in DOMAIN nest : nest[i].how = "sync" /\ nest[i].who = c

\* Once the server stops every request that was sent is answered, also those of
\* handlers that hang and those in the channel when serve returns, and its thread
\* ends; unless the process has ended.  The one exception is a handler with
\* modifiers that does not return: its client has only the 504 of its thread.
StoppingAnswersEverybody ==
  \A c \in Conns :
    (conn[c] = "waiting" /\ server # "serving")
      ~> (pc = "halt" \/ (conn[c] = "closed" /\ (reply[c] # "none" \/ Nested(c))))

\* A handler that was aborted is done for good.
AbortedStaysDone ==
  [][\A c \in cancelled : task[c] = "done" => task'[c] = "done"]_vars
=============================================================================
