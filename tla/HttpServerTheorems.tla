------------------------ MODULE HttpServerTheorems ------------------------
(* HttpServer, for all sets of connections, limits and handlers: IInv is      *)
(* inductive, the properties follow from it, and the server implements the    *)
(* abstract RequestService.                                                   *)
EXTENDS HttpServerInvariant, SequenceFacts, FiniteSetTheorems

-----------------------------------------------------------------------------
(* The steps, and how they move the channel and the stack of loops.           *)

\* Every step is one of the single actions, or a stutter.
LEMMA NextCases ==
  ASSUME [Next]_vars
  PROVE  \/ \E c \in Conns : \/ Connect(c) \/ Accept(c) \/ Refuse(c) \/ SendRequest(c)
                             \/ BadRequest(c) \/ WriteReply(c) \/ HandlerTimeout(c)
         \/ AcceptorEnds
         \/ StartServer \/ IdleEnds \/ DrainRequest \/ DrainShutdown \/ DrainEnds
         \/ AbortServerTasks \/ LoopGoesOn \/ PickMain \/ NothingReady \/ Exits
         \/ \E c \in Conns : PickHandler(c)
         \/ HandlerSuspends \/ HandlerCalls \/ HandlerEnds \/ NestedReturns \/ StopServer
         \/ \E c \in Conns : HandlerWakes(c)
         \/ Signal \/ GraceEnds
         \/ UNCHANGED vars
  BY DEF Next, Network, Events, Scheduling, HandlerRuns, ConnThread, Halted

\* A loop that is pushed goes back to where it may.
Pushed(l) ==
  /\ nest' = Append(nest, l) /\ (l.back = "run" => l.how = "call")
  /\ l.how = "sync" => DrainRequest /\ RunHandler(Head(channel)) /\ l.who = Head(channel)

\* The stack of loops is left alone, or one loop is pushed on it or popped off it.
LEMMA NestMoves ==
  ASSUME TypeOK, ControlOK, [Next]_vars
  PROVE  \/ nest' = nest
         \/ \E l \in Loop : Pushed(l)
         \/ nest # <<>> /\ nest' = SubSeq(nest, 1, Len(nest) - 1) /\ NestedReturns
<1>1. CASE DrainRequest
  <2>1. nest' = nest \/ RunHandler(Head(channel))
    BY <1>1 DEF DrainRequest, OnHttpRequest, RefuseRequest, StartHandler
  <2>2. ASSUME RunHandler(Head(channel)) PROVE \E l \in Loop : Pushed(l)
    <3>1. Head(channel) \in Conns
      BY <1>1, TailType DEF DrainRequest, TypeOK
    <3> DEFINE l == [how |-> "sync", who |-> Head(channel), back |-> "drain"]
    <3>2. l \in Loop
      BY <3>1 DEF Loop
    <3>3. Pushed(l)
      BY <1>1, <2>2 DEF RunHandler, Pushed
    <3>4. QED BY <3>2, <3>3
  <2>3. QED BY <2>1, <2>2
<1>2. CASE HandlerCalls
  <2> DEFINE l == [how |-> "call", who |-> current, back |-> "run"]
  <2>1. l \in Loop
    BY <1>2 DEF HandlerCalls, ControlOK, Loop
  <2>2. Pushed(l)
    BY <1>2 DEF HandlerCalls, Pushed
  <2>3. QED BY <2>1, <2>2
<1>3. CASE NestedReturns
  BY <1>3 DEF NestedReturns
<1>4. ASSUME NEW c \in Conns,
             \/ Connect(c) \/ Accept(c) \/ Refuse(c) \/ SendRequest(c) \/ BadRequest(c)
             \/ WriteReply(c) \/ HandlerTimeout(c) \/ PickHandler(c) \/ HandlerWakes(c)
      PROVE  nest' = nest
  BY <1>4 DEF Connect, Accept, Refuse, SendRequest, BadRequest, WriteReply, HandlerTimeout,
     PickHandler, HandlerWakes, ThreadEnds, interpreterVars, loopVars
<1>5. CASE \/ AcceptorEnds \/ StartServer \/ IdleEnds \/ DrainShutdown \/ DrainEnds
           \/ AbortServerTasks \/ LoopGoesOn \/ PickMain \/ NothingReady \/ Exits
  BY <1>5 DEF AcceptorEnds, StartServer, IdleEnds, DrainShutdown, DrainEnds,
     AbortServerTasks, LoopGoesOn, PickMain, NothingReady, Exits, interpreterVars, loopVars
<1>6. CASE HandlerSuspends \/ HandlerEnds \/ StopServer \/ Signal \/ GraceEnds \/ UNCHANGED vars
  BY <1>6 DEF HandlerSuspends, HandlerEnds, StopServer, Signal, GraceEnds, vars, loopVars
<1>7. QED BY <1>1, <1>2, <1>3, <1>4, <1>5, <1>6, NextCases

\* The channel is left alone, or an event is put in it or taken out of it.
LEMMA ChannelMoves ==
  ASSUME TypeOK, [Next]_vars
  PROVE  \/ channel' = channel
         \/ \E e \in Conns : SendRequest(e) /\ channel' = Append(channel, e)
         \/ channel' = Append(channel, Shutdown)
         \/ channel # <<>> /\ channel' = Tail(channel)
<1>1. ASSUME NEW c \in Conns, SendRequest(c)
      PROVE  \E e \in Conns : SendRequest(e) /\ channel' = Append(channel, e)
  BY <1>1 DEF SendRequest
<1>2. CASE DrainRequest \/ DrainShutdown
  BY <1>2 DEF DrainRequest, DrainShutdown
<1>3. CASE Signal
  BY <1>3 DEF Signal
<1>4. ASSUME NEW c \in Conns,
             \/ Connect(c) \/ Accept(c) \/ Refuse(c) \/ BadRequest(c)
             \/ WriteReply(c) \/ HandlerTimeout(c) \/ PickHandler(c) \/ HandlerWakes(c)
      PROVE  channel' = channel
  BY <1>4 DEF Connect, Accept, Refuse, BadRequest, WriteReply, HandlerTimeout,
     PickHandler, HandlerWakes, ThreadEnds
<1>5. CASE \/ AcceptorEnds \/ StartServer \/ IdleEnds \/ DrainEnds
           \/ AbortServerTasks \/ LoopGoesOn \/ PickMain \/ NothingReady \/ Exits
  BY <1>5 DEF AcceptorEnds, StartServer, IdleEnds, DrainEnds,
     AbortServerTasks, LoopGoesOn, PickMain, NothingReady, Exits
<1>6. CASE \/ HandlerSuspends \/ HandlerCalls \/ HandlerEnds \/ NestedReturns \/ StopServer
           \/ GraceEnds \/ UNCHANGED vars
  BY <1>6 DEF HandlerSuspends, HandlerCalls, HandlerEnds, NestedReturns, StopServer,
     GraceEnds, vars
<1>7. QED BY <1>1, <1>2, <1>3, <1>4, <1>5, <1>6, NextCases

-----------------------------------------------------------------------------
(* Types.                                                                     *)

\* What the clients, the accepting thread and the connection threads keep.
NetTypes ==
  /\ conn \in [Conns -> {"away", "backlog", "reading", "waiting", "closed"}]
  /\ client \in [Conns -> {"none", "200", "400", "500", "503", "504", "reset"}]
  /\ acceptor \in {"off", "on", "done"} /\ stop \in BOOLEAN

\* What the server and its handlers keep.
ServerTypes ==
  /\ reply \in [Conns -> {"none", "200", "500", "503"}] /\ signals \in 0..2
  /\ server \in {"none", "serving", "stopping"} /\ handlerKind \in HandlerKinds
  /\ serverTasks \subseteq Conns /\ grace \in {"off", "armed", "due"}
  /\ task \in [Conns -> {"none", "ready", "running", "suspended", "done"}]
  /\ cancelled \subseteq Conns /\ fuel \in [Conns -> 0..Fuel]

\* Where the interpreter thread is.
ThreadTypes ==
  /\ main \in {"starts", "serving", "ready", "returned", "done"}
  /\ current \in Conns \cup {NoTask}
  /\ pc \in {"start", "head", "drain", "pick", "run", "idle", "halt"}
  /\ after \in {"head", "drain", "run"}

\* The type invariant by its groups.
LEMMA TypeGroups ==
  TypeOK <=> /\ NetTypes /\ ServerTypes /\ ThreadTypes /\ active \in 0..MaxConnections
             /\ channel \in Seq(Conns \cup {Shutdown}) /\ nest \in Seq(Loop)
  BY DEF TypeOK, NetTypes, ServerTypes, ThreadTypes

LEMMA NetTypeStep ==
  ASSUME TypeOK, [Next]_vars
  PROVE  NetTypes'
<1>0. NetTypes /\ reply \in [Conns -> {"none", "200", "500", "503"}]
  BY DEF TypeOK, NetTypes
<1>1. ASSUME NEW c \in Conns,
             \/ Connect(c) \/ Accept(c) \/ Refuse(c) \/ SendRequest(c) \/ BadRequest(c)
             \/ WriteReply(c) \/ HandlerTimeout(c)
      PROVE  NetTypes'
  BY <1>0, <1>1 DEF NetTypes, Connect, Accept, Refuse, SendRequest, BadRequest, WriteReply,
     HandlerTimeout, ThreadEnds, Hangup
<1>2. CASE AcceptorEnds
  BY <1>0, <1>2 DEF NetTypes, AcceptorEnds
<1>3. CASE StartServer \/ DrainShutdown \/ StopServer
  BY <1>0, <1>3 DEF NetTypes, StartServer, DrainShutdown, StopServer, RequestServerStop
<1>4. ASSUME NEW c \in Conns, PickHandler(c) \/ HandlerWakes(c) PROVE NetTypes'
  BY <1>0, <1>4 DEF NetTypes, PickHandler, HandlerWakes, netVars
<1>5. CASE \/ IdleEnds \/ DrainRequest \/ DrainEnds \/ AbortServerTasks \/ LoopGoesOn
           \/ PickMain \/ NothingReady \/ Exits
  BY <1>0, <1>5 DEF NetTypes, IdleEnds, DrainRequest, DrainEnds, AbortServerTasks,
     LoopGoesOn, PickMain, NothingReady, Exits, netVars
<1>6. CASE \/ HandlerSuspends \/ HandlerCalls \/ HandlerEnds \/ NestedReturns
           \/ Signal \/ GraceEnds \/ UNCHANGED vars
  BY <1>0, <1>6 DEF NetTypes, HandlerSuspends, HandlerCalls, HandlerEnds, NestedReturns,
     Signal, GraceEnds, vars, netVars
<1>7. QED BY <1>1, <1>2, <1>3, <1>4, <1>5, <1>6, NextCases

LEMMA ServerTypeStep ==
  ASSUME TypeOK, ControlOK, [Next]_vars
  PROVE  ServerTypes'
<1>0. ServerTypes /\ nest \in Seq(Loop)
  BY DEF TypeOK, ServerTypes
<1>1. ASSUME NEW c \in Conns,
             \/ Connect(c) \/ Accept(c) \/ Refuse(c) \/ SendRequest(c) \/ BadRequest(c)
             \/ WriteReply(c) \/ HandlerTimeout(c)
      PROVE  ServerTypes'
  BY <1>0, <1>1 DEF ServerTypes, Connect, Accept, Refuse, SendRequest, BadRequest, WriteReply,
     HandlerTimeout, ThreadEnds, interpreterVars, serverVars, taskVars
<1>2. CASE AcceptorEnds \/ StartServer \/ IdleEnds \/ GraceEnds
  BY <1>0, <1>2 DEF ServerTypes, AcceptorEnds, StartServer, IdleEnds, GraceEnds,
     interpreterVars, serverVars, taskVars
<1>3. CASE DrainShutdown \/ StopServer
  BY <1>0, <1>3 DEF ServerTypes, DrainShutdown, StopServer, RequestServerStop,
     MaybeFinishStop, taskVars
<1>4. CASE DrainRequest
  <2>1. Head(channel) \in Conns
    BY <1>4, TailType DEF DrainRequest, TypeOK
  <2>2. QED BY <1>0, <1>4, <2>1 DEF ServerTypes, DrainRequest, OnHttpRequest, RefuseRequest,
              StartHandler, RunHandler
<1>5. ASSUME NEW c \in Conns, PickHandler(c) \/ HandlerWakes(c) PROVE ServerTypes'
  BY <1>0, <1>5 DEF ServerTypes, PickHandler, HandlerWakes, serverVars
<1>6. CASE AbortServerTasks
  BY <1>0, <1>6 DEF ServerTypes, AbortServerTasks, MaybeFinishStop
<1>7. CASE \/ DrainEnds \/ LoopGoesOn \/ PickMain \/ NothingReady \/ Exits \/ UNCHANGED vars
  BY <1>0, <1>7 DEF ServerTypes, DrainEnds, LoopGoesOn, PickMain, NothingReady, Exits, vars,
     serverVars, taskVars
<1>8. CASE Signal
  BY <1>0, <1>8 DEF ServerTypes, Signal, serverVars, taskVars
<1>9. CASE HandlerSuspends \/ HandlerCalls
  <2>1. current \in Conns
    BY <1>9 DEF HandlerSuspends, HandlerCalls, ControlOK
  <2>2. fuel' \in [Conns -> 0..Fuel]
    BY <1>0, <1>9, <2>1, ServerAssumption DEF ServerTypes, HandlerSuspends, HandlerCalls, Burn
  <2>3. QED BY <1>0, <1>9, <2>1, <2>2 DEF ServerTypes, HandlerSuspends, HandlerCalls, serverVars
<1>10. CASE HandlerEnds
  BY <1>0, <1>10 DEF ServerTypes, HandlerEnds, MaybeFinishStop
<1>11. CASE NestedReturns
  BY <1>0, <1>11 DEF ServerTypes, NestedReturns, serverVars, taskVars
<1>12. QED BY <1>1, <1>2, <1>3, <1>4, <1>5, <1>6, <1>7, <1>8, <1>9, <1>10, <1>11, NextCases

LEMMA ThreadTypeStep ==
  ASSUME TypeOK, [Next]_vars
  PROVE  ThreadTypes'
<1>0. ThreadTypes /\ nest \in Seq(Loop)
  BY DEF TypeOK, ThreadTypes
<1>1. ASSUME NEW c \in Conns,
             \/ Connect(c) \/ Accept(c) \/ Refuse(c) \/ SendRequest(c) \/ BadRequest(c)
             \/ WriteReply(c) \/ HandlerTimeout(c)
      PROVE  ThreadTypes'
  BY <1>0, <1>1 DEF ThreadTypes, Connect, Accept, Refuse, SendRequest, BadRequest, WriteReply,
     HandlerTimeout, ThreadEnds, interpreterVars, taskVars, loopVars
<1>2. CASE AcceptorEnds \/ StartServer \/ IdleEnds \/ GraceEnds \/ DrainEnds \/ Signal
  BY <1>0, <1>2 DEF ThreadTypes, AcceptorEnds, StartServer, IdleEnds, GraceEnds, DrainEnds,
     Signal, interpreterVars, taskVars, loopVars
<1>3. CASE DrainShutdown \/ StopServer
  BY <1>0, <1>3 DEF ThreadTypes, DrainShutdown, StopServer, RequestServerStop,
     MaybeFinishStop, taskVars
<1>4. CASE DrainRequest
  BY <1>0, <1>4 DEF ThreadTypes, DrainRequest, OnHttpRequest, RefuseRequest, StartHandler,
     RunHandler
<1>5. ASSUME NEW c \in Conns, PickHandler(c) \/ HandlerWakes(c) PROVE ThreadTypes'
  BY <1>0, <1>5 DEF ThreadTypes, PickHandler, HandlerWakes, loopVars
<1>6. CASE AbortServerTasks
  BY <1>0, <1>6 DEF ThreadTypes, AbortServerTasks, MaybeFinishStop
<1>7. CASE \/ LoopGoesOn \/ PickMain \/ NothingReady \/ Exits \/ UNCHANGED vars
  BY <1>0, <1>7 DEF ThreadTypes, LoopGoesOn, PickMain, NothingReady, Exits, vars,
     taskVars, loopVars
<1>8. CASE HandlerSuspends \/ HandlerCalls \/ HandlerEnds
  BY <1>0, <1>8 DEF ThreadTypes, HandlerSuspends, HandlerCalls, HandlerEnds, MaybeFinishStop
<1>9. CASE NestedReturns
  <2>1. nest[Len(nest)] \in Loop
    BY <1>0, <1>9 DEF NestedReturns
  <2>2. nest[Len(nest)].who \in Conns /\ nest[Len(nest)].back \in {"run", "drain"}
    BY <2>1 DEF Loop
  <2>3. QED BY <1>0, <1>9, <2>2 DEF ThreadTypes, NestedReturns, taskVars
<1>10. QED BY <1>1, <1>2, <1>3, <1>4, <1>5, <1>6, <1>7, <1>8, <1>9, NextCases

\* The channel and the stack of loops keep their types.
LEMMA ListTypeStep ==
  ASSUME TypeOK, ControlOK, [Next]_vars
  PROVE  channel' \in Seq(Conns \cup {Shutdown}) /\ nest' \in Seq(Loop)
<1>1. channel \in Seq(Conns \cup {Shutdown}) /\ nest \in Seq(Loop)
  BY DEF TypeOK
<1>2. channel' \in Seq(Conns \cup {Shutdown})
  <2>1. ASSUME NEW e \in Conns \cup {Shutdown}
        PROVE  Append(channel, e) \in Seq(Conns \cup {Shutdown})
    BY <1>1, AppendType
  <2>2. channel # <<>> => Tail(channel) \in Seq(Conns \cup {Shutdown})
    BY <1>1, TailType
  <2>3. QED BY <1>1, <2>1, <2>2, ChannelMoves
<1>3. nest' \in Seq(Loop)
  BY SMTT(40), <1>1, NestMoves, FrontType DEF Pushed
<1>4. QED BY <1>2, <1>3

-----------------------------------------------------------------------------
(* The connection threads.                                                    *)

\* active goes up and down with the connections that have a thread.
LEMMA BusyStep ==
  ASSUME TypeOK, IsFiniteSet(Busy), ActiveIsAccounted, [Next]_vars
  PROVE  IsFiniteSet(Busy') /\ ActiveIsAccounted' /\ active' \in 0..MaxConnections
<1>0. /\ conn \in [Conns -> {"away", "backlog", "reading", "waiting", "closed"}]
      /\ active = Cardinality(Busy) /\ Cardinality(Busy) \in Nat
      /\ active <= MaxConnections /\ MaxConnections \in Nat
  BY ServerAssumption, FS_CardinalityType DEF TypeOK, ActiveIsAccounted
<1>1. ASSUME Busy' = Busy, active' = active
      PROVE  IsFiniteSet(Busy') /\ ActiveIsAccounted' /\ active' \in 0..MaxConnections
  BY <1>0, <1>1 DEF ActiveIsAccounted
<1>2. ASSUME NEW c \in Conns, Accept(c)
      PROVE  IsFiniteSet(Busy') /\ ActiveIsAccounted' /\ active' \in 0..MaxConnections
  <2>1. Busy' = Busy \cup {c} /\ c \notin Busy
    BY <1>0, <1>2 DEF Accept, Busy
  <2>2. IsFiniteSet(Busy \cup {c}) /\ Cardinality(Busy \cup {c}) = Cardinality(Busy) + 1
    BY <2>1, FS_AddElement
  <2>3. active' = active + 1 /\ active < MaxConnections
    BY <1>2 DEF Accept
  <2>4. QED BY <1>0, <2>1, <2>2, <2>3 DEF ActiveIsAccounted
<1>3. ASSUME NEW c \in Conns, BadRequest(c) \/ WriteReply(c) \/ HandlerTimeout(c)
      PROVE  IsFiniteSet(Busy') /\ ActiveIsAccounted' /\ active' \in 0..MaxConnections
  <2>1. Busy' = Busy \ {c} /\ c \in Busy
    BY <1>0, <1>3 DEF BadRequest, WriteReply, HandlerTimeout, ThreadEnds, Hangup, Busy
  <2>2. IsFiniteSet(Busy \ {c}) /\ Cardinality(Busy \ {c}) = Cardinality(Busy) - 1
    BY <2>1, FS_RemoveElement
  <2>3. Cardinality(Busy \ {c}) \in Nat
    BY <2>2, FS_CardinalityType
  <2>4. active' = active - 1
    BY <1>3 DEF BadRequest, WriteReply, HandlerTimeout, ThreadEnds
  <2>5. QED BY <1>0, <2>1, <2>2, <2>3, <2>4 DEF ActiveIsAccounted
<1>4. ASSUME NEW c \in Conns, Connect(c) \/ Refuse(c) \/ SendRequest(c)
      PROVE  IsFiniteSet(Busy') /\ ActiveIsAccounted' /\ active' \in 0..MaxConnections
  BY <1>0, <1>1, <1>4 DEF Connect, Refuse, SendRequest, Hangup, Busy
<1>5. CASE AcceptorEnds
  BY <1>0, <1>1, <1>5 DEF AcceptorEnds, Busy
<1>6. ASSUME conn' = conn, active' = active
      PROVE  IsFiniteSet(Busy') /\ ActiveIsAccounted' /\ active' \in 0..MaxConnections
  BY <1>1, <1>6 DEF Busy
<1>7. ASSUME NEW c \in Conns, PickHandler(c) \/ HandlerWakes(c)
      PROVE  conn' = conn /\ active' = active
  BY <1>7 DEF PickHandler, HandlerWakes, netVars
<1>8. CASE \/ StartServer \/ IdleEnds \/ DrainRequest \/ DrainShutdown \/ DrainEnds
           \/ AbortServerTasks \/ LoopGoesOn \/ PickMain \/ NothingReady \/ Exits
  BY <1>6, <1>8 DEF StartServer, IdleEnds, DrainRequest, DrainShutdown, DrainEnds,
     AbortServerTasks, LoopGoesOn, PickMain, NothingReady, Exits, netVars
<1>9. CASE \/ HandlerSuspends \/ HandlerCalls \/ HandlerEnds \/ NestedReturns \/ StopServer
           \/ Signal \/ GraceEnds \/ UNCHANGED vars
  BY <1>6, <1>9 DEF HandlerSuspends, HandlerCalls, HandlerEnds, NestedReturns, StopServer,
     Signal, GraceEnds, vars, netVars
<1>10. QED BY <1>2, <1>3, <1>4, <1>5, <1>6, <1>7, <1>8, <1>9, NextCases

\* The variables keep their types.
LEMMA TypeStep ==
  ASSUME IInv, [Next]_vars
  PROVE  TypeOK'
<1>1. TypeOK /\ ControlOK /\ IsFiniteSet(Busy) /\ ActiveIsAccounted
  BY DEF IInv
<1>2. NetTypes' /\ ServerTypes' /\ ThreadTypes'
  BY <1>1, NetTypeStep, ServerTypeStep, ThreadTypeStep
<1>3. active' \in 0..MaxConnections
  BY <1>1, BusyStep
<1>4. QED BY <1>1, <1>2, <1>3, ListTypeStep DEF TypeOK, NetTypes, ServerTypes, ThreadTypes

-----------------------------------------------------------------------------
(* The interpreter thread and the server.                                     *)

LEMMA ControlStep ==
  ASSUME TypeOK, ControlOK, [Next]_vars
  PROVE  ControlOK'
<1>0. /\ nest \in Seq(Loop) /\ current \in Conns \cup {NoTask}
      /\ after \in {"head", "drain", "run"}
  BY DEF TypeOK
<1>1. \A i \in DOMAIN nest' : nest'[i].back = "run" => nest'[i].how = "call"
  <2>1. \A i \in DOMAIN nest : nest[i].back = "run" => nest[i].how = "call"
    BY DEF ControlOK
  <2>2. CASE nest' = nest
    BY <2>1, <2>2
  <2>3. ASSUME NEW l \in Loop, Pushed(l)
        PROVE  \A i \in DOMAIN nest' : nest'[i].back = "run" => nest'[i].how = "call"
    BY <1>0, <2>1, <2>3, AppendType DEF Pushed
  <2>4. CASE nest # <<>> /\ nest' = SubSeq(nest, 1, Len(nest) - 1)
    BY <1>0, <2>1, <2>4, FrontType
  <2>5. QED BY <2>2, <2>3, <2>4, NestMoves
\* Where the thread goes, and for what.
<1> DEFINE Goes == /\ pc' # "start"
                   /\ pc' = "idle" => server' = "none"
                   /\ pc' = "run" \/ (pc' = "idle" /\ after' = "run") => current' \in Conns
<1>2. ASSUME pc' = pc, after' = after, current' = current, server' = server, main' = main
      PROVE  ControlOK'
  BY <1>1, <1>2 DEF ControlOK
<1>3. ASSUME Goes PROVE ControlOK'
  BY <1>1, <1>3 DEF ControlOK
<1>4. ASSUME NEW c \in Conns,
             \/ Connect(c) \/ Accept(c) \/ Refuse(c) \/ SendRequest(c) \/ BadRequest(c)
             \/ WriteReply(c) \/ HandlerTimeout(c) \/ HandlerWakes(c)
      PROVE  ControlOK'
  BY <1>2, <1>4 DEF Connect, Accept, Refuse, SendRequest, BadRequest, WriteReply,
     HandlerTimeout, HandlerWakes, ThreadEnds, interpreterVars, serverVars, taskVars, loopVars
<1>5. CASE AcceptorEnds \/ GraceEnds \/ UNCHANGED vars
  BY <1>2, <1>5 DEF AcceptorEnds, GraceEnds, vars, interpreterVars, serverVars, taskVars, loopVars
<1>6. CASE \/ StartServer \/ IdleEnds \/ DrainEnds \/ LoopGoesOn \/ PickMain
           \/ NothingReady \/ Exits \/ HandlerSuspends \/ HandlerCalls
  <2>1. Goes
    BY <1>0, <1>6 DEF StartServer, IdleEnds, DrainEnds, LoopGoesOn, PickMain,
       NothingReady, Exits, HandlerSuspends, HandlerCalls, ControlOK, serverVars
  <2>2. QED BY <1>3, <2>1
<1>7. CASE DrainShutdown \/ StopServer \/ AbortServerTasks \/ HandlerEnds
  <2>1. Goes
    BY <1>0, <1>7 DEF DrainShutdown, StopServer, AbortServerTasks, HandlerEnds,
       RequestServerStop, MaybeFinishStop, ControlOK
  <2>2. QED BY <1>3, <2>1
<1>8. CASE DrainRequest
  <2>1. pc' = "drain" \/ pc' = "head"
    BY <1>8 DEF DrainRequest, OnHttpRequest, RefuseRequest, StartHandler, RunHandler
  <2>2. QED BY <1>3, <2>1
<1>9. ASSUME NEW c \in Conns, PickHandler(c) PROVE ControlOK'
  BY <1>3, <1>9 DEF PickHandler
<1>10. CASE NestedReturns
  <2>1. nest[Len(nest)] \in Loop /\ Len(nest) \in DOMAIN nest
    BY <1>0, <1>10, FrontType DEF NestedReturns
  <2>2. /\ nest[Len(nest)].who \in Conns /\ nest[Len(nest)].back \in {"run", "drain"}
        /\ nest[Len(nest)].back = "run" => nest[Len(nest)].how = "call"
    BY <2>1 DEF Loop, ControlOK
  <2>3. Goes
    BY <1>10, <2>2 DEF NestedReturns
  <2>4. QED BY <1>3, <2>3
<1>11. CASE Signal
  <2>1. CASE pc' = pc
    BY <1>2, <1>11, <2>1 DEF Signal, serverVars, taskVars
  <2>2. CASE pc' = "halt"
    BY <1>3, <2>2
  <2>3. QED BY <1>11, <2>1, <2>2 DEF Signal
<1>12. QED BY <1>4, <1>5, <1>6, <1>7, <1>8, <1>9, <1>10, <1>11, NextCases

LEMMA ServerStep ==
  ASSUME TypeOK, ControlOK, ServerOK, [Next]_vars
  PROVE  ServerOK'
<1>0. /\ server \in {"none", "serving", "stopping"}
      /\ main \in {"starts", "serving", "ready", "returned", "done"}
  BY DEF TypeOK
<1>1. ASSUME NEW c \in Conns,
             \/ Connect(c) \/ Accept(c) \/ Refuse(c) \/ SendRequest(c) \/ BadRequest(c)
             \/ WriteReply(c) \/ HandlerTimeout(c) \/ PickHandler(c) \/ HandlerWakes(c)
      PROVE  ServerOK'
  BY <1>1 DEF ServerOK, Connect, Accept, Refuse, SendRequest, BadRequest, WriteReply,
     HandlerTimeout, PickHandler, HandlerWakes, ThreadEnds, interpreterVars, serverVars, taskVars
<1>2. CASE \/ AcceptorEnds \/ GraceEnds \/ DrainEnds \/ Signal \/ LoopGoesOn \/ NothingReady
           \/ Exits \/ HandlerSuspends \/ HandlerCalls \/ NestedReturns \/ UNCHANGED vars
  BY <1>2 DEF ServerOK, AcceptorEnds, GraceEnds, DrainEnds, Signal, LoopGoesOn, NothingReady,
     Exits, HandlerSuspends, HandlerCalls, NestedReturns, vars, interpreterVars, serverVars, taskVars
<1>3. CASE StartServer \/ IdleEnds \/ PickMain
  BY <1>3 DEF ServerOK, ControlOK, StartServer, IdleEnds, PickMain, serverVars
<1>4. CASE DrainRequest
  BY <1>4 DEF ServerOK, DrainRequest, OnHttpRequest, RefuseRequest, StartHandler, RunHandler
<1>5. CASE DrainShutdown \/ StopServer \/ AbortServerTasks
  BY <1>5 DEF ServerOK, DrainShutdown, StopServer, AbortServerTasks, RequestServerStop,
     MaybeFinishStop, taskVars
<1>6. CASE HandlerEnds
  BY <1>6 DEF ServerOK, HandlerEnds, MaybeFinishStop
<1>7. QED BY <1>1, <1>2, <1>3, <1>4, <1>5, <1>6, NextCases

-----------------------------------------------------------------------------
(* Where a request is: what each step does to one of them.                    *)

\* What is in a queue after an event was put at its end.
LEMMA MembersAppend ==
  ASSUME NEW S, NEW q \in Seq(S), NEW e \in S, NEW x
  PROVE  (\E i \in DOMAIN Append(q, e) : Append(q, e)[i] = x) <=> (\E i \in DOMAIN q : q[i] = x) \/ x = e
<1>1. /\ Len(q) \in Nat /\ DOMAIN q = 1..Len(q) /\ Append(q, e)[Len(q) + 1] = e
      /\ \A i \in DOMAIN q : Append(q, e)[i] = q[i]
      /\ DOMAIN Append(q, e) = DOMAIN q \cup {Len(q) + 1}
  BY AppendType
<1>2. QED BY <1>1

\* What is left in a queue in which nothing but Shutdown comes twice.
LEMMA MembersTail ==
  ASSUME NEW S, NEW q \in Seq(S), q # <<>>, NEW x, x # Shutdown,
         \A i, j \in DOMAIN q : q[i] = q[j] /\ q[i] # Shutdown => i = j
  PROVE  (\E i \in DOMAIN Tail(q) : Tail(q)[i] = x) <=> (\E i \in DOMAIN q : q[i] = x) /\ x # Head(q)
<1>1. /\ Head(q) = q[1] /\ 1 \in DOMAIN q
      /\ \A i \in DOMAIN Tail(q) : i + 1 \in DOMAIN q /\ Tail(q)[i] = q[i + 1]
      /\ \A i \in DOMAIN q : i = 1 \/ (i - 1 \in DOMAIN Tail(q) /\ Tail(q)[i - 1] = q[i])
      /\ \A i \in DOMAIN Tail(q) : i \in Nat \ {0}
  BY TailType
<1>2. ASSUME NEW i \in DOMAIN Tail(q), Tail(q)[i] = x
      PROVE  (\E j \in DOMAIN q : q[j] = x) /\ x # Head(q)
  BY <1>1, <1>2
<1>3. ASSUME NEW i \in DOMAIN q, q[i] = x, x # Head(q)
      PROVE  \E j \in DOMAIN Tail(q) : Tail(q)[j] = x
  BY <1>1, <1>3
<1>4. QED BY <1>2, <1>3

\* The request is where it was, though its client or its thread may move on.
Quiet(c) ==
  /\ conn'[c] \in {conn[c], "closed"} \/ {conn[c], conn'[c]} \subseteq {"away", "backlog", "reading"}
  /\ reply'[c] = reply[c] /\ (c \in serverTasks' <=> c \in serverTasks)
  /\ (Queued(c)' <=> Queued(c)) /\ (Nested(c)' <=> Nested(c))

\* It is sent to the interpreter.
Sent(c) ==
  /\ conn[c] = "reading" /\ conn'[c] = "waiting"
  /\ reply'[c] = reply[c] /\ (c \in serverTasks' <=> c \in serverTasks)
  /\ Queued(c)' /\ (Nested(c)' <=> Nested(c))

\* A handler begins, in a task or in a loop of its own.
Taken(c) ==
  /\ DrainRequest /\ c = Head(channel) /\ StartHandler(c)
  /\ Queued(c) /\ ~Queued(c)' /\ conn'[c] = conn[c] /\ reply'[c] = reply[c]
  /\ c \in serverTasks' /\ (Nested(c)' <=> Nested(c))
RunsAlone(c) ==
  /\ Queued(c) /\ ~Queued(c)' /\ conn'[c] = conn[c] /\ reply'[c] = reply[c]
  /\ (c \in serverTasks' <=> c \in serverTasks) /\ Nested(c)'

\* It is answered, by its handler or in place of one.
Answered(c) ==
  /\ Queued(c) \/ c \in serverTasks \/ Nested(c)
  /\ conn'[c] = conn[c] /\ reply'[c] # "none"
  /\ ~Queued(c)' /\ c \notin serverTasks' /\ ~Nested(c)'

\* What a step does to a request when it moves neither the stack nor the channel.
LEMMA ListsAlone ==
  ASSUME NEW c \in Conns
  PROVE  /\ nest' = nest => (Nested(c)' <=> Nested(c))
         /\ channel' = channel => (Queued(c)' <=> Queued(c))
  BY DEF Nested, Queued

\* A step without effect on the channel, the registry, the stack and the answers.
LEMMA QuietSteps ==
  ASSUME NEW c \in Conns, conn'[c] = conn[c], reply' = reply, serverTasks' = serverTasks,
         channel' = channel, nest' = nest
  PROVE  Quiet(c)
  BY ListsAlone DEF Quiet

\* The network side moves a request only from its thread to the channel.
LEMMA NetworkMoves ==
  ASSUME TypeOK, NEW c \in Conns, NEW d \in Conns,
         \/ Connect(d) \/ Accept(d) \/ Refuse(d) \/ SendRequest(d) \/ BadRequest(d)
         \/ WriteReply(d) \/ HandlerTimeout(d)
  PROVE  Quiet(c) \/ Sent(c)
<1>0. /\ conn \in [Conns -> {"away", "backlog", "reading", "waiting", "closed"}]
      /\ channel \in Seq(Conns \cup {Shutdown})
  BY DEF TypeOK
<1>1. reply' = reply /\ serverTasks' = serverTasks /\ (Nested(c)' <=> Nested(c))
  <2>1. reply' = reply /\ serverTasks' = serverTasks /\ nest' = nest
    BY DEF Connect, Accept, Refuse, SendRequest, BadRequest, WriteReply, HandlerTimeout,
       ThreadEnds, interpreterVars, serverVars, loopVars
  <2>2. QED BY <2>1, ListsAlone
<1>2. CASE SendRequest(d)
  <2>1. channel' = Append(channel, d) /\ conn' = [conn EXCEPT ![d] = "waiting"] /\ conn[d] = "reading"
    BY <1>2 DEF SendRequest
  <2>2. Queued(c)' <=> Queued(c) \/ c = d
    BY <1>0, <2>1, MembersAppend DEF Queued
  <2>3. CASE c = d
    BY <1>0, <1>1, <2>1, <2>2, <2>3 DEF Sent
  <2>4. CASE c # d
    BY <1>0, <1>1, <2>1, <2>2, <2>4 DEF Quiet
  <2>5. QED BY <2>3, <2>4
<1>3. CASE \/ Connect(d) \/ Accept(d) \/ Refuse(d) \/ BadRequest(d)
           \/ WriteReply(d) \/ HandlerTimeout(d)
  <2>1. Queued(c)' <=> Queued(c)
    BY <1>3, ListsAlone DEF Connect, Accept, Refuse, BadRequest, WriteReply,
       HandlerTimeout, ThreadEnds
  <2>2. conn'[c] \in {conn[c], "closed"} \/ {conn[c], conn'[c]} \subseteq {"away", "backlog", "reading"}
    BY <1>0, <1>3 DEF Connect, Accept, Refuse, BadRequest, WriteReply, HandlerTimeout,
       ThreadEnds, Hangup
  <2>3. QED BY <1>1, <2>1, <2>2 DEF Quiet
<1>4. QED BY <1>2, <1>3

\* A request that is received: a handler begins, or the request is refused.
LEMMA DrainMoves ==
  ASSUME TypeOK, PlacesOK, NEW c \in Conns, DrainRequest
  PROVE  Quiet(c) \/ Taken(c) \/ RunsAlone(c) \/ Answered(c)
<1> DEFINE h == Head(channel)
<1>1. /\ channel \in Seq(Conns \cup {Shutdown}) /\ channel # <<>> /\ channel' = Tail(channel)
      /\ h # Shutdown /\ conn' = conn /\ nest \in Seq(Loop) /\ Shutdown \notin Conns
      /\ reply \in [Conns -> {"none", "200", "500", "503"}]
  BY ServerAssumption DEF TypeOK, DrainRequest, netVars
<1>2. Queued(c)' <=> Queued(c) /\ c # h
  BY ZenonT(60), <1>1, MembersTail DEF Queued, PlacesOK
<1>3. h \in Conns /\ (c = h => Queued(c) /\ c \notin serverTasks /\ ~Nested(c))
  <2>1. h \in Conns \cup {Shutdown} /\ h = channel[1] /\ 1 \in DOMAIN channel
    BY <1>1, TailType
  <2>2. QED BY <1>1, <2>1 DEF Queued, PlacesOK
<1>4. CASE RefuseRequest(h)
  <2>1. serverTasks' = serverTasks /\ (Nested(c)' <=> Nested(c))
    BY <1>4, ListsAlone DEF RefuseRequest
  <2>2. reply'[c] = IF c = h THEN IF server = "serving" THEN "500" ELSE "503" ELSE reply[c]
    BY <1>1, <1>4 DEF RefuseRequest
  <2>3. QED BY <1>1, <1>2, <1>3, <2>1, <2>2 DEF Quiet, Answered
<1>5. CASE StartHandler(h)
  <2>1. serverTasks' = serverTasks \cup {h} /\ reply' = reply /\ (Nested(c)' <=> Nested(c))
    BY <1>5, ListsAlone DEF StartHandler
  <2>2. QED BY <1>1, <1>2, <1>3, <1>5, <2>1 DEF Quiet, Taken
<1>6. CASE RunHandler(h)
  <2> DEFINE l == [how |-> "sync", who |-> h, back |-> "drain"]
  <2>1. serverTasks' = serverTasks /\ reply' = reply /\ nest' = Append(nest, l)
    BY <1>6 DEF RunHandler
  <2>2. l \in Loop /\ l.how = "sync" /\ l.who = h
    BY <1>3 DEF Loop
  <2>3. Nested(c)' <=> Nested(c) \/ c = h
    <3> HIDE DEF l
    <3>1. /\ Len(nest) + 1 \in DOMAIN Append(nest, l) /\ Append(nest, l)[Len(nest) + 1] = l
          /\ \A i \in DOMAIN nest : Append(nest, l)[i] = nest[i]
          /\ DOMAIN Append(nest, l) = DOMAIN nest \cup {Len(nest) + 1}
      BY <1>1, <2>2, AppendType
    <3>2. QED BY <2>1, <2>2, <3>1 DEF Nested
  <2>4. QED BY <1>1, <1>2, <1>3, <2>1, <2>3 DEF Quiet, RunsAlone
<1>7. QED BY <1>4, <1>5, <1>6 DEF DrainRequest, OnHttpRequest

\* A loop that returns answers the request it was run for, if any.
LEMMA ReturnMoves ==
  ASSUME TypeOK, PlacesOK, NEW c \in Conns, NestedReturns
  PROVE  Quiet(c) \/ Answered(c)
<1> DEFINE l == nest[Len(nest)]
<1>1. /\ nest \in Seq(Loop) /\ nest # <<>> /\ nest' = SubSeq(nest, 1, Len(nest) - 1)
      /\ conn' = conn /\ serverTasks' = serverTasks /\ channel' = channel
      /\ reply \in [Conns -> {"none", "200", "500", "503"}]
  BY DEF TypeOK, NestedReturns, netVars, serverVars
<1>2. Queued(c)' <=> Queued(c)
  BY <1>1, ListsAlone
<1>3. /\ \A i \in DOMAIN nest' : i \in DOMAIN nest /\ i # Len(nest) /\ nest'[i] = nest[i]
      /\ \A i \in DOMAIN nest : i = Len(nest) \/ i \in DOMAIN nest'
      /\ Len(nest) \in DOMAIN nest
  BY <1>1, FrontType
<1>4. Nested(c)' <=> Nested(c) /\ ~(l.how = "sync" /\ l.who = c)
  BY <1>3 DEF Nested, PlacesOK
<1>5. CASE l.how = "call"
  <2>1. reply' = reply
    BY <1>5 DEF NestedReturns
  <2>2. QED BY <1>1, <1>2, <1>4, <1>5, <2>1 DEF Quiet
<1>6. CASE l.how = "sync"
  <2>1. PICK s \in {"200", "500"} : reply' = [reply EXCEPT ![l.who] = s]
    BY <1>6 DEF NestedReturns
  <2>2. CASE l.who = c
    <3>1. Nested(c) /\ ~Nested(c)'
      BY <1>3, <1>4, <1>6, <2>2 DEF Nested
    <3>2. ~Queued(c) /\ c \notin serverTasks
      BY <3>1 DEF PlacesOK
    <3>3. QED BY <1>1, <1>2, <2>1, <2>2, <3>1, <3>2 DEF Answered
  <2>3. CASE l.who # c
    BY <1>1, <1>2, <1>4, <2>1, <2>3 DEF Quiet
  <2>4. QED BY <2>2, <2>3
<1>7. QED BY <1>5, <1>6 DEF NestedReturns

\* The end of a handler, and the end of the grace of all of them.
LEMMA EndMoves ==
  ASSUME TypeOK, PlacesOK, NEW c \in Conns, HandlerEnds \/ AbortServerTasks
  PROVE  Quiet(c) \/ Answered(c)
<1>1. /\ conn' = conn /\ channel' = channel /\ nest' = nest
      /\ reply \in [Conns -> {"none", "200", "500", "503"}]
  BY DEF TypeOK, HandlerEnds, AbortServerTasks, netVars
<1>2. (Queued(c)' <=> Queued(c)) /\ (Nested(c)' <=> Nested(c))
  BY <1>1, ListsAlone
<1>3. c \in serverTasks => ~Queued(c) /\ ~Nested(c)
  BY DEF PlacesOK
<1>4. CASE HandlerEnds
  <2>1. serverTasks' = serverTasks \ {current}
    BY <1>4 DEF HandlerEnds
  <2>2. CASE current \in serverTasks
    <3>1. PICK s \in {"200", "500"} : reply' = [reply EXCEPT ![current] = s]
      BY <1>4, <2>2 DEF HandlerEnds
    <3>2. QED BY <1>1, <1>2, <1>3, <2>1, <2>2, <3>1 DEF Quiet, Answered
  <2>3. CASE current \notin serverTasks
    <3>1. reply' = reply
      BY <1>4, <2>3 DEF HandlerEnds
    <3>2. QED BY <1>1, <1>2, <2>1, <2>3, <3>1 DEF Quiet
  <2>4. QED BY <2>2, <2>3
<1>5. CASE AbortServerTasks
  <2>1. /\ reply' = [d \in Conns |-> IF d \in serverTasks THEN "503" ELSE reply[d]]
        /\ serverTasks' = {}
    BY <1>5 DEF AbortServerTasks
  <2>2. QED BY <1>1, <1>2, <1>3, <2>1 DEF Quiet, Answered
<1>6. QED BY <1>4, <1>5

\* Every step does one of these things to a request.
LEMMA RequestMoves ==
  ASSUME TypeOK, PlacesOK, [Next]_vars, NEW c \in Conns
  PROVE  Quiet(c) \/ Sent(c) \/ Taken(c) \/ RunsAlone(c) \/ Answered(c)
<1>0. /\ conn \in [Conns -> {"away", "backlog", "reading", "waiting", "closed"}]
      /\ channel \in Seq(Conns \cup {Shutdown}) /\ Shutdown \notin Conns
  BY ServerAssumption DEF TypeOK
<1>1. ASSUME conn' = conn, reply' = reply, serverTasks' = serverTasks,
             Queued(c)' <=> Queued(c), Nested(c)' <=> Nested(c)
      PROVE  Quiet(c)
  BY <1>1 DEF Quiet
<1>2. ASSUME NEW d \in Conns,
             \/ Connect(d) \/ Accept(d) \/ Refuse(d) \/ SendRequest(d) \/ BadRequest(d)
             \/ WriteReply(d) \/ HandlerTimeout(d)
      PROVE  Quiet(c) \/ Sent(c)
  BY <1>2, NetworkMoves
<1>3. CASE AcceptorEnds
  <2>1. /\ reply' = reply /\ serverTasks' = serverTasks /\ channel' = channel /\ nest' = nest
        /\ conn'[c] \in {conn[c], "closed"}
    BY <1>0, <1>3 DEF AcceptorEnds, interpreterVars, serverVars, loopVars
  <2>2. QED BY <2>1, ListsAlone DEF Quiet
<1>4. CASE DrainShutdown
  <2>1. /\ conn' = conn /\ reply' = reply /\ serverTasks' = serverTasks /\ nest' = nest
        /\ channel' = Tail(channel) /\ channel # <<>> /\ Head(channel) = Shutdown
    BY <1>4 DEF DrainShutdown
  <2>2. Queued(c)' <=> Queued(c)
    BY <1>0, <2>1, MembersTail DEF Queued, PlacesOK
  <2>3. QED BY <1>1, <2>1, <2>2, ListsAlone
<1>5. CASE Signal
  <2>1. conn' = conn /\ reply' = reply /\ serverTasks' = serverTasks /\ nest' = nest
    BY <1>5 DEF Signal, netVars, serverVars
  <2>2. Queued(c)' <=> Queued(c)
    <3>1. CASE channel' = Append(channel, Shutdown)
      BY <1>0, <3>1, MembersAppend DEF Queued
    <3>2. CASE channel' = channel
      BY <3>2, ListsAlone
    <3>3. QED BY <1>5, <3>1, <3>2 DEF Signal
  <2>3. QED BY <1>1, <2>1, <2>2, ListsAlone
<1>6. CASE HandlerCalls
  <2> DEFINE l == [how |-> "call", who |-> current, back |-> "run"]
  <2>1. /\ conn' = conn /\ reply' = reply /\ serverTasks' = serverTasks /\ channel' = channel
        /\ nest' = Append(nest, l) /\ l.how # "sync" /\ nest \in Seq(Loop)
    BY <1>6 DEF HandlerCalls, netVars, serverVars, TypeOK
  <2>2. Nested(c)' <=> Nested(c)
    <3> HIDE DEF l
    <3>1. /\ Append(nest, l)[Len(nest) + 1] = l
          /\ \A i \in DOMAIN nest : Append(nest, l)[i] = nest[i]
          /\ DOMAIN Append(nest, l) = DOMAIN nest \cup {Len(nest) + 1}
      BY <2>1
    <3>2. QED BY <2>1, <3>1 DEF Nested
  <2>3. QED BY <1>1, <2>1, <2>2, ListsAlone
<1>7. ASSUME conn' = conn, reply' = reply, serverTasks' = serverTasks, channel' = channel,
             nest' = nest
      PROVE  Quiet(c)
  BY <1>7, QuietSteps
<1>8. ASSUME NEW d \in Conns, PickHandler(d) \/ HandlerWakes(d) PROVE Quiet(c)
  BY <1>7, <1>8 DEF PickHandler, HandlerWakes, netVars, serverVars, loopVars
<1>9. CASE StartServer \/ IdleEnds \/ DrainEnds \/ LoopGoesOn \/ PickMain \/ NothingReady \/ Exits
  BY <1>7, <1>9 DEF StartServer, IdleEnds, DrainEnds, LoopGoesOn, PickMain, NothingReady,
     Exits, netVars, serverVars
<1>10. CASE HandlerSuspends \/ StopServer \/ GraceEnds \/ UNCHANGED vars
  BY <1>7, <1>10 DEF HandlerSuspends, StopServer, GraceEnds, vars, netVars, serverVars, loopVars
<1>11. QED BY <1>2, <1>3, <1>4, <1>5, <1>6, <1>8, <1>9, <1>10, DrainMoves, ReturnMoves,
             EndMoves, NextCases

-----------------------------------------------------------------------------
(* The answers and the places of the requests.                                *)

LEMMA UnansweredStep ==
  ASSUME TypeOK, UnansweredOK, PlacesOK, [Next]_vars
  PROVE  UnansweredOK'
<1> SUFFICES ASSUME NEW c \in Conns,
                    \/ conn'[c] \in {"away", "backlog", "reading"} \/ Queued(c)'
                    \/ c \in serverTasks' \/ Nested(c)'
             PROVE  reply'[c] = "none"
  BY DEF UnansweredOK
<1>1. /\ conn[c] \in {"away", "backlog", "reading"} \/ Queued(c) \/ c \in serverTasks \/ Nested(c)
           => reply[c] = "none"
      /\ Queued(c) \/ c \in serverTasks \/ Nested(c) => conn[c] \in {"waiting", "closed"}
  BY DEF UnansweredOK, PlacesOK
<1>2. CASE Quiet(c)
  BY <1>1, <1>2 DEF Quiet
<1>3. CASE Sent(c) \/ Taken(c) \/ RunsAlone(c)
  BY <1>1, <1>3 DEF Sent, Taken, RunsAlone
<1>4. CASE Answered(c)
  BY <1>1, <1>4 DEF Answered
<1>5. QED BY <1>2, <1>3, <1>4, RequestMoves

\* A request is put in the channel while its thread reads it, and in a loop of
\* its own while it is in the channel: it is in no other place then.
LEMMA PlacesStep ==
  ASSUME TypeOK, ControlOK, PlacesOK, [Next]_vars
  PROVE  PlacesOK'
<1>0. channel \in Seq(Conns \cup {Shutdown}) /\ nest \in Seq(Loop) /\ Shutdown \notin Conns
  BY ServerAssumption DEF TypeOK
<1>1. ASSUME NEW c \in Conns
      PROVE  /\ Queued(c)' \/ c \in serverTasks' \/ Nested(c)' => conn'[c] \in {"waiting", "closed"}
             /\ Queued(c)' => c \notin serverTasks' /\ ~Nested(c)'
             /\ c \in serverTasks' => ~Nested(c)'
  <2>1. /\ Queued(c) \/ c \in serverTasks \/ Nested(c) => conn[c] \in {"waiting", "closed"}
        /\ Queued(c) => c \notin serverTasks /\ ~Nested(c)
        /\ c \in serverTasks => ~Nested(c)
    BY DEF PlacesOK
  <2>2. CASE Quiet(c)
    BY <2>1, <2>2 DEF Quiet
  <2>3. CASE Sent(c) \/ Taken(c) \/ RunsAlone(c)
    BY <2>1, <2>3 DEF Sent, Taken, RunsAlone
  <2>4. CASE Answered(c)
    BY <2>4 DEF Answered
  <2>5. QED BY <2>2, <2>3, <2>4, RequestMoves
<1>2. \A i, j \in DOMAIN channel' :
        channel'[i] = channel'[j] /\ channel'[i] # Shutdown => i = j
  <2>1. \A i, j \in DOMAIN channel : channel[i] = channel[j] /\ channel[i] # Shutdown => i = j
    BY DEF PlacesOK
  <2>2. ASSUME NEW e \in Conns \cup {Shutdown}, channel' = Append(channel, e),
               e = Shutdown \/ \A i \in DOMAIN channel : channel[i] # e
        PROVE  \A i, j \in DOMAIN channel' :
                 channel'[i] = channel'[j] /\ channel'[i] # Shutdown => i = j
    <3>1. /\ Append(channel, e)[Len(channel) + 1] = e
          /\ \A i \in DOMAIN channel : Append(channel, e)[i] = channel[i]
          /\ DOMAIN Append(channel, e) = DOMAIN channel \cup {Len(channel) + 1}
      BY <1>0, AppendType
    <3>2. QED BY <2>1, <2>2, <3>1
  <2>3. ASSUME NEW e \in Conns, SendRequest(e)
        PROVE  \A i \in DOMAIN channel : channel[i] # e
    BY <2>3 DEF SendRequest, PlacesOK, Queued
  <2>4. ASSUME channel # <<>>, channel' = Tail(channel)
        PROVE  \A i, j \in DOMAIN channel' :
                 channel'[i] = channel'[j] /\ channel'[i] # Shutdown => i = j
    <3>1. ASSUME NEW i \in DOMAIN channel', NEW j \in DOMAIN channel',
                 channel'[i] = channel'[j], channel'[i] # Shutdown
          PROVE  i = j
      <4>1. /\ i + 1 \in DOMAIN channel /\ channel'[i] = channel[i + 1]
            /\ j + 1 \in DOMAIN channel /\ channel'[j] = channel[j + 1]
            /\ i \in Nat /\ j \in Nat
        BY <1>0, <2>4, <3>1, TailType
      <4>2. i + 1 = j + 1
        BY <2>1, <3>1, <4>1
      <4>3. QED BY <4>1, <4>2
    <3>2. QED BY <3>1
  <2>5. QED BY <2>1, <2>2, <2>3, <2>4, ChannelMoves
<1>3. \A i, j \in DOMAIN nest' :
        nest'[i].how = "sync" /\ nest'[j].how = "sync" /\ nest'[i].who = nest'[j].who => i = j
  <2>1. \A i, j \in DOMAIN nest :
          nest[i].how = "sync" /\ nest[j].how = "sync" /\ nest[i].who = nest[j].who => i = j
    BY DEF PlacesOK
  <2>2. ASSUME NEW l \in Loop, Pushed(l)
        PROVE  \A i, j \in DOMAIN nest' :
          nest'[i].how = "sync" /\ nest'[j].how = "sync" /\ nest'[i].who = nest'[j].who => i = j
    <3>1. l.how = "sync" => \A i \in DOMAIN nest : nest[i].how = "sync" => nest[i].who # l.who
      <4>1. ASSUME l.how = "sync" PROVE l.who = Head(channel) /\ channel # <<>> /\ l.who \in Conns
        BY <2>2, <4>1 DEF Pushed, DrainRequest, Loop
      <4>2. ASSUME l.how = "sync" PROVE Queued(l.who) /\ l.who \in Conns
        BY <1>0, <4>1, <4>2, TailType DEF Queued
      <4>3. QED BY <4>2 DEF PlacesOK, Nested
    <3>2. /\ nest' = Append(nest, l) /\ Append(nest, l)[Len(nest) + 1] = l
          /\ \A i \in DOMAIN nest : Append(nest, l)[i] = nest[i]
          /\ DOMAIN Append(nest, l) = DOMAIN nest \cup {Len(nest) + 1}
      BY <1>0, <2>2, AppendType DEF Pushed
    <3>3. QED BY <2>1, <3>1, <3>2
  <2>3. ASSUME nest # <<>>, nest' = SubSeq(nest, 1, Len(nest) - 1)
        PROVE  \A i, j \in DOMAIN nest' :
          nest'[i].how = "sync" /\ nest'[j].how = "sync" /\ nest'[i].who = nest'[j].who => i = j
    <3>1. \A i \in DOMAIN nest' : i \in DOMAIN nest /\ nest'[i] = nest[i]
      BY <1>0, <2>3, FrontType
    <3>2. QED BY <2>1, <3>1
  <2>4. QED BY <2>1, <2>2, <2>3, NestMoves
<1>4. QED BY <1>1, <1>2, <1>3 DEF PlacesOK

-----------------------------------------------------------------------------
(* The theorems.                                                              *)

LEMMA InitInv == Init => IInv
<1> SUFFICES ASSUME Init PROVE IInv
  OBVIOUS
<1>1. TypeOK
  <2>1. NetTypes /\ ThreadTypes
    BY DEF Init, NetTypes, ThreadTypes
  <2>2. active \in 0..MaxConnections
    BY ServerAssumption DEF Init
  <2>3. ServerTypes
    BY ServerAssumption DEF Init, ServerTypes
  <2>4. channel \in Seq(Conns \cup {Shutdown}) /\ nest \in Seq(Loop)
    BY DEF Init
  <2>5. QED BY <2>1, <2>2, <2>3, <2>4, TypeGroups
<1>2. Busy = {}
  BY DEF Init, Busy
<1>3. IsFiniteSet(Busy) /\ ActiveIsAccounted
  BY <1>2, FS_EmptySet, ServerAssumption DEF Init, ActiveIsAccounted
<1>4. ControlOK /\ ServerOK
  BY DEF Init, ControlOK, ServerOK
<1>5. UnansweredOK /\ PlacesOK
  BY DEF Init, UnansweredOK, PlacesOK, Queued, Nested
<1>6. QED BY <1>1, <1>3, <1>4, <1>5 DEF IInv

LEMMA InvStep == IInv /\ [Next]_vars => IInv'
<1> SUFFICES ASSUME IInv, [Next]_vars PROVE IInv'
  OBVIOUS
<1>0. /\ TypeOK /\ IsFiniteSet(Busy) /\ ActiveIsAccounted
      /\ ControlOK /\ ServerOK /\ UnansweredOK /\ PlacesOK
  BY DEF IInv
<1>1. TypeOK'
  BY TypeStep
<1>2. IsFiniteSet(Busy)' /\ ActiveIsAccounted'
  BY <1>0, BusyStep
<1>3. ControlOK' /\ ServerOK'
  BY <1>0, ControlStep, ServerStep
<1>4. UnansweredOK' /\ PlacesOK'
  BY <1>0, UnansweredStep, PlacesStep
<1>5. QED BY <1>1, <1>2, <1>3, <1>4 DEF IInv

\* The invariant holds in every reachable state: in particular a request is in
\* the channel, in the registry or in a loop of its own, in one of them only
\* and once, and has no answer while it is.
THEOREM InductiveInvariant == Spec => []IInv
<1>1. QED BY InitInv, InvStep, PTL DEF Spec

\* The variables keep their types, whatever the interleaving of the threads.
THEOREM TypeCorrect == Spec => []TypeOK
<1>1. IInv => TypeOK
  BY DEF IInv
<1>2. QED BY <1>1, InductiveInvariant, PTL

\* active counts the connection threads and stays within MAX_CONNECTIONS, for
\* every number of connections and every limit.
THEOREM ThreadsAreCounted == Spec => []ActiveIsAccounted
<1>1. IInv => ActiveIsAccounted
  BY DEF IInv
<1>2. QED BY <1>1, InductiveInvariant, PTL

-----------------------------------------------------------------------------
(* The server implements RequestService.                                      *)

\* serve has not returned.
Up == main \in {"starts", "serving", "ready"}

\* serve returns when its task is picked, or at once when it fails.
LEMMA UpMoves ==
  ASSUME TypeOK, ControlOK, [Next]_vars
  PROVE  (Up' <=> Up) \/ (PickMain /\ main = "ready") \/ (StartServer /\ main' = "returned")
<1>1. ASSUME main' = main PROVE Up' <=> Up
  BY <1>1 DEF Up
<1>2. ASSUME NEW c \in Conns,
             \/ Connect(c) \/ Accept(c) \/ Refuse(c) \/ SendRequest(c) \/ BadRequest(c)
             \/ WriteReply(c) \/ HandlerTimeout(c) \/ PickHandler(c) \/ HandlerWakes(c)
      PROVE  Up' <=> Up
  BY <1>1, <1>2 DEF Connect, Accept, Refuse, SendRequest, BadRequest, WriteReply,
     HandlerTimeout, PickHandler, HandlerWakes, ThreadEnds, interpreterVars, taskVars
<1>3. CASE StartServer
  BY <1>3 DEF StartServer, ControlOK, Up
<1>4. CASE IdleEnds \/ PickMain
  BY <1>4 DEF IdleEnds, PickMain, Up
<1>5. CASE \/ AcceptorEnds \/ DrainRequest \/ DrainShutdown \/ DrainEnds \/ AbortServerTasks
           \/ LoopGoesOn \/ NothingReady \/ Exits
  BY <1>1, <1>5 DEF AcceptorEnds, DrainRequest, DrainShutdown, DrainEnds, AbortServerTasks,
     LoopGoesOn, NothingReady, Exits, interpreterVars, taskVars
<1>6. CASE \/ HandlerSuspends \/ HandlerCalls \/ HandlerEnds \/ NestedReturns \/ StopServer
           \/ Signal \/ GraceEnds \/ UNCHANGED vars
  BY <1>1, <1>6 DEF HandlerSuspends, HandlerCalls, HandlerEnds, NestedReturns, StopServer,
     Signal, GraceEnds, vars, taskVars
<1>7. QED BY <1>2, <1>3, <1>4, <1>5, <1>6, NextCases

\* serve returns only when no request is being handled.
LEMMA NothingLeft ==
  ASSUME TypeOK, ControlOK, ServerOK,
         (PickMain /\ main = "ready") \/ (StartServer /\ main' = "returned")
  PROVE  Service!Next
<1>1. Up /\ ~Up' /\ server = "none"
  BY DEF PickMain, StartServer, ControlOK, ServerOK, Up
<1>2. serverTasks = {} /\ serverTasks' = serverTasks /\ reply' = reply
  BY <1>1 DEF ServerOK, PickMain, StartServer, serverVars
<1>3. ServiceRequest' = ServiceRequest /\ \A c \in Conns : ServiceRequest[c] # "handled"
  BY <1>2 DEF ServiceRequest
<1>4. QED BY <1>1, <1>3 DEF Service!Next, Service!Return, Up

\* A handler begins only while the server serves.
LEMMA TakenIsTake ==
  ASSUME TypeOK, ServerOK, UnansweredOK, PlacesOK, NEW c \in Conns, Taken(c), Up' <=> Up
  PROVE  Service!Next
<1>1. /\ server = "serving" /\ reply' = reply /\ serverTasks' = serverTasks \cup {c}
      /\ Queued(c)
  BY DEF Taken, StartHandler
<1>2. Up /\ reply[c] = "none" /\ c \notin serverTasks
  BY <1>1 DEF ServerOK, UnansweredOK, PlacesOK, Up
<1>3. ServiceRequest[c] = "new" /\ ServiceRequest' = [ServiceRequest EXCEPT ![c] = "handled"]
  BY <1>1, <1>2 DEF ServiceRequest
<1>4. Service!Take(c)
  BY <1>2, <1>3 DEF Service!Take, Up
<1>5. QED BY <1>4 DEF Service!Next

\* Every other step answers some of the requests that had no answer, or none.
LEMMA OthersAnswer ==
  ASSUME TypeOK, UnansweredOK, PlacesOK, [Next]_vars, \A c \in Conns : ~Taken(c), Up' <=> Up
  PROVE  Service!Next
<1> DEFINE some == {c \in Conns : Answered(c)}
<1>1. ASSUME NEW c \in Conns
      PROVE  /\ c \in some => ServiceRequest[c] # "answered" /\ ServiceRequest'[c] = "answered"
             /\ c \notin some => ServiceRequest'[c] = ServiceRequest[c]
  <2>1. Queued(c) \/ c \in serverTasks \/ Nested(c) => reply[c] = "none"
    BY DEF UnansweredOK
  <2>2. CASE Answered(c)
    BY <2>1, <2>2 DEF Answered, ServiceRequest
  <2>3. CASE ~Answered(c)
    <3>1. reply'[c] = reply[c] /\ (c \in serverTasks' <=> c \in serverTasks)
      BY <2>3, RequestMoves DEF Quiet, Sent, RunsAlone
    <3>2. QED BY <2>3, <3>1 DEF ServiceRequest
  <2>4. QED BY <2>2, <2>3
<1>2. ServiceRequest' = [c \in Conns |-> IF c \in some THEN "answered" ELSE ServiceRequest[c]]
  <2>1. ServiceRequest' = [c \in Conns |-> ServiceRequest'[c]]
    BY DEF ServiceRequest
  <2>2. QED BY <1>1, <2>1
<1>3. some \in SUBSET Conns /\ \A c \in some : ServiceRequest[c] # "answered"
  BY <1>1
<1> HIDE DEF some
<1>4. Service!Answer(some)
  BY <1>2, <1>3 DEF Service!Answer, Up
<1>5. QED BY <1>3, <1>4 DEF Service!Next

\* A request is answered at most once, a handler begins only while the server
\* serves, and serve returns only when every request that is handled has been
\* answered: by its handler, or with 503 when the grace is over.
THEOREM ServerImplementsService == Spec => ImplementsService
<1>1. Init => Service!Init
  BY DEF Init, Service!Init, ServiceRequest
<1>2. ASSUME IInv, [Next]_vars PROVE [Service!Next]_(Service!vars)
  <2>0. TypeOK /\ ControlOK /\ ServerOK /\ UnansweredOK /\ PlacesOK
    BY <1>2 DEF IInv
  <2>1. CASE (PickMain /\ main = "ready") \/ (StartServer /\ main' = "returned")
    BY <2>0, <2>1, NothingLeft
  <2>2. CASE (Up' <=> Up) /\ \E c \in Conns : Taken(c)
    BY <2>0, <2>2, TakenIsTake
  <2>3. CASE (Up' <=> Up) /\ \A c \in Conns : ~Taken(c)
    BY <1>2, <2>0, <2>3, OthersAnswer
  <2>4. QED BY <1>2, <2>0, <2>1, <2>2, <2>3, UpMoves
<1>3. QED BY <1>1, <1>2, InductiveInvariant, PTL DEF Spec, ImplementsService, Service!Spec
=============================================================================
