------------------------ MODULE HttpServerInvariant ------------------------
(* The inductive invariant of HttpServer, in named parts.  The run `server`   *)
(* checks it, HttpServerTheorems proves that it is inductive.                 *)
EXTENDS HttpServer

\* Where a request may be until it is answered: in the channel, in the registry
\* (serverTasks), or in a loop of its own (Nested), run by a handler with modifiers.
Queued(c) == \E i \in DOMAIN channel : channel[i] = c

\* The thread runs a handler only if one is current, also once it stops waiting
\* for the connections; it waits for them only when the server is gone.
ControlOK ==
  /\ pc = "start" => server = "none" /\ main = "starts"
  /\ pc = "idle" => server = "none"
  /\ pc = "run" \/ (pc = "idle" /\ after = "run") => current \in Conns
  /\ \A i \in DOMAIN nest : nest[i].back = "run" => nest[i].how = "call"

\* serve has not returned while there is a server, and there is one while there
\* are handlers in the registry.
ServerOK ==
  /\ server # "none" => main = "serving"
  /\ server = "none" => serverTasks = {}

\* A request that was not sent yet, or is in one of its places, has no answer.
UnansweredOK ==
  \A c \in Conns :
    conn[c] \in {"away", "backlog", "reading"} \/ Queued(c) \/ c \in serverTasks \/ Nested(c)
      => reply[c] = "none"

\* Only a request that was sent is in a place, and in one place only, once.
PlacesOK ==
  /\ \A c \in Conns :
       /\ Queued(c) \/ c \in serverTasks \/ Nested(c) => conn[c] \in {"waiting", "closed"}
       /\ Queued(c) => c \notin serverTasks /\ ~Nested(c)
       /\ c \in serverTasks => ~Nested(c)
  /\ \A i, j \in DOMAIN channel :
       channel[i] = channel[j] /\ channel[i] # Shutdown => i = j
  /\ \A i, j \in DOMAIN nest :
       nest[i].how = "sync" /\ nest[j].how = "sync" /\ nest[i].who = nest[j].who => i = j

IInv ==
  /\ TypeOK /\ IsFiniteSet(Busy) /\ ActiveIsAccounted
  /\ ControlOK /\ ServerOK /\ UnansweredOK /\ PlacesOK
=============================================================================
