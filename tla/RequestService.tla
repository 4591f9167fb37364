--------------------------- MODULE RequestService ---------------------------
(***************************************************************************)
(* What serve promises, whatever threads and tasks carry it out: a request *)
(* is answered at most once, a handler is started only while the service   *)
(* is up, and serve returns only when every request a handler has begun    *)
(* has been answered.  Requests may be refused at any time.                *)
(***************************************************************************)
CONSTANT Conns

VARIABLES
  request,  \* per connection: "new", "handled" (by a handler) or "answered"
  up        \* serve has not returned

vars == <<request, up>>

Init == request = [c \in Conns |-> "new"] /\ up = TRUE

Take(c) ==
  /\ up /\ request[c] = "new"
  /\ request' = [request EXCEPT ![c] = "handled"] /\ UNCHANGED up

\* An answer by the handler, a refusal, or what is left when the grace ends.
Answer(some) ==
  /\ \A c \in some : request[c] # "answered"
  /\ request' = [c \in Conns |-> IF c \in some THEN "answered" ELSE request[c]]
  /\ UNCHANGED up

Return ==
  /\ up /\ up' = FALSE /\ \A c \in Conns : request[c] # "handled"
  /\ UNCHANGED request

Next ==
  \/ \E c \in Conns : Take(c)
  \/ \E some \in SUBSET Conns : Answer(some)
  \/ Return

Spec == Init /\ [][Next]_vars
=============================================================================
