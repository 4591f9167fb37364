----------------------------- MODULE Resilience -----------------------------
(***************************************************************************)
(* What call_compiled wraps around the body of a function with resilience  *)
(* modifiers: circuit breaker, rate limit, bulkhead, the depth limit, the  *)
(* attempts and the fallback.  A call runs on the interpreter's own stack, *)
(* and while its body waits, the scheduler loop it pushed runs other tasks *)
(* that make further calls: so the calls in progress form a stack, and a   *)
(* call reads counters that calls above it have changed since.             *)
(*                                                                         *)
(* A body is abstracted to the calls it makes and to how an attempt ends:  *)
(* "ok", "err" (an error propagated with `?`, a timeout included) or       *)
(* "fail" (any other runtime error).  Scheduler models what an attempt is. *)
(***************************************************************************)
EXTENDS Integers, Sequences, FiniteSets

CONSTANTS
  Fns,       \* the functions with modifiers
  Config,    \* the modifiers of each one
  NoFn,      \* no fallback
  MaxDepth,  \* MAX_RESILIENT_DEPTH
  MaxTime,   \* bound of the model on the clock
  MaxCalls   \* bound of the model on the calls made by bodies

\* ResilienceMeta: a threshold, a limit or a maximum may be absent, and may be 0.
Absent == -1
Modifiers == [threshold : Nat \cup {Absent}, cooldown : Nat, limit : Nat \cup {Absent}, per : Nat,
              max : Nat \cup {Absent}, tries : Nat \ {0}, fallback : Fns \cup {NoFn}]

ASSUME ConfigAssumption ==
  /\ NoFn \notin Fns /\ Config \in [Fns -> Modifiers]
  /\ MaxDepth \in Nat /\ MaxTime \in Nat /\ MaxCalls \in Nat

VARIABLES
  calls,        \* the calls in progress, innermost last
  failures,     \* cb_state: CircuitState::failures
  openUntil,    \* cb_state: CircuitState::open_until, or NotOpen
  count,        \* rl_state: RateLimitState::count
  windowStart,  \* rl_state: RateLimitState::window_start, or NoWindow
  concurrent,   \* bh_state
  depth,        \* resilient_depth
  result,       \* what the call just left returns to a fallback's caller
  now,          \* Instant::now()
  made,         \* calls made by bodies so far
  admitted,     \* history: when calls passed the rate limit
  opened        \* history: when the circuit was last opened, or NotOpen

counterVars == <<failures, openUntil, count, windowStart, concurrent>>
vars == <<calls, counterVars, depth, result, now, made, admitted, opened>>

NotOpen == -1
NoWindow == -1
Breaks(f) == Config[f].threshold # Absent
Limits(f) == Config[f].limit # Absent
Isolates(f) == Config[f].max # Absent

Call == [fn : Fns, attempt : Nat, phase : {"body", "fallback"}, started : 0..MaxTime]
TypeOK ==
  /\ calls \in Seq(Call) /\ failures \in [Fns -> Nat]
  /\ openUntil \in [Fns -> Nat \cup {NotOpen}] /\ count \in [Fns -> Nat]
  /\ windowStart \in [Fns -> 0..MaxTime \cup {NoWindow}]
  /\ concurrent \in [Fns -> Nat] /\ depth \in 0..MaxDepth
  /\ result \in {"none", "value", "fail"} /\ now \in 0..MaxTime /\ made \in 0..MaxCalls
  /\ admitted \in [Fns -> Seq(0..MaxTime)] /\ opened \in [Fns -> 0..MaxTime \cup {NotOpen}]

Init ==
  /\ calls = <<>> /\ failures = [f \in Fns |-> 0] /\ openUntil = [f \in Fns |-> NotOpen]
  /\ count = [f \in Fns |-> 0] /\ windowStart = [f \in Fns |-> NoWindow]
  /\ concurrent = [f \in Fns |-> 0] /\ depth = 0 /\ result = "none" /\ now = 0
  /\ made = 0 /\ admitted = [f \in Fns |-> <<>>]
  /\ opened = [f \in Fns |-> NotOpen]

Top == calls[Len(calls)]
Below == SubSeq(calls, 1, Len(calls) - 1)
WithTop(c) == Append(Below, c)

\* The outcome r of a call reaches the code that made it: a body goes on with
\* it (and may fail because of it), a fallback's caller returns it.
Give(r, rest) ==
  /\ calls' = rest
  /\ result' = IF rest # <<>> /\ rest[Len(rest)].phase = "fallback" THEN r ELSE "none"

-----------------------------------------------------------------------------
\* call_compiled(f), called from the code whose calls in progress are rest.

\* Mutant: whether the circuit is open is read off the failure count.
CircuitOpenByCount(f) ==
  /\ Breaks(f) /\ now < openUntil[f] /\ failures[f] >= Config[f].threshold

CircuitOpen(f) == Breaks(f) /\ now < openUntil[f]

\* A circuit whose cooldown is over is closed by the next call.
CloseCircuit(f) ==
  IF Breaks(f) /\ openUntil[f] # NotOpen
    THEN openUntil' = [openUntil EXCEPT ![f] = NotOpen] /\ failures' = [failures EXCEPT ![f] = 0]
    ELSE UNCHANGED <<openUntil, failures>>

\* Mutant: the next window begins as soon as the period is over.
NewWindowEarly(f) ==
  windowStart[f] = NoWindow \/ now - windowStart[f] >= Config[f].per

NewWindow(f) ==
  windowStart[f] = NoWindow \/ now - windowStart[f] > Config[f].per
Counted(f) == IF NewWindow(f) THEN 0 ELSE count[f]
RateLimited(f) == Limits(f) /\ Counted(f) >= Config[f].limit

PassRateLimit(f) ==
  IF Limits(f)
    THEN /\ count' = [count EXCEPT ![f] = Counted(f) + 1]
         /\ windowStart' = [windowStart EXCEPT ![f] = IF NewWindow(f) THEN now ELSE @]
         /\ admitted' = [admitted EXCEPT ![f] = Append(@, now)]
    ELSE UNCHANGED <<count, windowStart, admitted>>

BulkheadFull(f) == Isolates(f) /\ concurrent[f] >= Config[f].max

RejectByCircuit(f, rest) ==
  /\ CircuitOpen(f) /\ Give("value", rest)
  /\ UNCHANGED <<counterVars, depth, admitted>>

\* A limit of 0 rejects every call, so when its window begins is left out; with another
\* limit a call that begins a window is not rejected.
RejectByRate(f, rest) ==
  /\ ~CircuitOpen(f) /\ RateLimited(f) /\ Give("value", rest)
  /\ CloseCircuit(f) /\ UNCHANGED <<count, windowStart, concurrent, depth, admitted>>

\* The bulkhead is asked last: a call it rejects has used up the rate limit.
RejectByBulkhead(f, rest) ==
  /\ ~CircuitOpen(f) /\ ~RateLimited(f) /\ BulkheadFull(f) /\ Give("value", rest)
  /\ CloseCircuit(f) /\ PassRateLimit(f) /\ UNCHANGED <<concurrent, depth>>

\* Mutant: the place in the bulkhead is not given back on this path.
RejectByDepthHoldingPlace(f, rest) ==
  /\ ~CircuitOpen(f) /\ ~RateLimited(f) /\ ~BulkheadFull(f)
  /\ depth = MaxDepth /\ Give("fail", rest)
  /\ concurrent' = [concurrent EXCEPT ![f] = IF Isolates(f) THEN @ + 1 ELSE @]
  /\ CloseCircuit(f) /\ PassRateLimit(f) /\ UNCHANGED depth

\* exec_with_resilience at MAX_RESILIENT_DEPTH.
RejectByDepth(f, rest) ==
  /\ ~CircuitOpen(f) /\ ~RateLimited(f) /\ ~BulkheadFull(f)
  /\ depth = MaxDepth /\ Give("fail", rest)
  /\ CloseCircuit(f) /\ PassRateLimit(f) /\ UNCHANGED <<concurrent, depth>>

\* Mutant: one call more than MAX_RESILIENT_DEPTH.
AdmitAtLimit(f, rest) ==
  /\ ~CircuitOpen(f) /\ ~RateLimited(f) /\ ~BulkheadFull(f)
  /\ depth <= MaxDepth /\ depth' = depth + 1
  /\ concurrent' = [concurrent EXCEPT ![f] = IF Isolates(f) THEN @ + 1 ELSE @]
  /\ calls' = Append(rest, [fn |-> f, attempt |-> 1, phase |-> "body",
                            started |-> now])
  /\ result' = "none" /\ CloseCircuit(f) /\ PassRateLimit(f)

Admit(f, rest) ==
  /\ ~CircuitOpen(f) /\ ~RateLimited(f) /\ ~BulkheadFull(f)
  /\ depth < MaxDepth /\ depth' = depth + 1
  /\ concurrent' = [concurrent EXCEPT ![f] = IF Isolates(f) THEN @ + 1 ELSE @]
  /\ calls' = Append(rest, [fn |-> f, attempt |-> 1, phase |-> "body",
                            started |-> now])
  /\ result' = "none" /\ CloseCircuit(f) /\ PassRateLimit(f)

CallCompiled(f, rest) ==
  RejectByCircuit(f, rest) \/ RejectByRate(f, rest) \/ RejectByBulkhead(f, rest)
    \/ RejectByDepth(f, rest) \/ Admit(f, rest)

\* Running code (the program, or the body of the innermost call) calls f.
InBody == result = "none" /\ (calls # <<>> => Top.phase = "body")
BodyCalls(f) ==
  /\ InBody /\ made < MaxCalls /\ made' = made + 1
  /\ CallCompiled(f, calls) /\ UNCHANGED <<now, opened>>

-----------------------------------------------------------------------------
\* exec_with_resilience_inner: how the attempt of the innermost call ends.

\* The call returns: its place in the bulkhead and its depth are given back.
Leave(r) ==
  /\ depth' = depth - 1
  /\ concurrent' = [concurrent EXCEPT ![Top.fn] = IF Isolates(Top.fn) THEN @ - 1 ELSE @]
  /\ Give(r, Below)

AttemptRuns == result = "none" /\ calls # <<>> /\ Top.phase = "body"

AttemptSucceeds ==
  /\ AttemptRuns /\ Leave("value")
  /\ failures' = [failures EXCEPT ![Top.fn] = 0]
  /\ UNCHANGED <<openUntil, count, windowStart, now, made, admitted, opened>>

AttemptFails ==
  /\ AttemptRuns /\ Leave("fail")
  /\ UNCHANGED <<failures, openUntil, count, windowStart, now, made, admitted, opened>>

CountFailure(f) ==
  LET opens == failures[f] + 1 >= Config[f].threshold IN
  IF Breaks(f)
    THEN /\ failures' = [failures EXCEPT ![f] = @ + 1]
         /\ openUntil' = [openUntil EXCEPT ![f] = IF opens THEN now + Config[f].cooldown ELSE @]
         /\ opened' = [opened EXCEPT ![f] = IF opens THEN now ELSE @]
    ELSE UNCHANGED <<failures, openUntil, opened>>

Retry ==
  /\ AttemptRuns /\ Top.attempt < Config[Top.fn].tries
  /\ CountFailure(Top.fn)
  /\ calls' = WithTop([Top EXCEPT !.attempt = @ + 1])
  /\ UNCHANGED <<count, windowStart, concurrent, depth, result, now, made, admitted>>

\* No attempt is left: the error becomes a value, or the fallback is to be called.
GiveUp ==
  /\ AttemptRuns /\ Top.attempt = Config[Top.fn].tries
  /\ CountFailure(Top.fn)
  /\ UNCHANGED <<count, windowStart, now, made, admitted>>
  /\ IF Config[Top.fn].fallback = NoFn
       THEN Leave("value")
       ELSE /\ calls' = WithTop([Top EXCEPT !.phase = "fallback"])
            /\ UNCHANGED <<concurrent, depth, result>>

FallsBack == calls # <<>> /\ Top.phase = "fallback"

CallFallback ==
  /\ FallsBack /\ result = "none"
  /\ CallCompiled(Config[Top.fn].fallback, calls) /\ UNCHANGED <<now, made, opened>>

\* Mutant: a fallback that fails is called again.
FallbackRetried ==
  /\ FallsBack /\ result # "none"
  /\ IF result = "fail"
       THEN result' = "none" /\ UNCHANGED <<calls, concurrent, depth>>
       ELSE Leave(result)
  /\ UNCHANGED <<failures, openUntil, count, windowStart, now, made, admitted, opened>>

FallbackReturns ==
  /\ FallsBack /\ result # "none" /\ Leave(result)
  /\ UNCHANGED <<failures, openUntil, count, windowStart, now, made, admitted, opened>>

Tick ==
  /\ now < MaxTime /\ now' = now + 1
  /\ UNCHANGED <<calls, counterVars, depth, result, made, admitted, opened>>

Done ==
  calls = <<>> /\ made = MaxCalls /\ now = MaxTime /\ UNCHANGED vars

AttemptEnds == AttemptSucceeds \/ AttemptFails \/ Retry \/ GiveUp
Continues == CallFallback \/ FallbackReturns
Next == (\E f \in Fns : BodyCalls(f)) \/ AttemptEnds \/ Continues \/ Tick \/ Done

Spec == Init /\ [][Next]_vars

\* Every body ends: the interpreter runs it, and a deadline stops it if need be.
FairSpec == Spec /\ WF_vars(AttemptEnds) /\ WF_vars(Continues)

-----------------------------------------------------------------------------
\* Properties.

\* However a call is left, rejected or retried, what it took is given back: the
\* bulkhead's counter is the number of calls of the function in progress, never
\* above its maximum, and resilient_depth the number of all calls in progress.
InProgress(f) == {i \in DOMAIN calls : calls[i].fn = f}
CountersMatchCalls ==
  /\ depth = Len(calls)
  /\ \A f \in Fns : Isolates(f) =>
       concurrent[f] = Cardinality(InProgress(f)) /\ concurrent[f] <= Config[f].max

\* An open circuit admits no call until its cooldown is over, whatever the
\* results of the calls still in progress do to its counter meanwhile.
CooldownIsRespected ==
  \A f \in Fns, i \in DOMAIN calls :
    calls[i].fn = f /\ opened[f] # NotOpen =>
      calls[i].started \notin (opened[f] + 1)..(opened[f] + Config[f].cooldown - 1)

\* In any stretch of time as long as the period, fewer calls than twice the limit pass the
\* rate limit: those at the end of a window and at the start of the next add up, but for the
\* one that began the first of the two.
Passed(f, t) == {i \in DOMAIN admitted[f] : admitted[f][i] \in t..(t + Config[f].per)}
BelowTwiceTheLimit ==
  \A f \in Fns, t \in 0..MaxTime : Limits(f) /\ Passed(f, t) # {} =>
    Cardinality(Passed(f, t)) < 2 * Config[f].limit

\* Every call returns, with retries, and with fallbacks that fall back on each
\* other: the attempts are finitely many and the depth is limited.
EveryCallReturns == (calls # <<>>) ~> (calls = <<>>)
=============================================================================
