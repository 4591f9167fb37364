------------------------ MODULE ResilienceInvariant ------------------------
(* The inductive invariant of Resilience, in named parts.  The run            *)
(* `resilience` checks it, ResilienceTheorems proves that it is inductive.    *)
EXTENDS Resilience

\* A call began no later than now; only a function with a fallback falls back.
StackOK ==
  \A i \in DOMAIN calls :
    /\ calls[i].started <= now
    /\ calls[i].phase = "fallback" => Config[calls[i].fn].fallback # NoFn

\* A circuit that was opened stays so for its cooldown; only a call that comes
\* when the cooldown is over closes it.
CircuitOK ==
  \A f \in Fns : opened[f] # NotOpen =>
    /\ Breaks(f) /\ opened[f] <= now
    /\ \/ openUntil[f] = opened[f] + Config[f].cooldown
       \/ openUntil[f] = NotOpen /\ opened[f] + Config[f].cooldown <= now

\* The place, in the list of calls let through, of the one that began the window.
First(f) == Len(admitted[f]) - count[f] + 1

\* The window of a rate limit: it holds the last count calls let through, at
\* most limit of them, the first of which came when it began.
WindowOK(f) ==
  /\ windowStart[f] = NoWindow <=> admitted[f] = <<>>
  /\ windowStart[f] = NoWindow <=> count[f] = 0
  /\ count[f] <= Len(admitted[f]) /\ count[f] <= Config[f].limit
  /\ count[f] > 0 => admitted[f][First(f)] = windowStart[f]

\* Calls are let through in the order of time; the limit-th one before the window
\* came more than the period before it began; and of the first and the last of as many
\* calls as twice the limit, the last one came more than the period later.
SpacingOK(f) ==
  LET a == admitted[f] L == Config[f].limit per == Config[f].per IN
  /\ \A i \in DOMAIN a : a[i] <= now
  /\ \A i, j \in DOMAIN a : i <= j => a[i] <= a[j]
  /\ First(f) - L \in DOMAIN a => a[First(f) - L] + per < windowStart[f]
  /\ \A i, j \in DOMAIN a : j = i + 2 * L - 1 => a[i] + per < a[j]

RateOK == \A f \in Fns : Limits(f) => WindowOK(f) /\ SpacingOK(f)

IInv ==
  /\ TypeOK /\ StackOK /\ CountersMatchCalls
  /\ CircuitOK /\ CooldownIsRespected /\ RateOK
=============================================================================
