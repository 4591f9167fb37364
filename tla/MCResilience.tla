---------------------------- MODULE MCResilience ----------------------------
(* Small instances of Resilience for TLC. *)
EXTENDS ResilienceInvariant

CONSTANTS api, cache, hook

Plain == [threshold |-> Absent, cooldown |-> 0, limit |-> Absent, per |-> 0, max |-> Absent,
          tries |-> 1, fallback |-> NoFn]

\* api: a breaker, one retry, a bulkhead of two, and cache as its fallback;
\* cache: api as its fallback; hook: a rate limit of two and a bulkhead of one.
Mutual ==
  [fn \in Fns |->
    CASE fn = api -> [Plain EXCEPT !.threshold = 2, !.cooldown = 2, !.max = 2,
                                   !.tries = 2, !.fallback = cache]
      [] fn = cache -> [Plain EXCEPT !.fallback = api]
      [] fn = hook -> [Plain EXCEPT !.limit = 2, !.per = 1, !.max = 1]]
=============================================================================
