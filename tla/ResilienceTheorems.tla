------------------------ MODULE ResilienceTheorems ------------------------
(* The invariants of Resilience hold for all functions, modifiers and bounds:  *)
(* IInv is inductive, and the properties follow from it.                      *)
EXTENDS ResilienceInvariant, SequenceFacts, FiniteSetTheorems, WellFoundedInduction

-----------------------------------------------------------------------------
(* The modifiers, and the calls in progress.                                  *)

\* The modifiers of a function are what ConfigAssumption says.
LEMMA ConfigFacts ==
  ASSUME NEW f \in Fns
  PROVE  /\ Config[f].cooldown \in Nat /\ Config[f].per \in Nat
         /\ Breaks(f) => Config[f].threshold \in Nat
         /\ Limits(f) => Config[f].limit \in Nat
         /\ Isolates(f) => Config[f].max \in Nat
         /\ Config[f].tries \in Nat \ {0} /\ Config[f].fallback \in Fns \cup {NoFn}
         /\ MaxDepth \in Nat /\ MaxTime \in Nat /\ MaxCalls \in Nat
  BY ConfigAssumption DEF Modifiers, Breaks, Limits, Isolates

\* A call in progress has a function, and began at some time.
LEMMA StartedType ==
  ASSUME NEW q \in Seq(Call)
  PROVE  \A i \in DOMAIN q : q[i] \in Call /\ q[i].fn \in Fns /\ q[i].started \in Nat
<1>1. \A i \in DOMAIN q : q[i] \in Call
  OBVIOUS
<1>2. \A c \in Call : c.fn \in Fns /\ c.started \in Nat
  BY ConfigAssumption DEF Call
<1>3. QED BY <1>1, <1>2

\* The places, in a list of calls, of the calls of f; InProgress is one such set.
Among(q, f) == {i \in DOMAIN q : q[i].fn = f}

LEMMA AmongFinite ==
  ASSUME NEW q \in Seq(Call), NEW f
  PROVE  IsFiniteSet(Among(q, f)) /\ Cardinality(Among(q, f)) \in Nat
<1>1. Among(q, f) \in SUBSET (1..Len(q)) /\ Len(q) \in Nat
  BY DEF Among
<1>2. IsFiniteSet(1..Len(q))
  BY <1>1, FS_Interval
<1>3. IsFiniteSet(Among(q, f))
  BY <1>1, <1>2, FS_Subset
<1>4. QED BY <1>3, FS_CardinalityType

\* A call more of c.fn is in progress once c is.
LEMMA AmongAppend ==
  ASSUME NEW q \in Seq(Call), NEW c \in Call, NEW f
  PROVE  Cardinality(Among(Append(q, c), f)) =
           IF c.fn = f THEN Cardinality(Among(q, f)) + 1 ELSE Cardinality(Among(q, f))
<1>1. /\ Append(q, c)[Len(q) + 1] = c /\ \A i \in DOMAIN q : Append(q, c)[i] = q[i]
      /\ DOMAIN Append(q, c) = DOMAIN q \cup {Len(q) + 1}
      /\ Len(q) + 1 \notin DOMAIN q
  <2>1. Len(q) + 1 \notin DOMAIN q
    OBVIOUS
  <2>2. QED BY <2>1, AppendType
<1>2. CASE c.fn = f
  <2>1. Among(Append(q, c), f) = Among(q, f) \cup {Len(q) + 1}
    BY <1>1, <1>2 DEF Among
  <2>2. Len(q) + 1 \notin Among(q, f)
    BY <1>1 DEF Among
  <2>3. IsFiniteSet(Among(q, f))
    BY AmongFinite
  <2>4. Cardinality(Among(q, f) \cup {Len(q) + 1}) = Cardinality(Among(q, f)) + 1
    BY <2>2, <2>3, FS_AddElement
  <2>5. QED BY <1>2, <2>1, <2>4
<1>3. CASE c.fn # f
  <2>1. Among(Append(q, c), f) = Among(q, f)
    BY <1>1, <1>3 DEF Among
  <2>2. QED BY <1>3, <2>1
<1>4. QED BY <1>2, <1>3

\* When the innermost call is left, one call less of its function is in progress.
LEMMA AmongFront ==
  ASSUME NEW q \in Seq(Call), q # <<>>, NEW r, r = SubSeq(q, 1, Len(q) - 1), NEW f
  PROVE  Cardinality(Among(r, f)) =
           IF q[Len(q)].fn = f THEN Cardinality(Among(q, f)) - 1 ELSE Cardinality(Among(q, f))
<1>1. /\ r \in Seq(Call) /\ Len(q) \in DOMAIN q
      /\ \A i \in DOMAIN r : i \in DOMAIN q /\ i # Len(q) /\ r[i] = q[i]
      /\ \A i \in DOMAIN q : i = Len(q) \/ i \in DOMAIN r
  <2>1. r \in Seq(Call)
    BY FrontType
  <2>2. Len(q) \in DOMAIN q
    BY FrontType
  <2>3. \A i \in DOMAIN r : i \in DOMAIN q /\ i # Len(q) /\ r[i] = q[i]
    BY FrontType
  <2>4. \A i \in DOMAIN q : i = Len(q) \/ i \in DOMAIN r
    BY FrontType
  <2>5. QED BY <2>1, <2>2, <2>3, <2>4
<1>2. CASE q[Len(q)].fn = f
  <2>1. Among(r, f) = Among(q, f) \ {Len(q)} /\ Len(q) \in Among(q, f)
    BY <1>1, <1>2 DEF Among
  <2>2. QED BY <1>2, <2>1, AmongFinite, FS_RemoveElement
<1>3. CASE q[Len(q)].fn # f
  <2>1. Among(r, f) = Among(q, f)
    BY <1>1, <1>3 DEF Among
  <2>2. QED BY <1>3, <2>1
<1>4. QED BY <1>2, <1>3

\* Of a set of numbers that is not empty, one is the least.
LEMMA NatMin ==
  ASSUME NEW T, T \subseteq Nat, T # {}
  PROVE  \E m \in T : \A x \in T : m <= x
<1> DEFINE R == {p \in Nat \X Nat : p[1] < p[2]}
<1>1. OpToRel(<, Nat) = R
  BY DEF OpToRel
<1>2. IsWellFoundedOn(R, Nat)
  BY <1>1, NatLessThanWellFounded
<1>3. \A x, y \in Nat : <<y, x>> \in R <=> y < x
  OBVIOUS
<1> HIDE DEF R
<1>4. \E x \in T : \A y \in T : ~ (<<y, x>> \in R)
  BY <1>2, WFMin
<1>5. PICK m \in T : \A y \in T : ~ (<<y, m>> \in R)
  BY <1>4
<1>6. ASSUME NEW y \in T PROVE m <= y
  <2>1. m \in Nat /\ y \in Nat /\ ~ (<<y, m>> \in R)
    BY <1>5
  <2>2. ~ (y < m)
    BY <1>3, <2>1, Zenon
  <2>3. QED BY <2>1, <2>2
<1>7. QED BY <1>6

-----------------------------------------------------------------------------
(* What a step does, seen from each group of variables.                       *)

\* The stack of calls: a call is entered, which takes a place and a level of depth;
\* left, which gives them back; goes on to its next attempt or to its fallback; or
\* nothing of all this happens.
Enters(f) ==
  /\ ~CircuitOpen(f) /\ ~BulkheadFull(f) /\ depth < MaxDepth /\ depth' = depth + 1
  /\ concurrent' = [concurrent EXCEPT ![f] = IF Isolates(f) THEN @ + 1 ELSE @]
  /\ calls' = Append(calls, [fn |-> f, attempt |-> 1, phase |-> "body", started |-> now])
Leaves ==
  /\ calls # <<>> /\ calls' = Below /\ depth' = depth - 1
  /\ concurrent' = [concurrent EXCEPT ![Top.fn] = IF Isolates(Top.fn) THEN @ - 1 ELSE @]
GoesOn(c) ==
  /\ calls # <<>> /\ calls' = WithTop(c) /\ c.fn = Top.fn /\ c.started = Top.started
  /\ c.phase = "fallback" => c.phase = Top.phase \/ Config[c.fn].fallback # NoFn
  /\ UNCHANGED <<concurrent, depth>>

\* An innermost call is a call, in progress below which others are.
LEMMA TopType ==
  ASSUME TypeOK, calls # <<>>
  PROVE  /\ Top \in Call /\ Top.fn \in Fns /\ Len(calls) \in DOMAIN calls
         /\ Below \in Seq(Call) /\ Len(Below) = Len(calls) - 1
         /\ \A i \in DOMAIN Below : i \in DOMAIN calls /\ Below[i] = calls[i]
<1>1. calls \in Seq(Call)
  BY DEF TypeOK
<1>2. Top \in Call /\ Len(calls) \in DOMAIN calls
  BY <1>1, FrontType DEF Top
<1>3. Below \in Seq(Call)
  BY <1>1, FrontType DEF Below
<1>4. Len(Below) = Len(calls) - 1
  BY <1>1, FrontType DEF Below
<1>5. \A i \in DOMAIN Below : i \in DOMAIN calls /\ Below[i] = calls[i]
  BY <1>1, FrontType DEF Below
<1>6. Top.fn \in Fns
  BY <1>2 DEF Call
<1>7. QED BY <1>2, <1>3, <1>4, <1>5, <1>6

LEMMA FallbackType ==
  ASSUME TypeOK, StackOK, FallsBack
  PROVE  Config[Top.fn].fallback \in Fns
<1>1. Top.fn \in Fns /\ Len(calls) \in DOMAIN calls
  BY TopType DEF FallsBack
<1>2. Config[Top.fn].fallback # NoFn
  BY <1>1 DEF StackOK, FallsBack, Top
<1>3. QED BY <1>1, <1>2, ConfigFacts

\* Every step is a call by a body or by a fallback's caller, an end of an attempt,
\* the return of a fallback, the passing of time, or a stutter.
LEMMA NextCases ==
  ASSUME TypeOK, StackOK, [Next]_vars
  PROVE  \/ \E f \in Fns : /\ CallCompiled(f, calls) /\ UNCHANGED <<now, opened>>
                           /\ made' \in 0..MaxCalls
         \/ AttemptSucceeds \/ AttemptFails \/ Retry \/ GiveUp \/ FallbackReturns
         \/ Tick \/ UNCHANGED vars
<1>1. CASE \E f \in Fns : BodyCalls(f)
  <2>1. PICK f \in Fns : BodyCalls(f)
    BY <1>1
  <2>2. made' \in 0..MaxCalls
    <3>1. made \in 0..MaxCalls /\ MaxCalls \in Nat
      BY ConfigAssumption DEF TypeOK
    <3>2. QED BY <2>1, <3>1 DEF BodyCalls
  <2>3. QED BY <2>1, <2>2 DEF BodyCalls
<1>2. CASE CallFallback
  <2>1. Config[Top.fn].fallback \in Fns
    BY <1>2, FallbackType DEF CallFallback
  <2>2. QED BY <1>2, <2>1 DEF CallFallback, TypeOK
<1>3. QED BY <1>1, <1>2 DEF Next, AttemptEnds, Continues, Done

LEMMA CallMoves ==
  ASSUME TypeOK, StackOK, [Next]_vars
  PROVE  \/ \E f \in Fns : Enters(f)
         \/ Leaves
         \/ \E c \in Call : GoesOn(c)
         \/ UNCHANGED <<calls, concurrent, depth>>
<1>1. ASSUME NEW f \in Fns, CallCompiled(f, calls)
      PROVE  Enters(f) \/ UNCHANGED <<calls, concurrent, depth>>
  BY <1>1 DEF CallCompiled, RejectByCircuit, RejectByRate, RejectByBulkhead,
     RejectByDepth, Admit, Give, Enters, counterVars
<1>2. CASE AttemptSucceeds \/ AttemptFails \/ FallbackReturns
  BY <1>2 DEF AttemptSucceeds, AttemptFails, FallbackReturns, AttemptRuns, FallsBack,
     Leave, Give, Leaves
<1>3. CASE Retry
  <2>1. [Top EXCEPT !.attempt = @ + 1] \in Call /\ Top.fn \in Fns /\ Top.phase = "body"
    BY <1>3, TopType DEF Retry, AttemptRuns, Call
  <2>2. GoesOn([Top EXCEPT !.attempt = @ + 1])
    BY <1>3, <2>1, TopType DEF Retry, AttemptRuns, GoesOn, Call
  <2>3. QED BY <2>1, <2>2
<1>4. CASE GiveUp
  <2>1. CASE Config[Top.fn].fallback = NoFn
    BY <1>4, <2>1 DEF GiveUp, AttemptRuns, Leave, Give, Leaves
  <2>2. CASE Config[Top.fn].fallback # NoFn
    <3>1. [Top EXCEPT !.phase = "fallback"] \in Call
      BY <1>4, TopType DEF GiveUp, AttemptRuns, Call
    <3>2. GoesOn([Top EXCEPT !.phase = "fallback"])
      BY <1>4, <2>2, TopType DEF GiveUp, AttemptRuns, GoesOn, Call
    <3>3. QED BY <3>1, <3>2
  <2>3. QED BY <2>1, <2>2
<1>5. CASE Tick
  BY <1>5 DEF Tick, counterVars
<1>6. CASE UNCHANGED vars
  BY <1>6 DEF vars, counterVars
<1>7. QED BY <1>1, <1>2, <1>3, <1>4, <1>5, <1>6, NextCases

\* The clock stands still or advances by one.
LEMMA ClockMoves ==
  ASSUME TypeOK, StackOK, [Next]_vars
  PROVE  now' \in 0..MaxTime /\ (now' = now \/ now' = now + 1)
<1>1. now \in 0..MaxTime /\ MaxTime \in Nat
  BY ConfigAssumption DEF TypeOK
<1>2. CASE Tick
  BY <1>1, <1>2 DEF Tick
<1>3. CASE ~Tick
  <2>1. now' = now
    BY <1>3, NextCases DEF AttemptSucceeds, AttemptFails, Retry, GiveUp, FallbackReturns, vars
  <2>2. QED BY <1>1, <2>1
<1>4. QED BY <1>2, <1>3

\* The circuits: a call that finds its circuit not open closes it, a failed attempt
\* is counted and may open it, a successful one resets the count.
LEMMA CircuitMoves ==
  ASSUME TypeOK, StackOK, [Next]_vars
  PROVE  \/ \E f \in Fns : ~CircuitOpen(f) /\ CloseCircuit(f) /\ UNCHANGED <<opened, now>>
         \/ \E f \in Fns : CountFailure(f) /\ UNCHANGED now
         \/ \E f \in Fns : /\ failures' = [failures EXCEPT ![f] = 0]
                           /\ UNCHANGED <<openUntil, opened>>
         \/ UNCHANGED <<failures, openUntil, opened>>
<1>1. ASSUME NEW f \in Fns, CallCompiled(f, calls), UNCHANGED <<now, opened>>
      PROVE  \/ ~CircuitOpen(f) /\ CloseCircuit(f) /\ UNCHANGED <<opened, now>>
             \/ UNCHANGED <<failures, openUntil, opened>>
  BY <1>1 DEF CallCompiled, RejectByCircuit, RejectByRate, RejectByBulkhead,
     RejectByDepth, Admit, counterVars
<1>2. CASE AttemptSucceeds
  <2>1. Top.fn \in Fns
    BY <1>2, TopType DEF AttemptSucceeds, AttemptRuns
  <2>2. QED BY <1>2, <2>1 DEF AttemptSucceeds
<1>3. CASE Retry \/ GiveUp
  <2>1. Top.fn \in Fns
    BY <1>3, TopType DEF Retry, GiveUp, AttemptRuns
  <2>2. QED BY <1>3, <2>1 DEF Retry, GiveUp
<1>4. CASE AttemptFails \/ FallbackReturns \/ Tick \/ UNCHANGED vars
  BY <1>4 DEF AttemptFails, FallbackReturns, Tick, vars, counterVars
<1>5. QED BY <1>1, <1>2, <1>3, <1>4, NextCases

\* The rate limits: a call passes, or nothing changes but the time.
LEMMA RateMoves ==
  ASSUME TypeOK, StackOK, [Next]_vars
  PROVE  \/ \E f \in Fns : ~RateLimited(f) /\ PassRateLimit(f) /\ UNCHANGED now
         \/ UNCHANGED <<count, windowStart, admitted>>
<1>1. ASSUME NEW f \in Fns, CallCompiled(f, calls), UNCHANGED now
      PROVE  \/ ~RateLimited(f) /\ PassRateLimit(f) /\ UNCHANGED now
             \/ UNCHANGED <<count, windowStart, admitted>>
  BY <1>1 DEF CallCompiled, RejectByCircuit, RejectByRate, RejectByBulkhead,
     RejectByDepth, Admit, counterVars
<1>2. CASE \/ AttemptSucceeds \/ AttemptFails \/ Retry \/ GiveUp \/ FallbackReturns
           \/ Tick \/ UNCHANGED vars
  BY <1>2 DEF AttemptSucceeds, AttemptFails, Retry, GiveUp, FallbackReturns, Tick, vars,
     counterVars
<1>3. QED BY <1>1, <1>2, NextCases

-----------------------------------------------------------------------------
(* Each group of conjuncts is preserved.                                      *)

\* The counters are the numbers of calls in progress, and have their types.
LEMMA CountersStep ==
  ASSUME IInv, [Next]_vars
  PROVE  /\ calls' \in Seq(Call) /\ depth' \in 0..MaxDepth /\ concurrent' \in [Fns -> Nat]
         /\ CountersMatchCalls'
<1>0. /\ TypeOK /\ StackOK /\ calls \in Seq(Call) /\ now \in 0..MaxTime
      /\ concurrent \in [Fns -> Nat] /\ depth \in Nat /\ depth = Len(calls)
      /\ MaxDepth \in Nat /\ depth <= MaxDepth
  BY ConfigAssumption DEF IInv, TypeOK, CountersMatchCalls
<1>1. \A f \in Fns : Isolates(f) =>
        concurrent[f] = Cardinality(Among(calls, f)) /\ concurrent[f] <= Config[f].max
  BY DEF IInv, CountersMatchCalls, InProgress, Among
<1>2. SUFFICES
        /\ calls' \in Seq(Call) /\ depth' \in 0..MaxDepth /\ concurrent' \in [Fns -> Nat]
        /\ depth' = Len(calls')
        /\ \A f \in Fns : Isolates(f) =>
             /\ concurrent'[f] = Cardinality(Among(calls', f))
             /\ concurrent'[f] <= Config[f].max
  BY DEF CountersMatchCalls, InProgress, Among, Isolates
<1>3. ASSUME NEW f \in Fns, Enters(f)
      PROVE  /\ calls' \in Seq(Call) /\ depth' \in 0..MaxDepth /\ concurrent' \in [Fns -> Nat]
             /\ depth' = Len(calls')
             /\ \A g \in Fns : Isolates(g) =>
                  /\ concurrent'[g] = Cardinality(Among(calls', g))
                  /\ concurrent'[g] <= Config[g].max
  <2> DEFINE c == [fn |-> f, attempt |-> 1, phase |-> "body", started |-> now]
  <2>1. c \in Call /\ c.fn = f /\ calls' = Append(calls, c)
    BY <1>0, <1>3 DEF Call, Enters
  <2> HIDE DEF c
  <2>2. calls' \in Seq(Call) /\ Len(calls') = Len(calls) + 1
    BY <1>0, <2>1, AppendType
  <2>3. depth' \in 0..MaxDepth /\ depth' = Len(calls')
    BY <1>0, <1>3, <2>2 DEF Enters
  <2>4. \A g \in Fns :
          concurrent'[g] = IF g = f /\ Isolates(f) THEN concurrent[g] + 1 ELSE concurrent[g]
    BY <1>0, <1>3 DEF Enters
  <2>5. concurrent' \in [Fns -> Nat]
    BY <1>0, <1>3 DEF Enters
  <2>6. ASSUME NEW g \in Fns, Isolates(g)
        PROVE  /\ concurrent'[g] = Cardinality(Among(calls', g))
               /\ concurrent'[g] <= Config[g].max
    <3>1. Cardinality(Among(calls', g)) =
            IF f = g THEN Cardinality(Among(calls, g)) + 1 ELSE Cardinality(Among(calls, g))
      BY <1>0, <2>1, AmongAppend
    <3>2. concurrent[g] = Cardinality(Among(calls, g)) /\ concurrent[g] <= Config[g].max
      BY <1>1, <2>6
    <3>3. f = g => concurrent[f] < Config[f].max
      BY <1>0, <1>3, <2>6, ConfigFacts DEF Enters, BulkheadFull
    <3>4. concurrent[g] \in Nat /\ Config[g].max \in Nat
      BY <1>0, <2>6, ConfigFacts
    <3>5. QED BY <2>4, <2>6, <3>1, <3>2, <3>3, <3>4
  <2>7. QED BY <2>2, <2>3, <2>5, <2>6
<1>4. ASSUME Leaves
      PROVE  /\ calls' \in Seq(Call) /\ depth' \in 0..MaxDepth /\ concurrent' \in [Fns -> Nat]
             /\ depth' = Len(calls')
             /\ \A g \in Fns : Isolates(g) =>
                  /\ concurrent'[g] = Cardinality(Among(calls', g))
                  /\ concurrent'[g] <= Config[g].max
  <2>1. /\ calls' = Below /\ Below \in Seq(Call) /\ Len(Below) = Len(calls) - 1
        /\ Top.fn \in Fns /\ calls # <<>>
    BY <1>0, <1>4, TopType DEF Leaves
  <2>2. depth' \in 0..MaxDepth /\ depth' = Len(calls') /\ calls' \in Seq(Call)
    <3>1. Len(Below) \in Nat /\ Len(calls) \in Nat
      BY <1>0, <2>1
    <3>2. QED BY <1>0, <1>4, <2>1, <3>1 DEF Leaves
  <2>3. \A g \in Fns : concurrent'[g] =
          IF g = Top.fn /\ Isolates(Top.fn) THEN concurrent[g] - 1 ELSE concurrent[g]
    BY <1>0, <1>4 DEF Leaves
  <2>4. ASSUME NEW g \in Fns, Isolates(g)
        PROVE  /\ concurrent'[g] = Cardinality(Among(calls', g))
               /\ concurrent'[g] <= Config[g].max /\ concurrent'[g] \in Nat
    <3>1. Cardinality(Among(calls', g)) =
            IF Top.fn = g THEN Cardinality(Among(calls, g)) - 1 ELSE Cardinality(Among(calls, g))
      BY <1>0, <2>1, AmongFront DEF Below, Top
    <3>2. concurrent[g] = Cardinality(Among(calls, g)) /\ concurrent[g] <= Config[g].max
      BY <1>1, <2>4
    <3>3. Cardinality(Among(calls', g)) \in Nat
      BY <2>2, AmongFinite
    <3>4. concurrent[g] \in Nat /\ Config[g].max \in Nat
      BY <1>0, <2>4, ConfigFacts
    <3>5. QED BY <2>3, <2>4, <3>1, <3>2, <3>3, <3>4
  <2>5. concurrent' \in [Fns -> Nat]
    <3>1. concurrent' = [g \in Fns |-> concurrent'[g]]
      BY <1>0, <1>4 DEF Leaves
    <3>2. \A g \in Fns : concurrent'[g] \in Nat
      BY <1>0, <2>3, <2>4
    <3>3. QED BY <3>1, <3>2
  <2>6. QED BY <2>2, <2>4, <2>5
<1>5. ASSUME NEW c \in Call, GoesOn(c)
      PROVE  /\ calls' \in Seq(Call) /\ depth' \in 0..MaxDepth /\ concurrent' \in [Fns -> Nat]
             /\ depth' = Len(calls')
             /\ \A g \in Fns : Isolates(g) =>
                  /\ concurrent'[g] = Cardinality(Among(calls', g))
                  /\ concurrent'[g] <= Config[g].max
  <2>1. /\ calls' = Append(Below, c) /\ Below \in Seq(Call) /\ Len(Below) = Len(calls) - 1
        /\ Top.fn \in Fns /\ calls # <<>> /\ c.fn = Top.fn /\ UNCHANGED <<concurrent, depth>>
    BY <1>0, <1>5, TopType DEF GoesOn, WithTop
  <2>2. calls' \in Seq(Call) /\ Len(calls') = Len(Below) + 1
    BY <2>1, AppendType
  <2>3. \A g \in Fns : Cardinality(Among(calls', g)) = Cardinality(Among(calls, g))
    <3>1. TAKE g \in Fns
    <3>2. Cardinality(Among(calls', g)) =
            IF c.fn = g THEN Cardinality(Among(Below, g)) + 1 ELSE Cardinality(Among(Below, g))
      BY <2>1, AmongAppend
    <3>3. Cardinality(Among(Below, g)) =
            IF Top.fn = g THEN Cardinality(Among(calls, g)) - 1 ELSE Cardinality(Among(calls, g))
      BY <1>0, <2>1, AmongFront DEF Below, Top
    <3>4. Cardinality(Among(calls, g)) \in Nat
      BY <1>0, AmongFinite
    <3>5. QED BY <2>1, <3>2, <3>3, <3>4
  <2>4. Len(calls) \in Nat
    BY <1>0
  <2>5. QED BY <1>0, <1>1, <2>1, <2>2, <2>3, <2>4
<1>6. CASE UNCHANGED <<calls, concurrent, depth>>
  BY <1>0, <1>1, <1>6
<1>7. QED BY <1>0, <1>3, <1>4, <1>5, <1>6, CallMoves

\* Calls began no later than now, and fall back on what they have.
LEMMA StackStep ==
  ASSUME IInv, [Next]_vars
  PROVE  StackOK'
<1>0. /\ TypeOK /\ StackOK /\ calls \in Seq(Call) /\ now \in Nat /\ now' \in Nat /\ now <= now'
  BY ClockMoves, ConfigAssumption DEF IInv, TypeOK
<1>1. \A i \in DOMAIN calls : calls[i].started \in Nat
  BY <1>0, StartedType
<1>2. ASSUME NEW f \in Fns, Enters(f) PROVE StackOK'
  <2> DEFINE c == [fn |-> f, attempt |-> 1, phase |-> "body", started |-> now]
  <2>1. c \in Call /\ c.phase = "body" /\ c.started = now /\ calls' = Append(calls, c)
    BY <1>0, <1>2 DEF Call, Enters, TypeOK
  <2> HIDE DEF c
  <2>2. \A i \in DOMAIN calls' : \/ i \in DOMAIN calls /\ calls'[i] = calls[i]
                                \/ calls'[i] = c
    BY <1>0, <2>1, AppendType
  <2>3. QED BY <1>0, <1>1, <2>1, <2>2 DEF StackOK
<1>3. CASE Leaves
  <2>1. \A i \in DOMAIN calls' : i \in DOMAIN calls /\ calls'[i] = calls[i]
    BY <1>0, <1>3, TopType DEF Leaves
  <2>2. QED BY <1>0, <1>1, <2>1 DEF StackOK
<1>4. ASSUME NEW c \in Call, GoesOn(c) PROVE StackOK'
  <2>1. /\ Below \in Seq(Call) /\ Len(calls) \in DOMAIN calls
        /\ \A i \in DOMAIN Below : i \in DOMAIN calls /\ Below[i] = calls[i]
    BY <1>0, <1>4, TopType DEF GoesOn
  <2>2. \A i \in DOMAIN calls' : \/ i \in DOMAIN calls /\ calls'[i] = calls[i]
                                \/ calls'[i] = c
    <3>1. calls' = Append(Below, c)
      BY <1>4 DEF GoesOn, WithTop
    <3>2. \A i \in DOMAIN calls' : \/ i \in DOMAIN Below /\ calls'[i] = Below[i]
                                  \/ calls'[i] = c
      BY <2>1, <3>1, AppendType
    <3>3. QED BY <2>1, <3>2
  <2>3. c.started \in Nat /\ c.started <= now'
    BY <1>0, <1>1, <1>4, <2>1 DEF GoesOn, StackOK, Top
  <2>4. c.phase = "fallback" => Config[c.fn].fallback # NoFn
    BY <1>0, <1>4, <2>1 DEF GoesOn, StackOK, Top
  <2>5. QED BY <1>0, <1>1, <2>2, <2>3, <2>4 DEF StackOK
<1>5. CASE UNCHANGED <<calls, concurrent, depth>>
  BY <1>0, <1>1, <1>5 DEF StackOK
<1>6. QED BY <1>0, <1>2, <1>3, <1>4, <1>5, CallMoves

\* A circuit is open for its cooldown after it was last opened.
LEMMA CircuitStep ==
  ASSUME IInv, [Next]_vars
  PROVE  /\ failures' \in [Fns -> Nat] /\ openUntil' \in [Fns -> Nat \cup {NotOpen}]
         /\ opened' \in [Fns -> 0..MaxTime \cup {NotOpen}] /\ CircuitOK'
<1>0. /\ TypeOK /\ StackOK /\ now \in 0..MaxTime /\ now' \in 0..MaxTime /\ now <= now'
      /\ failures \in [Fns -> Nat] /\ openUntil \in [Fns -> Nat \cup {NotOpen}]
      /\ opened \in [Fns -> 0..MaxTime \cup {NotOpen}] /\ MaxTime \in Nat
  <2>1. TypeOK /\ StackOK
    BY DEF IInv
  <2>2. now \in 0..MaxTime /\ failures \in [Fns -> Nat] /\ MaxTime \in Nat
        /\ openUntil \in [Fns -> Nat \cup {NotOpen}] /\ opened \in [Fns -> 0..MaxTime \cup {NotOpen}]
    BY <2>1, ConfigAssumption DEF TypeOK
  <2>3. now' \in 0..MaxTime /\ now <= now'
    BY <2>1, <2>2, ClockMoves
  <2>4. QED BY <2>1, <2>2, <2>3
<1>1. \A g \in Fns : opened[g] # NotOpen =>
        /\ Breaks(g) /\ opened[g] <= now
        /\ \/ openUntil[g] = opened[g] + Config[g].cooldown
           \/ openUntil[g] = NotOpen /\ opened[g] + Config[g].cooldown <= now
  BY DEF IInv, CircuitOK
<1>2. \A g \in Fns : Config[g].cooldown \in Nat /\ (Breaks(g) => Config[g].threshold \in Nat)
  BY ConfigFacts
<1>3. CASE \E f \in Fns : ~CircuitOpen(f) /\ CloseCircuit(f) /\ UNCHANGED <<opened, now>>
  <2>1. PICK f \in Fns : ~CircuitOpen(f) /\ CloseCircuit(f) /\ UNCHANGED <<opened, now>>
    BY <1>3
  <2>2. CASE Breaks(f) /\ openUntil[f] # NotOpen
    <3>1. /\ openUntil' = [openUntil EXCEPT ![f] = NotOpen]
          /\ failures' = [failures EXCEPT ![f] = 0]
      BY <2>1, <2>2 DEF CloseCircuit
    <3>2. openUntil[f] \in Nat /\ openUntil[f] <= now
      BY <1>0, <2>1, <2>2 DEF CircuitOpen
    <3>3. CircuitOK'
      BY <1>0, <1>1, <1>2, <2>1, <3>1, <3>2 DEF CircuitOK, Breaks, NotOpen
    <3>4. QED BY <1>0, <2>1, <3>1, <3>3
  <2>3. CASE ~(Breaks(f) /\ openUntil[f] # NotOpen)
    <3>1. UNCHANGED <<openUntil, failures>>
      BY <2>1, <2>3 DEF CloseCircuit
    <3>2. QED BY <1>0, <1>1, <2>1, <3>1 DEF CircuitOK, Breaks
  <2>4. QED BY <2>2, <2>3
<1>4. CASE \E f \in Fns : CountFailure(f) /\ UNCHANGED now
  <2>1. PICK f \in Fns : CountFailure(f) /\ UNCHANGED now
    BY <1>4
  <2>2. CASE Breaks(f) /\ failures[f] + 1 >= Config[f].threshold
    <3>1. /\ openUntil' = [openUntil EXCEPT ![f] = now + Config[f].cooldown]
          /\ failures' = [failures EXCEPT ![f] = @ + 1]
          /\ opened' = [opened EXCEPT ![f] = now]
      BY <2>1, <2>2 DEF CountFailure
    <3>2. CircuitOK'
      BY <1>0, <1>1, <1>2, <2>1, <2>2, <3>1 DEF CircuitOK, Breaks
    <3>3. now + Config[f].cooldown \in Nat /\ failures[f] + 1 \in Nat
      BY <1>0, <1>2
    <3>4. QED BY <1>0, <3>1, <3>2, <3>3
  <2>3. CASE ~(Breaks(f) /\ failures[f] + 1 >= Config[f].threshold)
    <3>1. /\ failures' \in [Fns -> Nat]
          /\ \A g \in Fns : openUntil'[g] = openUntil[g] /\ opened'[g] = opened[g]
          /\ openUntil' \in [Fns -> Nat \cup {NotOpen}]
          /\ opened' \in [Fns -> 0..MaxTime \cup {NotOpen}]
      BY <1>0, <2>1, <2>3 DEF CountFailure
    <3>2. QED BY <1>0, <1>1, <2>1, <3>1 DEF CircuitOK, Breaks
  <2>4. QED BY <2>2, <2>3
<1>5. CASE \E f \in Fns : /\ failures' = [failures EXCEPT ![f] = 0]
                          /\ UNCHANGED <<openUntil, opened>>
  BY <1>0, <1>1, <1>2, <1>5 DEF CircuitOK, Breaks
<1>6. CASE UNCHANGED <<failures, openUntil, opened>>
  BY <1>0, <1>1, <1>2, <1>6 DEF CircuitOK, Breaks
<1>7. QED BY <1>0, <1>3, <1>4, <1>5, <1>6, CircuitMoves

\* A call in progress after the step was so before it, or it has just been let in
\* by its function's circuit.
LEMMA CallsKnown ==
  ASSUME TypeOK, StackOK, [Next]_vars, NEW i \in DOMAIN calls'
  PROVE  \/ \E j \in DOMAIN calls : /\ calls'[i].fn = calls[j].fn
                                   /\ calls'[i].started = calls[j].started
         \/ calls'[i].started = now /\ ~CircuitOpen(calls'[i].fn)
<1>0. calls \in Seq(Call) /\ now \in 0..MaxTime
  BY DEF TypeOK
<1>1. ASSUME NEW f \in Fns, Enters(f)
      PROVE  \/ i \in DOMAIN calls /\ calls'[i] = calls[i]
             \/ calls'[i].started = now /\ ~CircuitOpen(calls'[i].fn)
  <2> DEFINE c == [fn |-> f, attempt |-> 1, phase |-> "body", started |-> now]
  <2>1. c \in Call /\ c.fn = f /\ c.started = now /\ calls' = Append(calls, c)
    BY <1>0, <1>1 DEF Call, Enters
  <2>2. ~CircuitOpen(f)
    BY <1>1 DEF Enters
  <2> HIDE DEF c
  <2>3. \/ i \in DOMAIN calls /\ calls'[i] = calls[i]
        \/ calls'[i] = c
    BY <1>0, <2>1, AppendType
  <2>4. QED BY <2>1, <2>2, <2>3
<1>2. CASE Leaves
  BY <1>2, TopType DEF Leaves
<1>3. ASSUME NEW c \in Call, GoesOn(c)
      PROVE  \E j \in DOMAIN calls : /\ calls'[i].fn = calls[j].fn
                                    /\ calls'[i].started = calls[j].started
  <2>1. /\ Below \in Seq(Call) /\ Len(calls) \in DOMAIN calls
        /\ \A k \in DOMAIN Below : k \in DOMAIN calls /\ Below[k] = calls[k]
    BY <1>3, TopType DEF GoesOn
  <2>2. calls' = Append(Below, c)
    BY <1>3 DEF GoesOn, WithTop
  <2>3. \/ i \in DOMAIN Below /\ calls'[i] = Below[i]
        \/ calls'[i] = c
    BY <2>1, <2>2, AppendType
  <2>4. c.fn = calls[Len(calls)].fn /\ c.started = calls[Len(calls)].started
    BY <1>3 DEF GoesOn, Top
  <2>5. QED BY <2>1, <2>3, <2>4
<1>4. CASE UNCHANGED <<calls, concurrent, depth>>
  BY <1>4
<1>5. QED BY <1>1, <1>2, <1>3, <1>4, CallMoves

\* The time a circuit was last opened is the one it was, or this moment.
LEMMA OpenedKnown ==
  ASSUME TypeOK, StackOK, [Next]_vars, NEW f \in Fns
  PROVE  opened'[f] = opened[f] \/ opened'[f] = now
<1>0. opened \in [Fns -> 0..MaxTime \cup {NotOpen}]
  BY DEF TypeOK
<1>1. ASSUME NEW g \in Fns, CountFailure(g) PROVE opened'[f] = opened[f] \/ opened'[f] = now
  BY <1>0, <1>1 DEF CountFailure
<1>2. QED BY <1>1, CircuitMoves

LEMMA CooldownStep ==
  ASSUME IInv, [Next]_vars
  PROVE  CooldownIsRespected'
<1>0. /\ TypeOK /\ StackOK /\ calls \in Seq(Call) /\ now \in Nat /\ calls' \in Seq(Call)
      /\ \A f \in Fns : opened[f] \in Nat \cup {NotOpen}
  BY CountersStep, ConfigAssumption DEF IInv, TypeOK
<1>1. SUFFICES ASSUME NEW f \in Fns, NEW i \in DOMAIN calls', calls'[i].fn = f,
                      opened'[f] # NotOpen
               PROVE  calls'[i].started \notin
                        (opened'[f] + 1)..(opened'[f] + Config[f].cooldown - 1)
  BY DEF CooldownIsRespected
<1>2. Config[f].cooldown \in Nat /\ calls'[i].started \in Nat
  BY <1>0, ConfigFacts, StartedType
<1>3. calls'[i].started <= now
  <2>1. \A j \in DOMAIN calls : calls[j].started <= now
    BY <1>0 DEF StackOK
  <2>2. QED BY <1>0, <2>1, CallsKnown
<1>4. CASE opened'[f] = now
  BY <1>0, <1>2, <1>3, <1>4
<1>5. CASE opened'[f] = opened[f]
  <2>1. ASSUME NEW j \in DOMAIN calls, calls'[i].fn = calls[j].fn,
               calls'[i].started = calls[j].started
        PROVE  calls'[i].started \notin
                 (opened'[f] + 1)..(opened'[f] + Config[f].cooldown - 1)
    BY <1>1, <1>5, <2>1 DEF IInv, CooldownIsRespected
  <2>2. ASSUME calls'[i].started = now, ~CircuitOpen(f)
        PROVE  calls'[i].started \notin
                 (opened'[f] + 1)..(opened'[f] + Config[f].cooldown - 1)
    <3>1. /\ Breaks(f) /\ opened[f] <= now
          /\ \/ openUntil[f] = opened[f] + Config[f].cooldown
             \/ openUntil[f] = NotOpen /\ opened[f] + Config[f].cooldown <= now
      BY <1>1, <1>5 DEF IInv, CircuitOK
    <3>2. opened[f] + Config[f].cooldown <= now
      BY <1>0, <1>1, <1>2, <1>5, <2>2, <3>1 DEF CircuitOpen
    <3>3. QED BY <1>0, <1>1, <1>2, <1>5, <2>2, <3>2
  <2>3. QED BY <1>0, <1>1, <2>1, <2>2, CallsKnown
<1>6. QED BY <1>0, <1>4, <1>5, OpenedKnown

-----------------------------------------------------------------------------
(* The rate limit.                                                            *)

\* Twice the limit before the call that is let through next.
LEMMA Apart ==
  ASSUME NEW i \in Nat, NEW n \in Nat, NEW L \in Nat, n + 1 = i + 2 * L - 1
  PROVE  i = n + 2 - 2 * L
  OBVIOUS

\* The elements of a sequence over S are members of S.
LEMMA ElementType ==
  ASSUME NEW S, NEW q \in Seq(S)
  PROVE  \A i \in DOMAIN q : q[i] \in S
  OBVIOUS

\* The types of what the rate limit of a function keeps.
LEMMA RateTypes ==
  ASSUME TypeOK, NEW f \in Fns
  PROVE  /\ admitted[f] \in Seq(0..MaxTime) /\ Len(admitted[f]) \in Nat
         /\ \A i \in DOMAIN admitted[f] : admitted[f][i] \in Nat
         /\ DOMAIN admitted[f] = 1..Len(admitted[f])
         /\ count[f] \in Nat /\ windowStart[f] \in Nat \cup {NoWindow} /\ now \in Nat
         /\ windowStart[f] \in 0..MaxTime \cup {NoWindow} /\ now \in 0..MaxTime
<1>1. admitted \in [Fns -> Seq(0..MaxTime)]
  BY DEF TypeOK
<1>2. admitted[f] \in Seq(0..MaxTime)
  BY <1>1
<1>3. \A i \in DOMAIN admitted[f] : admitted[f][i] \in 0..MaxTime
  BY <1>2, ElementType, Zenon
<1>4. \A t \in 0..MaxTime : t \in Nat
  BY ConfigAssumption
<1>5. Len(admitted[f]) \in Nat /\ DOMAIN admitted[f] = 1..Len(admitted[f])
  BY <1>2
<1>6. /\ count[f] \in Nat /\ windowStart[f] \in 0..MaxTime \cup {NoWindow}
      /\ now \in 0..MaxTime
  BY DEF TypeOK
<1>7. QED BY <1>2, <1>3, <1>4, <1>5, <1>6

\* A window that is not full begins less than a limit before the last call.
LEMMA WindowBegins ==
  ASSUME NEW n \in Nat, NEW limit \in Nat, NEW c \in Nat, c < limit, n + 2 - 2 * limit \in 1..n
  PROVE  n + 2 - 2 * limit <= n - c + 1 - limit /\ n - c + 1 - limit \in 1..n
OBVIOUS

\* Each call let through comes no earlier than any let through before it.
LEMMA PassKeepsRate ==
  ASSUME IInv, NEW f \in Fns, Limits(f), ~RateLimited(f), PassRateLimit(f), UNCHANGED now
  PROVE  WindowOK(f)' /\ SpacingOK(f)'
<1> DEFINE a == admitted[f]
           n == Len(admitted[f])
           L == Config[f].limit
           per == Config[f].per
           first == n - count[f] + 1
           new == Len(admitted'[f]) - count'[f] + 1
<1>1. /\ a \in Seq(0..MaxTime) /\ n \in Nat /\ DOMAIN a = 1..n /\ count[f] \in Nat
      /\ \A i \in 1..n : a[i] \in Nat
      /\ windowStart[f] \in Nat \cup {NoWindow} /\ now \in Nat /\ now \in 0..MaxTime
  BY RateTypes DEF IInv
<1>2. L \in Nat \ {0} /\ per \in Nat
  BY <1>1, ConfigFacts DEF RateLimited, Counted
<1>3. /\ windowStart[f] = NoWindow <=> n = 0
      /\ windowStart[f] = NoWindow <=> count[f] = 0
      /\ count[f] <= n /\ count[f] <= L
      /\ count[f] > 0 => a[first] = windowStart[f]
  <2>1. WindowOK(f)
    BY DEF IInv, RateOK
  <2>2. a = <<>> <=> n = 0
    BY <1>1
  <2>3. QED BY <2>1, <2>2 DEF WindowOK, First
<1>4. /\ \A i \in 1..n : a[i] <= now
      /\ \A i, j \in 1..n : i <= j => a[i] <= a[j]
      /\ first - L \in 1..n => a[first - L] + per < windowStart[f]
      /\ \A i, j \in 1..n : j = i + 2 * L - 1 => a[i] + per < a[j]
  BY <1>1 DEF IInv, RateOK, SpacingOK, First
<1>5. /\ count' = [count EXCEPT ![f] = Counted(f) + 1]
      /\ windowStart' = [windowStart EXCEPT ![f] = IF NewWindow(f) THEN now ELSE @]
      /\ admitted' = [admitted EXCEPT ![f] = Append(@, now)]
  BY DEF PassRateLimit
<1>6. /\ count'[f] = Counted(f) + 1 /\ admitted'[f] = Append(a, now)
      /\ windowStart'[f] = IF NewWindow(f) THEN now ELSE windowStart[f]
  BY <1>5 DEF IInv, TypeOK
<1>7. /\ Len(admitted'[f]) = n + 1 /\ DOMAIN admitted'[f] = 1..(n + 1)
      /\ admitted'[f][n + 1] = now /\ \A i \in 1..n : admitted'[f][i] = a[i]
      /\ admitted'[f] # <<>>
  <2>1. /\ Append(a, now) # <<>> /\ Len(Append(a, now)) = Len(a) + 1
        /\ Append(a, now)[Len(a) + 1] = now /\ \A i \in DOMAIN a : Append(a, now)[i] = a[i]
        /\ DOMAIN Append(a, now) = DOMAIN a \cup {Len(a) + 1}
    <3>1. a \in Seq(0..MaxTime) /\ now \in 0..MaxTime
      BY <1>1
    <3> HIDE DEF a
    <3>2. QED BY <3>1, AppendType
  <2>2. 1..n \cup {n + 1} = 1..(n + 1)
    BY <1>1
  <2>3. QED BY <1>1, <1>6, <2>1, <2>2
<1> HIDE DEF a, n, L, per, first, new
<1>8. first = n - count[f] + 1
  BY DEF first, n
<1>9. Counted(f) \in Nat /\ count'[f] \in 1..L
  <2>1. Counted(f) \in Nat
    BY <1>1 DEF Counted
  <2>2. Counted(f) < L
    BY <1>2, <2>1 DEF RateLimited, L
  <2>3. QED BY <1>2, <1>6, <2>1, <2>2
<1>0. new = n + 2 - count'[f] /\ new \in Int
  <2>1. new = (n + 1) - count'[f] + 1
    BY <1>7 DEF new
  <2>2. count'[f] \in Nat
    BY <1>2, <1>9
  <2>3. \A k \in Nat : (n + 1) - k + 1 = n + 2 - k /\ n + 2 - k \in Int
    BY <1>1
  <2>4. QED BY <2>1, <2>2, <2>3
<1>10. /\ \A i \in 1..(n + 1) : admitted'[f][i] <= now
       /\ \A i, j \in 1..(n + 1) : i <= j => admitted'[f][i] <= admitted'[f][j]
  <2>1. \A i \in 1..(n + 1) : i \in 1..n \/ i = n + 1
    BY <1>1
  <2>2. \A i \in 1..(n + 1) : admitted'[f][i] <= now
    BY <1>1, <1>4, <1>7, <2>1
  <2>3. ASSUME NEW i \in 1..(n + 1), NEW j \in 1..(n + 1), i <= j
        PROVE  admitted'[f][i] <= admitted'[f][j]
    <3>1. CASE j = n + 1
      BY <1>7, <2>2, <3>1
    <3>2. CASE j # n + 1
      BY <1>1, <1>4, <1>7, <2>1, <2>3, <3>2
    <3>3. QED BY <3>1, <3>2
  <2>4. QED BY <2>2, <2>3
<1>11. SUFFICES
         /\ windowStart'[f] # NoWindow /\ count'[f] # 0
         /\ count'[f] <= n + 1 /\ count'[f] <= L
         /\ admitted'[f][new] = windowStart'[f]
         /\ new - L \in 1..n
              => a[new - L] + per < windowStart'[f]
         /\ n + 2 - 2 * L \in 1..n => a[n + 2 - 2 * L] + per < now
  <2>1. new - L \in 1..(n + 1) => new - L \in 1..n
    BY <1>0, <1>1, <1>2, <1>9
  <2>2. WindowOK(f)'
    <3>1. /\ windowStart'[f] # NoWindow /\ admitted'[f] # <<>> /\ count'[f] # 0
          /\ count'[f] <= Len(admitted'[f]) /\ count'[f] <= L
          /\ admitted'[f][new] = windowStart'[f]
      BY <1>7, <1>11
    <3>2. QED BY <3>1 DEF WindowOK, First, L, new
  <2>3. ASSUME new - L \in 1..(n + 1)
        PROVE  admitted'[f][new - L] + per < windowStart'[f]
    <3>1. a[new - L] + per < windowStart'[f]
      BY <1>11, <2>1, <2>3
    <3>2. admitted'[f][new - L] = a[new - L]
      BY <1>7, <2>1, <2>3
    <3>3. QED BY <3>1, <3>2
  <2>4. ASSUME NEW i \in 1..(n + 1), NEW j \in 1..(n + 1), j = i + 2 * L - 1
        PROVE  admitted'[f][i] + per < admitted'[f][j]
    <3>1. i \in 1..n
      BY <1>1, <1>2, <2>4
    <3>2. CASE j = n + 1
      <4>1. i = n + 2 - 2 * L
        BY <1>1, <1>2, <2>4, <3>1, <3>2, Apart
      <4>2. QED BY <1>7, <1>11, <3>1, <3>2, <4>1
    <3>3. CASE j # n + 1
      <4>1. j \in 1..n
        BY <1>1, <3>3
      <4>2. QED BY <1>4, <1>7, <2>4, <3>1, <4>1
    <3>4. QED BY <3>2, <3>3
  <2>5. SpacingOK(f)'
    <3>1. /\ \A i \in DOMAIN admitted'[f] : admitted'[f][i] <= now
          /\ \A i, j \in DOMAIN admitted'[f] : i <= j => admitted'[f][i] <= admitted'[f][j]
          /\ \A i, j \in DOMAIN admitted'[f] :
               j = i + 2 * L - 1 => admitted'[f][i] + per < admitted'[f][j]
      BY <1>7, <1>10, <2>4
    <3>2. new - L \in DOMAIN admitted'[f] =>
            admitted'[f][new - L] + per < windowStart'[f]
      BY <1>7, <2>3
    <3>3. now' = now
      OBVIOUS
    <3>4. QED BY <3>1, <3>2, <3>3 DEF SpacingOK, First, L, per, new
  <2>6. QED BY <2>2, <2>5
<1>12. CASE NewWindow(f)
  <2>1. count'[f] = 1 /\ windowStart'[f] = now
    BY <1>6, <1>12 DEF Counted
  <2>2. n > 0 => count[f] > 0 /\ a[first] = windowStart[f] /\ windowStart[f] + per < now
    BY <1>1, <1>2, <1>3, <1>12 DEF NewWindow, NoWindow, per
  <2>3. ASSUME NEW k \in 1..n, k <= first PROVE a[k] + per < now
    <3>1. n > 0 /\ first \in 1..n
      BY <1>1, <1>3, <1>8, <2>2
    <3>2. a[k] <= a[first]
      BY <1>4, <2>3, <3>1
    <3>3. QED BY <1>1, <1>2, <2>2, <3>1, <3>2
  <2>4. n + 1 - L \in 1..n => a[n + 1 - L] + per < now
    BY <1>1, <1>2, <1>3, <1>8, <2>3
  <2>5. n + 2 - 2 * L \in 1..n => a[n + 2 - 2 * L] + per < now
    BY <1>1, <1>2, <1>3, <1>8, <2>3
  <2>6. new = n + 1
    BY <1>0, <1>1, <2>1
  <2>7. QED BY <1>1, <1>2, <1>7, <2>1, <2>4, <2>5, <2>6 DEF NoWindow
<1>13. CASE ~NewWindow(f)
  <2>1. /\ count'[f] = count[f] + 1 /\ windowStart'[f] = windowStart[f] /\ count[f] < L
        /\ windowStart[f] \in Nat /\ count[f] > 0
    BY <1>1, <1>2, <1>3, <1>6, <1>9, <1>13 DEF Counted, NewWindow
  <2>2. first \in 1..n /\ new = first /\ a[first] = windowStart[f]
    BY <1>0, <1>1, <1>3, <1>8, <2>1
  <2>3. n + 2 - 2 * L \in 1..n => a[n + 2 - 2 * L] + per < now
    <3>1. HAVE n + 2 - 2 * L \in 1..n
    <3>2. first - L \in 1..n /\ n + 2 - 2 * L <= first - L
      <4>1. n \in Nat /\ count[f] \in Nat
        BY <1>1
      <4>2. L \in Nat
        BY <1>2
      <4>3. count[f] < L
        BY <2>1
      <4>4. n + 2 - 2 * L <= n - count[f] + 1 - L /\ n - count[f] + 1 - L \in 1..n
        BY <3>1, <4>1, <4>2, <4>3, WindowBegins
      <4>5. QED BY <1>8, <4>1, <4>2, <4>4
    <3>3. a[first - L] + per < windowStart[f] /\ a[n + 2 - 2 * L] <= a[first - L]
      BY <1>4, <3>1, <3>2
    <3>4. windowStart[f] <= now
      BY <1>4, <2>2
    <3>5. a[n + 2 - 2 * L] \in Nat /\ a[first - L] \in Nat
      BY <1>1, <3>1, <3>2
    <3>6. QED BY <1>1, <1>2, <2>1, <3>3, <3>4, <3>5
  <2>4. first - L \in 1..n => a[first - L] + per < windowStart'[f]
    BY <1>4, <2>1
  <2>5. admitted'[f][first] = windowStart'[f]
    BY <1>7, <2>1, <2>2
  <2>6. windowStart'[f] # NoWindow /\ count'[f] # 0 /\ count'[f] <= n + 1 /\ count'[f] <= L
    BY <1>1, <1>2, <1>3, <2>1 DEF NoWindow
  <2>7. new - L = first - L
    BY <2>2
  <2>8. QED BY <2>2, <2>3, <2>4, <2>5, <2>6, <2>7
<1>14. QED BY <1>12, <1>13

\* The rate limits keep their types, and every one its window and its spacing.
LEMMA RateStep ==
  ASSUME IInv, [Next]_vars
  PROVE  /\ count' \in [Fns -> Nat] /\ windowStart' \in [Fns -> 0..MaxTime \cup {NoWindow}]
         /\ admitted' \in [Fns -> Seq(0..MaxTime)] /\ RateOK'
<1>0. /\ TypeOK /\ StackOK /\ count \in [Fns -> Nat] /\ now \in 0..MaxTime
      /\ windowStart \in [Fns -> 0..MaxTime \cup {NoWindow}]
      /\ admitted \in [Fns -> Seq(0..MaxTime)]
  BY DEF IInv, TypeOK
<1>1. now \in Nat /\ now' \in Nat /\ now <= now'
  BY <1>0, ClockMoves, ConfigAssumption
<1>2. ASSUME NEW f \in Fns, Limits(f), UNCHANGED <<count[f], windowStart[f], admitted[f]>>
      PROVE  WindowOK(f)' /\ SpacingOK(f)'
  <2>1. WindowOK(f) /\ SpacingOK(f)
    BY <1>2 DEF IInv, RateOK
  <2>2. /\ count'[f] = count[f] /\ windowStart'[f] = windowStart[f]
        /\ admitted'[f] = admitted[f]
    BY <1>2
  <2>3. WindowOK(f)'
    BY <2>1, <2>2 DEF WindowOK, First
  <2>4. \A i \in DOMAIN admitted'[f] : admitted'[f][i] <= now'
    <3>1. \A i \in DOMAIN admitted[f] : admitted[f][i] \in Nat /\ admitted[f][i] <= now
      BY <1>0, <2>1, RateTypes DEF SpacingOK
    <3>2. QED BY <1>1, <2>2, <3>1
  <2>5. SpacingOK(f)'
    BY <2>1, <2>2, <2>4 DEF SpacingOK, First
  <2>6. QED BY <2>3, <2>5
<1>3. CASE UNCHANGED <<count, windowStart, admitted>>
  <2>1. ASSUME NEW f \in Fns, Limits(f) PROVE WindowOK(f)' /\ SpacingOK(f)'
    BY <1>2, <1>3, <2>1
  <2>2. RateOK'
    BY <2>1 DEF RateOK, Limits
  <2>3. QED BY <1>0, <1>3, <2>2
<1>4. ASSUME NEW g \in Fns, ~RateLimited(g), PassRateLimit(g), UNCHANGED now, Limits(g)
      PROVE  /\ count' \in [Fns -> Nat]
             /\ windowStart' \in [Fns -> 0..MaxTime \cup {NoWindow}]
             /\ admitted' \in [Fns -> Seq(0..MaxTime)] /\ RateOK'
  <2>1. /\ count' = [count EXCEPT ![g] = Counted(g) + 1]
        /\ windowStart' = [windowStart EXCEPT ![g] = IF NewWindow(g) THEN now ELSE @]
        /\ admitted' = [admitted EXCEPT ![g] = Append(@, now)]
    BY <1>4 DEF PassRateLimit
  <2>2. Counted(g) + 1 \in Nat /\ Append(admitted[g], now) \in Seq(0..MaxTime)
    BY <1>0 DEF Counted
  <2>3. /\ count' \in [Fns -> Nat]
        /\ windowStart' \in [Fns -> 0..MaxTime \cup {NoWindow}]
        /\ admitted' \in [Fns -> Seq(0..MaxTime)]
    BY <1>0, <2>1, <2>2
  <2>4. ASSUME NEW f \in Fns, Limits(f) PROVE WindowOK(f)' /\ SpacingOK(f)'
    <3>1. CASE f = g
      BY <1>4, <3>1, PassKeepsRate
    <3>2. CASE f # g
      BY <1>0, <1>2, <2>1, <2>4, <3>2
    <3>3. QED BY <3>1, <3>2
  <2>5. RateOK'
    BY <2>4 DEF RateOK, Limits
  <2>6. QED BY <2>3, <2>5
<1>5. CASE \E g \in Fns : ~RateLimited(g) /\ PassRateLimit(g) /\ UNCHANGED now
  <2>1. PICK g \in Fns : ~RateLimited(g) /\ PassRateLimit(g) /\ UNCHANGED now
    BY <1>5
  <2>2. CASE Limits(g)
    BY <1>4, <2>1, <2>2
  <2>3. CASE ~Limits(g)
    BY <1>3, <2>1, <2>3 DEF PassRateLimit
  <2>4. QED BY <2>2, <2>3
<1>6. QED BY <1>0, <1>3, <1>5, RateMoves

-----------------------------------------------------------------------------
(* The invariant is inductive.                                                *)

\* It holds initially: nothing is in progress, counted, opened or let through.
LEMMA InitInv ==
  ASSUME Init
  PROVE  IInv
<1>1. TypeOK
  BY ConfigAssumption DEF Init, TypeOK, NotOpen, NoWindow
<1>2. StackOK /\ CircuitOK /\ CooldownIsRespected
  BY DEF Init, StackOK, CircuitOK, CooldownIsRespected
<1>3. CountersMatchCalls
  <2>1. \A f \in Fns : InProgress(f) = {}
    BY DEF Init, InProgress
  <2>2. Cardinality({}) = 0
    BY FS_EmptySet
  <2>3. depth = Len(calls)
    BY DEF Init
  <2>4. \A f \in Fns : Isolates(f) => concurrent[f] = 0 /\ 0 <= Config[f].max
    BY ConfigFacts DEF Init
  <2>5. QED BY <2>1, <2>2, <2>3, <2>4 DEF CountersMatchCalls
<1>4. RateOK
  <2>1. ASSUME NEW f \in Fns, Limits(f) PROVE WindowOK(f) /\ SpacingOK(f)
    <3>1. admitted[f] = <<>> /\ windowStart[f] = NoWindow /\ count[f] = 0
      BY DEF Init
    <3>2. WindowOK(f)
      BY <2>1, <3>1, ConfigFacts DEF WindowOK
    <3>3. SpacingOK(f)
      BY <3>1 DEF SpacingOK
    <3>4. QED BY <3>2, <3>3
  <2>2. QED BY <2>1 DEF RateOK
<1>5. QED BY <1>1, <1>2, <1>3, <1>4 DEF IInv

\* The result a call leaves, and the number of calls made, keep their types.
LEMMA ResultMoves ==
  ASSUME TypeOK, StackOK, [Next]_vars
  PROVE  result' \in {"none", "value", "fail"} /\ made' \in 0..MaxCalls
<1>0. result \in {"none", "value", "fail"} /\ made \in 0..MaxCalls
  BY DEF TypeOK
<1>1. ASSUME NEW f \in Fns, CallCompiled(f, calls), made' \in 0..MaxCalls
      PROVE  result' \in {"none", "value", "fail"} /\ made' \in 0..MaxCalls
  BY <1>1 DEF CallCompiled, RejectByCircuit, RejectByRate, RejectByBulkhead,
     RejectByDepth, Admit, Give
<1>2. CASE AttemptSucceeds \/ AttemptFails \/ FallbackReturns
  BY <1>0, <1>2 DEF AttemptSucceeds, AttemptFails, FallbackReturns, Leave, Give
<1>3. CASE Retry \/ GiveUp
  BY <1>0, <1>3 DEF Retry, GiveUp, Leave, Give
<1>4. CASE Tick \/ UNCHANGED vars
  BY <1>0, <1>4 DEF Tick, vars
<1>5. QED BY <1>1, <1>2, <1>3, <1>4, NextCases

\* Every step preserves the invariant, one group of conjuncts by each lemma.
LEMMA NextInv ==
  ASSUME IInv, [Next]_vars
  PROVE  IInv'
<1>1. TypeOK /\ StackOK
  BY DEF IInv
<1>2. TypeOK'
  BY <1>1, CountersStep, CircuitStep, RateStep, ResultMoves, ClockMoves DEF TypeOK
<1>3. QED BY <1>2, StackStep, CountersStep, CircuitStep, CooldownStep, RateStep DEF IInv

\* The inductive invariant holds in every behaviour of the specification.
THEOREM InductiveInvariant == Spec => []IInv
<1>1. Init => IInv
  BY InitInv
<1>2. IInv /\ [Next]_vars => IInv'
  BY NextInv
<1>3. QED BY <1>1, <1>2, PTL DEF Spec

-----------------------------------------------------------------------------
(* The properties.                                                            *)

\* The variables keep their types: the depth stays within MAX_RESILIENT_DEPTH.
THEOREM TypeCorrect == Spec => []TypeOK
<1>1. IInv => TypeOK
  BY DEF IInv
<1>2. QED BY <1>1, InductiveInvariant, PTL

\* On every path out of a call, what it took of the bulkhead and of the depth is
\* given back: the counters are the numbers of calls in progress.
THEOREM CountersAreCalls == Spec => []CountersMatchCalls
<1>1. IInv => CountersMatchCalls
  BY DEF IInv
<1>2. QED BY <1>1, InductiveInvariant, PTL

\* No call begins while the circuit of its function is open, though the calls in
\* progress may still succeed, and reset the failure count, meanwhile.
THEOREM OpenCircuitAdmitsNone == Spec => []CooldownIsRespected
<1>1. IInv => CooldownIsRespected
  BY DEF IInv
<1>2. QED BY <1>1, InductiveInvariant, PTL

\* The calls of one period are consecutive, and closer than the first and the last of as
\* many as twice the limit.
LEMMA PassedBound ==
  ASSUME TypeOK, NEW f \in Fns, NEW t \in 0..MaxTime, Limits(f), WindowOK(f), SpacingOK(f),
         Passed(f, t) # {}
  PROVE  Cardinality(Passed(f, t)) < 2 * Config[f].limit
<1> DEFINE a == admitted[f]
           L == Config[f].limit
           per == Config[f].per
           P == Passed(f, t)
<1>1. /\ DOMAIN a \subseteq Nat /\ \A i \in DOMAIN a : a[i] \in Nat
      /\ Len(a) \in Nat /\ DOMAIN a = 1..Len(a) /\ count[f] \in Nat
  BY RateTypes
<1>2. L \in Nat \ {0} /\ per \in Nat /\ t \in Nat
  <2>1. L \in Nat /\ per \in Nat /\ t \in Nat
    BY ConfigFacts
  <2>2. a # <<>>
    BY <1>1 DEF Passed
  <2>3. count[f] # 0 /\ count[f] <= L
    BY <2>2 DEF WindowOK
  <2>4. QED BY <1>1, <2>1, <2>3
<1>3. /\ \A i, j \in DOMAIN a : i <= j => a[i] <= a[j]
      /\ \A i, j \in DOMAIN a : j = i + 2 * L - 1 => a[i] + per < a[j]
  BY DEF SpacingOK
<1>4. /\ P \subseteq DOMAIN a /\ P \subseteq Nat /\ P # {}
      /\ \A i \in P : a[i] \in Nat /\ t <= a[i] /\ a[i] <= t + per
  BY <1>1, <1>2 DEF Passed
<1> HIDE DEF a, L, per, P
<1>5. PICK m \in P : \A x \in P : m <= x
  BY <1>4, NatMin
<1>6. ASSUME NEW j \in P PROVE j \in m..(m + 2 * L - 2)
  <2>1. m \in Nat /\ j \in Nat /\ m <= j /\ 2 * L \in Nat
    BY <1>2, <1>4, <1>5
  <2>2. ASSUME m + 2 * L - 1 <= j PROVE FALSE
    <3>1. m + 2 * L - 1 \in DOMAIN a
      BY <1>1, <1>2, <1>4, <1>5, <2>1, <2>2
    <3>2. a[m] + per < a[m + 2 * L - 1] /\ a[m + 2 * L - 1] <= a[j]
      BY <1>3, <1>4, <1>5, <2>2, <3>1
    <3>3. QED BY <1>1, <1>2, <1>4, <1>5, <3>1, <3>2
  <2>3. QED BY <2>1, <2>2
<1>7. /\ m \in Int /\ m + 2 * L - 2 \in Int /\ m <= m + 2 * L - 2
      /\ (m + 2 * L - 2) - m + 1 = 2 * L - 1 /\ 2 * L - 1 \in Nat
  BY <1>2, <1>4, <1>5
<1>8. IsFiniteSet(m..(m + 2 * L - 2)) /\ Cardinality(m..(m + 2 * L - 2)) = 2 * L - 1
  BY <1>7, FS_Interval
<1>9. Cardinality(P) <= Cardinality(m..(m + 2 * L - 2)) /\ Cardinality(P) \in Nat
  BY <1>6, <1>8, FS_Subset, FS_CardinalityType
<1>10. QED BY <1>2, <1>8, <1>9 DEF P, L

\* In no stretch of time as long as the period does a rate limit let as many as twice its
\* number of calls through, wherever its windows begin and end (call_compiled).
THEOREM RateIsLimited == Spec => []BelowTwiceTheLimit
<1>1. IInv => BelowTwiceTheLimit
  BY PassedBound DEF IInv, RateOK, BelowTwiceTheLimit
<1>2. QED BY <1>1, InductiveInvariant, PTL
=============================================================================
