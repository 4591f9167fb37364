---------------------------- MODULE SequenceFacts ----------------------------
(* What Append, Tail and dropping the last element do to a sequence: the      *)
(* facts about sequences that the proofs of several modules cite.             *)
EXTENDS Integers, Sequences, SequenceTheorems, WellFoundedInduction, TLAPS

\* Append adds its element at the end of the sequence and moves nothing.
LEMMA AppendType ==
  ASSUME NEW S, NEW q \in Seq(S), NEW e \in S
  PROVE  /\ Append(q, e) \in Seq(S) /\ Append(q, e) # <<>>
         /\ Len(Append(q, e)) = Len(q) + 1
         /\ Append(q, e)[Len(q) + 1] = e
         /\ \A i \in DOMAIN q : Append(q, e)[i] = q[i]
         /\ DOMAIN Append(q, e) = DOMAIN q \cup {Len(q) + 1}
  OBVIOUS

\* Head and Tail of a queue that is not empty: what is taken and what is left.
LEMMA TailType ==
  ASSUME NEW S, NEW q \in Seq(S), q # <<>>
  PROVE  /\ Head(q) \in S /\ Tail(q) \in Seq(S) /\ Len(Tail(q)) = Len(q) - 1
         /\ Head(q) = q[1] /\ 1 \in DOMAIN q
         /\ \A i \in DOMAIN Tail(q) : i + 1 \in DOMAIN q /\ Tail(q)[i] = q[i + 1]
         /\ \A i \in DOMAIN q : i = 1 \/ (i - 1 \in DOMAIN Tail(q) /\ Tail(q)[i - 1] = q[i])
  OBVIOUS

\* Dropping the last element of a sequence, as the loops pop a list.
LEMMA FrontType ==
  ASSUME NEW S, NEW q \in Seq(S), q # <<>>, NEW f, f = SubSeq(q, 1, Len(q) - 1)
  PROVE  /\ f \in Seq(S) /\ Len(f) = Len(q) - 1
         /\ \A i \in DOMAIN f : i \in DOMAIN q /\ i # Len(q) /\ f[i] = q[i]
         /\ \A i \in DOMAIN q : i = Len(q) \/ i \in DOMAIN f
         /\ Len(q) \in DOMAIN q /\ q[Len(q)] \in S
<1>1. Len(q) \in Nat \ {0} /\ DOMAIN q = 1..Len(q) /\ \A i \in 1..Len(q) : q[i] \in S
  OBVIOUS
<1>2. Len(f) = Len(q) - 1 /\ \A i \in 1..(Len(q) - 1) : f[i] = q[i]
  BY <1>1
<1>3. f \in Seq(S)
  BY <1>1
<1>4. QED BY <1>1, <1>2, <1>3

\* A set of naturals that is not empty has a least element.
LEMMA Least ==
  ASSUME NEW T, T \subseteq Nat, T # {}
  PROVE  \E x \in T : \A y \in T : x <= y
<1> DEFINE R == {p \in Nat \X Nat : p[1] < p[2]}
<1>1. IsWellFoundedOn(R, Nat)
  BY NatLessThanWellFounded DEF OpToRel
<1>2. ASSUME NEW x \in Nat, NEW y \in Nat, <<x, y>> \notin R PROVE y <= x
  BY <1>2
<1> HIDE DEF R
<1>3. PICK x \in T : \A y \in T : <<y, x>> \notin R
  BY <1>1, WFMin
<1>4. ASSUME NEW y \in T PROVE x <= y
  <2>1. x \in Nat /\ y \in Nat /\ <<y, x>> \notin R
    BY <1>3
  <2>2. QED BY <1>2, <2>1
<1>5. QED BY <1>4

\* Induction over the naturals up to m, about a set.
LEMMA UpTo ==
  ASSUME NEW m \in Nat, NEW T, 0 \in T, \A n \in 1..m : n - 1 \in T => n \in T
  PROVE  \A n \in 0..m : n \in T
<1> DEFINE U == {n \in 0..m : n \notin T}
<1>1. SUFFICES ASSUME U # {} PROVE FALSE
  OBVIOUS
<1>2. U \subseteq Nat
  OBVIOUS
<1>3. PICK n \in U : \A j \in U : n <= j
  <2> HIDE DEF U
  <2>1. QED BY <1>1, <1>2, Least
<1>4. n \in 1..m /\ n - 1 \in 0..m /\ n - 1 \notin U
  <2>1. n \in 0..m /\ n # 0
    OBVIOUS
  <2>2. n - 1 \in 0..m /\ ~(n <= n - 1)
    BY <2>1
  <2>3. QED BY <1>3, <2>1, <2>2
<1>5. QED BY <1>4

\* What m steps, each a function on V, make of a value a.
StepsOver(V, m) == [1..m -> [V -> V]]
StepResults(V, a, m, F) == {k \in [0..m -> V] : k[0] = a /\ \A n \in 1..m : k[n] = F[n][k[n - 1]]}

\* A function may be defined by recursion: from a value and a step for each number.
LEMMA Recursion ==
  ASSUME NEW V, NEW a \in V, NEW m \in Nat, NEW F \in StepsOver(V, m)
  PROVE  StepResults(V, a, m, F) # {}
<1> DEFINE Good(j) == StepResults(V, a, j, F)
           T == {j \in 0..m : Good(j) # {}}
<1>1. 0 \in T
  <2>1. [n \in 0..0 |-> a] \in Good(0)
    BY DEF StepResults
  <2>2. QED BY <2>1
<1>2. ASSUME NEW j \in 1..m, j - 1 \in T PROVE j \in T
  <2>1. PICK k : k \in Good(j - 1)
    BY <1>2
  <2>2. k \in [0..(j - 1) -> V] /\ F[j] \in [V -> V]
    BY <2>1 DEF StepResults, StepsOver
  <2> DEFINE h == [n \in 0..j |-> IF n = j THEN F[j][k[j - 1]] ELSE k[n]]
  <2>3. h \in [0..j -> V]
    BY <2>2
  <2>4. h[0] = a
    BY <2>1 DEF StepResults
  <2>5. ASSUME NEW n \in 1..j PROVE h[n] = F[n][h[n - 1]]
    <3>1. n - 1 \in 0..j /\ n - 1 # j /\ h[n - 1] = k[n - 1]
      OBVIOUS
    <3>2. CASE n = j
      BY <3>1, <3>2
    <3>3. CASE n # j
      <4>1. n \in 1..(j - 1) /\ h[n] = k[n]
        BY <3>3
      <4>2. QED BY <2>1, <3>1, <4>1 DEF StepResults
    <3>4. QED BY <3>2, <3>3
  <2>6. h \in Good(j)
    <3> HIDE DEF h
    <3>1. QED BY <2>3, <2>4, <2>5 DEF StepResults
  <2>7. QED BY <2>6
<1>3. \A n \in 0..m : n \in T
  <2>1. \A n \in 1..m : n - 1 \in T => n \in T
    BY <1>2
  <2> HIDE DEF T, Good
  <2>2. QED BY <1>1, <2>1, UpTo
<1>4. Good(m) # {}
  <2> HIDE DEF Good
  <2>1. QED BY <1>3
<1>5. QED BY <1>4
=============================================================================
