--------------------------- MODULE LoaderTheorems ---------------------------
(***************************************************************************)
(* Proofs about the module loader: whatever the files import, loading      *)
(* gives every declaration of every file that is reached, once.            *)
(***************************************************************************)
EXTENDS ModuleLoader, SequenceFacts, FiniteSetTheorems, TLAPS

\* A list: a function on the numbers up to its length.
IsList(s) == s \in Seq(ToSet(s))

\* The length and the elements of a list.
LEMMA ListType ==
  ASSUME NEW s, IsList(s)
  PROVE  Len(s) \in Nat /\ DOMAIN s = 1..Len(s)
BY DEF IsList

\* Places have a file and a number.
Places(read) == (DOMAIN read) \X Nat

\* The elements of a list with one more, and of two lists.
LEMMA AppendSet ==
  ASSUME NEW P, NEW s \in Seq(P), NEW e \in P
  PROVE  Append(s, e) \in Seq(P) /\ ToSet(Append(s, e)) = ToSet(s) \cup {e}
<1> DEFINE t == Append(s, e)
<1>1. /\ t \in Seq(P) /\ DOMAIN t = DOMAIN s \cup {Len(s) + 1} /\ t[Len(s) + 1] = e
      /\ \A i \in DOMAIN s : t[i] = s[i]
  BY AppendType
<1> HIDE DEF t
<1>2. QED BY <1>1 DEF ToSet, t

LEMMA ConcatSet ==
  ASSUME NEW P, NEW s \in Seq(P), NEW t \in Seq(P)
  PROVE  s \o t \in Seq(P) /\ ToSet(s \o t) = ToSet(s) \cup ToSet(t)
<1> DEFINE c == s \o t
<1>1. /\ c \in Seq(P) /\ Len(s) \in Nat /\ Len(t) \in Nat /\ Len(c) = Len(s) + Len(t)
      /\ DOMAIN c = 1..Len(c) /\ DOMAIN s = 1..Len(s) /\ DOMAIN t = 1..Len(t)
      /\ \A i \in 1..Len(s) : c[i] = s[i]
      /\ \A i \in 1..Len(t) : c[Len(s) + i] = t[i]
  OBVIOUS
<1> HIDE DEF c
<1>2. ASSUME NEW i \in DOMAIN c PROVE c[i] \in ToSet(s) \cup ToSet(t)
  <2>1. CASE i <= Len(s)
    BY <1>1, <2>1 DEF ToSet
  <2>2. CASE ~(i <= Len(s))
    <3>1. i - Len(s) \in 1..Len(t) /\ Len(s) + (i - Len(s)) = i
      BY <1>1, <2>2
    <3>2. c[i] = t[i - Len(s)]
      BY <1>1, <3>1
    <3>3. QED BY <1>1, <3>1, <3>2 DEF ToSet
  <2>3. QED BY <2>1, <2>2
<1>3. ASSUME NEW i \in DOMAIN s PROVE i \in DOMAIN c /\ c[i] = s[i]
  BY <1>1
<1>4. ASSUME NEW i \in DOMAIN t PROVE Len(s) + i \in DOMAIN c /\ c[Len(s) + i] = t[i]
  BY <1>1
<1>5. ToSet(c) = ToSet(s) \cup ToSet(t)
  BY <1>2, <1>3, <1>4 DEF ToSet
<1>6. QED BY <1>1, <1>5 DEF c

\* The order of the places of a file in a list with one more, and in two lists.
LEMMA AppendInOrder ==
  ASSUME NEW P, NEW s \in Seq(P), NEW e \in P, InOrder(s),
         \A x \in ToSet(s) : x[1] = e[1] => x[2] < e[2]
  PROVE  InOrder(Append(s, e))
<1> DEFINE t == Append(s, e)
<1>1. /\ DOMAIN t = DOMAIN s \cup {Len(s) + 1} /\ t[Len(s) + 1] = e /\ Len(s) \in Nat
      /\ DOMAIN s = 1..Len(s) /\ \A i \in DOMAIN s : t[i] = s[i]
  BY AppendType
<1> HIDE DEF t
<1>2. SUFFICES ASSUME NEW i \in DOMAIN t, NEW j \in DOMAIN t, i < j, t[i][1] = t[j][1]
               PROVE  t[i][2] < t[j][2]
  BY DEF InOrder, t
<1>3. i \in DOMAIN s
  BY <1>1, <1>2
<1>4. CASE j \in DOMAIN s
  BY <1>1, <1>2, <1>3, <1>4 DEF InOrder
<1>5. CASE j = Len(s) + 1
  <2>1. t[i] = s[i] /\ t[j] = e /\ s[i] \in ToSet(s)
    BY <1>1, <1>3, <1>5 DEF ToSet
  <2>2. QED BY <1>2, <2>1
<1>6. QED BY <1>1, <1>4, <1>5

LEMMA ConcatInOrder ==
  ASSUME NEW P, NEW s \in Seq(P), NEW t \in Seq(P), InOrder(s), InOrder(t),
         \A x \in ToSet(s), y \in ToSet(t) : x[1] # y[1]
  PROVE  InOrder(s \o t)
<1> DEFINE c == s \o t
<1>1. /\ Len(s) \in Nat /\ Len(t) \in Nat /\ Len(c) = Len(s) + Len(t)
      /\ DOMAIN c = 1..Len(c) /\ DOMAIN s = 1..Len(s) /\ DOMAIN t = 1..Len(t)
      /\ \A i \in 1..Len(s) : c[i] = s[i]
      /\ \A i \in 1..Len(t) : c[Len(s) + i] = t[i]
  OBVIOUS
<1> HIDE DEF c
<1>2. SUFFICES ASSUME NEW i \in DOMAIN c, NEW j \in DOMAIN c, i < j, c[i][1] = c[j][1]
               PROVE  c[i][2] < c[j][2]
  BY DEF InOrder, c
<1>3. ASSUME NEW k \in DOMAIN c, ~(k <= Len(s))
      PROVE  k - Len(s) \in DOMAIN t /\ c[k] = t[k - Len(s)]
  <2>1. k - Len(s) \in 1..Len(t) /\ Len(s) + (k - Len(s)) = k
    BY <1>1, <1>3
  <2>2. QED BY <1>1, <2>1
<1>4. i \in Nat /\ j \in Nat
  BY <1>1
<1>5. CASE j <= Len(s)
  <2>1. i \in DOMAIN s /\ j \in DOMAIN s /\ c[i] = s[i] /\ c[j] = s[j]
    BY <1>1, <1>2, <1>5
  <2>2. QED BY <1>2, <2>1 DEF InOrder
<1>6. CASE i <= Len(s) /\ ~(j <= Len(s))
  <2>1. c[i] \in ToSet(s)
    BY <1>1, <1>6 DEF ToSet
  <2>2. c[j] \in ToSet(t)
    BY <1>3, <1>6 DEF ToSet
  <2>3. QED BY <1>2, <2>1, <2>2
<1>7. CASE ~(i <= Len(s)) /\ ~(j <= Len(s))
  <2>1. /\ i - Len(s) \in DOMAIN t /\ c[i] = t[i - Len(s)]
        /\ j - Len(s) \in DOMAIN t /\ c[j] = t[j - Len(s)]
    BY <1>3, <1>7
  <2>2. i - Len(s) < j - Len(s)
    BY <1>1, <1>2, <1>4
  <2>3. QED BY <1>2, <2>1, <2>2 DEF InOrder
<1>8. i <= Len(s) \/ ~(j <= Len(s)) \/ j <= Len(s)
  OBVIOUS
<1>9. QED BY <1>1, <1>2, <1>4, <1>5, <1>6, <1>7

\* The places that are no main are left, in their order.
IsKept(k, read, items) ==
  k = [n \in 0..Len(items) |->
         IF n = 0 THEN <<>>
         ELSE IF IsMain(ItemAt(read, items[n])) THEN k[n - 1] ELSE Append(k[n - 1], items[n])]

LEMMA KeptFunction ==
  ASSUME NEW read, NEW P, NEW items \in Seq(P)
  PROVE  \E k : /\ k[0] = <<>> /\ WithoutMain(read, items) = k[Len(items)]
                /\ \A n \in 1..Len(items) :
                     k[n] = IF IsMain(ItemAt(read, items[n])) THEN k[n - 1]
                            ELSE Append(k[n - 1], items[n])
<1> DEFINE m == Len(items)
           V == Seq(P)
           F == [n \in 1..m |-> [s \in V |-> IF IsMain(ItemAt(read, items[n])) THEN s
                                            ELSE Append(s, items[n])]]
           K == CHOOSE k : IsKept(k, read, items)
<1>1. m \in Nat /\ \A n \in 1..m : items[n] \in P
  OBVIOUS
<1>2. <<>> \in V /\ \A n \in 1..m, s \in V : Append(s, items[n]) \in V
  BY <1>1, AppendSet
<1>3. F \in StepsOver(V, m)
  <2> HIDE DEF V, m
  <2>1. \A n \in 1..m : F[n] \in [V -> V]
    BY <1>2
  <2>2. QED BY <2>1 DEF StepsOver
<1>4. PICK k : k \in StepResults(V, <<>>, m, F)
  <2> HIDE DEF F, m, V
  <2>1. QED BY <1>1, <1>2, <1>3, Recursion
<1>5. k \in [0..m -> V] /\ k[0] = <<>> /\ \A n \in 1..m : k[n] = F[n][k[n - 1]]
  <2> HIDE DEF F, m, V
  <2>1. QED BY <1>4 DEF StepResults
<1>6. ASSUME NEW n \in 1..m
      PROVE  k[n] = IF IsMain(ItemAt(read, items[n])) THEN k[n - 1] ELSE Append(k[n - 1], items[n])
  <2>1. n - 1 \in 0..m
    BY <1>1
  <2> HIDE DEF m, V
  <2>2. k[n - 1] \in V
    BY <1>5, <2>1
  <2>3. QED BY <1>5, <2>2
<1>7. IsKept(k, read, items)
  <2> HIDE DEF F, V
  <2>1. k = [n \in 0..m |-> k[n]]
    BY <1>5
  <2>2. \A n \in 0..m : n = 0 \/ n \in 1..m
    BY <1>1
  <2> HIDE DEF m
  <2>3. k = [n \in 0..m |-> IF n = 0 THEN <<>>
                            ELSE IF IsMain(ItemAt(read, items[n])) THEN k[n - 1]
                            ELSE Append(k[n - 1], items[n])]
    BY <1>5, <1>6, <2>1, <2>2
  <2>4. QED BY <2>3 DEF IsKept, m
<1>8. IsKept(K, read, items)
  <2> HIDE DEF F, V, m
  <2>1. QED BY <1>7
<1>9. WithoutMain(read, items) = K[Len(items)]
  BY Zenon DEF WithoutMain, IsKept
<1> HIDE DEF K, F, V
<1>10. K[0] = <<>>
  <2>1. 0 \in 0..m
    BY <1>1
  <2>2. QED BY <1>8, <2>1 DEF IsKept
<1>11. ASSUME NEW n \in 1..m
       PROVE  K[n] = IF IsMain(ItemAt(read, items[n])) THEN K[n - 1] ELSE Append(K[n - 1], items[n])
  <2>1. n \in 0..m /\ n # 0
    BY <1>1
  <2>2. QED BY <1>8, <2>1 DEF IsKept
<1>12. QED BY <1>9, <1>10, <1>11

\* What is left of a list of places without those of a main.
LEMMA WithoutMainType ==
  ASSUME NEW read, NEW P, NEW items \in Seq(P)
  PROVE  /\ WithoutMain(read, items) \in Seq(P)
         /\ InOrder(items) => InOrder(WithoutMain(read, items))
         /\ ToSet(WithoutMain(read, items)) = {x \in ToSet(items) : ~IsMain(ItemAt(read, x))}
<1> DEFINE m == Len(items)
           Left(n) == {x \in {items[i] : i \in 1..n} : ~IsMain(ItemAt(read, x))}
           Good(s, n) == s \in Seq(P) /\ (InOrder(items) => InOrder(s)) /\ ToSet(s) = Left(n)
<1>1. m \in Nat /\ DOMAIN items = 1..m /\ \A n \in 1..m : items[n] \in P
  OBVIOUS
<1>2. PICK k : /\ k[0] = <<>> /\ WithoutMain(read, items) = k[Len(items)]
               /\ \A n \in 1..Len(items) :
                    k[n] = IF IsMain(ItemAt(read, items[n])) THEN k[n - 1]
                           ELSE Append(k[n - 1], items[n])
  BY KeptFunction
<1> DEFINE T == {n \in 0..m : Good(k[n], n)}
<1>3. 0 \in T
  <2>1. 0 \in 0..m /\ Left(0) = {}
    BY <1>1
  <2>2. <<>> \in Seq(P) /\ InOrder(<<>>) /\ ToSet(<<>>) = {}
    BY DEF InOrder, ToSet
  <2>3. QED BY <1>2, <2>1, <2>2
<1>4. ASSUME NEW n \in 1..m, n - 1 \in T PROVE n \in T
  <2> DEFINE s == k[n - 1]
             e == items[n]
  <2>1. n \in 0..m /\ n \in Nat /\ n - 1 \in Nat
    BY <1>1
  <2>2. s \in Seq(P) /\ (InOrder(items) => InOrder(s)) /\ ToSet(s) = Left(n - 1) /\ e \in P
    BY <1>1, <1>4
  <2>3. \A i \in 1..n : i = n \/ i \in 1..(n - 1)
    BY <2>1
  <2>4. n \in 1..n /\ \A i \in 1..(n - 1) : i \in 1..n
    BY <2>1
  <2>5. CASE IsMain(ItemAt(read, e))
    <3>1. Left(n) = Left(n - 1)
      BY <2>3, <2>4, <2>5
    <3>2. k[n] = s
      BY <1>2, <2>5
    <3> HIDE DEF s, Left
    <3>3. QED BY <2>1, <2>2, <3>1, <3>2
  <2>6. CASE ~IsMain(ItemAt(read, e))
    <3>1. Left(n) = Left(n - 1) \cup {e}
      BY <2>3, <2>4, <2>6
    <3>2. k[n] = Append(s, e)
      BY <1>2, <2>6
    <3>3. ASSUME InOrder(items), NEW x \in ToSet(s), x[1] = e[1] PROVE x[2] < e[2]
      <4>1. PICK i \in 1..(n - 1) : x = items[i]
        BY <2>2, <3>3
      <4>2. i \in DOMAIN items /\ n \in DOMAIN items /\ i < n
        BY <1>1, <2>1
      <4>3. QED BY <3>3, <4>1, <4>2 DEF InOrder
    <3> HIDE DEF s, e, Left
    <3>4. InOrder(items) => InOrder(Append(s, e))
      BY <2>2, <3>3, AppendInOrder
    <3>5. Append(s, e) \in Seq(P) /\ ToSet(Append(s, e)) = Left(n)
      BY <2>2, <3>1, AppendSet
    <3>6. QED BY <2>1, <3>2, <3>4, <3>5
  <2>7. QED BY <2>5, <2>6
<1>5. \A n \in 0..m : n \in T
  <2>1. \A n \in 1..m : n - 1 \in T => n \in T
    BY <1>4
  <2> HIDE DEF T, m
  <2>2. QED BY <1>1, <1>3, <2>1, UpTo
<1>6. Good(k[m], m)
  <2>1. m \in 0..m
    BY <1>1
  <2>2. m \in T
    <3> HIDE DEF T, m
    <3>1. QED BY <1>5, <2>1
  <2>3. QED BY <2>2
<1>7. Left(m) = {x \in ToSet(items) : ~IsMain(ItemAt(read, x))}
  BY <1>1 DEF ToSet
<1> HIDE DEF Left
<1>8. QED BY <1>2, <1>6, <1>7

\* What the loader may have, over the files of read, and what the walk of a file is given:
\* for each file and each set of files visited, what loading it gives.
States(read) == [ok : BOOLEAN, items : Seq(Places(read)), visited : SUBSET DOMAIN read,
                 noted : SUBSET Places(read)]
Loads(read) == [Readable(read) -> [SUBSET DOMAIN read -> States(read)]]

\* The fields of what the loader has.
LEMMA StateFields ==
  ASSUME NEW read, NEW st \in States(read)
  PROVE  /\ st.ok \in BOOLEAN /\ st.items \in Seq(Places(read))
         /\ st.visited \subseteq DOMAIN read /\ st.noted \subseteq Places(read)
BY DEF States

LEMMA LoadingType ==
  ASSUME NEW read, NEW visited \in SUBSET DOMAIN read
  PROVE  /\ Loading(visited) \in States(read) /\ Broken(Loading(visited)) \in States(read)
         /\ Loading(visited).visited = visited /\ Loading(visited).ok
         /\ Loading(visited).items = <<>> /\ Loading(visited).noted = {}
<1>1. <<>> \in Seq(Places(read)) /\ {} \subseteq Places(read)
  OBVIOUS
<1>2. QED BY <1>1 DEF Loading, Broken, States

\* Each way an item changes what the loader has.
LEMMA KeepType ==
  ASSUME NEW read, NEW st \in States(read), NEW x \in Places(read)
  PROVE  /\ Keep(st, x) \in States(read) /\ (Keep(st, x).ok <=> st.ok)
         /\ Keep(st, x).items = Append(st.items, x) /\ Keep(st, x).visited = st.visited
         /\ Keep(st, x).noted = st.noted \cup {x}
<1>1. Append(st.items, x) \in Seq(Places(read)) /\ st.noted \cup {x} \in SUBSET Places(read)
  BY StateFields, AppendSet
<1> DEFINE a == Append(st.items, x)
           b == st.noted \cup {x}
<1>2. Keep(st, x) = [ok |-> st.ok, items |-> a, visited |-> st.visited, noted |-> b]
  BY DEF Keep
<1> HIDE DEF a, b
<1>3. QED BY <1>1, <1>2, StateFields DEF States, a, b

LEMMA BrokenType ==
  ASSUME NEW read, NEW st \in States(read)
  PROVE  /\ Broken(st) \in States(read) /\ ~Broken(st).ok /\ Broken(st).visited = st.visited
BY DEF Broken, States

MergeInto(u, st, inner, left) ==
  /\ u.items = st.items \o left /\ (u.ok <=> inner.ok) /\ u.visited = inner.visited
  /\ u.noted = st.noted \cup inner.noted

LEMMA MergeType ==
  ASSUME NEW read, NEW st \in States(read), NEW inner \in States(read)
  PROVE  /\ Merge(read, st, inner) \in States(read)
         /\ MergeInto(Merge(read, st, inner), st, inner, WithoutMain(read, inner.items))
<1> DEFINE a == st.items \o WithoutMain(read, inner.items)
           b == st.noted \cup inner.noted
<1>1. a \in Seq(Places(read))
  BY StateFields, WithoutMainType, ConcatSet
<1>2. b \in SUBSET Places(read)
  BY StateFields
<1>3. Merge(read, st, inner) = [ok |-> inner.ok, items |-> a, visited |-> inner.visited, noted |-> b]
  BY DEF Merge, Joined
<1> HIDE DEF a, b
<1>4. Merge(read, st, inner) \in States(read)
  BY <1>1, <1>2, <1>3, StateFields DEF States
<1>5. MergeInto(Merge(read, st, inner), st, inner, WithoutMain(read, inner.items))
  <2> DEFINE left == WithoutMain(read, inner.items)
             u == Merge(read, st, inner)
  <2>1. a = st.items \o left /\ b = st.noted \cup inner.noted
    BY DEF a, b
  <2>2. u = [ok |-> inner.ok, items |-> a, visited |-> inner.visited, noted |-> b]
    BY <1>3
  <2>3. inner.ok \in BOOLEAN
    BY StateFields
  <2> HIDE DEF left, u
  <2>4. MergeInto(u, st, inner, left)
    BY <2>1, <2>2, <2>3 DEF MergeInto
  <2>5. QED BY <2>4 DEF u, left
<1>6. QED BY <1>4, <1>5

\* One item takes what the loader has to what it may have.
LEMMA ItemType ==
  ASSUME NEW read, NEW packages, NEW st \in States(read), NEW x \in Places(read),
         NEW inner \in Loads(read)
  PROVE  ResolveItem(read, packages, st, x, inner) \in States(read)
<1> DEFINE target == Imported(read, packages, x)
           started == st.visited \cup {target}
<1>1. Keep(st, x) \in States(read) /\ Broken(st) \in States(read)
  BY KeepType, BrokenType
<1>2. ASSUME target \in DOMAIN read, read[target].ok
      PROVE  Merge(read, st, inner[target][started]) \in States(read)
  <2>1. target \in Readable(read) /\ started \in SUBSET DOMAIN read
    BY <1>2, StateFields DEF Readable
  <2> HIDE DEF target, started
  <2>2. inner[target][started] \in States(read)
    BY <2>1 DEF Loads
  <2>3. QED BY <2>2, MergeType
<1> HIDE DEF target, started
<1>3. QED BY <1>1, <1>2 DEF ResolveItem, target, started

\* The recursive function in ResolveItems.
IsWalk(w, read, packages, p, visited, inner) ==
  w = [j \in 0..Len(read[p].v) |->
         IF j = 0 THEN Loading(visited)
         ELSE ResolveItem(read, packages, w[j - 1], <<p, j>>, inner)]

\* The walk of a file is well defined.
LEMMA WalkFunction ==
  ASSUME NEW read, NEW packages, NEW p \in Readable(read), NEW visited \in SUBSET DOMAIN read,
         NEW inner \in Loads(read), IsList(read[p].v)
  PROVE  \E w : /\ w[0] = Loading(visited)
                /\ ResolveItems(read, packages, p, visited, inner) = w[Len(read[p].v)]
                /\ \A j \in 0..Len(read[p].v) : w[j] \in States(read)
                /\ \A j \in 1..Len(read[p].v) :
                     w[j] = ResolveItem(read, packages, w[j - 1], <<p, j>>, inner)
<1> DEFINE m == Len(read[p].v)
           V == States(read)
           F == [j \in 1..m |-> [s \in V |-> ResolveItem(read, packages, s, <<p, j>>, inner)]]
           W == CHOOSE w : IsWalk(w, read, packages, p, visited, inner)
<1>1. m \in Nat
  BY ListType
<1>2. Loading(visited) \in V
  BY LoadingType
<1>3. ASSUME NEW j \in 1..m, NEW s \in V
      PROVE  ResolveItem(read, packages, s, <<p, j>>, inner) \in V
  <2>1. <<p, j>> \in Places(read)
    BY <1>1 DEF Places, Readable
  <2> DEFINE x == <<p, j>>
  <2> HIDE DEF x
  <2>2. x \in Places(read)
    BY <2>1 DEF x
  <2>3. ResolveItem(read, packages, s, x, inner) \in V
    BY <2>2, ItemType
  <2>4. QED BY <2>3 DEF x
<1>4. F \in StepsOver(V, m)
  <2> HIDE DEF V, m
  <2>1. \A j \in 1..m : F[j] \in [V -> V]
    BY <1>3
  <2>2. QED BY <2>1 DEF StepsOver
<1>5. PICK k : k \in StepResults(V, Loading(visited), m, F)
  <2> HIDE DEF F, m, V
  <2>1. QED BY <1>1, <1>2, <1>4, Recursion
<1>6. k \in [0..m -> V] /\ k[0] = Loading(visited) /\ \A n \in 1..m : k[n] = F[n][k[n - 1]]
  <2> HIDE DEF F, m, V
  <2>1. QED BY <1>5 DEF StepResults
<1>7. ASSUME NEW n \in 1..m
      PROVE  k[n] = ResolveItem(read, packages, k[n - 1], <<p, n>>, inner)
  <2>1. n - 1 \in 0..m
    BY <1>1
  <2> HIDE DEF m, V
  <2>2. k[n - 1] \in V
    BY <1>6, <2>1
  <2>3. QED BY <1>6, <2>2
<1>8. IsWalk(k, read, packages, p, visited, inner)
  <2> HIDE DEF F, V
  <2>1. k = [n \in 0..m |-> k[n]]
    BY <1>6
  <2>2. \A n \in 0..m : n = 0 \/ n \in 1..m
    BY <1>1
  <2> HIDE DEF m
  <2>3. k = [n \in 0..m |-> IF n = 0 THEN Loading(visited)
                            ELSE ResolveItem(read, packages, k[n - 1], <<p, n>>, inner)]
    BY <1>6, <1>7, <2>1, <2>2
  <2>4. QED BY <2>3 DEF IsWalk, m
<1>9. IsWalk(W, read, packages, p, visited, inner)
  <2> HIDE DEF F, V, m
  <2>1. QED BY <1>8
<1>10. ResolveItems(read, packages, p, visited, inner) = W[m]
  BY Zenon DEF ResolveItems, IsWalk
<1> HIDE DEF W, F
<1>11. W[0] = Loading(visited)
  <2>1. 0 \in 0..m
    BY <1>1
  <2>2. QED BY <1>9, <2>1 DEF IsWalk
<1>12. ASSUME NEW n \in 1..m
       PROVE  W[n] = ResolveItem(read, packages, W[n - 1], <<p, n>>, inner)
  <2>1. n \in 0..m /\ n # 0
    BY <1>1
  <2>2. QED BY <1>9, <2>1 DEF IsWalk
<1>13. \A n \in 0..m : W[n] \in V
  <2> DEFINE T == {n \in 0..m : W[n] \in V}
  <2>1. 0 \in T
    BY <1>1, <1>2, <1>11
  <2>2. \A n \in 1..m : n - 1 \in T => n \in T
    <3>1. ASSUME NEW n \in 1..m, W[n - 1] \in V PROVE W[n] \in V
      <4> HIDE DEF V, m
      <4>1. QED BY <1>3, <1>12, <3>1
    <3>2. \A n \in 1..m : n \in 0..m
      BY <1>1
    <3> HIDE DEF V, m
    <3>3. QED BY <3>1, <3>2
  <2> HIDE DEF T, m
  <2>3. \A n \in 0..m : n \in T
    BY <1>1, <2>1, <2>2, UpTo
  <2>4. QED BY <2>3 DEF T
<1>14. QED BY <1>10, <1>11, <1>12, <1>13

\* Every file that can be read is a list of items.
AreLists(read) == \A p \in Readable(read) : IsList(read[p].v)

\* The recursive function in ResolveRecursive, and one step of it.
LoadStep(read, packages, n, inner) ==
  [p \in Readable(read) |-> [visited \in SUBSET DOMAIN read |->
     IF n = 0 THEN Broken(Loading(visited))
     ELSE ResolveItems(read, packages, p, visited, inner)]]
IsLoad(l, read, packages, depth) ==
  l = [n \in 0..depth |-> LoadStep(read, packages, n, l[n - 1])]

LEMMA LoadStepType ==
  ASSUME NEW read, NEW packages, NEW n \in Nat, NEW inner, AreLists(read),
         n = 0 \/ inner \in Loads(read)
  PROVE  LoadStep(read, packages, n, inner) \in Loads(read)
<1>1. ASSUME NEW p \in Readable(read), NEW visited \in SUBSET DOMAIN read, n # 0
      PROVE  ResolveItems(read, packages, p, visited, inner) \in States(read)
  <2>1. inner \in Loads(read) /\ IsList(read[p].v)
    BY <1>1 DEF AreLists
  <2>2. PICK w : /\ ResolveItems(read, packages, p, visited, inner) = w[Len(read[p].v)]
                 /\ \A j \in 0..Len(read[p].v) : w[j] \in States(read)
    BY <2>1, WalkFunction
  <2>3. Len(read[p].v) \in 0..Len(read[p].v)
    BY <2>1, ListType
  <2>4. QED BY <2>2, <2>3
<1>2. ASSUME NEW visited \in SUBSET DOMAIN read PROVE Broken(Loading(visited)) \in States(read)
  BY LoadingType
<1>3. QED BY <1>1, <1>2 DEF LoadStep, Loads

\* The recursion over the depth is well defined.
LEMMA LoadFunction ==
  ASSUME NEW read, NEW packages, NEW depth \in Nat, AreLists(read)
  PROVE  \E l : /\ ResolveRecursive(read, packages, depth) = l[depth]
                /\ \A n \in 0..depth : l[n] \in Loads(read)
                /\ \A n \in 1..depth : l[n] = LoadStep(read, packages, n, l[n - 1])
<1> DEFINE V == Loads(read)
           first == LoadStep(read, packages, 0, 0)
           F == [n \in 1..depth |-> [inner \in V |-> LoadStep(read, packages, n, inner)]]
           L == CHOOSE l : IsLoad(l, read, packages, depth)
<1>1. first \in V
  BY LoadStepType
<1>2. \A x, y : LoadStep(read, packages, 0, x) = LoadStep(read, packages, 0, y)
  BY DEF LoadStep
<1>3. ASSUME NEW n \in 1..depth, NEW inner \in V PROVE LoadStep(read, packages, n, inner) \in V
  BY LoadStepType
<1>4. F \in StepsOver(V, depth)
  <2> HIDE DEF V
  <2>1. \A n \in 1..depth : F[n] \in [V -> V]
    BY <1>3
  <2>2. QED BY <2>1 DEF StepsOver
<1>5. PICK k : k \in StepResults(V, first, depth, F)
  <2> HIDE DEF F, V, first
  <2>1. QED BY <1>1, <1>4, Recursion
<1>6. k \in [0..depth -> V] /\ k[0] = first /\ \A n \in 1..depth : k[n] = F[n][k[n - 1]]
  <2> HIDE DEF F, V, first
  <2>1. QED BY <1>5 DEF StepResults
<1>7. ASSUME NEW n \in 0..depth PROVE k[n] = LoadStep(read, packages, n, k[n - 1])
  <2>1. CASE n = 0
    BY <1>2, <1>6, <2>1
  <2>2. CASE n # 0
    <3>1. n \in 1..depth /\ n - 1 \in 0..depth
      BY <2>2
    <3> HIDE DEF V, first
    <3>2. k[n - 1] \in V
      BY <1>6, <3>1
    <3>3. QED BY <1>6, <3>1, <3>2
  <2>3. QED BY <2>1, <2>2
<1>8. IsLoad(k, read, packages, depth)
  <2> HIDE DEF F, V, first
  <2>1. k = [n \in 0..depth |-> k[n]]
    BY <1>6
  <2>2. k = [n \in 0..depth |-> LoadStep(read, packages, n, k[n - 1])]
    BY <1>7, <2>1
  <2>3. QED BY <2>2 DEF IsLoad
<1>9. IsLoad(L, read, packages, depth)
  <2> HIDE DEF F, V, first
  <2>1. QED BY <1>8
<1>10. ResolveRecursive(read, packages, depth) = L[depth]
  BY Zenon DEF ResolveRecursive, IsLoad, LoadStep
<1> HIDE DEF L, F
<1>11. \A n \in 0..depth : L[n] = LoadStep(read, packages, n, L[n - 1])
  BY <1>9 DEF IsLoad
<1>12. \A n \in 0..depth : L[n] \in V
  <2> DEFINE T == {n \in 0..depth : L[n] \in V}
  <2>1. 0 \in T
    <3>1. 0 \in 0..depth
      OBVIOUS
    <3>2. L[0] = first
      BY <1>2, <1>11, <3>1
    <3>3. QED BY <1>1, <3>1, <3>2
  <2>2. \A n \in 1..depth : n - 1 \in T => n \in T
    <3>1. ASSUME NEW n \in 1..depth, L[n - 1] \in V PROVE L[n] \in V
      <4>1. n \in 0..depth
        OBVIOUS
      <4> HIDE DEF V
      <4>2. QED BY <1>3, <1>11, <3>1, <4>1
    <3>2. \A n \in 1..depth : n \in 0..depth
      OBVIOUS
    <3> HIDE DEF V
    <3>3. QED BY <3>1, <3>2
  <2> HIDE DEF T, V
  <2>3. \A n \in 0..depth : n \in T
    BY <2>1, <2>2, UpTo
  <2>4. QED BY <2>3 DEF T
<1>13. \A n \in 1..depth : n \in 0..depth
  OBVIOUS
<1>14. QED BY <1>10, <1>11, <1>12, <1>13

----------------------------------------------------------------------------
\* The first j items of a file, without its imports.
Own(read, p, j) == {x \in {<<p, i>> : i \in 1..j} : ~IsImport(ItemAt(read, x))}
DeclaredIn(read, files, all) == UNION {Declared(read, q, all) : q \in files}

\* What the loader has after the first j items of the file p, loaded when the files in before
\* had been visited, if nothing was wrong: of the files visited since, all of their imports have
\* been visited and all of their declarations are there.
Contents(read, packages, p, before, j, st) ==
  LET since == st.visited \ before
  IN /\ \A q \in since : q \in Readable(read) /\ ImportsOf(read, packages, q) \subseteq st.visited
     /\ \A i \in 1..j : IsImport(ItemAt(read, <<p, i>>)) =>
                          Imported(read, packages, <<p, i>>) \in st.visited
     /\ InOrder(st.items)
     /\ ToSet(st.items) = DeclaredIn(read, since, FALSE) \cup Own(read, p, j)
     /\ st.noted = DeclaredIn(read, since, TRUE) \cup Own(read, p, j)

\* And in any case: it visits no file that is not reached, given a set S that holds the imports
\* of its files, and stops only at one that cannot be read.
WalkOK(read, packages, S, p, before, j, st) ==
  /\ st \in States(read) /\ before \subseteq st.visited
  /\ p \in S => st.visited \ before \subseteq S
  /\ ~st.ok => p \notin S \/ ~(S \subseteq Readable(read))
  /\ st.ok => Contents(read, packages, p, before, j, st)

\* What a file has of its own, item by item.
LEMMA OwnGrows ==
  ASSUME NEW read, NEW p, NEW j \in Nat, j # 0
  PROVE  Own(read, p, j) = IF IsImport(ItemAt(read, <<p, j>>)) THEN Own(read, p, j - 1)
                           ELSE Own(read, p, j - 1) \cup {<<p, j>>}
<1>1. \A i \in 1..j : i = j \/ i \in 1..(j - 1)
  OBVIOUS
<1>2. j \in 1..j /\ \A i \in 1..(j - 1) : i \in 1..j
  OBVIOUS
<1>3. QED BY <1>1, <1>2 DEF Own

LEMMA OwnOfAll ==
  ASSUME NEW read, NEW p, IsList(read[p].v)
  PROVE  Own(read, p, Len(read[p].v)) = Declared(read, p, TRUE)
BY ListType DEF Own, Declared, PlacesOf

\* The file of a declaration, and the number of what a file has of its own.
LEMMA DeclaredFile ==
  ASSUME NEW read, NEW files, NEW all, NEW x \in DeclaredIn(read, files, all)
  PROVE  x[1] \in files
<1>1. PICK q \in files : x \in Declared(read, q, all)
  BY DEF DeclaredIn
<1>2. PICK i : x = <<q, i>>
  BY <1>1 DEF Declared, PlacesOf
<1>3. QED BY <1>2

LEMMA OwnFile ==
  ASSUME NEW read, NEW p, NEW j, NEW x \in Own(read, p, j)
  PROVE  x[1] = p /\ x[2] \in 1..j
<1>1. PICK i \in 1..j : x = <<p, i>>
  BY DEF Own
<1>2. QED BY <1>1

\* An item that is no import is kept.
LEMMA KeepWalk ==
  ASSUME NEW read, NEW packages, NEW S, NEW p \in Readable(read), NEW before, p \in before,
         NEW j \in Nat, j # 0, NEW st, WalkOK(read, packages, S, p, before, j - 1, st), st.ok,
         ~IsImport(ItemAt(read, <<p, j>>))
  PROVE  WalkOK(read, packages, S, p, before, j, Keep(st, <<p, j>>))
<1> DEFINE x == <<p, j>>
           u == Keep(st, x)
           own == Own(read, p, j - 1)
           since == st.visited \ before
<1>1. x \in Places(read) /\ x[1] = p /\ x[2] = j
  BY DEF Places, Readable
<1>2. Own(read, p, j) = own \cup {x}
  BY OwnGrows
<1>3. st \in States(read) /\ Contents(read, packages, p, before, j - 1, st)
  BY DEF WalkOK
<1>4. ASSUME NEW y \in ToSet(st.items), y[1] = p PROVE y[2] < j
  <2>1. y \in DeclaredIn(read, since, FALSE) \/ y \in own
    BY <1>3, <1>4 DEF Contents
  <2>2. CASE y \in DeclaredIn(read, since, FALSE)
    <3>1. y[1] \in since
      BY <2>2, DeclaredFile
    <3>2. QED BY <1>4, <3>1
  <2>3. CASE y \in own
    <3>1. y[2] \in 1..(j - 1)
      BY <2>3, OwnFile
    <3>2. QED BY <3>1
  <2>4. QED BY <2>1, <2>2, <2>3
<1>5. ASSUME NEW i \in 1..j, IsImport(ItemAt(read, <<p, i>>)) PROVE i \in 1..(j - 1)
  BY <1>5
<1> HIDE DEF x, own
<1>6. /\ u \in States(read) /\ (u.ok <=> st.ok) /\ u.items = Append(st.items, x)
      /\ u.visited = st.visited /\ u.noted = st.noted \cup {x}
  <2>1. st \in States(read) /\ x \in Places(read)
    BY <1>1, <1>3
  <2>2. QED BY <2>1, KeepType
<1>7. st.items \in Seq(Places(read))
  BY <1>3, StateFields
<1>8. ToSet(u.items) = ToSet(st.items) \cup {x}
  BY <1>1, <1>6, <1>7, AppendSet
<1>9. InOrder(u.items)
  <2>1. InOrder(st.items) /\ \A y \in ToSet(st.items) : y[1] = x[1] => y[2] < x[2]
    BY <1>1, <1>3, <1>4 DEF Contents
  <2>2. QED BY <1>1, <1>6, <1>7, <2>1, AppendInOrder
<1> HIDE DEF u
<1>10. Contents(read, packages, p, before, j, u)
  BY <1>2, <1>3, <1>5, <1>6, <1>8, <1>9 DEF Contents, own
<1>11. WalkOK(read, packages, S, p, before, j, u)
  BY <1>6, <1>10 DEF WalkOK
<1>12. QED BY <1>11 DEF u, x

\* An import of a file that has been visited changes nothing.
LEMMA SeenWalk ==
  ASSUME NEW read, NEW packages, NEW S, NEW p, NEW before,
         NEW j \in Nat, j # 0, NEW st, WalkOK(read, packages, S, p, before, j - 1, st), st.ok,
         IsImport(ItemAt(read, <<p, j>>)), Imported(read, packages, <<p, j>>) \in st.visited
  PROVE  WalkOK(read, packages, S, p, before, j, st)
<1>1. Own(read, p, j) = Own(read, p, j - 1)
  BY OwnGrows
<1>2. \A i \in 1..j : i = j \/ i \in 1..(j - 1)
  OBVIOUS
<1>3. Contents(read, packages, p, before, j, st)
  BY <1>1, <1>2 DEF WalkOK, Contents
<1>4. QED BY <1>3 DEF WalkOK

\* Once something is wrong nothing changes.
LEMMA StoppedWalk ==
  ASSUME NEW read, NEW packages, NEW S, NEW p, NEW before, NEW i, NEW j, NEW st,
         WalkOK(read, packages, S, p, before, i, st), ~st.ok
  PROVE  WalkOK(read, packages, S, p, before, j, st)
BY DEF WalkOK

\* An import of a file that cannot be read: it is among the files reached.
LEMMA BrokenWalk ==
  ASSUME NEW read, NEW packages, NEW S, NEW p, NEW before, NEW j, NEW i, NEW st,
         WalkOK(read, packages, S, p, before, i, st), NEW t, t \notin Readable(read),
         p \in S => t \in S
  PROVE  WalkOK(read, packages, S, p, before, j, Broken(st))
<1>1. st \in States(read)
  BY DEF WalkOK
<1>2. Broken(st) \in States(read) /\ ~Broken(st).ok /\ Broken(st).visited = st.visited
  BY <1>1, BrokenType
<1>3. QED BY <1>2 DEF WalkOK

\* All the imports of a file have been visited when those of its items have been.
LEMMA ImportsVisited ==
  ASSUME NEW read, NEW packages, NEW t \in Readable(read), IsList(read[t].v), NEW visited,
         \A i \in 1..Len(read[t].v) : IsImport(ItemAt(read, <<t, i>>)) =>
                                        Imported(read, packages, <<t, i>>) \in visited
  PROVE  ImportsOf(read, packages, t) \subseteq visited
<1>1. SUFFICES ASSUME NEW q \in ImportsOf(read, packages, t) PROVE q \in visited
  OBVIOUS
<1>2. PICK x \in PlacesOf(read, t) : IsImport(ItemAt(read, x)) /\ q = Imported(read, packages, x)
  BY DEF ImportsOf
<1>3. PICK i \in DOMAIN read[t].v : x = <<t, i>>
  BY DEF PlacesOf
<1>4. i \in 1..Len(read[t].v)
  BY ListType
<1>5. QED BY <1>2, <1>3, <1>4

\* A file has all of its own, without its main when it is imported.
LEMMA OwnWithoutMain ==
  ASSUME NEW read, NEW t, IsList(read[t].v)
  PROVE  {x \in Own(read, t, Len(read[t].v)) : ~IsMain(ItemAt(read, x))} = Declared(read, t, FALSE)
<1>1. Own(read, t, Len(read[t].v)) = Declared(read, t, TRUE)
  BY OwnOfAll
<1>2. QED BY <1>1 DEF Declared

LEMMA DeclaredWithoutMain ==
  ASSUME NEW read, NEW files
  PROVE  {x \in DeclaredIn(read, files, FALSE) : ~IsMain(ItemAt(read, x))}
           = DeclaredIn(read, files, FALSE)
BY DEF DeclaredIn, Declared

\* An import of a file not visited before, which can be read.
LEMMA MergeWalk ==
  ASSUME NEW read, NEW packages, NEW S, NEW p \in Readable(read), NEW before, p \in before,
         NEW j \in Nat, j # 0, NEW st, WalkOK(read, packages, S, p, before, j - 1, st), st.ok,
         IsImport(ItemAt(read, <<p, j>>)), NEW t \in Readable(read), IsList(read[t].v),
         t = Imported(read, packages, <<p, j>>), t \notin st.visited, p \in S => t \in S,
         NEW R, WalkOK(read, packages, S, t, st.visited \cup {t}, Len(read[t].v), R)
  PROVE  WalkOK(read, packages, S, p, before, j, Merge(read, st, R))
<1> DEFINE W == st.visited \cup {t}
           m == Len(read[t].v)
           u == Merge(read, st, R)
           since == st.visited \ before
           more == R.visited \ W
           now == u.visited \ before
           own == Own(read, p, j)
           theirs == Own(read, t, m)
<1>1. st \in States(read) /\ Contents(read, packages, p, before, j - 1, st) /\ before \subseteq st.visited
  BY DEF WalkOK
<1>2. /\ R \in States(read) /\ W \subseteq R.visited /\ (t \in S => more \subseteq S)
      /\ (~R.ok => t \notin S \/ ~(S \subseteq Readable(read)))
      /\ (R.ok => Contents(read, packages, t, W, m, R))
  BY DEF WalkOK
<1>3. /\ u \in States(read) /\ u.items = st.items \o WithoutMain(read, R.items)
      /\ (u.ok <=> R.ok) /\ u.visited = R.visited /\ u.noted = st.noted \cup R.noted
  <2>1. st \in States(read) /\ R \in States(read)
    BY <1>1, <1>2
  <2> DEFINE i == WithoutMain(read, R.items)
  <2>2. MergeInto(u, st, R, i)
    BY <2>1, MergeType
  <2> HIDE DEF u, i
  <2>3. u \in States(read)
    BY <2>1, MergeType DEF u
  <2>4. QED BY <2>2, <2>3 DEF MergeInto, i
<1>4. before \subseteq u.visited /\ now = since \cup {t} \cup more /\ st.visited \subseteq u.visited
      /\ t \in u.visited
  BY <1>1, <1>2, <1>3
<1>5. p \in S => now \subseteq S
  <2>1. p \in S => since \subseteq S
    BY DEF WalkOK
  <2>2. QED BY <1>2, <1>4, <2>1
<1>6. ~u.ok => p \notin S \/ ~(S \subseteq Readable(read))
  BY <1>2, <1>3
<1>7. ASSUME R.ok PROVE Contents(read, packages, p, before, j, u)
  <2>1. Contents(read, packages, t, W, m, R)
    BY <1>2, <1>7
  <2>2. \A q \in now : q \in Readable(read) /\ ImportsOf(read, packages, q) \subseteq u.visited
    <3>1. \A q \in since : q \in Readable(read) /\ ImportsOf(read, packages, q) \subseteq st.visited
      BY <1>1 DEF Contents
    <3>2. \A q \in more : q \in Readable(read) /\ ImportsOf(read, packages, q) \subseteq u.visited
      BY <1>3, <2>1 DEF Contents
    <3>3. ImportsOf(read, packages, t) \subseteq u.visited
      <4>1. \A i \in 1..m : IsImport(ItemAt(read, <<t, i>>)) =>
                              Imported(read, packages, <<t, i>>) \in u.visited
        BY <1>3, <2>1 DEF Contents
      <4>2. QED BY <4>1, ImportsVisited
    <3>4. QED BY <1>4, <3>1, <3>2, <3>3
  <2>3. \A i \in 1..j : IsImport(ItemAt(read, <<p, i>>)) =>
                          Imported(read, packages, <<p, i>>) \in u.visited
    <3>1. \A i \in 1..(j - 1) : IsImport(ItemAt(read, <<p, i>>)) =>
                                  Imported(read, packages, <<p, i>>) \in st.visited
      BY <1>1 DEF Contents
    <3>2. \A i \in 1..j : i = j \/ i \in 1..(j - 1)
      OBVIOUS
    <3>3. QED BY <1>4, <3>1, <3>2
  <2>4. own = Own(read, p, j - 1)
    BY OwnGrows
  <2>5. /\ InOrder(st.items) /\ ToSet(st.items) = DeclaredIn(read, since, FALSE) \cup own
        /\ st.noted = DeclaredIn(read, since, TRUE) \cup own
    BY <1>1, <2>4 DEF Contents
  <2>6. /\ InOrder(R.items) /\ ToSet(R.items) = DeclaredIn(read, more, FALSE) \cup theirs
        /\ R.noted = DeclaredIn(read, more, TRUE) \cup theirs
    BY <2>1 DEF Contents
  <2> DEFINE a == st.items
             b == WithoutMain(read, R.items)
  <2>7. a \in Seq(Places(read)) /\ R.items \in Seq(Places(read))
    BY <1>1, <1>2, StateFields
  <2>8. b \in Seq(Places(read)) /\ InOrder(b)
        /\ ToSet(b) = {x \in ToSet(R.items) : ~IsMain(ItemAt(read, x))}
    BY <2>6, <2>7, WithoutMainType
  <2>9. ToSet(b) = DeclaredIn(read, more, FALSE) \cup Declared(read, t, FALSE)
    <3>1. {x \in theirs : ~IsMain(ItemAt(read, x))} = Declared(read, t, FALSE)
      BY OwnWithoutMain
    <3>2. {x \in DeclaredIn(read, more, FALSE) : ~IsMain(ItemAt(read, x))}
            = DeclaredIn(read, more, FALSE)
      BY DeclaredWithoutMain
    <3> HIDE DEF theirs, b, more
    <3>3. QED BY <2>6, <2>8, <3>1, <3>2
  <2>10. theirs = Declared(read, t, TRUE)
    BY OwnOfAll
  <2>11. \A x \in ToSet(a) : x[1] \in st.visited
    <3>1. \A x \in DeclaredIn(read, since, FALSE) : x[1] \in since
      BY DeclaredFile
    <3>2. \A x \in own : x[1] = p
      BY OwnFile
    <3>3. p \in st.visited
      BY <1>1
    <3> HIDE DEF own
    <3>4. QED BY <2>5, <3>1, <3>2, <3>3
  <2>12. \A x \in ToSet(b) : x[1] \notin st.visited
    <3>1. \A x \in DeclaredIn(read, more, FALSE) : x[1] \in more
      BY DeclaredFile
    <3>2. \A x \in theirs : x[1] = t
      BY OwnFile
    <3> HIDE DEF theirs, b
    <3>3. QED BY <2>6, <2>8, <3>1, <3>2
  <2> HIDE DEF a, b, own, theirs
  <2>13. InOrder(a \o b)
    <3>1. \A x \in ToSet(a), y \in ToSet(b) : x[1] # y[1]
      BY <2>11, <2>12
    <3>2. InOrder(a)
      BY <2>5 DEF a
    <3>3. a \in Seq(Places(read)) /\ b \in Seq(Places(read)) /\ InOrder(b)
      BY <2>7, <2>8
    <3>4. QED BY <3>1, <3>2, <3>3, ConcatInOrder
  <2>14. \A all : DeclaredIn(read, now, all) = DeclaredIn(read, since, all)
                      \cup Declared(read, t, all) \cup DeclaredIn(read, more, all)
    <3> HIDE DEF now, since, more
    <3>1. QED BY <1>4 DEF DeclaredIn
  <2>15. u.items = a \o b /\ ToSet(u.items) = DeclaredIn(read, now, FALSE) \cup own
    <3>1. a \o b \in Seq(Places(read)) /\ ToSet(a \o b) = ToSet(a) \cup ToSet(b)
      BY <2>7, <2>8, ConcatSet
    <3>2. u.items = a \o b
      BY <1>3 DEF a, b
    <3>3. ToSet(a) = DeclaredIn(read, since, FALSE) \cup own
      BY <2>5 DEF a
    <3>4. DeclaredIn(read, now, FALSE) = DeclaredIn(read, since, FALSE)
                      \cup Declared(read, t, FALSE) \cup DeclaredIn(read, more, FALSE)
      BY <2>14
    <3> HIDE DEF u, now, since, more
    <3>5. QED BY <2>9, <3>1, <3>2, <3>3, <3>4
  <2>16. u.noted = DeclaredIn(read, now, TRUE) \cup own
    <3>1. DeclaredIn(read, now, TRUE) = DeclaredIn(read, since, TRUE)
                      \cup Declared(read, t, TRUE) \cup DeclaredIn(read, more, TRUE)
      BY <2>14
    <3>2. u.noted = st.noted \cup R.noted
      BY <1>3
    <3> HIDE DEF u, now, since, more
    <3>3. QED BY <2>5, <2>6, <2>10, <3>1, <3>2
  <2> HIDE DEF u
  <2>17. QED BY <2>2, <2>3, <2>13, <2>15, <2>16 DEF Contents, own
<1>8. WalkOK(read, packages, S, p, before, j, u)
  <2> HIDE DEF u, more, W, m, since, own, theirs
  <2>1. u.ok => Contents(read, packages, p, before, j, u)
    BY <1>3, <1>7
  <2>2. QED BY <1>3, <1>4, <1>5, <1>6, <2>1 DEF WalkOK
<1>9. QED BY <1>8

\* What loading a file further gives is right, for the files not visited before.
InnerOK(read, packages, S, before, inner) ==
  \A t \in Readable(read), W \in SUBSET DOMAIN read :
    t \in W /\ t \notin before /\ before \subseteq W =>
      WalkOK(read, packages, S, t, W, Len(read[t].v), inner[t][W])

\* One item of a file.
LEMMA ItemWalk ==
  ASSUME NEW read, NEW packages, NEW S, IsClosed(S, read, packages), AreLists(read),
         NEW p \in Readable(read), NEW before, p \in before,
         NEW j \in 1..Len(read[p].v), NEW inner, InnerOK(read, packages, S, before, inner),
         NEW st, WalkOK(read, packages, S, p, before, j - 1, st)
  PROVE  WalkOK(read, packages, S, p, before, j, ResolveItem(read, packages, st, <<p, j>>, inner))
<1> DEFINE x == <<p, j>>
           t == Imported(read, packages, x)
           W == st.visited \cup {t}
           next == ResolveItem(read, packages, st, x, inner)
<1>1. IsList(read[p].v) /\ Len(read[p].v) \in Nat
  BY ListType DEF AreLists
<1>2. j \in Nat /\ j # 0 /\ j \in DOMAIN read[p].v
  BY <1>1, ListType
<1>3. st \in States(read) /\ before \subseteq st.visited /\ st.visited \subseteq DOMAIN read
  BY StateFields DEF WalkOK
<1>4. CASE ~st.ok
  <2>1. next = st
    BY <1>4 DEF ResolveItem
  <2> HIDE DEF next
  <2>2. WalkOK(read, packages, S, p, before, j, next)
    BY <1>4, <2>1, StoppedWalk
  <2>3. QED BY <2>2 DEF next
<1>5. CASE st.ok /\ ~IsImport(ItemAt(read, x))
  <2>1. next = Keep(st, x)
    BY <1>5 DEF ResolveItem
  <2>2. WalkOK(read, packages, S, p, before, j, Keep(st, x))
    BY <1>2, <1>5, KeepWalk
  <2> HIDE DEF next, x
  <2>3. WalkOK(read, packages, S, p, before, j, next)
    BY <2>1, <2>2
  <2>4. QED BY <2>3 DEF next, x
<1>6. CASE st.ok /\ IsImport(ItemAt(read, x)) /\ t \in st.visited
  <2>1. next = st
    BY <1>6 DEF ResolveItem
  <2>2. WalkOK(read, packages, S, p, before, j, st)
    BY <1>2, <1>6, SeenWalk
  <2> HIDE DEF next
  <2>3. WalkOK(read, packages, S, p, before, j, next)
    BY <2>1, <2>2
  <2>4. QED BY <2>3 DEF next
<1>7. CASE st.ok /\ IsImport(ItemAt(read, x)) /\ t \notin st.visited
  <2>1. p \in S => t \in S
    <3>1. x \in PlacesOf(read, p)
      BY <1>2 DEF PlacesOf
    <3> HIDE DEF x
    <3>2. t \in ImportsOf(read, packages, p)
      BY <1>7, <3>1 DEF ImportsOf
    <3> HIDE DEF t
    <3>3. QED BY <3>2 DEF IsClosed
  <2>2. CASE t \in Readable(read)
    <3>1. next = Merge(read, st, inner[t][W])
      BY <1>7, <2>2 DEF ResolveItem, Readable
    <3>2. W \in SUBSET DOMAIN read /\ t \in W /\ t \notin before /\ before \subseteq W
      BY <1>3, <1>7, <2>2 DEF Readable
    <3>3. IsList(read[t].v)
      BY <2>2 DEF AreLists
    <3> DEFINE R == inner[t][W]
    <3>4. WalkOK(read, packages, S, t, W, Len(read[t].v), R)
      <4> HIDE DEF t, W
      <4>1. QED BY <2>2, <3>2 DEF InnerOK
    <3> HIDE DEF R, next
    <3>5. WalkOK(read, packages, S, p, before, j, Merge(read, st, R))
      BY <1>2, <1>7, <2>1, <2>2, <3>3, <3>4, MergeWalk
    <3>6. next = Merge(read, st, R)
      BY <3>1 DEF R
    <3>7. WalkOK(read, packages, S, p, before, j, next)
      BY <3>5, <3>6
    <3>8. QED BY <3>7 DEF next
  <2>3. CASE t \notin Readable(read)
    <3>1. next = Broken(st)
      BY <1>7, <2>3 DEF ResolveItem, Readable
    <3>2. WalkOK(read, packages, S, p, before, j, Broken(st))
      <4> HIDE DEF t
      <4>1. QED BY <2>1, <2>3, BrokenWalk
    <3> HIDE DEF next
    <3>3. WalkOK(read, packages, S, p, before, j, next)
      BY <3>1, <3>2
    <3>4. QED BY <3>3 DEF next
  <2>4. QED BY <2>2, <2>3
<1>8. QED BY <1>4, <1>5, <1>6, <1>7

\* Before the first item.
LEMMA FirstWalk ==
  ASSUME NEW read, NEW packages, NEW S, NEW p, NEW before \in SUBSET DOMAIN read
  PROVE  WalkOK(read, packages, S, p, before, 0, Loading(before))
<1> DEFINE st == Loading(before)
<1>1. /\ st \in States(read) /\ st.visited = before /\ st.ok /\ st.items = <<>> /\ st.noted = {}
  BY LoadingType
<1>2. Own(read, p, 0) = {} /\ DeclaredIn(read, {}, TRUE) = {} /\ DeclaredIn(read, {}, FALSE) = {}
  BY DEF Own, DeclaredIn
<1>3. InOrder(<<>>) /\ ToSet(<<>>) = {}
  BY DEF InOrder, ToSet
<1> HIDE DEF st
<1>4. st.visited \ before = {} /\ \A i \in 1..0 : FALSE
  BY <1>1
<1>5. Contents(read, packages, p, before, 0, st)
  BY <1>1, <1>2, <1>3, <1>4 DEF Contents
<1>6. WalkOK(read, packages, S, p, before, 0, st)
  BY <1>1, <1>4, <1>5 DEF WalkOK
<1>7. QED BY <1>6 DEF st

\* All items of a file.
LEMMA FileWalk ==
  ASSUME NEW read, NEW packages, NEW S, IsClosed(S, read, packages), AreLists(read),
         NEW p \in Readable(read), NEW before \in SUBSET DOMAIN read, p \in before,
         NEW inner \in Loads(read), InnerOK(read, packages, S, before, inner)
  PROVE  WalkOK(read, packages, S, p, before, Len(read[p].v),
                ResolveItems(read, packages, p, before, inner))
<1> DEFINE m == Len(read[p].v)
           Good(w, j) == WalkOK(read, packages, S, p, before, j, w[j])
<1>1. IsList(read[p].v) /\ m \in Nat
  BY ListType DEF AreLists
<1>2. PICK w : /\ w[0] = Loading(before)
               /\ ResolveItems(read, packages, p, before, inner) = w[m]
               /\ \A j \in 1..m :
                    w[j] = ResolveItem(read, packages, w[j - 1], <<p, j>>, inner)
  BY <1>1, WalkFunction
<1> DEFINE T == {j \in 0..m : Good(w, j)}
<1>3. 0 \in T
  <2>1. WalkOK(read, packages, S, p, before, 0, Loading(before)) /\ 0 \in 0..m
    BY <1>1, FirstWalk
  <2>2. QED BY <1>2, <2>1
<1>4. ASSUME NEW j \in 1..m, j - 1 \in T PROVE j \in T
  <2> DEFINE st == w[j - 1]
  <2>1. WalkOK(read, packages, S, p, before, j - 1, st) /\ j \in 0..m
    BY <1>1, <1>4
  <2> HIDE DEF st
  <2>2. WalkOK(read, packages, S, p, before, j, ResolveItem(read, packages, st, <<p, j>>, inner))
    BY <2>1, ItemWalk
  <2>3. w[j] = ResolveItem(read, packages, st, <<p, j>>, inner)
    BY <1>2 DEF st
  <2>4. QED BY <2>1, <2>2, <2>3
<1>5. \A j \in 0..m : j \in T
  <2>1. \A j \in 1..m : j - 1 \in T => j \in T
    BY <1>4
  <2> HIDE DEF T, m
  <2>2. QED BY <1>1, <1>3, <2>1, UpTo
<1>6. Good(w, m)
  <2>1. m \in 0..m
    BY <1>1
  <2>2. m \in T
    <3> HIDE DEF T, m
    <3>1. QED BY <1>5, <2>1
  <2>3. QED BY <2>2
<1>7. QED BY <1>2, <1>6

\* What loading n files deep at most gives is right, where fewer than n files are left to visit.
DeepOK(read, packages, S, n, load) ==
  \A p \in Readable(read), V \in SUBSET DOMAIN read :
    p \in V /\ Cardinality(DOMAIN read \ V) < n =>
      WalkOK(read, packages, S, p, V, Len(read[p].v), load[p][V])

\* Visiting one more file leaves fewer.
LEMMA FewerLeft ==
  ASSUME NEW F, IsFiniteSet(F), NEW V, NEW W, V \subseteq W, NEW t \in F, t \in W, t \notin V
  PROVE  /\ Cardinality(F \ W) \in Nat /\ Cardinality(F \ V) \in Nat
         /\ Cardinality(F \ W) < Cardinality(F \ V)
<1>1. IsFiniteSet(F \ V)
  BY FS_Subset
<1>2. (F \ W) \subseteq (F \ V) /\ F \ W # F \ V
  OBVIOUS
<1>3. IsFiniteSet(F \ W)
  BY FS_Subset
<1> DEFINE A == F \ W
           B == F \ V
<1> HIDE DEF A, B
<1>4. IsFiniteSet(A) /\ IsFiniteSet(B) /\ A \subseteq B /\ A # B
  BY <1>1, <1>2, <1>3 DEF A, B
<1>5. Cardinality(A) <= Cardinality(B) /\ (Cardinality(A) = Cardinality(B) => A = B)
  BY <1>4, FS_Subset
<1>6. Cardinality(A) \in Nat /\ Cardinality(B) \in Nat
  BY <1>4, FS_CardinalityType
<1>7. QED BY <1>4, <1>5, <1>6 DEF A, B

\* One file deeper.
LEMMA DeeperWalk ==
  ASSUME NEW read, NEW packages, NEW S, IsClosed(S, read, packages), AreLists(read),
         IsFiniteSet(DOMAIN read), NEW n \in Nat, n # 0, NEW inner \in Loads(read),
         DeepOK(read, packages, S, n - 1, inner)
  PROVE  DeepOK(read, packages, S, n, LoadStep(read, packages, n, inner))
<1> DEFINE F == DOMAIN read
           load == LoadStep(read, packages, n, inner)
<1>1. ASSUME NEW p \in Readable(read), NEW V \in SUBSET DOMAIN read, p \in V,
             Cardinality(F \ V) < n
      PROVE  WalkOK(read, packages, S, p, V, Len(read[p].v), load[p][V])
  <2>1. ASSUME NEW t \in Readable(read), NEW W \in SUBSET DOMAIN read,
               t \in W, t \notin V, V \subseteq W
        PROVE  WalkOK(read, packages, S, t, W, Len(read[t].v), inner[t][W])
    <3>1. t \in F
      BY DEF Readable
    <3> DEFINE a == Cardinality(F \ W)
               b == Cardinality(F \ V)
    <3>2. a \in Nat /\ b \in Nat /\ a < b
      BY <2>1, <3>1, FewerLeft
    <3>3. b < n
      BY <1>1
    <3> HIDE DEF a, b
    <3>4. a < n - 1
      BY <3>2, <3>3
    <3>5. Cardinality(DOMAIN read \ W) < n - 1
      BY <3>4 DEF a
    <3>6. QED BY <2>1, <3>5 DEF DeepOK
  <2>2. InnerOK(read, packages, S, V, inner)
    BY <2>1 DEF InnerOK
  <2>3. WalkOK(read, packages, S, p, V, Len(read[p].v),
               ResolveItems(read, packages, p, V, inner))
    BY <1>1, <2>2, FileWalk
  <2>4. load[p][V] = ResolveItems(read, packages, p, V, inner)
    BY DEF LoadStep
  <2>5. QED BY <2>3, <2>4
<1>2. QED BY <1>1 DEF DeepOK

\* Any depth.
LEMMA AnyDepth ==
  ASSUME NEW read, NEW packages, NEW S, IsClosed(S, read, packages), AreLists(read),
         IsFiniteSet(DOMAIN read), NEW depth \in Nat
  PROVE  DeepOK(read, packages, S, depth, ResolveRecursive(read, packages, depth))
<1>1. PICK l : /\ ResolveRecursive(read, packages, depth) = l[depth]
               /\ \A n \in 0..depth : l[n] \in Loads(read)
               /\ \A n \in 1..depth : l[n] = LoadStep(read, packages, n, l[n - 1])
  BY LoadFunction
<1> DEFINE T == {n \in 0..depth : DeepOK(read, packages, S, n, l[n])}
<1>2. 0 \in T
  <2>1. ASSUME NEW V PROVE ~(Cardinality(DOMAIN read \ V) < 0)
    <3>1. IsFiniteSet(DOMAIN read \ V)
      BY FS_Subset
    <3>2. Cardinality(DOMAIN read \ V) \in Nat
      BY <3>1, FS_CardinalityType
    <3>3. QED BY <3>2
  <2>2. DeepOK(read, packages, S, 0, l[0])
    BY <2>1 DEF DeepOK
  <2>3. QED BY <2>2
<1>3. ASSUME NEW n \in 1..depth, n - 1 \in T PROVE n \in T
  <2> DEFINE inner == l[n - 1]
  <2>1. n \in Nat /\ n # 0 /\ n \in 0..depth /\ n - 1 \in 0..depth
    OBVIOUS
  <2>2. DeepOK(read, packages, S, n - 1, inner) /\ inner \in Loads(read)
    BY <1>1, <1>3, <2>1
  <2> HIDE DEF inner
  <2>3. DeepOK(read, packages, S, n, LoadStep(read, packages, n, inner))
    BY <2>1, <2>2, DeeperWalk
  <2>4. l[n] = LoadStep(read, packages, n, inner)
    BY <1>1 DEF inner
  <2>5. QED BY <2>1, <2>3, <2>4
<1>4. \A n \in 0..depth : n \in T
  <2>1. \A n \in 1..depth : n - 1 \in T => n \in T
    BY <1>3
  <2> HIDE DEF T
  <2>2. QED BY <1>2, <2>1, UpTo
<1>5. depth \in T
  BY <1>4
<1>6. QED BY <1>1, <1>5

----------------------------------------------------------------------------
\* What is reached is the least set that holds the file and the imports of its files.
LEMMA ReachedIsLeast ==
  ASSUME NEW path, NEW read, NEW packages
  PROVE  /\ path \in Reached(path, read, packages)
         /\ IsClosed(Reached(path, read, packages), read, packages)
         /\ \A S : path \in S /\ IsClosed(S, read, packages) => Reached(path, read, packages) \subseteq S
<1> DEFINE Of(p) == ImportsOf(read, packages, p)
           all == {path} \cup DOMAIN read \cup UNION {Of(p) : p \in DOMAIN read}
           Holding == {S \in SUBSET all : path \in S /\ IsClosed(S, read, packages)}
           reached == {p \in all : \A S \in Holding : p \in S}
<1>1. Reached(path, read, packages) = reached
  BY DEF Reached
<1>2. ASSUME NEW p, NEW q \in Of(p) PROVE q \in all
  <2>1. p \in DOMAIN read
    BY <1>2 DEF ImportsOf, Readable
  <2>2. QED BY <2>1
<1>3. path \in all
  OBVIOUS
<1> HIDE DEF all
<1>4. IsClosed(reached, read, packages)
  <2>1. ASSUME NEW p \in reached, NEW q \in Of(p) PROVE q \in reached
    <3>1. q \in all
      BY <1>2
    <3>2. ASSUME NEW S \in Holding PROVE q \in S
      <4>1. p \in S
        OBVIOUS
      <4>2. QED BY <2>1, <4>1 DEF IsClosed
    <3>3. QED BY <3>1, <3>2
  <2>2. QED BY <2>1 DEF IsClosed
<1>5. ASSUME NEW S, path \in S, IsClosed(S, read, packages) PROVE reached \subseteq S
  <2> DEFINE U == S \cap all
  <2>1. path \in U
    BY <1>3, <1>5
  <2>2. ASSUME NEW p \in U, NEW q \in Of(p) PROVE q \in U
    <3>1. q \in all
      BY <1>2
    <3>2. q \in S
      BY <1>5, <2>2 DEF IsClosed
    <3>3. QED BY <3>1, <3>2
  <2>3. U \in Holding
    BY <2>1, <2>2 DEF IsClosed
  <2> HIDE DEF Holding
  <2>4. QED BY <2>3
<1>6. path \in reached
  BY <1>3
<1> HIDE DEF reached
<1>7. QED BY <1>1, <1>4, <1>5, <1>6

\* What names a file mentions, and which of its places define a name.
Mentions(read, p, n) ==
  \E x \in PlacesOf(read, p) : ItemAt(read, x).k = "Fn" /\ n \in RefsIn(ItemAt(read, x).body)
Defining(read, q, n) ==
  {x \in PlacesOf(read, q) : IsDef(ItemAt(read, x)) /\ ItemAt(read, x).name = n}

\* Whether a name that a file mentions is hidden from it among some files.
HiddenFrom(read, p, n, files) ==
  /\ \E q \in files : Defining(read, q, n) # {}
  /\ \A q \in files : \A x \in Defining(read, q, n) : q # p /\ ItemAt(read, x).isPrivate

\* Trespassing, in these words.
LEMMA TrespassesIff ==
  ASSUME NEW read, NEW p, NEW files
  PROVE  Trespasses(read, p, files) <=>
           \E n : Mentions(read, p, n) /\ HiddenFrom(read, p, n, files)
<1> DEFINE Items(q) == {ItemAt(read, x) : x \in PlacesOf(read, q)}
           Mentioned == UNION {RefsIn(i.body) : i \in {e \in Items(p) : e.k = "Fn"}}
           Owners(n) == {q \in files : \E i \in Items(q) : IsDef(i) /\ i.name = n}
           Secret(n) == \A q \in Owners(n) : \A i \in Items(q) :
                          IsDef(i) /\ i.name = n => q # p /\ i.isPrivate
<1>1. \A n : n \in Mentioned <=> Mentions(read, p, n)
  BY DEF Mentions
<1>2. \A n, q : q \in Owners(n) <=> q \in files /\ Defining(read, q, n) # {}
  BY DEF Defining
<1>3. \A n : Secret(n) <=> \A q \in files : \A x \in Defining(read, q, n) :
                                q # p /\ ItemAt(read, x).isPrivate
  BY DEF Defining
<1>4. Trespasses(read, p, files) <=> \E n \in Mentioned : Owners(n) # {} /\ Secret(n)
  BY DEF Trespasses
<1> HIDE DEF Mentioned, Owners, Secret
<1>5. QED BY <1>1, <1>2, <1>3, <1>4 DEF HiddenFrom

\* A place of a file that is no import is noted.
LEMMA NotedPlaces ==
  ASSUME NEW read, NEW files
  PROVE  /\ \A q \in files : \A x \in PlacesOf(read, q) :
              ~IsImport(ItemAt(read, x)) => x \in DeclaredIn(read, files, TRUE) /\ x[1] = q
         /\ \A x \in DeclaredIn(read, files, TRUE) : x[1] \in files /\ x \in PlacesOf(read, x[1])
<1>1. ASSUME NEW q \in files, NEW x \in PlacesOf(read, q), ~IsImport(ItemAt(read, x))
      PROVE  x \in DeclaredIn(read, files, TRUE) /\ x[1] = q
  <2>1. x \in Declared(read, q, TRUE)
    BY <1>1 DEF Declared
  <2>2. PICK j : x = <<q, j>>
    BY DEF PlacesOf
  <2>3. x[1] = q
    BY <2>2
  <2>4. QED BY <2>1, <2>3 DEF DeclaredIn
<1>2. ASSUME NEW x \in DeclaredIn(read, files, TRUE)
      PROVE  x[1] \in files /\ x \in PlacesOf(read, x[1])
  <2>1. PICK q \in files : x \in Declared(read, q, TRUE)
    BY DEF DeclaredIn
  <2>2. x \in PlacesOf(read, q)
    BY <2>1 DEF Declared
  <2>3. PICK j : x = <<q, j>>
    BY <2>2 DEF PlacesOf
  <2>4. x[1] = q
    BY <2>3
  <2>5. QED BY <2>2, <2>4
<1>3. QED BY <1>1, <1>2

\* The places noted that define a name, and the names that they mention.
LEMMA NotedDefs ==
  ASSUME NEW read, NEW files, NEW p, NEW n,
         NEW ref, ref = [file |-> p, name |-> n]
  PROVE  Hidden(ref, Defs(read, DeclaredIn(read, files, TRUE))) <=> HiddenFrom(read, p, n, files)
<1> DEFINE noted == DeclaredIn(read, files, TRUE)
           DefOf(x) == [name |-> ItemAt(read, x).name, file |-> x[1],
                        private |-> ItemAt(read, x).isPrivate]
           defs == Defs(read, noted)
           same == {d \in defs : d.name = n}
<1>1. ref.file = p /\ ref.name = n
  OBVIOUS
<1>2. \A x : DefOf(x).name = ItemAt(read, x).name /\ DefOf(x).file = x[1]
             /\ DefOf(x).private = ItemAt(read, x).isPrivate
  OBVIOUS
<1>3. defs = {DefOf(x) : x \in {y \in noted : IsDef(ItemAt(read, y))}}
  BY DEF Defs
<1>4. \A x : IsDef(ItemAt(read, x)) => ~IsImport(ItemAt(read, x))
  BY DEF IsDef, IsImport
<1> HIDE DEF DefOf, noted, defs
<1>5. ASSUME NEW q \in files, NEW x \in Defining(read, q, n)
      PROVE  DefOf(x) \in same /\ x[1] = q
  <2>1. x \in noted /\ x[1] = q
    BY <1>4, NotedPlaces DEF Defining, noted
  <2>2. IsDef(ItemAt(read, x)) /\ ItemAt(read, x).name = n
    BY DEF Defining
  <2>3. QED BY <1>2, <1>3, <2>1, <2>2
<1>6. ASSUME NEW d \in same
      PROVE  \E q \in files : \E x \in Defining(read, q, n) : d = DefOf(x) /\ x[1] = q
  <2>1. PICK x \in noted : IsDef(ItemAt(read, x)) /\ d = DefOf(x)
    BY <1>3
  <2>2. x[1] \in files /\ x \in PlacesOf(read, x[1])
    BY <2>1, NotedPlaces DEF noted
  <2>3. ItemAt(read, x).name = n
    BY <1>2, <2>1
  <2>4. x \in Defining(read, x[1], n)
    BY <2>1, <2>2, <2>3 DEF Defining
  <2>5. QED BY <2>1, <2>2, <2>4
<1>7. Hidden(ref, defs) <=> same # {} /\ \A d \in same : d.file # p /\ d.private
  BY <1>1 DEF Hidden
<1> HIDE DEF same
<1>8. same # {} <=> \E q \in files : Defining(read, q, n) # {}
  BY <1>5, <1>6
<1>9. ASSUME NEW d \in same, HiddenFrom(read, p, n, files) PROVE d.file # p /\ d.private
  <2>1. PICK q \in files : \E x \in Defining(read, q, n) : d = DefOf(x) /\ x[1] = q
    BY <1>6
  <2>2. PICK x \in Defining(read, q, n) : d = DefOf(x) /\ x[1] = q
    BY <2>1
  <2>3. q # p /\ ItemAt(read, x).isPrivate
    BY <1>9 DEF HiddenFrom
  <2>4. d.file = q /\ d.private = ItemAt(read, x).isPrivate
    BY <1>2, <2>2
  <2>5. QED BY <2>3, <2>4
<1>10. ASSUME NEW q \in files, NEW x \in Defining(read, q, n),
              \A d \in same : d.file # p /\ d.private
       PROVE  q # p /\ ItemAt(read, x).isPrivate
  <2>1. DefOf(x) \in same /\ x[1] = q
    BY <1>5
  <2>2. DefOf(x).file # p /\ DefOf(x).private
    BY <1>10, <2>1
  <2>3. DefOf(x).file = q /\ DefOf(x).private = ItemAt(read, x).isPrivate
    BY <1>2, <2>1
  <2>4. QED BY <2>2, <2>3
<1>11. Hidden(ref, defs) <=> HiddenFrom(read, p, n, files)
  BY <1>7, <1>8, <1>9, <1>10 DEF HiddenFrom
<1>12. QED BY <1>11 DEF defs, noted

LEMMA NotedRefs ==
  ASSUME NEW read, NEW files
  PROVE  /\ \A ref \in Refs(read, DeclaredIn(read, files, TRUE)) :
              \E p \in files : \E n : Mentions(read, p, n) /\ ref = [file |-> p, name |-> n]
         /\ \A p \in files : \A n : Mentions(read, p, n) =>
              [file |-> p, name |-> n] \in Refs(read, DeclaredIn(read, files, TRUE))
<1> DEFINE noted == DeclaredIn(read, files, TRUE)
           Of(x) == {[file |-> x[1], name |-> n] : n \in RefsIn(ItemAt(read, x).body)}
           refs == Refs(read, noted)
<1>1. refs = UNION {Of(x) : x \in {y \in noted : ItemAt(read, y).k = "Fn"}}
  BY DEF Refs
<1> HIDE DEF refs, noted
<1>2. ASSUME NEW ref \in refs
      PROVE  \E p \in files : \E n : Mentions(read, p, n) /\ ref = [file |-> p, name |-> n]
  <2>1. PICK x \in noted : ItemAt(read, x).k = "Fn" /\ ref \in Of(x)
    BY <1>1
  <2>2. PICK n \in RefsIn(ItemAt(read, x).body) : ref = [file |-> x[1], name |-> n]
    BY <2>1
  <2>3. x[1] \in files /\ x \in PlacesOf(read, x[1])
    BY NotedPlaces DEF noted
  <2>4. Mentions(read, x[1], n)
    BY <2>1, <2>2, <2>3 DEF Mentions
  <2>5. QED BY <2>2, <2>3, <2>4
<1>3. ASSUME NEW p \in files, NEW n, Mentions(read, p, n)
      PROVE  [file |-> p, name |-> n] \in refs
  <2>1. PICK x \in PlacesOf(read, p) :
          ItemAt(read, x).k = "Fn" /\ n \in RefsIn(ItemAt(read, x).body)
    BY <1>3 DEF Mentions
  <2>2. ~IsImport(ItemAt(read, x))
    BY <2>1 DEF IsImport
  <2>3. x \in noted /\ x[1] = p
    BY <2>2, NotedPlaces DEF noted
  <2>4. [file |-> p, name |-> n] \in Of(x)
    BY <2>1, <2>3
  <2>5. QED BY <1>1, <2>1, <2>3, <2>4
<1>4. QED BY <1>2, <1>3 DEF refs, noted

\* The names mentioned are visible when none of the files trespasses.
LEMMA VisibleIff ==
  ASSUME NEW read, NEW files, NEW noted, noted = DeclaredIn(read, files, TRUE)
  PROVE  Visible(Refs(read, noted), Defs(read, noted)) <=>
           \A p \in files : ~Trespasses(read, p, files)
<1> DEFINE refs == Refs(read, noted)
           defs == Defs(read, noted)
<1>1. ASSUME NEW ref \in refs, Hidden(ref, defs) PROVE \E p \in files : Trespasses(read, p, files)
  <2>1. PICK p \in files : \E n : Mentions(read, p, n) /\ ref = [file |-> p, name |-> n]
    BY NotedRefs
  <2>2. PICK n : Mentions(read, p, n) /\ ref = [file |-> p, name |-> n]
    BY <2>1
  <2>3. HiddenFrom(read, p, n, files)
    BY <1>1, <2>2, NotedDefs
  <2>4. QED BY <2>2, <2>3, TrespassesIff
<1>2. ASSUME NEW p \in files, Trespasses(read, p, files) PROVE \E ref \in refs : Hidden(ref, defs)
  <2>1. PICK n : Mentions(read, p, n) /\ HiddenFrom(read, p, n, files)
    BY <1>2, TrespassesIff
  <2> DEFINE ref == [file |-> p, name |-> n]
  <2>2. ref \in refs
    BY <2>1, NotedRefs
  <2>3. Hidden(ref, defs)
    BY <2>1, NotedDefs
  <2>4. QED BY <2>2, <2>3
<1>3. QED BY <1>1, <1>2 DEF Visible

\* All that the files in S declare, with the main of path.
Gathered(read, path, S) == UNION {Declared(read, p, p = path) : p \in S}

\* Where nothing was wrong, all that is reached has been visited, and nothing else.
LEMMA AllVisited ==
  ASSUME NEW read, NEW packages, NEW path \in Readable(read), IsList(read[path].v),
         NEW S, S = Reached(path, read, packages), NEW st,
         WalkOK(read, packages, S, path, {path}, Len(read[path].v), st), st.ok
  PROVE  /\ S \subseteq Readable(read) /\ InOrder(st.items)
         /\ ToSet(st.items) = Gathered(read, path, S)
         /\ st.noted = DeclaredIn(read, S, TRUE)
<1> DEFINE m == Len(read[path].v)
           V == st.visited
           others == V \ {path}
           own == Own(read, path, m)
<1>1. /\ path \in S /\ IsClosed(S, read, packages)
      /\ \A U : path \in U /\ IsClosed(U, read, packages) => S \subseteq U
  BY ReachedIsLeast
<1>2. path \in V /\ others \subseteq S /\ Contents(read, packages, path, {path}, m, st)
  BY <1>1 DEF WalkOK
<1>3. \A q \in others : q \in Readable(read) /\ ImportsOf(read, packages, q) \subseteq V
  BY <1>2 DEF Contents
<1>4. ImportsOf(read, packages, path) \subseteq V
  <2>1. \A i \in 1..m : IsImport(ItemAt(read, <<path, i>>)) =>
                          Imported(read, packages, <<path, i>>) \in V
    BY <1>2 DEF Contents
  <2>2. QED BY <2>1, ImportsVisited
<1>5. IsClosed(V, read, packages)
  BY <1>3, <1>4 DEF IsClosed
<1>6. S \subseteq V
  BY <1>1, <1>2, <1>5
<1>7. others = S \ {path}
  BY <1>2, <1>6
<1>8. S \subseteq Readable(read)
  BY <1>3, <1>7
<1>9. own = Declared(read, path, TRUE)
  BY OwnOfAll
<1>10. /\ InOrder(st.items) /\ ToSet(st.items) = DeclaredIn(read, others, FALSE) \cup own
       /\ st.noted = DeclaredIn(read, others, TRUE) \cup own
  BY <1>2 DEF Contents
<1> DEFINE Of(p) == Declared(read, p, p = path)
<1>11. /\ Of(path) = Declared(read, path, TRUE)
       /\ \A p \in others : Of(p) = Declared(read, p, FALSE)
  <2>1. \A p : (p = path) = TRUE \/ (p = path) = FALSE
    OBVIOUS
  <2>2. \A p \in others : (p = path) = FALSE
    OBVIOUS
  <2>3. (path = path) = TRUE
    OBVIOUS
  <2>4. QED BY <2>2, <2>3
<1> HIDE DEF V, others, own, Of
<1>12. UNION {Of(p) : p \in S} = DeclaredIn(read, others, FALSE) \cup Declared(read, path, TRUE)
  BY <1>1, <1>7, <1>11 DEF DeclaredIn
<1>13. DeclaredIn(read, S, TRUE) = DeclaredIn(read, others, TRUE) \cup Declared(read, path, TRUE)
  BY <1>1, <1>7 DEF DeclaredIn
<1>14. Gathered(read, path, S) = UNION {Of(p) : p \in S}
  BY DEF Of, Gathered
<1>15. ToSet(st.items) = Gathered(read, path, S)
  BY <1>9, <1>10, <1>12, <1>14
<1>16. QED BY <1>8, <1>9, <1>10, <1>13, <1>15

\* Loading a file that can be read, with all it imports, gives what it promises: every
\* declaration of every file that is reached, once and in order, if all of them can be read
\* and none trespasses, and an error otherwise (resolve_imports_with_packages).
THEOREM ImportsResolved ==
  ASSUME NEW packages, NEW files, IsFiniteSet(DOMAIN files), AreLists(ReadFiles(files)),
         NEW path \in DOMAIN files, ReadProgram(files[path]).ok
  PROVE  IsComplete(ResolveImports(path, packages, files), path, packages, files)
<1> DEFINE read == ReadFiles(files)
           N == Cardinality(DOMAIN files)
           S == Reached(path, read, packages)
           deep == ResolveRecursive(read, packages, N)
           end == deep[path][{path}]
           result == ResolveImports(path, packages, files)
           seen == Visible(Refs(read, end.noted), Defs(read, end.noted))
           right == S \subseteq Readable(read) /\ \A p \in S : ~Trespasses(read, p, S)
<1>1. DOMAIN read = DOMAIN files /\ path \in Readable(read)
  BY DEF ReadFiles, Readable
<1>2. result = IF end.ok /\ seen THEN [ok |-> TRUE, v |-> end.items] ELSE [ok |-> FALSE]
  BY <1>1 DEF ResolveImports
<1>3. IsComplete(result, path, packages, files) <=>
        /\ result.ok <=> right
        /\ result.ok => /\ InOrder(result.v)
                        /\ ToSet(result.v) = Gathered(read, path, S)
  BY DEF IsComplete, Gathered
<1> HIDE DEF read, seen, result, right
<1>4. path \in S /\ IsClosed(S, read, packages)
  BY ReachedIsLeast
<1>5. IsList(read[path].v)
  BY <1>1 DEF AreLists, read
<1>6. WalkOK(read, packages, S, path, {path}, Len(read[path].v), end)
  <2>1. N \in Nat
    BY FS_CardinalityType
  <2>2. DeepOK(read, packages, S, N, deep)
    <3> HIDE DEF S, N
    <3>1. AreLists(read)
      BY DEF read
    <3>2. IsFiniteSet(DOMAIN read)
      BY <1>1
    <3>3. DeepOK(read, packages, S, N, ResolveRecursive(read, packages, N))
      BY <1>4, <2>1, <3>1, <3>2, AnyDepth
    <3>4. QED BY <3>3
  <2>3. Cardinality(DOMAIN read \ {path}) < N
    <3>1. Cardinality(DOMAIN read \ {path}) < Cardinality(DOMAIN read \ {})
      <4>1. path \in DOMAIN read /\ IsFiniteSet(DOMAIN read)
        BY <1>1
      <4>2. QED BY <4>1, FewerLeft
    <3>2. DOMAIN read \ {} = DOMAIN files
      BY <1>1
    <3>3. QED BY <3>1, <3>2
  <2>4. {path} \in SUBSET DOMAIN read /\ path \in {path}
    BY <1>1
  <2> HIDE DEF S, N, deep
  <2>5. QED BY <1>1, <2>2, <2>3, <2>4 DEF DeepOK
<1> HIDE DEF S, end
<1>7. ASSUME ~end.ok PROVE ~right
  BY <1>4, <1>6, <1>7 DEF WalkOK, right
<1>8. ASSUME end.ok
      PROVE  /\ S \subseteq Readable(read) /\ InOrder(end.items)
             /\ ToSet(end.items) = Gathered(read, path, S)
             /\ end.noted = DeclaredIn(read, S, TRUE)
  <2>1. S = Reached(path, read, packages)
    BY DEF S
  <2>2. QED BY <1>1, <1>5, <1>6, <1>8, <2>1, AllVisited
<1>9. end.ok => (seen <=> right)
  <2>1. ASSUME end.ok PROVE seen <=> \A p \in S : ~Trespasses(read, p, S)
    <3>1. end.noted = DeclaredIn(read, S, TRUE)
      BY <1>8, <2>1
    <3>2. QED BY <3>1, VisibleIff DEF seen
  <2>2. QED BY <1>8, <2>1 DEF right
<1>10. result.ok <=> right
  BY <1>2, <1>7, <1>9
<1>11. result.ok => end.ok /\ result.v = end.items
  BY <1>2
<1>12. IsComplete(result, path, packages, files)
  BY <1>3, <1>8, <1>10, <1>11
<1>13. QED BY <1>12 DEF result
============================================================================
