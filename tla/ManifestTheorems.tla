-------------------------- MODULE ManifestTheorems -------------------------
(***************************************************************************)
(* Proofs about the manifest: a manifest is read back from the text that   *)
(* is written of it, for all values its lines can keep, and refused        *)
(* otherwise.  Loops over texts are scans, proved about by induction on    *)
(* the number of steps; a text is followed character by character, then    *)
(* field by field, then line by line.                                      *)
(***************************************************************************)
EXTENDS Manifest, SequenceFacts, TLAPS

\* A sequence is put together from its elements one after the other: what holds of the empty
\* sequence, and of a longer one when it holds of the one without the last element, holds of all.
LEMMA AppendInduction ==
  ASSUME NEW S, NEW T, <<>> \in T, \A s \in Seq(S), e \in S : s \in T => Append(s, e) \in T
  PROVE  \A s \in Seq(S) : s \in T
<1>1. SUFFICES ASSUME NEW s \in Seq(S) PROVE s \in T
  OBVIOUS
<1> DEFINE m == Len(s)
           U == {n \in 0..m : SubSeq(s, 1, n) \in T}
<1>2. m \in Nat
  OBVIOUS
<1>3. 0 \in U
  <2>1. SubSeq(s, 1, 0) = <<>>
    BY SubSeqEmpty
  <2>2. 0 \in 0..m
    BY <1>2
  <2> HIDE DEF m
  <2>3. QED BY <2>1, <2>2
<1>4. ASSUME NEW n \in 1..m, n - 1 \in U PROVE n \in U
  <2>1. SubSeq(s, 1, n - 1) \in Seq(S) /\ s[n] \in S /\ SubSeq(s, 1, n - 1) \in T
    BY <1>4
  <2>2. SubSeq(s, 1, n) = Append(SubSeq(s, 1, n - 1), s[n])
    BY <1>2
  <2> DEFINE p == SubSeq(s, 1, n - 1)
  <2>3. SubSeq(s, 1, n) \in T
    <3>1. Append(p, s[n]) \in T
      <4> HIDE DEF p
      <4>1. p \in Seq(S) /\ s[n] \in S /\ p \in T
        BY <2>1 DEF p
      <4>2. QED BY <4>1
    <3>2. QED BY <2>2, <3>1
  <2>4. QED BY <1>2, <2>3
<1>5. m \in U
  <2>1. \A n \in 1..m : n - 1 \in U => n \in U
    BY <1>4
  <2> HIDE DEF U, m
  <2>2. \A n \in 0..m : n \in U
    BY <1>2, <1>3, <2>1, UpTo
  <2>3. QED BY <1>2, <2>2
<1>6. SubSeq(s, 1, m) = s
  OBVIOUS
<1>7. QED BY <1>5, <1>6

\* The steps of a scan, from the states V and the elements C.
Steps(V, C) == [V -> [C -> V]]

\* The equation of the recursive function in Scan.
Scans(k, step, start, s) ==
  k = [n \in 0..Len(s) |-> IF n = 0 THEN start ELSE step[k[n - 1]][s[n]]]

\* The recursive function in Scan is well defined.
LEMMA ScanFunction ==
  ASSUME NEW V, NEW C, NEW step \in Steps(V, C), NEW start \in V, NEW s \in Seq(C)
  PROVE  \E k : /\ Scans(k, step, start, s) /\ Scan(step, start, s) = k[Len(s)]
                /\ \A n \in 0..Len(s) : k[n] \in V
<1> DEFINE m == Len(s)
           F == [n \in 1..m |-> [v \in V |-> step[v][s[n]]]]
           K == CHOOSE k : Scans(k, step, start, s)
<1>1. m \in Nat /\ F \in StepsOver(V, m) /\ \A n \in 1..m : s[n] \in C
  BY DEF StepsOver, Steps
<1>2. PICK k : k \in StepResults(V, start, m, F)
  <2> HIDE DEF F, m
  <2>1. QED BY <1>1, Recursion
<1>3. k \in [0..m -> V] /\ k[0] = start /\ \A n \in 1..m : k[n] = F[n][k[n - 1]]
  BY <1>2 DEF StepResults
<1>4. ASSUME NEW n \in 0..m PROVE k[n] = IF n = 0 THEN start ELSE step[k[n - 1]][s[n]]
  <2>1. CASE n = 0
    BY <1>3, <2>1
  <2>2. CASE n # 0
    <3>1. n \in 1..m /\ n - 1 \in 0..m
      BY <1>1, <2>2
    <3>2. F[n][k[n - 1]] = step[k[n - 1]][s[n]]
      BY <1>3, <3>1
    <3> HIDE DEF F
    <3>3. QED BY <1>3, <2>2, <3>1, <3>2
  <2>3. QED BY <2>1, <2>2
<1>5. Scans(k, step, start, s)
  <2> HIDE DEF F
  <2>1. k = [n \in 0..m |-> k[n]]
    BY <1>3
  <2>2. QED BY <1>4, <2>1 DEF Scans
<1>6. Scans(K, step, start, s)
  BY <1>5
<1>7. Scan(step, start, s) = K[Len(s)]
  BY Zenon DEF Scan, Scans
<1>8. ASSUME NEW n \in 0..m PROVE K[n] \in V
  <2> DEFINE T == {i \in 0..m : K[i] \in V}
  <2>1. 0 \in T
    <3>1. K[0] = start
      <4>1. 0 \in 0..m
        BY <1>1
      <4> HIDE DEF K
      <4>2. QED BY <1>6, <4>1 DEF Scans
    <3>2. QED BY <1>1, <3>1
  <2>2. ASSUME NEW i \in 1..m, i - 1 \in T PROVE i \in T
    <3>1. K[i] = step[K[i - 1]][s[i]]
      <4>1. i \in 0..m /\ i # 0
        BY <1>1
      <4>2. QED BY <1>6, <4>1 DEF Scans
    <3>2. K[i - 1] \in V /\ s[i] \in C
      BY <1>1, <2>2
    <3>3. QED BY SMTT(40), <3>1, <3>2 DEF Steps
  <2>3. \A i \in 1..m : i - 1 \in T => i \in T
    BY <2>2
  <2> HIDE DEF T, K, F, m
  <2>4. n \in T
    BY <1>1, <2>1, <2>3, UpTo
  <2>5. QED BY <2>4 DEF T
<1>9. QED BY <1>6, <1>7, <1>8

\* A scan stays in its set of states.
LEMMA ScanType ==
  ASSUME NEW V, NEW C, NEW step \in Steps(V, C), NEW start \in V, NEW s \in Seq(C)
  PROVE  Scan(step, start, s) \in V
<1>1. Len(s) \in 0..Len(s)
  OBVIOUS
<1>2. QED BY <1>1, ScanFunction

\* A scan of nothing is where it starts.
LEMMA ScanEmpty ==
  ASSUME NEW V, NEW C, NEW step \in Steps(V, C), NEW start \in V
  PROVE  Scan(step, start, <<>>) = start
<1> DEFINE e == <<>>
<1>1. e \in Seq(C) /\ Len(e) = 0 /\ 0 \in 0..0
  OBVIOUS
<1> HIDE DEF e
<1>2. PICK k : /\ Scans(k, step, start, e) /\ Scan(step, start, e) = k[Len(e)]
               /\ \A n \in 0..Len(e) : k[n] \in V
  BY ZenonT(60), <1>1, ScanFunction
<1>3. Scan(step, start, e) = start
  BY <1>1, <1>2 DEF Scans
<1>4. QED BY <1>3 DEF e

\* A scan takes one step for the last element of a sequence.
LEMMA ScanAppend ==
  ASSUME NEW V, NEW C, NEW step \in Steps(V, C), NEW start \in V, NEW s \in Seq(C), NEW c \in C
  PROVE  Scan(step, start, Append(s, c)) = step[Scan(step, start, s)][c]
<1> DEFINE m == Len(s)
           t == Append(s, c)
<1>1. /\ m \in Nat /\ t \in Seq(C) /\ Len(t) = m + 1 /\ t[m + 1] = c
      /\ \A n \in 1..m : t[n] = s[n]
  OBVIOUS
<1>2. PICK k : Scans(k, step, start, s) /\ Scan(step, start, s) = k[Len(s)]
  BY ScanFunction
<1>3. PICK l : Scans(l, step, start, t) /\ Scan(step, start, t) = l[Len(t)]
  <2> HIDE DEF t
  <2>1. QED BY <1>1, ScanFunction
<1>4. \A n \in 0..m : k[n] = IF n = 0 THEN start ELSE step[k[n - 1]][s[n]]
  BY <1>2 DEF Scans
<1>5. \A n \in 0..(m + 1) : l[n] = IF n = 0 THEN start ELSE step[l[n - 1]][t[n]]
  <2> HIDE DEF t, m
  <2>1. QED BY <1>1, <1>3 DEF Scans
<1> HIDE DEF t
<1>6. k[m] = l[m]
  <2> DEFINE T == {n \in 0..m : k[n] = l[n]}
  <2>1. 0 \in T
    BY <1>1, <1>4, <1>5
  <2>2. ASSUME NEW n \in 1..m, n - 1 \in T PROVE n \in T
    <3>1. n \in 0..m /\ n \in 0..(m + 1) /\ n # 0 /\ k[n - 1] = l[n - 1] /\ t[n] = s[n]
      BY <1>1, <2>2
    <3> HIDE DEF m
    <3>2. k[n] = step[k[n - 1]][s[n]] /\ l[n] = step[l[n - 1]][t[n]]
      BY <1>4, <1>5, <3>1
    <3>3. QED BY <3>1, <3>2
  <2>3. \A n \in 1..m : n - 1 \in T => n \in T
    BY <2>2
  <2>4. m \in 0..m
    BY <1>1
  <2> HIDE DEF T, m
  <2>5. m \in T
    BY <1>1, <2>1, <2>3, <2>4, UpTo
  <2>6. QED BY <2>5 DEF T
<1>7. l[m + 1] = step[l[m]][c]
  <2>1. m + 1 \in 0..(m + 1) /\ m + 1 # 0 /\ (m + 1) - 1 = m
    BY <1>1
  <2> HIDE DEF m
  <2>2. QED BY <1>1, <1>5, <2>1
<1>8. QED BY <1>1, <1>2, <1>3, <1>6, <1>7 DEF t

\* A scan of one sequence and then of another.
LEMMA ScanConcat ==
  ASSUME NEW V, NEW C, NEW step \in Steps(V, C), NEW start \in V, NEW s \in Seq(C), NEW t \in Seq(C)
  PROVE  Scan(step, start, s \o t) = Scan(step, Scan(step, start, s), t)
<1> DEFINE mid == Scan(step, start, s)
           T == {u \in Seq(C) : Scan(step, start, s \o u) = Scan(step, mid, u)}
<1>1. mid \in V
  BY ScanType
<1> HIDE DEF mid
<1>2. <<>> \in T
  <2>1. s \o <<>> = s
    BY ConcatEmptySeq
  <2>2. Scan(step, mid, <<>>) = mid
    BY <1>1, ScanEmpty
  <2>3. QED BY <2>1, <2>2 DEF mid
<1>3. ASSUME NEW u \in Seq(C), NEW c \in C, u \in T PROVE Append(u, c) \in T
  <2> DEFINE w == s \o u
  <2>1. s \o Append(u, c) = Append(w, c) /\ w \in Seq(C)
    OBVIOUS
  <2> HIDE DEF w
  <2>2. Scan(step, start, Append(w, c)) = step[Scan(step, start, w)][c]
    BY <2>1, ScanAppend
  <2>3. Scan(step, mid, Append(u, c)) = step[Scan(step, mid, u)][c]
    BY <1>1, ScanAppend
  <2>4. Scan(step, start, w) = Scan(step, mid, u)
    BY <1>3 DEF w
  <2>5. Scan(step, start, s \o Append(u, c)) = Scan(step, mid, Append(u, c))
    BY <2>1, <2>2, <2>3, <2>4
  <2>6. QED BY <2>5
<1>4. \A u \in Seq(C), c \in C : u \in T => Append(u, c) \in T
  BY <1>3
<1>5. t \in T
  <2> HIDE DEF T
  <2>1. QED BY <1>2, <1>4, AppendInduction
<1>6. QED BY <1>5 DEF mid

\* The laws of a scan, for one step function.
ScanLawsOf(step, V, C) ==
  /\ \A a \in V : Scan(step, a, <<>>) = a
  /\ \A a \in V, s \in Seq(C) : Scan(step, a, s) \in V
  /\ \A a \in V, s \in Seq(C), c \in C : Scan(step, a, Append(s, c)) = step[Scan(step, a, s)][c]
  /\ \A a \in V, s \in Seq(C), t \in Seq(C) : Scan(step, a, s \o t) = Scan(step, Scan(step, a, s), t)
  /\ \A a \in V, c \in C : Scan(step, a, <<c>>) = step[a][c]
  /\ \A a \in V, c \in C, d \in C : Scan(step, a, <<c, d>>) = step[step[a][c]][d]
  /\ \A a \in V, c \in C, d \in C, e \in C, f \in C :
       Scan(step, a, <<c, d, e, f>>) = step[step[step[step[a][c]][d]][e]][f]

\* What a scan gives: of nothing, of one more element, of two sequences put together, of a few.
LEMMA ScanLaws ==
  ASSUME NEW V, NEW C, NEW step \in Steps(V, C)
  PROVE  ScanLawsOf(step, V, C)
<1>1. ASSUME NEW a \in V PROVE Scan(step, a, <<>>) = a
  BY ScanEmpty
<1>2. ASSUME NEW a \in V, NEW s \in Seq(C) PROVE Scan(step, a, s) \in V
  BY ScanType
<1>3. ASSUME NEW a \in V, NEW s \in Seq(C), NEW c \in C
      PROVE  Scan(step, a, Append(s, c)) = step[Scan(step, a, s)][c]
  BY ScanAppend
<1>4. ASSUME NEW a \in V, NEW s \in Seq(C), NEW t \in Seq(C)
      PROVE  Scan(step, a, s \o t) = Scan(step, Scan(step, a, s), t)
  BY ScanConcat
<1>5. ASSUME NEW a \in V, NEW c \in C PROVE Scan(step, a, <<c>>) = step[a][c]
  <2> DEFINE p == <<>>
             q == <<c>>
  <2>1. p \in Seq(C) /\ q = Append(p, c) /\ Scan(step, a, p) = a
    BY <1>1
  <2> HIDE DEF p, q
  <2>2. Scan(step, a, Append(p, c)) = step[Scan(step, a, p)][c]
    BY <1>3, <2>1
  <2>3. QED BY <2>1, <2>2 DEF q
<1>6. ASSUME NEW a \in V, NEW c \in C, NEW d \in C
      PROVE  Scan(step, a, <<c, d>>) = step[step[a][c]][d]
  <2> DEFINE p == <<c>>
             q == <<c, d>>
  <2>1. p \in Seq(C) /\ q = Append(p, d) /\ Scan(step, a, p) = step[a][c]
    BY <1>5
  <2> HIDE DEF p, q
  <2>2. Scan(step, a, Append(p, d)) = step[Scan(step, a, p)][d]
    BY <1>3, <2>1
  <2>3. QED BY <2>1, <2>2 DEF q
<1>7. ASSUME NEW a \in V, NEW c \in C, NEW d \in C, NEW e \in C, NEW f \in C
      PROVE  Scan(step, a, <<c, d, e, f>>) = step[step[step[step[a][c]][d]][e]][f]
  <2> DEFINE p == <<c, d>>
             q == <<c, d, e>>
             r == <<c, d, e, f>>
  <2>1. /\ p \in Seq(C) /\ q = Append(p, e) /\ q \in Seq(C) /\ r = Append(q, f)
        /\ Scan(step, a, p) = step[step[a][c]][d]
    BY <1>6
  <2> HIDE DEF p, q, r
  <2>2. Scan(step, a, Append(p, e)) = step[Scan(step, a, p)][e]
    BY <1>3, <2>1
  <2>3. Scan(step, a, Append(q, f)) = step[Scan(step, a, q)][f]
    BY <1>3, <2>1
  <2>4. QED BY <2>1, <2>2, <2>3 DEF r
<1>8. QED BY <1>1, <1>2, <1>3, <1>4, <1>5, <1>6, <1>7 DEF ScanLawsOf

----------------------------------------------------------------------------
\* Texts.

\* Texts are put together from characters and other texts.
LEMMA CharFacts ==
  /\ <<>> \in CharSeq
  /\ \A c \in Characters : <<c>> \in CharSeq
  /\ \A c \in Characters, d \in Characters : <<c, d>> \in CharSeq
  /\ \A c \in Characters, d \in Characters, e \in Characters, f \in Characters :
       <<c, d, e, f>> \in CharSeq
  /\ \A s \in CharSeq, c \in Characters : Append(s, c) \in CharSeq /\ s \o <<c>> = Append(s, c)
  /\ \A s \in CharSeq : s \o <<>> = s /\ <<>> \o s = s
  /\ \A s \in CharSeq, t \in CharSeq : s \o t \in CharSeq
  /\ \A s \in CharSeq, t \in CharSeq, u \in CharSeq : (s \o t) \o u = s \o (t \o u)
<1>1. <<>> \in Seq(Characters)
  OBVIOUS
<1>2. \A c \in Characters : <<c>> \in Seq(Characters)
  OBVIOUS
<1>3. \A c \in Characters, d \in Characters : <<c, d>> \in Seq(Characters)
  OBVIOUS
<1>4. \A c \in Characters, d \in Characters, e \in Characters, f \in Characters :
        <<c, d, e, f>> \in Seq(Characters)
  OBVIOUS
<1>5. ASSUME NEW s \in Seq(Characters), NEW c \in Characters
      PROVE  Append(s, c) \in Seq(Characters) /\ s \o <<c>> = Append(s, c)
  OBVIOUS
<1>6. ASSUME NEW s \in Seq(Characters) PROVE s \o <<>> = s /\ <<>> \o s = s
  BY ConcatEmptySeq
<1>7. \A s \in Seq(Characters), t \in Seq(Characters) : s \o t \in Seq(Characters)
  OBVIOUS
<1>8. ASSUME NEW s \in Seq(Characters), NEW t \in Seq(Characters), NEW u \in Seq(Characters)
      PROVE  (s \o t) \o u = s \o (t \o u)
  BY ConcatAssociative
<1>9. QED BY Zenon, <1>1, <1>2, <1>3, <1>4, <1>5, <1>6, <1>7, <1>8 DEF CharSeq

\* What holds of the empty text, and of a text with one character more, holds of every text.
LEMMA CharInduction ==
  ASSUME NEW T, <<>> \in T, \A s \in CharSeq, c \in Characters : s \in T => Append(s, c) \in T
  PROVE  \A s \in CharSeq : s \in T
<1>1. \A s \in Seq(Characters), c \in Characters : s \in T => Append(s, c) \in T
  BY Zenon DEF CharSeq
<1>2. \A s \in Seq(Characters) : s \in T
  BY <1>1, AppendInduction
<1>3. QED BY <1>2 DEF CharSeq

\* The laws of a scan of texts.
TextLaws(step, V) ==
  /\ \A a \in V : Scan(step, a, <<>>) = a
  /\ \A a \in V, s \in CharSeq : Scan(step, a, s) \in V
  /\ \A a \in V, s \in CharSeq, c \in Characters :
       Scan(step, a, Append(s, c)) = step[Scan(step, a, s)][c]
  /\ \A a \in V, s \in CharSeq, t \in CharSeq :
       Scan(step, a, s \o t) = Scan(step, Scan(step, a, s), t)
  /\ \A a \in V, c \in Characters : Scan(step, a, <<c>>) = step[a][c]
  /\ \A a \in V, c \in Characters, d \in Characters : Scan(step, a, <<c, d>>) = step[step[a][c]][d]
  /\ \A a \in V, c \in Characters, d \in Characters, e \in Characters, f \in Characters :
       Scan(step, a, <<c, d, e, f>>) = step[step[step[step[a][c]][d]][e]][f]

\* The same of a text.
LEMMA TextScan ==
  ASSUME NEW V, NEW step \in Steps(V, Characters)
  PROVE  TextLaws(step, V)
<1>1. ScanLawsOf(step, V, Characters)
  BY ScanLaws
<1>2. QED BY Zenon, <1>1 DEF ScanLawsOf, TextLaws, CharSeq

----------------------------------------------------------------------------
\* Quoted texts: what Esc writes, and what Unescape makes of it.

\* What Esc writes of a character.
EscOf(c) == IF c \in {"\\", "\""} THEN <<"\\", c>> ELSE <<c>>

\* What Esc writes of a character is a text.
LEMMA EscOfType ==
  ASSUME NEW c \in Characters
  PROVE  EscOf(c) \in CharSeq
<1>1. "\\" \in Characters
  BY CharactersAssumption
<1>2. ASSUME NEW b \in Characters PROVE <<b, c>> \in Seq(Characters) /\ <<c>> \in Seq(Characters)
  OBVIOUS
<1>3. QED BY <1>1, <1>2 DEF EscOf, CharSeq

\* Esc writes one character after the other.
LEMMA EscLaws ==
  /\ Esc(<<>>) = <<>>
  /\ \A s \in CharSeq : Esc(s) \in CharSeq
  /\ \A s \in CharSeq, c \in Characters : Esc(Append(s, c)) = Esc(s) \o EscOf(c)
<1>1. EscapeOne \in Steps(CharSeq, Characters)
  <2>1. \A out \in CharSeq, c \in Characters : out \o EscOf(c) \in CharSeq
    <3>1. \A c \in Characters : EscOf(c) \in CharSeq
      BY EscOfType
    <3>2. QED BY <3>1 DEF CharSeq
  <2>2. EscapeOne = [out \in CharSeq |-> [c \in Characters |-> out \o EscOf(c)]]
    BY DEF EscapeOne, EscOf
  <2>3. QED BY <2>1, <2>2 DEF Steps
<1>2. \A out \in CharSeq, c \in Characters : EscapeOne[out][c] = out \o EscOf(c)
  BY DEF EscapeOne, EscOf
<1>3. <<>> \in CharSeq
  BY DEF CharSeq
<1> DEFINE e == <<>>
<1>4. e \in CharSeq
  BY <1>3
<1>5. Esc(<<>>) = <<>>
  <2> HIDE DEF e
  <2>1. Scan(EscapeOne, e, <<>>) = e
    BY <1>1, <1>4, ScanEmpty
  <2>2. QED BY <2>1 DEF Esc, e
<1> HIDE DEF e
<1>6. ASSUME NEW s \in CharSeq PROVE Esc(s) = Scan(EscapeOne, e, s) /\ Esc(s) \in CharSeq
  <2>1. Esc(s) = Scan(EscapeOne, e, s)
    BY DEF Esc, e
  <2>2. s \in Seq(Characters)
    BY DEF CharSeq
  <2>3. QED BY <1>1, <1>4, <2>1, <2>2, ScanType
<1>7. ASSUME NEW s \in CharSeq, NEW c \in Characters PROVE Esc(Append(s, c)) = Esc(s) \o EscOf(c)
  <2>1. s \in Seq(Characters) /\ Append(s, c) \in CharSeq
    BY DEF CharSeq
  <2>2. Scan(EscapeOne, e, Append(s, c)) = EscapeOne[Scan(EscapeOne, e, s)][c]
    BY <1>1, <1>4, <2>1, ScanAppend
  <2>3. Esc(Append(s, c)) = Scan(EscapeOne, e, Append(s, c))
    BY DEF Esc, e
  <2>4. QED BY <1>2, <1>6, <2>2, <2>3
<1>8. QED BY <1>5, <1>6, <1>7

\* The steps of Unescape.
LEMMA ReadEscapeLaws ==
  /\ ReadEscape \in Steps(EscapeStates, Characters)
  /\ \A o \in CharSeq, c \in Characters :
       c # "\\" => ReadEscape[EscapeState(o, FALSE, TRUE)][c] = EscapeState(Append(o, c), FALSE, TRUE)
  /\ \A o \in CharSeq : ReadEscape[EscapeState(o, FALSE, TRUE)]["\\"] = EscapeState(o, TRUE, TRUE)
  /\ \A o \in CharSeq, c \in {"\\", "\""} :
       ReadEscape[EscapeState(o, TRUE, TRUE)][c] = EscapeState(Append(o, c), FALSE, TRUE)
<1>1. ASSUME NEW o \in CharSeq, NEW esc \in BOOLEAN, NEW ok \in BOOLEAN
      PROVE  EscapeState(o, esc, ok) \in EscapeStates
  BY DEF EscapeState, EscapeStates
<1>2. ASSUME NEW st \in EscapeStates, NEW c \in Characters
      PROVE  ReadEscape[st][c] \in EscapeStates
  <2> DEFINE o == st.out
             ok == st.ok
  <2>1. /\ o \in CharSeq /\ ok \in BOOLEAN
        /\ st = EscapeState(o, TRUE, ok) \/ st = EscapeState(o, FALSE, ok)
    BY DEF EscapeStates, EscapeState
  <2>2. "\n" \in Characters
    BY CharactersAssumption
  <2>3. Append(o, c) \in CharSeq /\ Append(o, "\n") \in CharSeq
    BY <2>1, <2>2 DEF CharSeq
  <2> HIDE DEF o, ok
  <2>4. CASE st = EscapeState(o, TRUE, ok)
    <3>1. \/ ReadEscape[EscapeState(o, TRUE, ok)][c] = EscapeState(Append(o, c), FALSE, ok)
          \/ ReadEscape[EscapeState(o, TRUE, ok)][c] = EscapeState(Append(o, "\n"), FALSE, ok)
          \/ ReadEscape[EscapeState(o, TRUE, ok)][c] = EscapeState(o, FALSE, FALSE)
      BY <2>1 DEF ReadEscape, EscapeState, EscapeStates
    <3>2. QED BY <1>1, <2>1, <2>3, <2>4, <3>1
  <2>5. CASE st = EscapeState(o, FALSE, ok)
    <3>1. \/ ReadEscape[EscapeState(o, FALSE, ok)][c] = EscapeState(Append(o, c), FALSE, ok)
          \/ ReadEscape[EscapeState(o, FALSE, ok)][c] = EscapeState(o, TRUE, ok)
      BY <2>1 DEF ReadEscape, EscapeState, EscapeStates
    <3>2. QED BY <1>1, <2>1, <2>3, <2>5, <3>1
  <2>6. QED BY <2>1, <2>4, <2>5
<1>3. ReadEscape \in Steps(EscapeStates, Characters)
  <2>1. ReadEscape = [st \in EscapeStates |-> [c \in Characters |-> ReadEscape[st][c]]]
    BY Zenon DEF ReadEscape
  <2>2. QED BY <1>2, <2>1 DEF Steps
<1>4. ASSUME NEW o \in CharSeq, NEW c \in Characters, c # "\\"
      PROVE ReadEscape[EscapeState(o, FALSE, TRUE)][c] = EscapeState(Append(o, c), FALSE, TRUE)
  BY <1>4 DEF ReadEscape, EscapeState, EscapeStates
<1>5. ASSUME NEW o \in CharSeq
      PROVE ReadEscape[EscapeState(o, FALSE, TRUE)]["\\"] = EscapeState(o, TRUE, TRUE)
  BY CharactersAssumption DEF ReadEscape, EscapeState, EscapeStates
<1>6. ASSUME NEW o \in CharSeq, NEW c \in {"\\", "\""}
      PROVE ReadEscape[EscapeState(o, TRUE, TRUE)][c] = EscapeState(Append(o, c), FALSE, TRUE)
  BY CharactersAssumption DEF ReadEscape, EscapeState, EscapeStates
<1>7. QED BY <1>3, <1>4, <1>5, <1>6

\* Unescape undoes Esc, and rejects what ends in the middle of an escape.
LEMMA UnescapeEsc ==
  ASSUME NEW s \in CharSeq
  PROVE  Unescape(Esc(s)) = Ok(s) /\ Unescape(Esc(s) \o <<"\\">>) = Fail
<1> DEFINE first == EscapeState(<<>>, FALSE, TRUE)
           R(a, u) == Scan(ReadEscape, a, u)
           T == {u \in CharSeq : R(first, Esc(u)) = EscapeState(u, FALSE, TRUE)}
<1>1. first \in EscapeStates /\ "\\" \in Characters
  BY CharFacts, CharactersAssumption DEF EscapeState, EscapeStates
<1>2. /\ \A a \in EscapeStates : R(a, <<>>) = a
      /\ \A a \in EscapeStates, u \in CharSeq, v \in CharSeq : R(a, u \o v) = R(R(a, u), v)
      /\ \A a \in EscapeStates, c \in Characters : R(a, <<c>>) = ReadEscape[a][c]
      /\ \A a \in EscapeStates, c \in Characters, d \in Characters :
           R(a, <<c, d>>) = ReadEscape[ReadEscape[a][c]][d]
  <2>1. ReadEscape \in Steps(EscapeStates, Characters)
    BY ReadEscapeLaws
  <2>2. TextLaws(ReadEscape, EscapeStates)
    BY <2>1, TextScan
  <2>3. QED BY Zenon, <2>2 DEF TextLaws
<1>3. \A u \in CharSeq : EscapeState(u, FALSE, TRUE) \in EscapeStates
  BY DEF EscapeState, EscapeStates
<1> HIDE DEF first, R
<1>4. <<>> \in T
  BY <1>1, <1>2, EscLaws, CharFacts DEF first
<1>5. ASSUME NEW u \in CharSeq, NEW c \in Characters, u \in T PROVE Append(u, c) \in T
  <2> DEFINE mid == EscapeState(u, FALSE, TRUE)
             e == Esc(u)
             o == EscOf(c)
  <2>1. /\ e \in CharSeq /\ o \in CharSeq /\ Append(u, c) \in CharSeq /\ mid \in EscapeStates
        /\ Esc(Append(u, c)) = e \o o
    BY <1>3, EscLaws, EscOfType, CharFacts
  <2>2. R(first, e) = mid
    BY <1>5
  <2> HIDE DEF e, mid, o
  <2>3. R(first, e \o o) = R(mid, o)
    BY <1>1, <1>2, <2>1, <2>2
  <2>4. R(mid, o) = EscapeState(Append(u, c), FALSE, TRUE)
    <3>1. CASE c \in {"\\", "\""}
      <4>1. o = <<"\\", c>>
        BY <3>1 DEF EscOf, o
      <4>2. R(mid, <<"\\", c>>) = ReadEscape[ReadEscape[mid]["\\"]][c]
        BY <1>1, <1>2, <2>1
      <4>3. ReadEscape[mid]["\\"] = EscapeState(u, TRUE, TRUE)
        BY ReadEscapeLaws DEF mid
      <4>4. ReadEscape[EscapeState(u, TRUE, TRUE)][c] = EscapeState(Append(u, c), FALSE, TRUE)
        BY <3>1, ReadEscapeLaws
      <4>5. QED BY <4>1, <4>2, <4>3, <4>4
    <3>2. CASE c \notin {"\\", "\""}
      <4>1. o = <<c>>
        BY <3>2 DEF EscOf, o
      <4>2. R(mid, <<c>>) = ReadEscape[mid][c]
        BY <1>2, <2>1
      <4>3. ReadEscape[mid][c] = EscapeState(Append(u, c), FALSE, TRUE)
        BY <3>2, ReadEscapeLaws DEF mid
      <4>4. QED BY <4>1, <4>2, <4>3
    <3>3. QED BY <3>1, <3>2
  <2>5. R(first, Esc(Append(u, c))) = EscapeState(Append(u, c), FALSE, TRUE)
    BY <2>1, <2>3, <2>4
  <2>6. QED BY <2>1, <2>5
<1>6. s \in T
  <2>1. \A u \in CharSeq, c \in Characters : u \in T => Append(u, c) \in T
    BY <1>5
  <2> HIDE DEF T
  <2>2. QED BY <1>4, <2>1, CharInduction
<1> DEFINE e == Esc(s)
           b == <<"\\">>
           mid == EscapeState(s, FALSE, TRUE)
<1>7. R(first, e) = mid
  BY <1>6
<1>8. Unescape(Esc(s)) = Ok(s)
  BY <1>7 DEF Unescape, EscapeState, first, R
<1>9. R(first, e \o b) = EscapeState(s, TRUE, TRUE)
  <2>1. e \in CharSeq /\ b \in CharSeq /\ mid \in EscapeStates
    BY <1>1, <1>3, EscLaws, CharFacts
  <2>2. ReadEscape[mid]["\\"] = EscapeState(s, TRUE, TRUE)
    BY ReadEscapeLaws
  <2> HIDE DEF e, mid
  <2>3. R(mid, b) = ReadEscape[mid]["\\"]
    BY <1>1, <1>2, <2>1
  <2> HIDE DEF b
  <2>4. R(first, e \o b) = R(mid, b)
    BY <1>1, <1>2, <1>7, <2>1
  <2>5. QED BY <2>2, <2>3, <2>4
<1>10. Unescape(e \o b) = Fail
  <2> DEFINE t == e \o b
  <2>1. R(first, t) = EscapeState(s, TRUE, TRUE)
    BY <1>9
  <2> HIDE DEF t
  <2>2. Unescape(t) = Fail
    BY <2>1 DEF Unescape, EscapeState, first, R
  <2>3. QED BY <2>2 DEF t
<1>11. QED BY <1>8, <1>10

----------------------------------------------------------------------------
\* Trimming and cutting.

Blank(s) == \A i \in DOMAIN s : IsSpace(s[i])

\* The indices of two texts put together.
LEMMA ConcatIndex ==
  ASSUME NEW a \in CharSeq, NEW b \in CharSeq
  PROVE  /\ Len(a) \in Nat /\ Len(b) \in Nat /\ Len(a \o b) = Len(a) + Len(b)
         /\ DOMAIN a = 1..Len(a) /\ DOMAIN b = 1..Len(b) /\ DOMAIN (a \o b) = 1..(Len(a) + Len(b))
         /\ \A i \in 1..Len(a) : (a \o b)[i] = a[i]
         /\ \A i \in 1..Len(b) : (a \o b)[Len(a) + i] = b[i]
  BY DEF CharSeq

\* Three texts put together.
JoinedTo(s, w, b, v) ==
  /\ s \in CharSeq /\ Len(s) = Len(w) + Len(b) + Len(v) /\ DOMAIN s = 1..Len(s)
  /\ Len(w) \in Nat /\ Len(b) \in Nat /\ Len(v) \in Nat
  /\ DOMAIN w = 1..Len(w) /\ DOMAIN b = 1..Len(b) /\ DOMAIN v = 1..Len(v)
  /\ \A i \in 1..Len(w) : s[i] = w[i]
  /\ \A i \in 1..Len(b) : s[Len(w) + i] = b[i]
  /\ \A i \in 1..Len(v) : s[Len(w) + Len(b) + i] = v[i]

\* The elements of three texts put together.
LEMMA ConcatThree ==
  ASSUME NEW w \in CharSeq, NEW b \in CharSeq, NEW v \in CharSeq
  PROVE  JoinedTo(w \o (b \o v), w, b, v)
<1> DEFINE s == w \o (b \o v)
<1> DEFINE t == b \o v
<1>1. /\ t \in CharSeq /\ Len(t) = Len(b) + Len(v) /\ Len(b) \in Nat /\ Len(v) \in Nat
      /\ DOMAIN b = 1..Len(b) /\ DOMAIN v = 1..Len(v)
      /\ \A i \in 1..Len(b) : t[i] = b[i]
      /\ \A i \in 1..Len(v) : t[Len(b) + i] = v[i]
  BY CharFacts, ConcatIndex
<1> HIDE DEF t
<1>2. /\ s = w \o t /\ s \in CharSeq /\ Len(s) = Len(w) + Len(t) /\ Len(w) \in Nat
      /\ DOMAIN w = 1..Len(w) /\ DOMAIN s = 1..(Len(w) + Len(t))
      /\ \A i \in 1..Len(w) : s[i] = w[i]
      /\ \A i \in 1..Len(t) : s[Len(w) + i] = t[i]
  BY <1>1, CharFacts, ConcatIndex DEF t
<1> HIDE DEF s
<1>3. ASSUME NEW i \in 1..Len(b) PROVE s[Len(w) + i] = b[i]
  BY <1>1, <1>2
<1>4. ASSUME NEW i \in 1..Len(v) PROVE s[Len(w) + Len(b) + i] = v[i]
  <2>1. Len(b) + i \in 1..Len(t) /\ Len(w) + (Len(b) + i) = Len(w) + Len(b) + i
    BY <1>1, <1>2
  <2>2. QED BY <1>1, <1>2, <2>1
<1> HIDE DEF s
<1>5. JoinedTo(s, w, b, v)
  BY <1>1, <1>2, <1>3, <1>4 DEF JoinedTo
<1>6. QED BY <1>5 DEF s

\* The least and the greatest number of a set.
LEMMA MinIs ==
  ASSUME NEW S, S \subseteq Int, NEW x \in S, \A y \in S : x <= y
  PROVE  Min(S) = x
<1>1. Min(S) \in S /\ \A y \in S : Min(S) <= y
  BY Zenon DEF Min
<1>2. \A m \in S : m \in Int
  OBVIOUS
<1> DEFINE m == Min(S)
<1>3. m \in S /\ m \in Int /\ x \in Int /\ m <= x /\ x <= m
  BY <1>1, <1>2
<1> HIDE DEF m
<1>4. m = x
  BY <1>3
<1>5. QED BY <1>4 DEF m

\* The greatest of a set of indices.
LEMMA MaxIs ==
  ASSUME NEW S, S \subseteq Int, NEW x \in S, \A y \in S : y <= x
  PROVE  Max(S) = x
<1>1. Max(S) \in S /\ \A y \in S : Max(S) >= y
  <2>1. \A y \in S : x >= y
    OBVIOUS
  <2>2. QED BY Zenon, <2>1 DEF Max
<1>2. \A m \in S : m \in Int
  OBVIOUS
<1> DEFINE m == Max(S)
<1>3. m \in S /\ m \in Int /\ x \in Int /\ m >= x /\ m <= x
  BY <1>1, <1>2
<1> HIDE DEF m
<1>4. m = x
  BY <1>3
<1>5. QED BY <1>4 DEF m

\* A text without its spaces before and behind.
LEMMA TrimOf ==
  ASSUME NEW w \in CharSeq, NEW b \in CharSeq, NEW v \in CharSeq,
         Blank(w), Blank(v), Solid(b)
  PROVE  Trim(w \o (b \o v)) = b
<1> DEFINE s == w \o (b \o v)
           solid == {i \in DOMAIN s : ~IsSpace(s[i])}
           lo == Len(w) + 1
           hi == Len(w) + Len(b)
<1>0. JoinedTo(s, w, b, v)
  BY ConcatThree
<1> HIDE DEF s
<1>1. /\ s \in CharSeq /\ Len(s) = Len(w) + Len(b) + Len(v) /\ DOMAIN s = 1..Len(s)
      /\ Len(w) \in Nat /\ Len(b) \in Nat /\ Len(v) \in Nat
      /\ DOMAIN w = 1..Len(w) /\ DOMAIN b = 1..Len(b) /\ DOMAIN v = 1..Len(v)
      /\ \A i \in 1..Len(w) : s[i] = w[i]
      /\ \A i \in 1..Len(b) : s[Len(w) + i] = b[i]
      /\ \A i \in 1..Len(v) : s[Len(w) + Len(b) + i] = v[i]
  BY Zenon, <1>0 DEF JoinedTo
<1>2. Len(b) >= 1
  BY <1>1 DEF Solid, CharSeq
<1>3. ASSUME NEW i \in solid PROVE lo <= i /\ i <= hi
  <2>1. ~(i \in 1..Len(w))
    BY <1>1 DEF Blank
  <2>2. ~(i - hi \in 1..Len(v))
    <3>1. i - hi \in 1..Len(v) => s[i] = v[i - hi]
      <4>1. i \in Nat /\ hi + (i - hi) = i
        BY <1>1
      <4>2. QED BY <1>1, <4>1
    <3>2. QED BY <1>1, <3>1 DEF Blank
  <2>3. QED BY <1>1, <2>1, <2>2
<1>4. lo \in solid /\ hi \in solid
  <2>1. s[lo] = b[1] /\ s[hi] = b[Len(b)] /\ lo \in DOMAIN s /\ hi \in DOMAIN s
    BY <1>1, <1>2
  <2>2. QED BY <2>1 DEF Solid
<1>5. solid \subseteq Int /\ lo \in Nat /\ hi \in Nat
  BY <1>1
<1> HIDE DEF solid, lo, hi
<1>6. Min(solid) = lo /\ Max(solid) = hi
  BY <1>3, <1>4, <1>5, MinIs, MaxIs
<1>7. Trim(s) = SubSeq(s, lo, hi)
  BY <1>4, <1>6 DEF Trim, solid
<1>8. SubSeq(s, lo, hi) = b
  <2>1. hi - lo + 1 = Len(b) /\ lo <= hi /\ \A i \in lo..hi : i \in DOMAIN s
    BY <1>1, <1>2 DEF lo, hi
  <2>2. \A i \in 1..Len(b) : s[lo + i - 1] = b[i]
    BY <1>1 DEF lo
  <2>3. s \in Seq(Characters) /\ b \in Seq(Characters)
    BY <1>1 DEF CharSeq
  <2> DEFINE q == SubSeq(s, lo, hi)
  <2>4. q \in Seq(Characters) /\ Len(q) = Len(b) /\ \A i \in 1..Len(q) : q[i] = b[i]
    <3>1. 1 <= lo /\ lo <= hi /\ hi <= Len(s)
      BY <1>1, <2>1 DEF lo, hi
    <3>2. /\ q \in Seq(Characters) /\ Len(q) = hi - lo + 1
          /\ \A i \in 1..(hi - lo + 1) : q[i] = s[lo + i - 1]
      BY <1>5, <2>3, <3>1
    <3>3. QED BY <2>1, <2>2, <3>2
  <2> HIDE DEF q
  <2>5. q = b
    BY <2>3, <2>4, SeqEqual
  <2>6. QED BY <2>5 DEF q
<1>9. QED BY <1>7, <1>8 DEF s

\* Nothing is left of a blank text.
LEMMA TrimBlank ==
  ASSUME NEW s, Blank(s)
  PROVE  Trim(s) = <<>>
  BY DEF Trim, Blank

\* What a text is before its last spaces.
LEMMA RightTrim ==
  ASSUME NEW s \in CharSeq
  PROVE  \E b \in CharSeq, w \in CharSeq :
           s = b \o w /\ Blank(w) /\ (b = <<>> \/ ~IsSpace(b[Len(b)]))
<1> DEFINE P(u) == \E b \in CharSeq, w \in CharSeq :
                      u = b \o w /\ Blank(w) /\ (b = <<>> \/ ~IsSpace(b[Len(b)]))
           T == {u \in CharSeq : P(u)}
<1>1. <<>> \in T
  <2>1. Blank(<<>>) /\ <<>> \o <<>> = <<>> /\ <<>> \in CharSeq
    BY CharFacts DEF Blank
  <2>2. QED BY <2>1
<1>2. ASSUME NEW u \in CharSeq, NEW c \in Characters, u \in T PROVE Append(u, c) \in T
  <2>0. Append(u, c) \in CharSeq
    BY CharFacts
  <2>1. PICK b \in CharSeq, w \in CharSeq :
           u = b \o w /\ Blank(w) /\ (b = <<>> \/ ~IsSpace(b[Len(b)]))
    BY <1>2
  <2>2. CASE IsSpace(c)
    <3> DEFINE v == Append(w, c)
    <3>1. v \in CharSeq /\ Append(u, c) = b \o v
      <4>1. u \o <<c>> = Append(u, c) /\ w \o <<c>> = v /\ <<c>> \in CharSeq
        BY CharFacts
      <4>2. (b \o w) \o <<c>> = b \o (w \o <<c>>)
        BY ZenonT(60), <4>1, CharFacts
      <4>3. QED BY <2>1, <4>1, <4>2, CharFacts
    <3>2. Blank(v)
      <4>1. DOMAIN v = DOMAIN w \cup {Len(w) + 1} /\ v[Len(w) + 1] = c
            /\ \A i \in DOMAIN w : v[i] = w[i]
        BY DEF CharSeq
      <4> HIDE DEF v
      <4>2. QED BY <2>1, <2>2, <4>1 DEF Blank
    <3> HIDE DEF v
    <3>3. QED BY <2>0, <2>1, <3>1, <3>2
  <2>3. CASE ~IsSpace(c)
    <3> DEFINE v == Append(u, c)
    <3>1. v[Len(v)] = c /\ v \o <<>> = v /\ Blank(<<>>) /\ <<>> \in CharSeq
      BY <2>0, CharFacts DEF CharSeq, Blank
    <3> HIDE DEF v
    <3>2. v \in CharSeq
      BY <2>0 DEF v
    <3>3. QED BY <2>3, <3>1, <3>2 DEF v
  <2>4. QED BY <2>2, <2>3
<1>3. \A u \in CharSeq, c \in Characters : u \in T => Append(u, c) \in T
  BY <1>2
<1>4. s \in T
  <2> HIDE DEF T
  <2>1. QED BY <1>1, <1>3, CharInduction
<1>5. QED BY <1>4

\* The place of a character that comes once before b.
LEMMA IndexOf ==
  ASSUME NEW a \in CharSeq, NEW c \in Characters, NEW b \in CharSeq, \A i \in DOMAIN a : a[i] # c
  PROVE  /\ Index(a \o (<<c>> \o b), c) = Len(a) + 1 /\ Len(a) + 1 # 0
         /\ Before(a \o (<<c>> \o b), Len(a) + 1) = a
         /\ Behind(a \o (<<c>> \o b), Len(a) + 1) = b
<1> DEFINE m == <<c>>
           s == a \o (m \o b)
           found == {i \in 1..Len(s) : s[i] = c}
           n == Len(a) + 1
<1>1. m \in CharSeq /\ Len(m) = 1 /\ m[1] = c
  BY CharFacts
<1> HIDE DEF m
<1>2. JoinedTo(s, a, m, b)
  BY <1>1, ConcatThree
<1> HIDE DEF s
<1>3. /\ s \in CharSeq /\ Len(s) = Len(a) + 1 + Len(b) /\ DOMAIN s = 1..Len(s)
      /\ Len(a) \in Nat /\ Len(b) \in Nat
      /\ DOMAIN a = 1..Len(a) /\ DOMAIN b = 1..Len(b)
      /\ \A i \in 1..Len(a) : s[i] = a[i]
      /\ \A i \in 1..1 : s[Len(a) + i] = m[i]
      /\ \A i \in 1..Len(b) : s[Len(a) + 1 + i] = b[i]
  BY <1>1, <1>2 DEF JoinedTo
<1>4. n \in found /\ found \subseteq Int /\ \A i \in found : n <= i
  <2>1. s[n] = c /\ n \in 1..Len(s)
    BY <1>1, <1>3
  <2>2. ASSUME NEW i \in found PROVE n <= i
    <3>1. ~(i \in 1..Len(a))
      BY <1>3
    <3>2. QED BY <1>3, <3>1
  <2>3. QED BY <2>1, <2>2
<1>5. Index(s, c) = n
  <2>1. Min(found) = n
    <3> HIDE DEF found, n
    <3>1. QED BY <1>4, MinIs
  <2>2. Index(s, c) = IF found # {} THEN Min(found) ELSE 0
    BY Zenon DEF Index, SelectInSeq
  <2>3. QED BY <1>4, <2>1, <2>2
<1>6. Before(s, n) = a
  <2> DEFINE q == SubSeq(s, 1, Len(a))
  <2>1. /\ q \in Seq(Characters) /\ Len(q) = Len(a) /\ \A i \in 1..Len(q) : q[i] = a[i]
        /\ a \in Seq(Characters)
    BY <1>3 DEF CharSeq
  <2>2. q = a
    <3> HIDE DEF q
    <3>1. QED BY <2>1, SeqEqual
  <2>3. n - 1 = Len(a)
    BY <1>3
  <2>4. QED BY <2>2, <2>3 DEF Before
<1>7. Behind(s, n) = b
  <2> DEFINE q == SubSeq(s, n + 1, Len(s))
  <2>1. /\ s \in Seq(Characters) /\ b \in Seq(Characters) /\ n + 1 \in Nat /\ 1 <= n + 1
        /\ Len(s) - (n + 1) + 1 = Len(b) /\ Len(s) \in Nat
    BY <1>3 DEF CharSeq
  <2>2. /\ q \in Seq(Characters) /\ Len(q) = Len(b)
        /\ \A i \in 1..Len(b) : q[i] = s[n + 1 + i - 1]
    BY <1>3, <2>1
  <2>3. \A i \in 1..Len(b) : n + 1 + i - 1 = Len(a) + 1 + i
    BY <1>3
  <2>4. \A i \in 1..Len(q) : q[i] = b[i]
    BY <1>3, <2>2, <2>3
  <2>5. q = b
    <3> HIDE DEF q
    <3>1. QED BY <2>1, <2>2, <2>4, SeqEqual
  <2>6. QED BY <2>5 DEF Behind
<1>8. Len(a) + 1 # 0
  BY <1>3
<1>9. QED BY <1>5, <1>6, <1>7, <1>8 DEF s, m

\* Texts can be put together in any order.
LEMMA Assoc ==
  ASSUME NEW a \in CharSeq, NEW b \in CharSeq, NEW c \in CharSeq
  PROVE  (a \o b) \o c = a \o (b \o c)
BY Zenon, CharFacts

\* A text with one more character.
LEMMA AppendChar ==
  ASSUME NEW s \in CharSeq, NEW c \in Characters
  PROVE  /\ Append(s, c) \in CharSeq /\ Append(s, c) # <<>> /\ Len(Append(s, c)) = Len(s) + 1
         /\ Len(s) \in Nat /\ DOMAIN Append(s, c) = DOMAIN s \cup {Len(s) + 1}
         /\ Append(s, c)[Len(s) + 1] = c /\ \A i \in DOMAIN s : Append(s, c)[i] = s[i]
<1>1. s \in Seq(Characters) /\ Len(s) \in Nat
  BY DEF CharSeq
<1>2. QED BY <1>1, AppendType DEF CharSeq

\* The first and the last character of two texts put together.
LEMMA ConcatEnds ==
  ASSUME NEW a \in CharSeq, NEW b \in CharSeq
  PROVE  /\ a # <<>> => a \o b # <<>> /\ (a \o b)[1] = a[1]
         /\ b # <<>> => a \o b # <<>> /\ (a \o b)[Len(a \o b)] = b[Len(b)]
<1> DEFINE s == a \o b
<1>1. /\ s \in CharSeq /\ Len(a) \in Nat /\ Len(b) \in Nat /\ Len(s) = Len(a) + Len(b)
      /\ \A i \in 1..Len(a) : s[i] = a[i]
      /\ \A i \in 1..Len(b) : s[Len(a) + i] = b[i]
  BY ConcatIndex, CharFacts
<1> HIDE DEF s
<1>2. a # <<>> => Len(a) >= 1
  BY DEF CharSeq
<1>3. b # <<>> => Len(b) >= 1
  BY DEF CharSeq
<1>4. Len(s) # 0 => s # <<>>
  BY DEF CharSeq
<1>5. ASSUME a # <<>> PROVE s # <<>> /\ s[1] = a[1]
  BY <1>1, <1>2, <1>4, <1>5
<1>6. ASSUME b # <<>> PROVE s # <<>> /\ s[Len(s)] = b[Len(b)]
  BY <1>1, <1>3, <1>4, <1>6
<1>7. QED BY <1>5, <1>6 DEF s

\* A text that is not empty is a text and a last character.
LEMMA LastChar ==
  ASSUME NEW s \in CharSeq, s # <<>>
  PROVE  \E x \in CharSeq, c \in Characters :
           s = Append(x, c) /\ c = s[Len(s)] /\ Len(s) = Len(x) + 1
<1>1. PICK x \in CharSeq, c \in Characters : s = Append(x, c)
  BY SequenceEmptyOrAppend DEF CharSeq
<1>2. s[Len(x) + 1] = c /\ Len(s) = Len(x) + 1
  BY <1>1, AppendChar
<1>3. QED BY <1>1, <1>2

\* The texts that Esc writes are put together as the texts are.
LEMMA EscConcat ==
  ASSUME NEW s \in CharSeq, NEW t \in CharSeq
  PROVE  Esc(s \o t) = Esc(s) \o Esc(t)
<1> DEFINE T == {u \in CharSeq : Esc(s \o u) = Esc(s) \o Esc(u)}
<1>1. <<>> \in T
  BY EscLaws, CharFacts
<1>2. ASSUME NEW u \in CharSeq, NEW c \in Characters, u \in T PROVE Append(u, c) \in T
  <2>1. /\ s \o u \in CharSeq /\ Append(u, c) \in CharSeq /\ EscOf(c) \in CharSeq
        /\ Esc(s) \in CharSeq /\ Esc(u) \in CharSeq
    BY CharFacts, EscLaws, EscOfType
  <2>2. s \o Append(u, c) = Append(s \o u, c)
    BY DEF CharSeq
  <2>3. Esc(Append(s \o u, c)) = Esc(s \o u) \o EscOf(c)
    BY <2>1, EscLaws
  <2>4. Esc(Append(u, c)) = Esc(u) \o EscOf(c)
    BY EscLaws
  <2>5. (Esc(s) \o Esc(u)) \o EscOf(c) = Esc(s) \o (Esc(u) \o EscOf(c))
    <3> DEFINE a == Esc(s)
               b == Esc(u)
               d == EscOf(c)
    <3>1. a \in CharSeq /\ b \in CharSeq /\ d \in CharSeq
      BY <2>1
    <3> HIDE DEF a, b, d
    <3>2. (a \o b) \o d = a \o (b \o d)
      BY ZenonT(60), <3>1, Assoc
    <3>3. QED BY <3>2 DEF a, b, d
  <2>6. Esc(s \o Append(u, c)) = Esc(s) \o Esc(Append(u, c))
    BY <1>2, <2>2, <2>3, <2>4, <2>5
  <2>7. QED BY <2>1, <2>6
<1>3. \A u \in CharSeq, c \in Characters : u \in T => Append(u, c) \in T
  BY <1>2
<1>4. t \in T
  <2> HIDE DEF T
  <2>1. QED BY <1>1, <1>3, CharInduction
<1>5. QED BY <1>4

\* Characters that need no escape are written as they are.
LEMMA EscPlain ==
  ASSUME NEW w \in CharSeq, \A i \in DOMAIN w : w[i] \notin {"\\", "\""}
  PROVE  Esc(w) = w
<1> DEFINE T == {u \in CharSeq : (\A i \in DOMAIN u : u[i] \notin {"\\", "\""}) => Esc(u) = u}
<1>1. <<>> \in T
  BY EscLaws, CharFacts
<1>2. ASSUME NEW u \in CharSeq, NEW c \in Characters, u \in T PROVE Append(u, c) \in T
  <2> DEFINE v == Append(u, c)
  <2>1. v \in CharSeq
    BY CharFacts
  <2>2. /\ Len(u) + 1 \in DOMAIN v /\ v[Len(u) + 1] = c
        /\ \A i \in DOMAIN u : i \in DOMAIN v /\ v[i] = u[i]
    <3>1. /\ Len(u) \in Nat /\ DOMAIN v = DOMAIN u \cup {Len(u) + 1}
          /\ v[Len(u) + 1] = c /\ \A i \in DOMAIN u : v[i] = u[i]
      BY AppendChar
    <3> HIDE DEF v
    <3>2. QED BY <3>1
  <2>3. Esc(v) = Esc(u) \o EscOf(c) /\ u \o <<c>> = v
    BY EscLaws, CharFacts
  <2> HIDE DEF v
  <2>4. ASSUME \A i \in DOMAIN v : v[i] \notin {"\\", "\""} PROVE Esc(v) = v
    <3>1. c \notin {"\\", "\""}
      BY <2>2, <2>4
    <3>2. \A i \in DOMAIN u : u[i] \notin {"\\", "\""}
      BY <2>2, <2>4
    <3>3. Esc(u) = u
      BY <1>2, <3>2
    <3>4. EscOf(c) = <<c>>
      BY <3>1 DEF EscOf
    <3>5. QED BY <2>3, <3>3, <3>4
  <2>5. v \in T
    BY <2>1, <2>4
  <2>6. QED BY <2>5 DEF v
<1>3. \A u \in CharSeq, c \in Characters : u \in T => Append(u, c) \in T
  BY <1>2
<1>4. w \in T
  <2> HIDE DEF T
  <2>1. QED BY <1>1, <1>3, CharInduction
<1>5. QED BY <1>4

\* A text and what is written of it end with the same character.
LEMMA EscEnd ==
  ASSUME NEW u \in CharSeq, u # <<>>
  PROVE  Esc(u) # <<>> /\ Esc(u)[Len(Esc(u))] = u[Len(u)]
<1>1. PICK x \in CharSeq, c \in Characters : u = Append(x, c) /\ c = u[Len(u)]
  BY LastChar
<1>2. Esc(u) = Esc(x) \o EscOf(c) /\ Esc(x) \in CharSeq /\ EscOf(c) \in CharSeq
  BY <1>1, EscLaws, EscOfType
<1>3. EscOf(c) # <<>> /\ EscOf(c)[Len(EscOf(c))] = c
  BY DEF EscOf
<1> DEFINE a == Esc(x)
           b == EscOf(c)
<1>4. a \in CharSeq /\ b \in CharSeq /\ Esc(u) = a \o b /\ b # <<>> /\ b[Len(b)] = c
  BY <1>2, <1>3
<1> HIDE DEF a, b
<1>5. a \o b # <<>> /\ (a \o b)[Len(a \o b)] = c
  BY <1>4, ConcatEnds
<1>6. QED BY <1>1, <1>4, <1>5

\* Trimming a text that ends in the middle of a quoted one only takes spaces of that one.
LEMMA TrimOpen ==
  ASSUME NEW h \in CharSeq, NEW w \in CharSeq, NEW u \in CharSeq, Solid(h), Blank(w)
  PROVE  \E x \in CharSeq, y \in CharSeq :
           /\ u = x \o y /\ Solid(h \o Esc(x)) /\ Trim(w \o (h \o Esc(u))) = h \o Esc(x)
<1>1. PICK x \in CharSeq, y \in CharSeq :
        u = x \o y /\ Blank(y) /\ (x = <<>> \/ ~IsSpace(x[Len(x)]))
  BY RightTrim
<1>2. Esc(y) = y
  <2>1. \A i \in DOMAIN y : y[i] \notin {"\\", "\""}
    BY <1>1 DEF Blank, IsSpace
  <2>2. QED BY <2>1, EscPlain
<1> DEFINE e == Esc(x)
           b == h \o e
<1>3. Esc(u) = e \o y /\ e \in CharSeq /\ b \in CharSeq
  <2>1. Esc(u) = e \o y
    BY Zenon, <1>1, <1>2, EscConcat
  <2>2. e \in CharSeq
    BY EscLaws
  <2> HIDE DEF e
  <2>3. QED BY <2>1, <2>2, CharFacts
<1>4. h \o Esc(u) = b \o y
  <2> HIDE DEF e
  <2>1. (h \o e) \o y = h \o (e \o y)
    BY SMTT(40), <1>3, Assoc
  <2>2. QED BY <1>3, <2>1
<1>5. h # <<>> /\ ~IsSpace(h[1]) /\ ~IsSpace(h[Len(h)])
  BY DEF Solid
<1>6. Solid(b)
  <2>1. CASE x = <<>>
    <3>1. e = <<>> /\ b = h
      BY <2>1, EscLaws, CharFacts
    <3>2. QED BY <3>1
  <2>2. CASE x # <<>>
    <3>1. e # <<>> /\ e[Len(e)] = x[Len(x)]
      BY <2>2, EscEnd
    <3> HIDE DEF e
    <3>2. b # <<>> /\ b[1] = h[1] /\ b[Len(b)] = e[Len(e)]
      BY <1>3, <1>5, <3>1, ConcatEnds
    <3> HIDE DEF b
    <3>3. QED BY <1>1, <1>5, <2>2, <3>1, <3>2 DEF Solid
  <2>3. QED BY <2>1, <2>2
<1>7. Trim(w \o (b \o y)) = b
  <2> HIDE DEF b
  <2>1. QED BY <1>1, <1>3, <1>6, TrimOf
<1>8. Trim(w \o (h \o Esc(u))) = b
  BY <1>4, <1>7
<1>9. QED BY <1>1, <1>6, <1>8

\* What is between the first and the last character.
LEMMA InnerOf ==
  ASSUME NEW a \in Characters, NEW b \in CharSeq, NEW c \in Characters
  PROVE  /\ Inner(<<a>> \o (b \o <<c>>)) = b
         /\ Len(<<a>> \o (b \o <<c>>)) >= 2 /\ <<a>> \o (b \o <<c>>) \in CharSeq
         /\ Head(<<a>> \o (b \o <<c>>)) = a /\ Last(<<a>> \o (b \o <<c>>)) = c
<1> DEFINE p == <<a>>
           q == <<c>>
           s == p \o (b \o q)
           n == Len(b)
<1>1. p \in CharSeq /\ q \in CharSeq /\ Len(p) = 1 /\ Len(q) = 1 /\ p[1] = a /\ q[1] = c
  BY CharFacts
<1> HIDE DEF p, q
<1>2. JoinedTo(s, p, b, q)
  BY <1>1, ConcatThree
<1> HIDE DEF s
<1>3. /\ s \in CharSeq /\ Len(s) = n + 2 /\ DOMAIN s = 1..Len(s) /\ n \in Nat
      /\ \A i \in 1..n : s[1 + i] = b[i]
      /\ \A i \in 1..1 : s[i] = p[i]
      /\ \A i \in 1..1 : s[1 + n + i] = q[i]
  BY <1>1, <1>2 DEF JoinedTo
<1>4. s[1] = a /\ s[n + 2] = c
  <2>1. 1 \in 1..1 /\ 1 + n + 1 = n + 2
    BY <1>3
  <2>2. QED BY <1>1, <1>3, <2>1
<1>5. SubSeq(s, 2, n + 1) = b
  <2> DEFINE r == SubSeq(s, 2, n + 1)
  <2>1. s \in Seq(Characters) /\ b \in Seq(Characters)
    BY <1>3 DEF CharSeq
  <2>2. r \in Seq(Characters) /\ Len(r) = n /\ \A i \in 1..n : r[i] = s[2 + i - 1]
    BY <1>3, <2>1
  <2>3. \A i \in 1..n : 2 + i - 1 = 1 + i
    BY <1>3
  <2>4. \A i \in 1..Len(r) : r[i] = b[i]
    BY <1>3, <2>2, <2>3
  <2>5. r = b
    <3> HIDE DEF r
    <3>1. QED BY <2>1, <2>2, <2>4, SeqEqual
  <2>6. QED BY <2>5
<1>6. Inner(s) = b
  <2>1. Len(s) - 1 = n + 1
    BY <1>3
  <2>2. QED BY <1>5, <2>1 DEF Inner
<1>7. Head(s) = a /\ Last(s) = c
  <2>1. s \in Seq(Characters) /\ s # <<>>
    BY <1>3 DEF CharSeq
  <2>2. QED BY <1>3, <1>4, <2>1 DEF Last
<1>8. Len(s) >= 2
  BY <1>3
<1>9. QED BY <1>3, <1>6, <1>7, <1>8 DEF s, p, q

\* The ends of a text that is not empty.
LEMMA TextEnds ==
  ASSUME NEW s \in CharSeq, Len(s) >= 1
  PROVE  s # <<>> /\ Head(s) = s[1] /\ Last(s) = s[Len(s)]
BY DEF CharSeq, Last

\* Two characters are two texts of one.
LEMMA TwoChars ==
  \A i \in Characters, j \in Characters : <<i, j>> = <<i>> \o <<j>>
<1>1. SUFFICES ASSUME NEW i \in Characters, NEW j \in Characters PROVE <<i, j>> = <<i>> \o <<j>>
  OBVIOUS
<1> DEFINE p == <<i>>
           q == <<j>>
<1>2. Append(p, j) = <<i, j>> /\ p \in CharSeq
  <2>1. <<i>> \in Seq(Characters) /\ <<i, j>> = Append(<<i>>, j)
    OBVIOUS
  <2>2. p \in CharSeq
    BY CharFacts
  <2>3. QED BY <2>1, <2>2
<1> HIDE DEF p
<1>3. p \o q = Append(p, j)
  BY <1>2, CharFacts
<1>4. QED BY <1>2, <1>3 DEF p

\* What Quote writes.
LEMMA QuoteLaws ==
  ASSUME NEW v \in CharSeq
  PROVE  /\ Quote(v) \in CharSeq /\ Quote(v) = <<"\"">> \o (Esc(v) \o <<"\"">>)
         /\ Solid(Quote(v)) /\ Enclosed(Quote(v), "\"", "\"") /\ Inner(Quote(v)) = Esc(v)
<1> DEFINE c == "\""
           q == <<c>>
           e == Esc(v)
           s == q \o (e \o q)
<1>1. e \in CharSeq /\ c \in Characters /\ ~IsSpace(c)
  BY EscLaws, CharactersAssumption DEF IsSpace
<1>2. Quote(v) = (q \o e) \o q
  BY DEF Quote
<1> HIDE DEF c, e
<1>3. q \in CharSeq
  BY <1>1, CharFacts
<1>4. Inner(s) = e /\ Len(s) >= 2 /\ s \in CharSeq /\ Head(s) = c /\ Last(s) = c
  BY <1>1, InnerOf
<1> HIDE DEF q
<1>5. Quote(v) = s
  <2>1. (q \o e) \o q = q \o (e \o q)
    BY <1>1, <1>3, Assoc
  <2>2. QED BY <1>2, <2>1
<1> HIDE DEF s
<1>6. Enclosed(s, c, c)
  BY <1>4 DEF Enclosed
<1>7. Solid(s)
  <2>1. Len(s) \in Nat
    BY <1>4 DEF CharSeq
  <2>2. Len(s) >= 1
    BY <1>4, <2>1
  <2>3. s # <<>> /\ Head(s) = s[1] /\ Last(s) = s[Len(s)]
    BY <1>4, <2>2, TextEnds
  <2>4. QED BY <1>1, <1>4, <2>3 DEF Solid
<1>8. QED BY <1>4, <1>5, <1>6, <1>7 DEF s, e, q, c

\* What is quoted is read back.
LEMMA QuotedText ==
  ASSUME NEW w \in CharSeq, NEW v \in CharSeq, Blank(w)
  PROVE  ParseQuoted(w \o Quote(v)) = Ok(v) /\ Trim(w \o Quote(v)) = Quote(v)
<1> DEFINE s == Quote(v)
           z == <<>>
<1>1. s \in CharSeq /\ Solid(s) /\ Enclosed(s, "\"", "\"") /\ Inner(s) = Esc(v)
  BY QuoteLaws
<1> HIDE DEF s
<1>2. Blank(z) /\ z \in CharSeq /\ s \o z = s
  <2>1. Blank(z)
    BY DEF Blank
  <2>2. QED BY <1>1, <2>1, CharFacts
<1> HIDE DEF z
<1>3. Trim(w \o (s \o z)) = s
  BY <1>1, <1>2, TrimOf
<1>4. Trim(w \o s) = s
  BY <1>2, <1>3
<1>5. Unescape(Esc(v)) = Ok(v)
  BY UnescapeEsc
<1>6. ParseQuoted(w \o s) = Ok(v)
  BY <1>1, <1>4, <1>5 DEF ParseQuoted
<1>7. QED BY <1>4, <1>6 DEF s

\* A quoted text that is cut off is not read: its last character is no quote, or an escaped one.
LEMMA OpenText ==
  ASSUME NEW w \in CharSeq, NEW u \in CharSeq, Blank(w)
  PROVE  ParseQuoted(w \o (<<"\"">> \o Esc(u))) = Fail
<1> DEFINE q == <<"\"">>
           b == <<"\\">>
<1>1. q \in CharSeq /\ b \in CharSeq /\ Solid(q) /\ "\"" \in Characters
  BY CharFacts, CharactersAssumption DEF Solid, IsSpace
<1> HIDE DEF q
<1>2. PICK x \in CharSeq : Trim(w \o (q \o Esc(u))) = q \o Esc(x)
  <2>1. \E x \in CharSeq, y \in CharSeq :
          u = x \o y /\ Solid(q \o Esc(x)) /\ Trim(w \o (q \o Esc(u))) = q \o Esc(x)
    BY <1>1, TrimOpen
  <2>2. QED BY Zenon, <2>1
<1> DEFINE e == Esc(x)
           t == q \o e
<1>3. e \in CharSeq /\ t \in CharSeq
  BY <1>1, EscLaws, CharFacts
<1>4. ASSUME Enclosed(t, "\"", "\"") PROVE Unescape(Inner(t)) = Fail
  <2>1. e # <<>>
    <3>1. e = <<>> => t = q
      BY <1>1, CharFacts
    <3>2. Len(t) >= 2
      BY <1>4 DEF Enclosed
    <3>3. ~(Len(q) >= 2)
      BY DEF q
    <3>4. QED BY Zenon, <3>1, <3>2, <3>3
  <2>2. x # <<>>
    BY <2>1, EscLaws
  <2>3. PICK y \in CharSeq, c \in Characters : x = Append(y, c) /\ c = x[Len(x)]
    BY <2>2, LastChar
  <2>4. c = "\""
    <3>1. e[Len(e)] = c
      BY <2>2, <2>3, EscEnd
    <3> HIDE DEF e
    <3>2. t # <<>> /\ t[Len(t)] = e[Len(e)]
      BY <1>1, <1>3, <2>1, ConcatEnds
    <3>3. Last(t) = "\""
      BY <1>4 DEF Enclosed
    <3>4. QED BY <3>1, <3>2, <3>3 DEF Last
  <2> DEFINE f == Esc(y)
             g == f \o b
             r == <<"\"">>
  <2>5. e = f \o <<"\\", "\"">> /\ f \in CharSeq
    BY <2>3, <2>4, EscLaws DEF EscOf
  <2>6. <<"\\", "\"">> = b \o r /\ b \in CharSeq /\ r \in CharSeq
    <3>1. "\\" \in Characters /\ "\"" \in Characters
      BY CharactersAssumption
    <3>2. \A i \in Characters, j \in Characters : <<i, j>> = <<i>> \o <<j>>
      BY TwoChars
    <3>3. b \o r = <<"\\", "\"">>
      BY Zenon, <3>1, <3>2
    <3>4. QED BY <3>1, <3>3, CharFacts
  <2>7. g \in CharSeq /\ e = g \o r
    <3> HIDE DEF e, f, b, r
    <3>1. (f \o b) \o r = f \o (b \o r)
      BY <2>5, <2>6, Assoc
    <3>2. f \o b \in CharSeq
      BY <2>5, <2>6, CharFacts
    <3>3. QED BY <2>5, <2>6, <3>1, <3>2
  <2>8. Inner(t) = g
    <3> HIDE DEF g, e
    <3>1. Inner(<<"\"">> \o (g \o <<"\"">>)) = g
      BY <1>1, <2>7, InnerOf
    <3>2. QED BY <2>7, <3>1 DEF q
  <2>9. Unescape(g) = Fail
    BY UnescapeEsc
  <2>10. QED BY <2>8, <2>9
<1>5. Trim(w \o (q \o Esc(u))) = t
  BY <1>2
<1> HIDE DEF t
<1>6. ParseQuoted(w \o (q \o Esc(u))) = Fail
  BY <1>4, <1>5 DEF ParseQuoted
<1>7. QED BY <1>6 DEF q

\* Four characters are two and two texts of one.
LEMMA FourChars ==
  ASSUME NEW i \in Characters, NEW j \in Characters, NEW k \in Characters, NEW l \in Characters
  PROVE  <<i, j, k, l>> = <<i, j>> \o (<<k>> \o <<l>>)
<1> DEFINE p == <<i, j>>
           r == <<i, j, k>>
           c == <<k>>
           d == <<l>>
<1>1. p \in Seq(Characters) /\ r = Append(p, k)
  OBVIOUS
<1>2. r \in Seq(Characters) /\ <<i, j, k, l>> = Append(r, l)
  OBVIOUS
<1>3. p \in CharSeq /\ r \in CharSeq /\ c \in CharSeq /\ d \in CharSeq
  BY <1>1, <1>2, CharFacts DEF CharSeq
<1> HIDE DEF p, r
<1>4. p \o c = r /\ r \o d = <<i, j, k, l>>
  BY <1>1, <1>2, <1>3, CharFacts
<1> HIDE DEF c, d
<1>5. (p \o c) \o d = p \o (c \o d)
  BY <1>3, Assoc
<1>6. QED BY <1>4, <1>5 DEF p, c, d

\* A key that stands for itself before an equals sign.
PlainKey(k) == k \in Characters \ {"=", ",", "\"", "#", "["} /\ ~IsSpace(k)

\* A field up to its value, and up to the end of a value without its last quote.
Start(k) == <<k, " ", "=", " ">>
Opened(k, u) == Start(k) \o (<<"\"">> \o Esc(u))

\* The beginning of a field: its key is found before its equals sign.
LEMMA StartLaws ==
  ASSUME NEW k, PlainKey(k), NEW x \in CharSeq
  PROVE  /\ Start(k) \in CharSeq /\ Start(k) # <<>> /\ Start(k)[1] = k
         /\ Index(Start(k) \o x, "=") # 0
         /\ Trim(Before(Start(k) \o x, Index(Start(k) \o x, "="))) = <<k>>
         /\ Behind(Start(k) \o x, Index(Start(k) \o x, "=")) = <<" ">> \o x
<1> DEFINE b == " "
           e == "="
           p == <<k, b>>
           m == <<e>>
           o == <<b>>
           s == Start(k)
           t == s \o x
<1>1. k \in Characters /\ b \in Characters /\ e \in Characters /\ k # e /\ b # e /\ ~IsSpace(k) /\ IsSpace(b)
  BY CharactersAssumption DEF PlainKey, IsSpace
<1>2. s = <<k, b, e, b>>
  BY DEF Start
<1> HIDE DEF b, e, s
<1>3. s = p \o (m \o o) /\ s \in CharSeq /\ p \in CharSeq /\ m \in CharSeq /\ o \in CharSeq
  <2>1. <<k, b, e, b>> = p \o (m \o o)
    BY <1>1, FourChars
  <2>2. p \in CharSeq /\ m \in CharSeq /\ o \in CharSeq
    BY <1>1, CharFacts
  <2>3. <<k, b, e, b>> \in CharSeq
    BY <1>1, CharFacts
  <2>4. QED BY <1>2, <2>1, <2>2, <2>3
<1>4. s # <<>> /\ s[1] = k
  <2> HIDE DEF p, m, o
  <2>1. s \in Seq(Characters)
    BY <1>3 DEF CharSeq
  <2>2. <<k, b, e, b>> # <<>> /\ <<k, b, e, b>>[1] = k
    OBVIOUS
  <2>3. QED BY <1>2, <2>2
<1>5. t = p \o (m \o (o \o x))
  <2> HIDE DEF p, m, o
  <2> DEFINE mo == m \o o
             ox == o \o x
  <2>0. p \in CharSeq /\ m \in CharSeq /\ o \in CharSeq
    BY <1>3
  <2>1. mo \in CharSeq
    BY <2>0, CharFacts
  <2>2. mo \o x = m \o ox
    BY <2>0, Assoc
  <2> HIDE DEF mo, ox
  <2>3. (p \o mo) \o x = p \o (mo \o x)
    BY SMTT(40), <2>0, <2>1, Assoc
  <2>4. QED BY <1>3, <2>2, <2>3 DEF mo, ox
<1>6. \A i \in DOMAIN p : p[i] # e
  BY <1>1
<1>7. Index(t, e) # 0 /\ Before(t, Index(t, e)) = p /\ Behind(t, Index(t, e)) = o \o x
  <2> DEFINE y == o \o x
  <2>1. y \in CharSeq
    BY <1>3, CharFacts
  <2> HIDE DEF y, p
  <2>2. /\ Index(p \o (<<e>> \o y), e) = Len(p) + 1 /\ Len(p) + 1 # 0
        /\ Before(p \o (<<e>> \o y), Len(p) + 1) = p
        /\ Behind(p \o (<<e>> \o y), Len(p) + 1) = y
    BY Zenon, <1>1, <1>3, <1>6, <2>1, IndexOf
  <2>3. t = p \o (<<e>> \o y)
    BY <1>5 DEF y
  <2> HIDE DEF t
  <2>4. QED BY <2>2, <2>3 DEF y
<1>8. Trim(p) = <<k>>
  <2> DEFINE z == <<>>
             c == <<k>>
  <2>1. z \in CharSeq /\ c \in CharSeq /\ p = c \o o
    BY <1>1, CharFacts, TwoChars
  <2>2. Blank(z) /\ Blank(o) /\ Solid(c)
    BY <1>1 DEF Blank, Solid
  <2>3. c \o o \in CharSeq
    BY <1>3, <2>1, CharFacts
  <2> HIDE DEF z, c, o, p
  <2>4. Trim(z \o (c \o o)) = c
    BY <1>3, <2>1, <2>2, TrimOf
  <2>5. z \o (c \o o) = c \o o
    BY <2>3, CharFacts DEF z
  <2>6. QED BY <2>1, <2>4, <2>5 DEF c
<1> HIDE DEF p, t
<1>9. QED BY <1>3, <1>4, <1>7, <1>8 DEF s, t, e, o, b

\* A part of a text is a text.
LEMMA SubType ==
  ASSUME NEW s \in CharSeq, NEW a \in Nat, NEW b \in Int, a >= 1, b <= Len(s)
  PROVE  SubSeq(s, a, b) \in CharSeq
<1>1. s \in Seq(Characters) /\ Len(s) \in Nat
  BY DEF CharSeq
<1>2. SubSeq(s, a, b) \in Seq(Characters)
  <2>1. CASE a <= b
    BY <1>1, <2>1
  <2>2. CASE ~(a <= b)
    BY <1>1, <2>2
  <2>3. QED BY <2>1, <2>2
<1>3. QED BY <1>2 DEF CharSeq

\* A set of numbers up to m has a least and a greatest one.
LEMMA MinMaxIn ==
  ASSUME NEW m \in Nat, NEW S, S \subseteq 1..m, S # {}
  PROVE  /\ Min(S) \in S /\ Max(S) \in S
         /\ \A i \in S : Min(S) <= i /\ i <= Max(S)
<1>1. S \subseteq Nat /\ S \subseteq Int
  OBVIOUS
<1>2. PICK x \in S : \A y \in S : x <= y
  BY <1>1, Least
<1>3. Min(S) = x
  BY <1>1, <1>2, MinIs
<1> DEFINE D == {m - i : i \in S}
<1>4. D \subseteq Nat /\ D # {}
  <2>1. \A i \in S : i \in 1..m /\ m - i \in Nat
    OBVIOUS
  <2>2. D # {}
    BY Zenon
  <2>3. QED BY <2>1, <2>2
<1>5. PICK d \in D : \A y \in D : d <= y
  <2> HIDE DEF D
  <2>1. QED BY <1>4, Least
<1>6. PICK z \in S : d = m - z
  <2>1. d \in D
    OBVIOUS
  <2>2. QED BY Zenon, <2>1
<1>7. ASSUME NEW y \in S PROVE y <= z
  <2>1. m - y \in D
    BY Zenon
  <2>2. d <= m - y
    BY <1>5, <2>1
  <2>3. y \in Int /\ z \in Int
    BY <1>1
  <2> HIDE DEF D
  <2>4. QED BY <1>6, <2>2, <2>3
<1>8. Max(S) = z
  BY <1>1, <1>7, MaxIs
<1>9. QED BY <1>2, <1>3, <1>7, <1>8

\* Trimming a text keeps the characters that are no spaces.
LEMMA TrimType ==
  ASSUME NEW s \in CharSeq
  PROVE  /\ Trim(s) \in CharSeq
         /\ \A i \in DOMAIN s : ~IsSpace(s[i]) => \E j \in DOMAIN Trim(s) : Trim(s)[j] = s[i]
<1> DEFINE solid == {i \in DOMAIN s : ~IsSpace(s[i])}
<1>1. s \in Seq(Characters) /\ Len(s) \in Nat /\ DOMAIN s = 1..Len(s)
  BY DEF CharSeq
<1>2. CASE solid = {}
  <2>1. Trim(s) = <<>>
    BY <1>2 DEF Trim
  <2>2. QED BY <1>2, <2>1, CharFacts
<1>3. CASE solid # {}
  <2> DEFINE lo == Min(solid)
             hi == Max(solid)
             t == SubSeq(s, lo, hi)
  <2>1. solid \subseteq 1..Len(s)
    BY <1>1
  <2>2. Trim(s) = t
    BY <1>3 DEF Trim
  <2>3. lo \in solid /\ hi \in solid /\ \A i \in solid : lo <= i /\ i <= hi
    <3> HIDE DEF solid
    <3>1. QED BY <1>1, <1>3, <2>1, MinMaxIn
  <2>4. lo \in 1..Len(s) /\ hi \in 1..Len(s) /\ lo <= hi
    BY <2>1, <2>3
  <2> HIDE DEF lo, hi
  <2>5. /\ t \in Seq(Characters) /\ Len(t) = hi - lo + 1
        /\ \A j \in 1..(hi - lo + 1) : t[j] = s[lo + j - 1]
    BY <1>1, <2>4
  <2> HIDE DEF t
  <2>6. ASSUME NEW i \in DOMAIN s, ~IsSpace(s[i]) PROVE \E j \in DOMAIN t : t[j] = s[i]
    <3>1. lo <= i /\ i <= hi
      BY <2>3, <2>6
    <3>2. i - lo + 1 \in 1..(hi - lo + 1) /\ lo + (i - lo + 1) - 1 = i
      BY <1>1, <2>4, <3>1
    <3>3. t[i - lo + 1] = s[i]
      BY <2>5, <3>2
    <3>4. i - lo + 1 \in DOMAIN t
      BY <2>5, <3>2
    <3>5. QED BY <3>3, <3>4
  <2>7. t \in CharSeq
    BY <2>5 DEF CharSeq
  <2>8. QED BY <2>2, <2>6, <2>7
<1>4. QED BY <1>2, <1>3

\* The place of a character, 0 for none, and what is before and behind it.
LEMMA IndexType ==
  ASSUME NEW s \in CharSeq, NEW c
  PROVE  /\ Index(s, c) \in 0..Len(s) /\ Before(s, Index(s, c)) \in CharSeq
         /\ Behind(s, Index(s, c)) \in CharSeq
         /\ (\A i \in DOMAIN s : s[i] # c) => Index(s, c) = 0
<1> DEFINE found == {i \in 1..Len(s) : s[i] = c}
           n == Index(s, c)
<1>1. n = IF found # {} THEN Min(found) ELSE 0
  BY Zenon DEF Index, SelectInSeq
<1>2. Len(s) \in Nat /\ DOMAIN s = 1..Len(s)
  BY DEF CharSeq
<1>3. n \in 0..Len(s)
  <2>1. CASE found = {}
    BY <1>1, <1>2, <2>1
  <2>2. CASE found # {}
    <3>1. found \subseteq 1..Len(s)
      OBVIOUS
    <3> HIDE DEF found
    <3>2. Min(found) \in found
      BY <1>2, <2>2, <3>1, MinMaxIn
    <3>3. n = Min(found)
      BY <1>1, <2>2
    <3>4. Min(found) \in 1..Len(s)
      BY <3>1, <3>2
    <3> HIDE DEF n
    <3>5. QED BY <1>2, <3>3, <3>4
  <2>3. QED BY <2>1, <2>2
<1>4. (\A i \in DOMAIN s : s[i] # c) => n = 0
  BY <1>1, <1>2
<1> HIDE DEF n
<1>5. Before(s, n) \in CharSeq
  <2>1. 1 \in Nat /\ n - 1 \in Int /\ 1 >= 1 /\ n - 1 <= Len(s)
    BY <1>2, <1>3
  <2>2. QED BY <2>1, SubType DEF Before
<1>6. Behind(s, n) \in CharSeq
  <2>1. n + 1 \in Nat /\ Len(s) \in Int /\ n + 1 >= 1 /\ Len(s) <= Len(s)
    BY <1>2, <1>3
  <2>2. QED BY <2>1, SubType DEF Behind
<1>7. QED BY <1>3, <1>4, <1>5, <1>6 DEF n

\* What is enclosed is a text.
LEMMA InnerType ==
  ASSUME NEW s \in CharSeq
  PROVE  Inner(s) \in CharSeq
<1>1. 2 \in Nat /\ Len(s) - 1 \in Int /\ 2 >= 1 /\ Len(s) - 1 <= Len(s)
  BY DEF CharSeq
<1>2. QED BY <1>1, SubType DEF Inner

\* What a text between quotes can be read as.
Results(S) == {Fail} \cup {Ok(v) : v \in S}

\* A quoted value is a text, if it is read.
LEMMA QuotedType ==
  ASSUME NEW s \in CharSeq
  PROVE  ParseQuoted(s) \in Results(CharSeq)
<1> DEFINE first == EscapeState(<<>>, FALSE, TRUE)
<1>1. first \in EscapeStates
  BY CharFacts DEF EscapeState, EscapeStates
<1> HIDE DEF first
<1>2. TextLaws(ReadEscape, EscapeStates)
  BY ReadEscapeLaws, TextScan
<1>3. \A t \in CharSeq : Scan(ReadEscape, first, t) \in EscapeStates
  BY <1>1, <1>2 DEF TextLaws
<1>4. \A t \in CharSeq : Unescape(t) \in Results(CharSeq)
  BY <1>3 DEF Unescape, first, Results, EscapeStates
<1>5. QED BY <1>4, TrimType, InnerType DEF ParseQuoted, Results

\* A field is read as a pair of texts, if it is read.
LEMMA PairType ==
  ASSUME NEW s \in CharSeq
  PROVE  ParsePair(s) \in Results(FieldPairs)
<1> DEFINE eq == Index(s, "=")
           b == Before(s, eq)
           v == ParseQuoted(Behind(s, eq))
<1>1. Trim(b) \in CharSeq /\ v \in Results(CharSeq)
  BY IndexType, TrimType, QuotedType
<1> HIDE DEF v, b
<1>2. ParsePair(s) \in {Fail} \cup {Ok([key |-> Trim(b), value |-> v.v]) : x \in {y \in {1} : v.ok}}
  BY DEF ParsePair, b, v
<1>3. v.ok => v.v \in CharSeq
  BY <1>1 DEF Results, Ok, Fail
<1>4. v.ok => [key |-> Trim(b), value |-> v.v] \in FieldPairs
  BY <1>1, <1>3 DEF FieldPairs
<1>5. QED BY <1>2, <1>4 DEF Results

\* The fields whose key stands for itself.
PlainFields == [key : {k \in Characters : PlainKey(k)}, value : CharSeq]
PairOf(f) == [key |-> <<f.key>>, value |-> f.value]

\* A text of one character.
LEMMA OneChar ==
  ASSUME NEW c \in Characters
  PROVE  /\ <<c>> \in CharSeq /\ <<c>> # <<>> /\ Len(<<c>>) = 1 /\ <<c>>[1] = c
         /\ IsSpace(c) => Blank(<<c>>)
         /\ ~IsSpace(c) => Solid(<<c>>)
<1>1. <<c>> \in CharSeq
  BY CharFacts
<1>2. <<c>> # <<>> /\ Len(<<c>>) = 1 /\ <<c>>[1] = c /\ DOMAIN <<c>> = 1..1
  OBVIOUS
<1> DEFINE s == <<c>>
<1> HIDE DEF s
<1>3. s # <<>> /\ Len(s) = 1 /\ s[1] = c /\ DOMAIN s = 1..1
  BY <1>2 DEF s
<1>4. IsSpace(c) => Blank(s)
  BY <1>3 DEF Blank
<1>5. ~IsSpace(c) => Solid(s)
  BY <1>3 DEF Solid
<1>6. QED BY <1>1, <1>2, <1>4, <1>5 DEF s

\* The space and the quote.
LEMMA OneChars ==
  /\ <<" ">> \in CharSeq /\ Blank(<<" ">>)
  /\ <<"\"">> \in CharSeq /\ Solid(<<"\"">>)
<1>1. " " \in Characters /\ "\"" \in Characters /\ IsSpace(" ") /\ ~IsSpace("\"")
  BY CharactersAssumption DEF IsSpace
<1>2. QED BY Zenon, <1>1, OneChar

\* What ParsePair makes of the text behind the equals sign.
LEMMA PairIs ==
  ASSUME NEW t, NEW i, i = Index(t, "="), i # 0, NEW v, v = ParseQuoted(Behind(t, i))
  PROVE  ParsePair(t) = IF v.ok THEN Ok([key |-> Trim(Before(t, i)), value |-> v.v]) ELSE Fail
BY DEF ParsePair

\* A field that is written is read back, with spaces around it or not.
LEMMA FieldRead ==
  ASSUME NEW f \in PlainFields, NEW w \in CharSeq, NEW z \in CharSeq, Blank(w), Blank(z)
  PROVE  /\ Field(f) \in CharSeq /\ Field(f) # <<>> /\ Trim(w \o (Field(f) \o z)) = Field(f)
         /\ ParsePair(Field(f)) = Ok(PairOf(f)) /\ PairOf(f) \in FieldPairs
         /\ Solid(Field(f)) /\ Field(f)[1] = f.key
<1> DEFINE k == f.key
           v == f.value
           s == Start(k)
           q == Quote(v)
           t == s \o q
           o == <<" ">>
<1>1. PlainKey(k) /\ v \in CharSeq /\ k \in Characters
  BY DEF PlainFields
<1>2. q \in CharSeq /\ Solid(q)
  BY <1>1, QuoteLaws
<1>3. o \in CharSeq /\ Blank(o)
  BY OneChars
<1>4. ParseQuoted(o \o q) = Ok(v)
  BY <1>1, <1>3, QuotedText
<1>5. Field(f) = t
  BY DEF Field, Start
<1> HIDE DEF k, v, q
<1>6. /\ s \in CharSeq /\ s # <<>> /\ s[1] = k /\ Index(t, "=") # 0
      /\ Trim(Before(t, Index(t, "="))) = <<k>> /\ Behind(t, Index(t, "=")) = o \o q
  BY <1>1, <1>2, StartLaws
<1> HIDE DEF s, o
<1>7. ParsePair(t) = Ok([key |-> <<k>>, value |-> v])
  <2> DEFINE i == Index(t, "=")
             r == ParseQuoted(Behind(t, i))
  <2>1. i # 0 /\ Trim(Before(t, i)) = <<k>> /\ r = Ok(v)
    BY <1>4, <1>6
  <2>2. ParsePair(t) = IF r.ok THEN Ok([key |-> Trim(Before(t, i)), value |-> r.v]) ELSE Fail
    BY <2>1, PairIs
  <2>3. r.ok /\ r.v = v
    BY <2>1 DEF Ok
  <2> HIDE DEF i, r
  <2>4. QED BY <2>1, <2>2, <2>3
<1>8. t \in CharSeq /\ t # <<>> /\ t[1] = k /\ t[Len(t)] = q[Len(q)]
  BY <1>2, <1>6, ConcatEnds, CharFacts DEF Solid
<1> HIDE DEF t
<1>9. Solid(t)
  BY <1>1, <1>2, <1>8 DEF Solid, PlainKey
<1>10. Trim(w \o (t \o z)) = t
  BY <1>8, <1>9, TrimOf
<1>11. [key |-> <<k>>, value |-> v] \in FieldPairs
  <2>1. <<k>> \in CharSeq
    BY <1>1, CharFacts
  <2>2. QED BY <1>1, <2>1 DEF FieldPairs
<1>12. QED BY <1>5, <1>7, <1>8, <1>9, <1>10, <1>11 DEF PairOf, k, v

\* A field that is cut off in its value is not read.
LEMMA OpenedRead ==
  ASSUME NEW k, PlainKey(k), NEW u \in CharSeq, NEW w \in CharSeq, Blank(w)
  PROVE  /\ Opened(k, u) \in CharSeq /\ Opened(k, u) # <<>> /\ Opened(k, u)[1] = k
         /\ \E x \in CharSeq : /\ Trim(w \o Opened(k, u)) = Opened(k, x) /\ Solid(Opened(k, x))
                               /\ Opened(k, x) # <<>> /\ ParsePair(Opened(k, x)) = Fail
<1> DEFINE s == Start(k)
           q == <<"\"">>
           o == <<" ">>
           h == s \o q
<1>1. q \in CharSeq /\ o \in CharSeq /\ Blank(o) /\ q # <<>> /\ ~IsSpace(q[Len(q)])
  BY OneChars DEF Solid
<1>2. s \in CharSeq /\ s # <<>> /\ s[1] = k /\ ~IsSpace(k)
  BY StartLaws DEF PlainKey
<1> HIDE DEF s
<1>3. ASSUME NEW x \in CharSeq
      PROVE  /\ Opened(k, x) = h \o Esc(x) /\ Opened(k, x) \in CharSeq
             /\ Opened(k, x) # <<>> /\ Opened(k, x)[1] = k
             /\ ParsePair(Opened(k, x)) = Fail
  <2> DEFINE e == Esc(x)
             y == q \o e
             t == s \o y
  <2>1. e \in CharSeq /\ y \in CharSeq /\ ParseQuoted(o \o y) = Fail
    BY <1>1, EscLaws, CharFacts, OpenText
  <2>2. Opened(k, x) = t
    BY DEF Opened, s
  <2> HIDE DEF e, q
  <2>3. (s \o q) \o e = s \o (q \o e)
    <3>1. s \in CharSeq /\ q \in CharSeq /\ e \in CharSeq
      BY <1>1, <1>2, <2>1
    <3> HIDE DEF y, t, h
    <3>2. QED BY SMTT(40), <3>1, Assoc
  <2>4. t = h \o Esc(x)
    BY <2>3 DEF e
  <2> HIDE DEF y
  <2>5. t \in CharSeq /\ t # <<>> /\ t[1] = k
    BY <1>2, <2>1, ConcatEnds, CharFacts
  <2>6. Index(t, "=") # 0 /\ Behind(t, Index(t, "=")) = o \o y
    BY <2>1, StartLaws DEF s, o
  <2> HIDE DEF t, o
  <2>7. ParsePair(t) = Fail
    <3> DEFINE i == Index(t, "=")
               r == ParseQuoted(Behind(t, i))
    <3>1. i # 0 /\ r = Fail
      BY <2>1, <2>6
    <3>2. ParsePair(t) = IF r.ok THEN Ok([key |-> Trim(Before(t, i)), value |-> r.v]) ELSE Fail
      BY <3>1, PairIs
    <3>3. ~r.ok
      BY <3>1 DEF Fail
    <3> HIDE DEF i, r
    <3>4. QED BY <3>2, <3>3
  <2>8. QED BY <2>2, <2>4, <2>5, <2>7
<1>4. h \in CharSeq /\ Solid(h)
  <2> HIDE DEF q
  <2>1. h \in CharSeq /\ h # <<>> /\ h[1] = s[1] /\ h[Len(h)] = q[Len(q)]
    BY <1>1, <1>2, ConcatEnds, CharFacts
  <2> HIDE DEF h
  <2>2. QED BY <1>1, <1>2, <2>1 DEF Solid
<1> HIDE DEF h
<1>5. \E x \in CharSeq, y \in CharSeq :
        u = x \o y /\ Solid(h \o Esc(x)) /\ Trim(w \o (h \o Esc(u))) = h \o Esc(x)
  BY <1>4, TrimOpen
<1>6. PICK x \in CharSeq : Solid(h \o Esc(x)) /\ Trim(w \o (h \o Esc(u))) = h \o Esc(x)
  BY Zenon, <1>5
<1>7. Solid(Opened(k, x)) /\ Trim(w \o Opened(k, u)) = Opened(k, x)
  BY <1>3, <1>6
<1>8. QED BY <1>3, <1>7

\* The steps of the fields of a table.
LEMMA ReadFieldLaws ==
  /\ ReadField \in Steps(Tables, CharSeq)
  /\ \A s \in CharSeq : ReadField[Fail][s] = Fail
  /\ \A ps \in Seq(FieldPairs), f \in PlainFields, w \in CharSeq, z \in CharSeq :
       Blank(w) /\ Blank(z) => ReadField[Ok(ps)][w \o (Field(f) \o z)] = Ok(Append(ps, PairOf(f)))
  /\ \A ps \in Seq(FieldPairs), k \in Characters, u \in CharSeq, w \in CharSeq :
       PlainKey(k) /\ Blank(w) => ReadField[Ok(ps)][w \o Opened(k, u)] = Fail
<1>1. Fail \in Tables /\ \A ps \in Seq(FieldPairs) : Ok(ps) \in Tables
  BY DEF Tables, Ok, Fail
<1>2. \A tb \in Tables : tb = Fail \/ \E ps \in Seq(FieldPairs) : tb = Ok(ps)
  <2>1. SUFFICES ASSUME NEW tb \in [ok : {TRUE}, v : Seq(FieldPairs)]
                 PROVE  \E ps \in Seq(FieldPairs) : tb = Ok(ps)
    BY DEF Tables
  <2>2. tb.v \in Seq(FieldPairs) /\ tb = Ok(tb.v)
    BY DEF Ok
  <2>3. QED BY <2>2
<1>3. ASSUME NEW s \in CharSeq PROVE ReadField[Fail][s] = Fail
  BY <1>1 DEF ReadField, Fail
<1>4. ASSUME NEW ps \in Seq(FieldPairs), NEW s \in CharSeq, Trim(s) # <<>>
      PROVE  ReadField[Ok(ps)][s]
               = IF ParsePair(Trim(s)).ok THEN Ok(Append(ps, ParsePair(Trim(s)).v)) ELSE Fail
  BY <1>1, <1>4 DEF ReadField, Ok
<1>5. ASSUME NEW ps \in Seq(FieldPairs), NEW s \in CharSeq, Trim(s) = <<>>
      PROVE  ReadField[Ok(ps)][s] = Ok(ps)
  BY <1>1, <1>5 DEF ReadField, Ok
<1>6. ASSUME NEW tb \in Tables, NEW s \in CharSeq PROVE ReadField[tb][s] \in Tables
  <2>1. CASE tb = Fail
    BY <1>1, <1>3, <2>1
  <2>2. ASSUME NEW ps \in Seq(FieldPairs), tb = Ok(ps) PROVE ReadField[tb][s] \in Tables
    <3>1. CASE Trim(s) = <<>>
      BY <1>1, <1>5, <2>2, <3>1
    <3>2. CASE Trim(s) # <<>>
      <4> DEFINE p == ParsePair(Trim(s))
      <4>1. p \in Results(FieldPairs)
        BY TrimType, PairType
      <4>2. ReadField[Ok(ps)][s] = IF p.ok THEN Ok(Append(ps, p.v)) ELSE Fail
        BY <1>4, <3>2
      <4> HIDE DEF p
      <4>3. p.ok => p.v \in FieldPairs
        BY <4>1 DEF Results, Ok, Fail
      <4>4. p.ok => Append(ps, p.v) \in Seq(FieldPairs)
        BY <4>3, AppendType
      <4>5. QED BY <1>1, <2>2, <4>2, <4>4
    <3>3. QED BY <3>1, <3>2
  <2>3. QED BY <1>2, <2>1, <2>2
<1>7. ReadField \in Steps(Tables, CharSeq)
  <2>1. ReadField = [tb \in Tables |-> [s \in CharSeq |-> ReadField[tb][s]]]
    BY Zenon DEF ReadField
  <2>2. QED BY <1>6, <2>1 DEF Steps
<1>8. ASSUME NEW ps \in Seq(FieldPairs), NEW f \in PlainFields, NEW w \in CharSeq, NEW z \in CharSeq,
             Blank(w), Blank(z)
      PROVE  ReadField[Ok(ps)][w \o (Field(f) \o z)] = Ok(Append(ps, PairOf(f)))
  <2> DEFINE t == Field(f)
             s == w \o (t \o z)
             r == PairOf(f)
  <2>1. t \in CharSeq /\ t # <<>> /\ Trim(s) = t /\ ParsePair(t) = Ok(r)
    BY <1>8, FieldRead
  <2> HIDE DEF t, r
  <2>2. s \in CharSeq
    BY <2>1, CharFacts
  <2> HIDE DEF s
  <2>3. ReadField[Ok(ps)][s] = Ok(Append(ps, r))
    BY <1>4, <2>1, <2>2 DEF Ok
  <2>4. QED BY <2>3 DEF s, t, r
<1>9. ASSUME NEW ps \in Seq(FieldPairs), NEW k \in Characters, NEW u \in CharSeq, NEW w \in CharSeq,
             PlainKey(k), Blank(w)
      PROVE  ReadField[Ok(ps)][w \o Opened(k, u)] = Fail
  <2> DEFINE s == w \o Opened(k, u)
  <2>1. Opened(k, u) \in CharSeq
    BY <1>9, OpenedRead
  <2>2. PICK x \in CharSeq : /\ Trim(s) = Opened(k, x) /\ Opened(k, x) # <<>>
                             /\ ParsePair(Opened(k, x)) = Fail
    BY <1>9, OpenedRead
  <2>3. s \in CharSeq
    BY <2>1, CharFacts
  <2> HIDE DEF s
  <2>4. ReadField[Ok(ps)][s] = Fail
    BY <1>4, <2>2, <2>3 DEF Fail
  <2>5. QED BY <2>4 DEF s
<1>10. QED BY <1>3, <1>7, <1>8, <1>9

\* The states of SplitTopLevel outside of quotes, between them, and behind a backslash there.
Outside(ps, p) == SplitState(ps, p, FALSE, FALSE)
Within(ps, p) == SplitState(ps, p, TRUE, FALSE)
Escaped(ps, p) == SplitState(ps, p, TRUE, TRUE)

\* The steps of the split: outside of quotes, within them and behind a backslash.
LEMMA ReadPartLaws ==
  /\ ReadPart \in Steps(SplitStates, Characters)
  /\ \A ps \in Seq(CharSeq), p \in CharSeq :
       Outside(ps, p) \in SplitStates /\ Within(ps, p) \in SplitStates /\ Escaped(ps, p) \in SplitStates
  /\ \A ps \in Seq(CharSeq), p \in CharSeq, c \in Characters :
       /\ c \notin {"\"", ","} => ReadPart[Outside(ps, p)][c] = Outside(ps, Append(p, c))
       /\ c \notin {"\"", "\\"} => ReadPart[Within(ps, p)][c] = Within(ps, Append(p, c))
       /\ c = "\"" => /\ ReadPart[Outside(ps, p)][c] = Within(ps, Append(p, c))
                      /\ ReadPart[Within(ps, p)][c] = Outside(ps, Append(p, c))
       /\ c = "\\" => ReadPart[Within(ps, p)][c] = Escaped(ps, Append(p, c))
       /\ c = "," => ReadPart[Outside(ps, p)][c] = Outside(Append(ps, p), <<>>)
       /\ ReadPart[Escaped(ps, p)][c] = Within(ps, Append(p, c))
<1>1. ASSUME NEW ps \in Seq(CharSeq), NEW p \in CharSeq, NEW q \in BOOLEAN, NEW e \in BOOLEAN
      PROVE  SplitState(ps, p, q, e) \in SplitStates
  BY DEF SplitState, SplitStates
<1>2. ASSUME NEW ps \in Seq(CharSeq), NEW p \in CharSeq, NEW q \in BOOLEAN, NEW e \in BOOLEAN,
             NEW c \in Characters
      PROVE  LET Push(quoted, escaped) == SplitState(ps, Append(p, c), quoted, escaped)
             IN /\ e => ReadPart[SplitState(ps, p, q, e)][c] = Push(q, FALSE)
                /\ ~e /\ c = "\"" => ReadPart[SplitState(ps, p, q, e)][c] = Push(~q, FALSE)
                /\ ~e /\ q /\ c = "\\" => ReadPart[SplitState(ps, p, q, e)][c] = Push(TRUE, TRUE)
                /\ ~e /\ ~q /\ c = "," =>
                     ReadPart[SplitState(ps, p, q, e)][c] = SplitState(Append(ps, p), <<>>, FALSE, FALSE)
                /\ ~e /\ c # "\"" /\ ~(q /\ c = "\\") /\ ~(~q /\ c = ",") =>
                     ReadPart[SplitState(ps, p, q, e)][c] = Push(q, FALSE)
  <2> DEFINE st == SplitState(ps, p, q, e)
  <2>1. st \in SplitStates /\ st.parts = ps /\ st.part = p /\ st.quoted = q /\ st.escaped = e
    BY <1>1 DEF SplitState
  <2> HIDE DEF st
  <2>2. ReadPart[st][c]
          = CASE e -> SplitState(ps, Append(p, c), q, FALSE)
              [] ~e /\ c = "\"" -> SplitState(ps, Append(p, c), ~q, FALSE)
              [] ~e /\ q /\ c = "\\" -> SplitState(ps, Append(p, c), TRUE, TRUE)
              [] ~e /\ ~q /\ c = "," -> SplitState(Append(ps, p), <<>>, FALSE, FALSE)
              [] OTHER -> SplitState(ps, Append(p, c), q, FALSE)
    BY <2>1 DEF ReadPart
  <2>3. QED BY <2>2 DEF st
<1>3. ASSUME NEW st \in SplitStates, NEW c \in Characters PROVE ReadPart[st][c] \in SplitStates
  <2>1. PICK ps \in Seq(CharSeq), p \in CharSeq, q \in BOOLEAN, e \in BOOLEAN :
          st = SplitState(ps, p, q, e)
    <3>1. /\ st.parts \in Seq(CharSeq) /\ st.part \in CharSeq /\ st.quoted \in BOOLEAN
          /\ st.escaped \in BOOLEAN
          /\ st = SplitState(st.parts, st.part, st.quoted, st.escaped)
      BY DEF SplitStates, SplitState
    <3>2. QED BY Zenon, <3>1
  <2>2. Append(p, c) \in CharSeq /\ <<>> \in CharSeq /\ Append(ps, p) \in Seq(CharSeq)
    BY AppendChar, CharFacts, AppendType
  <2>3. \/ \E r \in BOOLEAN, f \in BOOLEAN : ReadPart[st][c] = SplitState(ps, Append(p, c), r, f)
        \/ ReadPart[st][c] = SplitState(Append(ps, p), <<>>, FALSE, FALSE)
    BY ZenonT(60), <1>2, <2>1
  <2>4. QED BY <1>1, <2>2, <2>3
<1>4. ReadPart \in Steps(SplitStates, Characters)
  <2>1. ReadPart = [st \in SplitStates |-> [c \in Characters |-> ReadPart[st][c]]]
    BY Zenon DEF ReadPart
  <2>2. QED BY <1>3, <2>1 DEF Steps
<1>5. ASSUME NEW ps \in Seq(CharSeq), NEW p \in CharSeq
      PROVE  Outside(ps, p) \in SplitStates /\ Within(ps, p) \in SplitStates /\ Escaped(ps, p) \in SplitStates
  BY <1>1 DEF Outside, Within, Escaped
<1>6. ASSUME NEW ps \in Seq(CharSeq), NEW p \in CharSeq, NEW c \in Characters
      PROVE  /\ c \notin {"\"", ","} => ReadPart[Outside(ps, p)][c] = Outside(ps, Append(p, c))
             /\ c \notin {"\"", "\\"} => ReadPart[Within(ps, p)][c] = Within(ps, Append(p, c))
             /\ c = "\"" => /\ ReadPart[Outside(ps, p)][c] = Within(ps, Append(p, c))
                            /\ ReadPart[Within(ps, p)][c] = Outside(ps, Append(p, c))
             /\ c = "\\" => ReadPart[Within(ps, p)][c] = Escaped(ps, Append(p, c))
             /\ c = "," => ReadPart[Outside(ps, p)][c] = Outside(Append(ps, p), <<>>)
             /\ ReadPart[Escaped(ps, p)][c] = Within(ps, Append(p, c))
  BY <1>2 DEF Outside, Within, Escaped
<1>7. QED BY <1>4, <1>5, <1>6

\* One more character behind two texts.
LEMMA ConcatAppend ==
  ASSUME NEW p \in CharSeq, NEW u \in CharSeq, NEW c \in Characters
  PROVE  p \o Append(u, c) = Append(p \o u, c)
BY DEF CharSeq

\* What SplitTopLevel makes of a text.
Split(a, t) == Scan(ReadPart, a, t)

\* What the split makes of texts put together.
LEMMA SplitLaws ==
  /\ \A a \in SplitStates : Split(a, <<>>) = a
  /\ \A a \in SplitStates, s \in CharSeq : Split(a, s) \in SplitStates
  /\ \A a \in SplitStates, s \in CharSeq, c \in Characters :
       Split(a, Append(s, c)) = ReadPart[Split(a, s)][c]
  /\ \A a \in SplitStates, s \in CharSeq, t \in CharSeq : Split(a, s \o t) = Split(Split(a, s), t)
  /\ \A a \in SplitStates, c \in Characters : Split(a, <<c>>) = ReadPart[a][c]
<1>1. TextLaws(ReadPart, SplitStates)
  BY ReadPartLaws, TextScan
<1>2. QED BY Zenon, <1>1 DEF TextLaws, Split

\* Characters that are neither quotes nor commas are added to the part.
LEMMA SplitPlain ==
  ASSUME NEW ps \in Seq(CharSeq), NEW p \in CharSeq, NEW x \in CharSeq,
         \A i \in DOMAIN x : x[i] \notin {"\"", ","}
  PROVE  Split(Outside(ps, p), x) = Outside(ps, p \o x)
<1> DEFINE a == Outside(ps, p)
           T == {u \in CharSeq : (\A i \in DOMAIN u : u[i] \notin {"\"", ","}) =>
                                   Split(a, u) = Outside(ps, p \o u)}
<1>0. a \in SplitStates
  BY ReadPartLaws
<1>1. <<>> \in T
  <2>1. Split(a, <<>>) = a
    BY <1>0, SplitLaws
  <2>2. QED BY <2>1, CharFacts
<1> HIDE DEF a
<1>2. ASSUME NEW u \in CharSeq, NEW c \in Characters, u \in T PROVE Append(u, c) \in T
  <2> DEFINE v == Append(u, c)
             q == p \o u
  <2>1. v \in CharSeq /\ q \in CharSeq
    BY CharFacts
  <2>2. p \o v = Append(q, c)
    BY ConcatAppend
  <2>3. /\ Len(u) \in Nat /\ DOMAIN v = DOMAIN u \cup {Len(u) + 1}
        /\ v[Len(u) + 1] = c /\ \A i \in DOMAIN u : v[i] = u[i]
    BY AppendChar
  <2>4. Split(a, v) = ReadPart[Split(a, u)][c]
    BY <1>0, SplitLaws
  <2> HIDE DEF v
  <2>5. ASSUME \A i \in DOMAIN v : v[i] \notin {"\"", ","} PROVE Split(a, v) = Outside(ps, p \o v)
    <3>1. c \notin {"\"", ","} /\ \A i \in DOMAIN u : u[i] \notin {"\"", ","}
      BY <2>3, <2>5
    <3>2. Split(a, u) = Outside(ps, q)
      BY <1>2, <3>1
    <3> HIDE DEF q
    <3>3. ReadPart[Outside(ps, q)][c] = Outside(ps, Append(q, c))
      BY <2>1, <3>1, ReadPartLaws
    <3>4. QED BY <2>2, <2>4, <3>2, <3>3
  <2>6. v \in T
    BY <2>1, <2>5
  <2>7. QED BY <2>6 DEF v
<1>3. \A u \in CharSeq, c \in Characters : u \in T => Append(u, c) \in T
  BY <1>2
<1>4. x \in T
  <2> HIDE DEF T
  <2>1. QED BY <1>1, <1>3, CharInduction
<1>5. QED BY <1>4 DEF a

\* What Esc writes between two quotes stays between them.
LEMMA SplitEsc ==
  ASSUME NEW ps \in Seq(CharSeq), NEW p \in CharSeq, NEW x \in CharSeq
  PROVE  Split(Within(ps, p), Esc(x)) = Within(ps, p \o Esc(x))
<1> DEFINE a == Within(ps, p)
           T == {u \in CharSeq : Split(a, Esc(u)) = Within(ps, p \o Esc(u))}
<1>0. a \in SplitStates
  BY ReadPartLaws
<1>1. <<>> \in T
  <2>1. Split(a, <<>>) = a /\ Esc(<<>>) = <<>>
    BY <1>0, SplitLaws, EscLaws
  <2>2. QED BY <2>1, CharFacts
<1> HIDE DEF a
<1>2. ASSUME NEW u \in CharSeq, NEW c \in Characters, u \in T PROVE Append(u, c) \in T
  <2> DEFINE e == Esc(u)
             o == EscOf(c)
             q == p \o e
             mid == Within(ps, q)
  <2>1. /\ e \in CharSeq /\ o \in CharSeq /\ q \in CharSeq /\ mid \in SplitStates
        /\ Append(u, c) \in CharSeq /\ Esc(Append(u, c)) = e \o o
    BY EscLaws, EscOfType, CharFacts, ReadPartLaws
  <2>2. Split(a, e) = mid
    BY <1>2
  <2> HIDE DEF e
  <2>3. q \o o = p \o (e \o o)
    BY ZenonT(60), <2>1, Assoc
  <2> HIDE DEF o, mid
  <2>4. Split(a, e \o o) = Split(mid, o)
    BY <1>0, <2>1, <2>2, SplitLaws
  <2>5. Split(mid, o) = Within(ps, q \o o)
    <3> HIDE DEF q
    <3>1. CASE c \in {"\\", "\""}
      <4> DEFINE b == "\\"
                 m == <<b>>
                 r == <<c>>
                 esc == Escaped(ps, Append(q, b))
      <4>1. b \in Characters /\ m \in CharSeq /\ r \in CharSeq /\ o = m \o r
        <5>1. b \in Characters
          BY CharactersAssumption
        <5>2. o = <<b, c>>
          BY <3>1 DEF o, EscOf
        <5> HIDE DEF b
        <5>3. m \in CharSeq /\ r \in CharSeq
          BY <5>1, CharFacts
        <5>4. <<b, c>> = <<b>> \o <<c>>
          BY <5>1, TwoChars
        <5>5. QED BY <5>1, <5>2, <5>3, <5>4
      <4>2. Split(mid, m) = ReadPart[mid][b] /\ ReadPart[mid][b] = esc
        <5>1. mid \in SplitStates
          BY <2>1, ReadPartLaws
        <5>2. ReadPart[mid][b] = esc
          <6>1. q \in CharSeq /\ b \in Characters /\ b = "\\"
            BY <2>1, <4>1
          <6> HIDE DEF b, q
          <6>2. ReadPart[Within(ps, q)][b] = Escaped(ps, Append(q, b))
            BY <6>1, ReadPartLaws
          <6>3. QED BY <6>2 DEF mid
        <5> HIDE DEF mid, b, esc
        <5>3. Split(mid, <<b>>) = ReadPart[mid][b]
          BY <4>1, <5>1, SplitLaws
        <5>4. QED BY <5>2, <5>3 DEF m
      <4>3. /\ Append(q, b) \in CharSeq /\ q \o m = Append(q, b)
            /\ Append(q, b) \o r = Append(Append(q, b), c)
        BY <2>1, <4>1, CharFacts
      <4>4. esc \in SplitStates /\ ReadPart[esc][c] = Within(ps, Append(Append(q, b), c))
        <5> HIDE DEF b
        <5>1. QED BY <4>3, ReadPartLaws
      <4>5. Split(esc, r) = ReadPart[esc][c]
        <5> HIDE DEF esc
        <5>1. QED BY <4>4, SplitLaws
      <4> HIDE DEF m, r, esc, b
      <4>6. Split(mid, m \o r) = Split(Split(mid, m), r)
        BY <2>1, <4>1, SplitLaws
      <4>7. (q \o m) \o r = q \o (m \o r)
        <5>1. q \in CharSeq /\ m \in CharSeq /\ r \in CharSeq
          BY <2>1, <4>1
        <5>2. QED BY SMTT(40), <5>1, Assoc
      <4>8. QED BY <4>1, <4>2, <4>3, <4>4, <4>5, <4>6, <4>7
    <3>2. CASE c \notin {"\\", "\""}
      <4>1. o = <<c>>
        BY <3>2 DEF o, EscOf
      <4>2. Split(mid, <<c>>) = ReadPart[mid][c]
        BY <2>1, SplitLaws
      <4>3. ReadPart[mid][c] = Within(ps, Append(q, c))
        BY <2>1, <3>2, ReadPartLaws DEF mid
      <4>4. q \o <<c>> = Append(q, c)
        BY <2>1, CharFacts
      <4>5. QED BY <4>1, <4>2, <4>3, <4>4
    <3>3. QED BY <3>1, <3>2
  <2>6. Split(a, Esc(Append(u, c))) = Within(ps, p \o Esc(Append(u, c)))
    BY <2>1, <2>3, <2>4, <2>5
  <2>7. QED BY <2>1, <2>6
<1>3. \A u \in CharSeq, c \in Characters : u \in T => Append(u, c) \in T
  BY <1>2
<1>4. x \in T
  <2> HIDE DEF T
  <2>1. QED BY <1>1, <1>3, CharInduction
<1>5. QED BY <1>4 DEF a

\* A quoted text stays in one part, also without its last quote.
LEMMA SplitQuote ==
  ASSUME NEW ps \in Seq(CharSeq), NEW p \in CharSeq, NEW v \in CharSeq
  PROVE  /\ Split(Outside(ps, p), Quote(v)) = Outside(ps, p \o Quote(v))
         /\ Split(Outside(ps, p), <<"\"">> \o Esc(v)) = Within(ps, p \o (<<"\"">> \o Esc(v)))
<1> DEFINE c == "\""
           q == <<c>>
           e == Esc(v)
           pq == p \o q
           pqe == pq \o e
           a == Outside(ps, p)
           b == Within(ps, pq)
           d == Within(ps, pqe)
<1>1. c \in Characters /\ q \in CharSeq /\ e \in CharSeq
  BY CharactersAssumption, CharFacts, EscLaws
<1>2. pq \in CharSeq /\ pq = Append(p, c) /\ pqe \in CharSeq /\ pqe \o q = Append(pqe, c)
  <2> HIDE DEF c, e
  <2>1. pq \in CharSeq /\ pq = Append(p, c)
    BY <1>1, CharFacts
  <2> HIDE DEF pq
  <2>2. pqe \in CharSeq
    BY <1>1, <2>1, CharFacts
  <2> HIDE DEF pqe
  <2>3. QED BY <1>1, <2>1, <2>2, CharFacts
<1>3. Split(a, q) = b
  <2>1. Split(a, q) = ReadPart[a][c] /\ a \in SplitStates
    BY <1>1, SplitLaws, ReadPartLaws
  <2>2. ReadPart[Outside(ps, p)][c] = Within(ps, Append(p, c))
    BY <1>1, ReadPartLaws
  <2>3. QED BY <1>2, <2>1, <2>2
<1>4. Split(b, e) = d
  <2> HIDE DEF pq
  <2>1. QED BY <1>2, SplitEsc
<1>5. Split(d, q) = Outside(ps, pqe \o q)
  <2> HIDE DEF pqe
  <2>1. Split(d, q) = ReadPart[d][c]
    BY <1>1, <1>2, SplitLaws, ReadPartLaws
  <2>2. ReadPart[Within(ps, pqe)][c] = Outside(ps, Append(pqe, c))
    BY <1>1, <1>2, ReadPartLaws
  <2> HIDE DEF c, q
  <2>3. QED BY <1>2, <2>1, <2>2
<1>6. a \in SplitStates /\ b \in SplitStates /\ d \in SplitStates
  <2> HIDE DEF pq, pqe
  <2>1. QED BY <1>2, ReadPartLaws
<1>7. pqe = p \o (q \o e) /\ pqe \o q = p \o (q \o (e \o q))
  <2> HIDE DEF q, e
  <2>1. (p \o q) \o e = p \o (q \o e)
    BY Zenon, <1>1, Assoc
  <2>2. ((p \o q) \o e) \o q = p \o (q \o (e \o q))
    <3>1. p \o q \in CharSeq /\ e \o q \in CharSeq
      BY <1>1, CharFacts
    <3>2. (p \o q) \o (e \o q) = p \o (q \o (e \o q))
      BY Zenon, <1>1, <3>1, Assoc
    <3>3. ((p \o q) \o e) \o q = (p \o q) \o (e \o q)
      BY ZenonT(60), <1>1, <3>1, Assoc
    <3>4. QED BY Zenon, <3>2, <3>3
  <2>3. QED BY <2>1, <2>2
<1>8. Quote(v) = q \o (e \o q)
  BY QuoteLaws
<1> HIDE DEF q, e, pqe, a, b, d, c
<1>9. q \o e \in CharSeq /\ e \o q \in CharSeq
  BY <1>1, CharFacts
<1>10. Split(a, q \o e) = Split(Split(a, q), e)
  BY <1>1, <1>6, SplitLaws
<1>11. Split(a, q \o (e \o q)) = Split(Split(a, q), e \o q)
  BY <1>1, <1>6, <1>9, SplitLaws
<1>12. Split(b, e \o q) = Split(Split(b, e), q)
  BY <1>1, <1>6, SplitLaws
<1>13. Split(a, q \o e) = Within(ps, p \o (q \o e))
  BY <1>3, <1>4, <1>7, <1>10 DEF d
<1>14. Split(a, q \o (e \o q)) = Outside(ps, p \o (q \o (e \o q)))
  BY <1>3, <1>4, <1>5, <1>7, <1>11, <1>12
<1>15. QED BY <1>8, <1>13, <1>14 DEF a, q, e, c

\* The beginning of a field stays in one part.
LEMMA SplitStart ==
  ASSUME NEW ps \in Seq(CharSeq), NEW p \in CharSeq, NEW k, PlainKey(k), NEW x \in CharSeq
  PROVE  Split(Outside(ps, p), Start(k) \o x) = Split(Outside(ps, p \o Start(k)), x)
<1> DEFINE s == Start(k)
           a == Outside(ps, p)
<1>1. s \in CharSeq
  BY StartLaws
<1>2. \A i \in DOMAIN s : s[i] \notin {"\"", ","}
  <2>1. k # "\"" /\ k # ","
    BY DEF PlainKey
  <2>2. \A b, e : DOMAIN <<k, b, e, b>> = 1..4 /\ \A i \in 1..4 : <<k, b, e, b>>[i] \in {k, b, e}
    OBVIOUS
  <2>3. DOMAIN s = 1..4 /\ \A i \in 1..4 : s[i] \in {k, " ", "="}
    BY Zenon, <2>2 DEF Start
  <2> HIDE DEF s
  <2>4. QED BY <2>1, <2>3
<1>3. a \in SplitStates
  BY ReadPartLaws
<1> HIDE DEF s
<1>4. Split(a, s) = Outside(ps, p \o s)
  BY <1>1, <1>2, SplitPlain
<1> HIDE DEF a
<1>5. Split(a, s \o x) = Split(Split(a, s), x)
  BY <1>1, <1>3, SplitLaws
<1>6. QED BY <1>4, <1>5 DEF a, s

\* A field stays in one part, whole or cut off in its value.
LEMMA SplitField ==
  ASSUME NEW ps \in Seq(CharSeq), NEW p \in CharSeq, NEW k, PlainKey(k), NEW v \in CharSeq
  PROVE  /\ Split(Outside(ps, p), Start(k) \o Quote(v)) = Outside(ps, p \o (Start(k) \o Quote(v)))
         /\ Split(Outside(ps, p), Opened(k, v)) = Within(ps, p \o Opened(k, v))
<1> DEFINE s == Start(k)
           q == Quote(v)
           o == <<"\"">> \o Esc(v)
           r == p \o s
<1>1. s \in CharSeq /\ q \in CharSeq /\ o \in CharSeq
  BY StartLaws, QuoteLaws, EscLaws, OneChars, CharFacts
<1>2. r \in CharSeq
  <2> HIDE DEF s
  <2>1. QED BY <1>1, CharFacts
<1>3. /\ Split(Outside(ps, p), s \o q) = Split(Outside(ps, r), q)
      /\ Split(Outside(ps, p), s \o o) = Split(Outside(ps, r), o)
  <2> HIDE DEF q, o
  <2>1. QED BY <1>1, SplitStart
<1>4. Split(Outside(ps, r), q) = Outside(ps, r \o q) /\ Split(Outside(ps, r), o) = Within(ps, r \o o)
  <2> HIDE DEF r
  <2>1. QED BY <1>2, SplitQuote
<1>5. r \o q = p \o (s \o q) /\ r \o o = p \o (s \o o)
  <2> HIDE DEF s, q, o
  <2>1. (p \o s) \o q = p \o (s \o q) /\ (p \o s) \o o = p \o (s \o o)
    BY ZenonT(60), <1>1, Assoc
  <2>2. QED BY <2>1
<1>6. QED BY <1>3, <1>4, <1>5 DEF Opened

\* The text of the fields of a table, and what of it comes before one more field.
JoinedFields(fs) == Scan(JoinField, <<>>, fs)

\* What separates fields.
Comma == <<",", " ">>

\* What is written inside of the braces before a field that follows others.
BeforeField(fs) == IF fs = <<>> THEN <<" ">> ELSE <<" ">> \o (JoinedFields(fs) \o Comma)

\* A comma and a space.
LEMMA CommaText == Comma \in CharSeq /\ Comma = <<",">> \o <<" ">> /\ <<",">> \in CharSeq
<1>1. "," \in Characters /\ " " \in Characters
  BY CharactersAssumption
<1>2. <<",", " ">> \in CharSeq /\ <<",">> \in CharSeq
  BY Zenon, <1>1, CharFacts
<1>3. <<",", " ">> = <<",">> \o <<" ">>
  BY Zenon, <1>1, TwoChars
<1>4. QED BY <1>2, <1>3 DEF Comma

\* The text of fields is that of all but the last, a comma and that of the last.
LEMMA JoinLaws ==
  /\ JoinedFields(<<>>) = <<>>
  /\ \A fs \in Seq(PlainFields) : JoinedFields(fs) \in CharSeq
  /\ \A fs \in Seq(PlainFields), f \in PlainFields :
       JoinedFields(Append(fs, f))
         = IF JoinedFields(fs) = <<>> THEN Field(f) ELSE (JoinedFields(fs) \o Comma) \o Field(f)
  /\ \A fs \in Seq(PlainFields) : JoinedFields(fs) = <<>> => fs = <<>>
<1> DEFINE e == <<>>
<1>0. e \in CharSeq
  BY CharFacts
<1>1. ASSUME NEW f \in Fields PROVE Field(f) \in CharSeq
  <2>1. f.key \in Characters /\ f.value \in CharSeq /\ " " \in Characters /\ "=" \in Characters
    BY CharactersAssumption DEF Fields
  <2> DEFINE s == <<f.key, " ", "=", " ">>
             q == Quote(f.value)
  <2>2. s \in CharSeq
    BY Zenon, <2>1, CharFacts
  <2>3. q \in CharSeq
    BY <2>1, QuoteLaws
  <2> HIDE DEF s, q
  <2>4. s \o q \in CharSeq
    BY <2>2, <2>3, CharFacts
  <2>5. QED BY <2>4 DEF Field, s, q
<1>2. ASSUME NEW out \in CharSeq, NEW f \in Fields
      PROVE  JoinField[out][f] = IF out = <<>> THEN Field(f) ELSE (out \o Comma) \o Field(f)
  BY Zenon DEF JoinField, Comma
<1>3. ASSUME NEW out \in CharSeq, NEW f \in Fields PROVE JoinField[out][f] \in CharSeq
  <2> DEFINE t == Field(f)
  <2>1. t \in CharSeq /\ Comma \in CharSeq
    BY <1>1, CommaText
  <2> HIDE DEF t
  <2>2. (out \o Comma) \o t \in CharSeq
    BY <2>1, CharFacts
  <2>3. QED BY <1>2, <2>1, <2>2 DEF t
<1>4. JoinField \in Steps(CharSeq, Fields)
  <2>1. JoinField = [out \in CharSeq |-> [f \in Fields |-> JoinField[out][f]]]
    BY Zenon DEF JoinField
  <2>2. QED BY <1>3, <2>1 DEF Steps
<1>5. ScanLawsOf(JoinField, CharSeq, Fields)
  BY <1>4, ScanLaws
<1>6. PlainFields \subseteq Fields
  BY DEF PlainFields, Fields
<1>7. \A fs \in Seq(PlainFields) : fs \in Seq(Fields)
  BY <1>6
<1>8. JoinedFields(<<>>) = <<>>
  BY Zenon, <1>0, <1>5 DEF ScanLawsOf, JoinedFields
<1>9. ASSUME NEW fs \in Seq(PlainFields) PROVE JoinedFields(fs) \in CharSeq
  BY Zenon, <1>0, <1>5, <1>7 DEF ScanLawsOf, JoinedFields
<1>10. ASSUME NEW fs \in Seq(PlainFields), NEW f \in PlainFields
       PROVE  JoinedFields(Append(fs, f))
                = IF JoinedFields(fs) = <<>> THEN Field(f) ELSE (JoinedFields(fs) \o Comma) \o Field(f)
  <2>1. fs \in Seq(Fields) /\ f \in Fields
    BY <1>6, <1>7
  <2>2. Scan(JoinField, <<>>, Append(fs, f)) = JoinField[Scan(JoinField, <<>>, fs)][f]
    BY Zenon, <1>0, <1>5, <2>1 DEF ScanLawsOf
  <2>3. JoinedFields(Append(fs, f)) = JoinField[JoinedFields(fs)][f]
    BY <2>2 DEF JoinedFields
  <2>4. QED BY Zenon, <1>2, <1>9, <2>1, <2>3
<1>11. ASSUME NEW fs \in Seq(PlainFields), JoinedFields(fs) = <<>> PROVE fs = <<>>
  <2>1. SUFFICES ASSUME fs # <<>> PROVE FALSE
    OBVIOUS
  <2>2. PICK gs \in Seq(PlainFields), f \in PlainFields : fs = Append(gs, f)
    BY <2>1, SequenceEmptyOrAppend
  <2> DEFINE t == Field(f)
             j == JoinedFields(gs)
             jc == j \o Comma
  <2>3. t \in CharSeq /\ t # <<>>
    <3>1. <<>> \in CharSeq /\ Blank(<<>>)
      BY CharFacts DEF Blank
    <3>2. QED BY <3>1, FieldRead
  <2>4. j \in CharSeq
    BY <1>9
  <2>5. JoinedFields(fs) = IF j = <<>> THEN t ELSE jc \o t
    BY <1>10, <2>2
  <2> HIDE DEF t, j
  <2>6. jc \in CharSeq
    BY <2>4, CommaText, CharFacts
  <2> HIDE DEF jc
  <2>7. jc \o t # <<>>
    BY <2>3, <2>6, ConcatEnds
  <2>8. QED BY <1>11, <2>3, <2>5, <2>7
<1>12. QED BY <1>8, <1>9, <1>10, <1>11

\* The text before a field, inside of the braces.
LEMMA BeforeFieldLaws ==
  /\ BeforeField(<<>>) = <<" ">>
  /\ \A fs \in Seq(PlainFields) : BeforeField(fs) \in CharSeq
  /\ \A fs \in Seq(PlainFields), f \in PlainFields :
       /\ BeforeField(Append(fs, f)) = (BeforeField(fs) \o Field(f)) \o Comma
       /\ <<" ">> \o JoinedFields(Append(fs, f)) = BeforeField(fs) \o Field(f)
<1> DEFINE o == <<" ">>
<1>1. o \in CharSeq /\ Comma \in CharSeq
  BY OneChars, CommaText
<1>2. BeforeField(<<>>) = o
  BY DEF BeforeField
<1> HIDE DEF o
<1>3. ASSUME NEW fs \in Seq(PlainFields) PROVE BeforeField(fs) \in CharSeq
  <2> DEFINE j == JoinedFields(fs)
  <2>1. j \in CharSeq
    BY JoinLaws
  <2> HIDE DEF j
  <2>2. o \o (j \o Comma) \in CharSeq
    BY <1>1, <2>1, CharFacts
  <2>3. QED BY <1>1, <2>2 DEF BeforeField, o, j
<1>4. ASSUME NEW fs \in Seq(PlainFields), NEW f \in PlainFields
      PROVE  /\ BeforeField(Append(fs, f)) = (BeforeField(fs) \o Field(f)) \o Comma
             /\ o \o JoinedFields(Append(fs, f)) = BeforeField(fs) \o Field(f)
  <2> DEFINE t == Field(f)
             j == JoinedFields(fs)
             jc == j \o Comma
             g == JoinedFields(Append(fs, f))
             b == BeforeField(fs)
  <2>1. t \in CharSeq /\ j \in CharSeq /\ b \in CharSeq
    <3>1. <<>> \in CharSeq /\ Blank(<<>>)
      BY CharFacts DEF Blank
    <3>2. t \in CharSeq
      BY <3>1, FieldRead
    <3>3. QED BY <1>3, <3>2, JoinLaws
  <2>2. g = (IF j = <<>> THEN t ELSE jc \o t) /\ (j = <<>> => fs = <<>>) /\ (fs = <<>> => j = <<>>)
    BY JoinLaws
  <2>3. b = IF fs = <<>> THEN o ELSE o \o jc
    BY DEF BeforeField, o
  <2>4. BeforeField(Append(fs, f)) = o \o (g \o Comma)
    <3>1. Append(fs, f) # <<>>
      BY AppendType
    <3>2. QED BY <3>1 DEF BeforeField, o
  <2> HIDE DEF t, j, g, b
  <2>5. jc \in CharSeq
    BY <1>1, <2>1, CharFacts
  <2> HIDE DEF jc
  <2>6. o \o g = b \o t
    <3>1. CASE fs = <<>>
      BY <2>2, <2>3, <3>1
    <3>2. CASE fs # <<>>
      <4>1. (o \o jc) \o t = o \o (jc \o t)
        BY ZenonT(60), <1>1, <2>1, <2>5, Assoc
      <4>2. QED BY <2>2, <2>3, <3>2, <4>1
    <3>3. QED BY <3>1, <3>2
  <2>7. g \in CharSeq
    <3>1. jc \o t \in CharSeq
      BY <2>1, <2>5, CharFacts
    <3>2. QED BY <2>1, <2>2, <3>1
  <2>8. (o \o g) \o Comma = o \o (g \o Comma)
    BY Zenon, <1>1, <2>7, Assoc
  <2>9. BeforeField(Append(fs, f)) = (b \o t) \o Comma
    BY <2>4, <2>6, <2>8
  <2>10. QED BY <2>6, <2>9 DEF t, g, b
<1>5. QED BY <1>2, <1>3, <1>4 DEF o

\* The pairs of fields, what is read of parts, and the state the split starts in.
Pairs(fs) == [i \in DOMAIN fs |-> PairOf(fs[i])]
ReadFields(parts) == Scan(ReadField, Ok(<<>>), parts)
SplitFirst == Outside(<<>>, <<>>)

\* Nothing is a text.
LEMMA EmptyText == <<>> \in CharSeq /\ Blank(<<>>)
BY CharFacts DEF Blank

\* A field is a text that begins with its key and ends in a quote.
LEMMA FieldType ==
  ASSUME NEW f \in PlainFields
  PROVE  /\ PairOf(f) \in FieldPairs /\ Field(f) \in CharSeq /\ PlainKey(f.key) /\ f.value \in CharSeq
         /\ Field(f) = Start(f.key) \o Quote(f.value)
<1>1. PairOf(f) \in FieldPairs /\ Field(f) \in CharSeq
  BY EmptyText, FieldRead
<1>2. PlainKey(f.key) /\ f.value \in CharSeq
  BY DEF PlainFields
<1>3. QED BY <1>1, <1>2 DEF Field, Start

\* The pairs of one more field.
LEMMA PairsLaws ==
  /\ Pairs(<<>>) = <<>>
  /\ \A fs \in Seq(PlainFields) : Pairs(fs) \in Seq(FieldPairs)
  /\ \A fs \in Seq(PlainFields), f \in PlainFields :
       Pairs(Append(fs, f)) = Append(Pairs(fs), PairOf(f))
<1>1. Pairs(<<>>) = <<>>
  BY DEF Pairs
<1>2. ASSUME NEW fs \in Seq(PlainFields)
      PROVE  /\ Pairs(fs) \in Seq(FieldPairs) /\ Len(Pairs(fs)) = Len(fs)
             /\ \A i \in DOMAIN fs : Pairs(fs)[i] = PairOf(fs[i])
  <2>1. \A i \in DOMAIN fs : fs[i] \in PlainFields
    OBVIOUS
  <2>2. \A i \in DOMAIN fs : PairOf(fs[i]) \in FieldPairs
    BY <2>1, FieldType
  <2>3. DOMAIN fs = 1..Len(fs) /\ Len(fs) \in Nat
    OBVIOUS
  <2>4. QED BY <2>2, <2>3 DEF Pairs
<1>3. ASSUME NEW fs \in Seq(PlainFields), NEW f \in PlainFields
      PROVE  Pairs(Append(fs, f)) = Append(Pairs(fs), PairOf(f))
  <2> DEFINE g == Append(fs, f)
             a == Pairs(g)
             b == Append(Pairs(fs), PairOf(f))
  <2>1. /\ g \in Seq(PlainFields) /\ Len(g) = Len(fs) + 1 /\ DOMAIN g = DOMAIN fs \cup {Len(fs) + 1}
        /\ g[Len(fs) + 1] = f /\ \A i \in DOMAIN fs : g[i] = fs[i]
    BY AppendType
  <2>2. a \in Seq(FieldPairs) /\ Len(a) = Len(g) /\ \A i \in DOMAIN g : a[i] = PairOf(g[i])
    <3> HIDE DEF g
    <3>1. QED BY <1>2, <2>1
  <2> DEFINE c == Pairs(fs)
             d == PairOf(f)
  <2>3. c \in Seq(FieldPairs) /\ Len(c) = Len(fs) /\ d \in FieldPairs
        /\ \A i \in DOMAIN fs : c[i] = PairOf(fs[i])
    BY <1>2, FieldType
  <2> HIDE DEF c, a, g
  <2>4. /\ b \in Seq(FieldPairs) /\ Len(b) = Len(fs) + 1 /\ b[Len(fs) + 1] = d
        /\ \A i \in DOMAIN c : b[i] = c[i]
    <3> HIDE DEF d
    <3>1. Append(c, d) \in Seq(FieldPairs) /\ Len(Append(c, d)) = Len(c) + 1
          /\ Append(c, d)[Len(c) + 1] = d /\ \A i \in DOMAIN c : Append(c, d)[i] = c[i]
      BY <2>3, AppendType
    <3>2. b = Append(c, d)
      BY DEF c, d
    <3> HIDE DEF b
    <3>3. QED BY <2>3, <3>1, <3>2
  <2> HIDE DEF b
  <2>5. DOMAIN fs = 1..Len(fs) /\ Len(fs) \in Nat /\ DOMAIN c = 1..Len(fs)
    BY <2>3
  <2>6. ASSUME NEW i \in 1..Len(a) PROVE a[i] = b[i]
    <3>1. i \in DOMAIN fs \/ i = Len(fs) + 1
      BY <2>1, <2>2, <2>5
    <3>2. CASE i \in DOMAIN fs
      <4>1. a[i] = PairOf(g[i]) /\ g[i] = fs[i]
        BY <2>1, <2>2, <3>2
      <4>2. b[i] = PairOf(fs[i])
        BY <2>3, <2>4, <2>5, <3>2
      <4>3. QED BY <4>1, <4>2
    <3>3. CASE i = Len(fs) + 1
      <4>1. a[i] = PairOf(g[i]) /\ g[i] = f
        BY <2>1, <2>2, <3>3
      <4>2. QED BY <2>4, <3>3, <4>1 DEF d
    <3>4. QED BY <3>1, <3>2, <3>3
  <2>7. a = b
    BY <2>1, <2>2, <2>4, <2>6, SeqEqual
  <2>8. QED BY <2>7 DEF a, b, c, d, g
<1>4. QED BY <1>1, <1>2, <1>3

\* The fields of one more part.
LEMMA ReadFieldsLaws ==
  /\ ReadFields(<<>>) = Ok(<<>>)
  /\ \A ps \in Seq(CharSeq), p \in CharSeq : ReadFields(Append(ps, p)) = ReadField[ReadFields(ps)][p]
<1>1. ScanLawsOf(ReadField, Tables, CharSeq)
  BY ReadFieldLaws, ScanLaws
<1>2. Ok(<<>>) \in Tables
  BY DEF Tables, Ok
<1>3. QED BY Zenon, <1>1, <1>2 DEF ScanLawsOf, ReadFields

\* The parts of what comes before a field are the fields before it.
PartsBefore(fs, ps) ==
  /\ Split(SplitFirst, BeforeField(fs)) = Outside(ps, <<" ">>) /\ ReadFields(ps) = Ok(Pairs(fs))

\* The text before a field is split into parts that are read as the fields before it.
LEMMA BeforeFieldParts ==
  \A fs \in Seq(PlainFields) : \E ps \in Seq(CharSeq) : PartsBefore(fs, ps)
<1> DEFINE T == {fs \in Seq(PlainFields) : \E ps \in Seq(CharSeq) : PartsBefore(fs, ps)}
           o == <<" ">>
           e == <<>>
<1>0. /\ o \in CharSeq /\ e \in CharSeq /\ Append(e, " ") = o /\ " " \in Characters /\ "," \in Characters
      /\ SplitFirst \in SplitStates /\ e \in Seq(CharSeq)
  <2>1. " " \in Characters /\ "," \in Characters
    BY CharactersAssumption
  <2>2. Append(<<>>, " ") = <<" ">>
    <3>1. <<>> \in CharSeq /\ <<" ">> \in CharSeq
      BY EmptyText, OneChars
    <3>2. <<>> \o <<" ">> = Append(<<>>, " ")
      BY Zenon, <2>1, <3>1, CharFacts
    <3>3. <<>> \o <<" ">> = <<" ">>
      BY Zenon, <3>1, CharFacts
    <3>4. QED BY <3>2, <3>3, Zenon
  <2>3. SplitFirst \in SplitStates
    <3>1. <<>> \in Seq(CharSeq)
      OBVIOUS
    <3>2. QED BY Zenon, <3>1, EmptyText, ReadPartLaws DEF SplitFirst
  <2>4. o \in CharSeq /\ e \in CharSeq
    BY OneChars, EmptyText
  <2>5. e \in Seq(CharSeq)
    OBVIOUS
  <2>6. QED BY <2>1, <2>2, <2>3, <2>4, <2>5
<1>1. <<>> \in T
  <2>1. Split(SplitFirst, o) = ReadPart[SplitFirst][" "]
    BY <1>0, SplitLaws
  <2>2. ReadPart[Outside(e, e)][" "] = Outside(e, Append(e, " "))
    BY <1>0, ReadPartLaws
  <2>3. BeforeField(<<>>) = o /\ ReadFields(<<>>) = Ok(<<>>) /\ Pairs(<<>>) = <<>>
    BY BeforeFieldLaws, ReadFieldsLaws, PairsLaws
  <2>4. PartsBefore(e, e)
    BY <1>0, <2>1, <2>2, <2>3 DEF PartsBefore, SplitFirst
  <2>5. <<>> \in Seq(PlainFields) /\ <<>> \in Seq(CharSeq)
    OBVIOUS
  <2>6. QED BY <2>4, <2>5
<1>2. ASSUME NEW fs \in Seq(PlainFields), NEW f \in PlainFields, fs \in T PROVE Append(fs, f) \in T
  <2>1. PICK ps \in Seq(CharSeq) : PartsBefore(fs, ps)
    BY <1>2
  <2> DEFINE b == BeforeField(fs)
             t == Field(f)
             c == <<",">>
             ot == o \o t
             qs == Append(ps, ot)
             g == Append(fs, f)
  <2>2. /\ b \in CharSeq /\ t \in CharSeq /\ c \in CharSeq /\ Comma = c \o o /\ Comma \in CharSeq
        /\ BeforeField(g) = (b \o t) \o Comma
    BY BeforeFieldLaws, FieldType, CommaText
  <2>3. Split(SplitFirst, b) = Outside(ps, o)
    BY <2>1 DEF PartsBefore
  <2>4. Split(Outside(ps, o), t) = Outside(ps, ot)
    <3>1. t = Start(f.key) \o Quote(f.value) /\ PlainKey(f.key) /\ f.value \in CharSeq
      BY FieldType
    <3> DEFINE k == f.key
               v == f.value
    <3>2. o \in CharSeq /\ PlainKey(k) /\ v \in CharSeq
      BY <1>0, <3>1
    <3> HIDE DEF t, k, v, o
    <3>3. Split(Outside(ps, o), Start(k) \o Quote(v)) = Outside(ps, o \o (Start(k) \o Quote(v)))
      BY <3>2, SplitField
    <3>4. QED BY <3>1, <3>3 DEF k, v
  <2> HIDE DEF t, b, o
  <2>5. ot \in CharSeq
    BY <1>0, <2>2, CharFacts
  <2> HIDE DEF ot
  <2>6. qs \in Seq(CharSeq)
    BY <2>5, AppendType
  <2> DEFINE a1 == Outside(ps, ot)
             a2 == Outside(qs, e)
  <2>7. a1 \in SplitStates /\ a2 \in SplitStates /\ Outside(ps, o) \in SplitStates
    <3> HIDE DEF qs, e
    <3>1. QED BY <1>0, <2>5, <2>6, ReadPartLaws
  <2>8. Split(a1, c) = a2
    <3>1. Split(a1, c) = ReadPart[a1][","]
      BY <1>0, <2>7, SplitLaws
    <3>2. ReadPart[Outside(ps, ot)][","] = Outside(Append(ps, ot), <<>>)
      BY <1>0, <2>5, ReadPartLaws
    <3>3. QED BY <3>1, <3>2
  <2>9. Split(a2, o) = Outside(qs, o)
    <3> HIDE DEF qs, e
    <3>1. Split(a2, <<" ">>) = ReadPart[a2][" "]
      BY <1>0, <2>7, SplitLaws
    <3>2. ReadPart[Outside(qs, e)][" "] = Outside(qs, Append(e, " "))
      BY <1>0, <2>6, ReadPartLaws
    <3>3. QED BY <1>0, <3>1, <3>2 DEF o
  <2> HIDE DEF a1, a2, qs, c
  <2>10. Split(SplitFirst, b \o t) = a1
    <3>1. Split(SplitFirst, b \o t) = Split(Split(SplitFirst, b), t)
      BY ZenonT(60), <1>0, <2>2, SplitLaws
    <3>2. QED BY <2>3, <2>4, <3>1 DEF a1
  <2>11. Split(a1, c \o o) = Outside(qs, o)
    <3>1. Split(a1, c \o o) = Split(Split(a1, c), o)
      BY ZenonT(60), <1>0, <2>2, <2>7, SplitLaws
    <3>2. QED BY <2>8, <2>9, <3>1
  <2>12. Split(SplitFirst, (b \o t) \o Comma) = Outside(qs, o)
    <3>1. b \o t \in CharSeq
      BY <2>2, CharFacts
    <3>2. Split(SplitFirst, (b \o t) \o Comma) = Split(Split(SplitFirst, b \o t), Comma)
      BY Zenon, <1>0, <2>2, <3>1, SplitLaws
    <3>3. QED BY Zenon, <2>2, <2>10, <2>11, <3>2
  <2>13. ReadFields(qs) = Ok(Pairs(g))
    <3> DEFINE pr == Pairs(fs)
    <3>1. pr \in Seq(FieldPairs) /\ Pairs(g) = Append(pr, PairOf(f))
      BY PairsLaws
    <3>2. ReadFields(ps) = Ok(pr)
      BY <2>1 DEF PartsBefore
    <3>3. ReadFields(qs) = ReadField[ReadFields(ps)][ot]
      BY <2>5, ReadFieldsLaws DEF qs
    <3> HIDE DEF pr
    <3>4. ReadField[Ok(pr)][o \o (Field(f) \o <<>>)] = Ok(Append(pr, PairOf(f)))
      BY <1>0, <3>1, EmptyText, OneChars, ReadFieldLaws DEF o
    <3>5. Field(f) \o <<>> = Field(f)
      BY <2>2, CharFacts DEF t
    <3>6. QED BY <3>1, <3>2, <3>3, <3>4, <3>5 DEF ot, t
  <2>14. PartsBefore(g, qs)
    BY <2>2, <2>12, <2>13 DEF PartsBefore, o
  <2>15. g \in Seq(PlainFields)
    BY AppendType
  <2> HIDE DEF g
  <2>16. g \in T
    BY <2>6, <2>14, <2>15
  <2>17. QED BY <2>16 DEF g
<1>3. \A fs \in Seq(PlainFields), f \in PlainFields : fs \in T => Append(fs, f) \in T
  BY <1>2
<1>4. \A fs \in Seq(PlainFields) : fs \in T
  <2> HIDE DEF T
  <2>1. QED BY <1>1, <1>3, AppendInduction
<1>5. QED BY <1>4

\* The two kinds of a value.
LEMMA ValueIs ==
  ASSUME NEW raw, NEW t, t = Trim(raw)
  PROVE  /\ \A r : Enclosed(t, "{", "}") /\ r = ReadFields(SplitTopLevel(Inner(t))) =>
                     ParseValue(raw) = IF r.ok THEN Ok([k |-> "Table", v |-> r.v]) ELSE Fail
         /\ \A r : ~Enclosed(t, "{", "}") /\ r = ParseQuoted(t) =>
                     ParseValue(raw) = IF r.ok THEN Ok([k |-> "Str", v |-> r.v]) ELSE Fail
BY DEF ParseValue, ReadFields

\* A text that does not begin with a brace is no table.
LEMMA NoTable ==
  ASSUME NEW s \in CharSeq, s # <<>>, NEW c, s[1] = c, NEW a, a # c, NEW b
  PROVE  ~Enclosed(s, a, b)
<1>1. Head(s) = s[1]
  BY DEF CharSeq
<1>2. QED BY <1>1 DEF Enclosed

\* A quoted value is a string, and none when it is cut off.
LEMMA StringValue ==
  ASSUME NEW w \in CharSeq, NEW v \in CharSeq, Blank(w)
  PROVE  /\ ParseValue(w \o Quote(v)) = Ok([k |-> "Str", v |-> v])
         /\ ParseValue(w \o (<<"\"">> \o Esc(v))) = Fail
<1> DEFINE e == <<>>
           q == <<"\"">>
<1>1. e \in CharSeq /\ Blank(e) /\ q \in CharSeq /\ Solid(q) /\ q # <<>> /\ q[1] = "\""
  BY EmptyText, OneChars
<1>2. ParseValue(w \o Quote(v)) = Ok([k |-> "Str", v |-> v])
  <2> DEFINE s == Quote(v)
             r == ParseQuoted(s)
             raw == w \o s
  <2>1. Trim(raw) = s /\ s \in CharSeq /\ s = q \o (Esc(v) \o q)
    BY QuotedText, QuoteLaws
  <2>2. ParseQuoted(e \o s) = Ok(v)
    BY <1>1, QuotedText
  <2>3. e \o s = s
    <3> HIDE DEF s
    <3>1. QED BY <2>1, CharFacts
  <2>4. r.ok /\ r.v = v
    BY <2>2, <2>3 DEF Ok
  <2>5. s # <<>> /\ s[1] = "\""
    <3> DEFINE x == Esc(v) \o q
    <3>1. x \in CharSeq
      BY <1>1, EscLaws, CharFacts
    <3> HIDE DEF x, s
    <3>2. q \o x # <<>> /\ (q \o x)[1] = q[1]
      BY <1>1, <3>1, ConcatEnds
    <3>3. QED BY <1>1, <2>1, <3>2 DEF x
  <2> HIDE DEF s, raw
  <2>6. ~Enclosed(s, "{", "}")
    BY <2>1, <2>5, NoTable
  <2>7. ParseValue(raw) = IF r.ok THEN Ok([k |-> "Str", v |-> r.v]) ELSE Fail
    BY <2>1, <2>6, ValueIs
  <2> HIDE DEF r
  <2>8. QED BY <2>4, <2>7 DEF raw, s
<1>3. ParseValue(w \o (q \o Esc(v))) = Fail
  <2> DEFINE raw == w \o (q \o Esc(v))
  <2> HIDE DEF q
  <2>1. \E x \in CharSeq, y \in CharSeq :
          v = x \o y /\ Solid(q \o Esc(x)) /\ Trim(w \o (q \o Esc(v))) = q \o Esc(x)
    BY <1>1, TrimOpen
  <2>2. PICK x \in CharSeq : Trim(raw) = q \o Esc(x)
    BY Zenon, <2>1
  <2> DEFINE z == Esc(x)
             s == q \o z
             r == ParseQuoted(s)
  <2>3. z \in CharSeq /\ s \in CharSeq
    BY <1>1, EscLaws, CharFacts
  <2>4. ParseQuoted(e \o s) = Fail
    BY <1>1, OpenText DEF q
  <2>5. e \o s = s
    <3> HIDE DEF s
    <3>1. QED BY <2>3, CharFacts
  <2>6. ~r.ok
    BY <2>4, <2>5 DEF Fail
  <2> HIDE DEF z
  <2>7. s # <<>> /\ s[1] = q[1]
    BY <1>1, <2>3, ConcatEnds
  <2>8. Trim(raw) = s
    BY <2>2 DEF z
  <2> HIDE DEF s, raw
  <2>9. ~Enclosed(s, "{", "}")
    BY <1>1, <2>3, <2>7, NoTable
  <2>10. ParseValue(raw) = IF r.ok THEN Ok([k |-> "Str", v |-> r.v]) ELSE Fail
    BY <2>8, <2>9, ValueIs
  <2> HIDE DEF r
  <2>11. QED BY <2>6, <2>10 DEF raw
<1>4. QED BY <1>2, <1>3

\* What the split ends with.
LEMMA LastPart ==
  ASSUME NEW t, NEW ps, NEW p, NEW q, NEW e,
         Split(SplitFirst, t) = SplitState(ps, p, q, e), Trim(p) # <<>>
  PROVE  SplitTopLevel(t) = Append(ps, p)
<1>1. Scan(ReadPart, SplitState(<<>>, <<>>, FALSE, FALSE), t) = SplitState(ps, p, q, e)
  BY DEF Split, SplitFirst, Outside
<1>2. QED BY <1>1 DEF SplitTopLevel, SplitState

\* A table whose last field is f, and one that is cut in the value u of a field.
TableText(fs, f) == <<"{">> \o ((BeforeField(fs) \o (Field(f) \o <<" ">>)) \o <<"}">>)
OpenTable(fs, k, u) == <<"{">> \o (BeforeField(fs) \o Opened(k, u))

\* A text between braces.
LEMMA Braced ==
  ASSUME NEW b \in CharSeq
  PROVE  /\ <<"{">> \o (b \o <<"}">>) \in CharSeq /\ Solid(<<"{">> \o (b \o <<"}">>))
         /\ Enclosed(<<"{">> \o (b \o <<"}">>), "{", "}") /\ Inner(<<"{">> \o (b \o <<"}">>)) = b
<1> DEFINE a == "{"
           c == "}"
           s == <<a>> \o (b \o <<c>>)
<1>1. a \in Characters /\ c \in Characters /\ ~IsSpace(a) /\ ~IsSpace(c)
  BY CharactersAssumption DEF IsSpace
<1> HIDE DEF a, c
<1>2. Inner(s) = b /\ Len(s) >= 2 /\ s \in CharSeq /\ Head(s) = a /\ Last(s) = c
  BY <1>1, InnerOf
<1> HIDE DEF s
<1>3. Len(s) >= 1
  BY <1>2 DEF CharSeq
<1>4. s # <<>> /\ Head(s) = s[1] /\ Last(s) = s[Len(s)]
  BY <1>2, <1>3, TextEnds
<1>5. Solid(s) /\ Enclosed(s, a, c)
  BY <1>1, <1>2, <1>4 DEF Solid, Enclosed
<1>6. QED BY <1>2, <1>5 DEF s, a, c

\* A table that is written is read back.
LEMMA TableValue ==
  ASSUME NEW fs \in Seq(PlainFields), NEW f \in PlainFields, NEW w \in CharSeq, Blank(w)
  PROVE  /\ ParseValue(w \o TableText(fs, f)) = Ok([k |-> "Table", v |-> Pairs(Append(fs, f))])
         /\ TableText(fs, f) \in CharSeq /\ Solid(TableText(fs, f))
<1> DEFINE b == BeforeField(fs)
           t == Field(f)
           o == <<" ">>
           to == t \o o
           x == b \o to
           s == TableText(fs, f)
           raw == w \o s
           p == o \o to
<1>1. PICK ps \in Seq(CharSeq) : PartsBefore(fs, ps)
  BY BeforeFieldParts
<1>2. /\ b \in CharSeq /\ t \in CharSeq /\ o \in CharSeq /\ Blank(o)
      /\ Trim(o \o (t \o o)) = t /\ t # <<>>
  BY BeforeFieldLaws, OneChars, FieldRead
<1>3. to \in CharSeq
  <2> HIDE DEF t, o
  <2>1. QED BY <1>2, CharFacts
<1>4. x \in CharSeq /\ p \in CharSeq
  <2> HIDE DEF b, to, o
  <2>1. QED BY <1>2, <1>3, CharFacts
<1>5. s \in CharSeq /\ Solid(s) /\ Enclosed(s, "{", "}") /\ Inner(s) = x
  <2>1. s = <<"{">> \o (x \o <<"}">>)
    BY DEF TableText
  <2> HIDE DEF x, s
  <2>2. QED BY <1>4, <2>1, Braced
<1>6. Trim(raw) = s
  <2> HIDE DEF s
  <2>1. Trim(w \o (s \o <<>>)) = s
    BY <1>5, EmptyText, TrimOf
  <2>2. s \o <<>> = s
    BY <1>5, CharFacts
  <2>3. QED BY <2>1, <2>2
<1>7. Split(SplitFirst, b) = Outside(ps, o) /\ ReadFields(ps) = Ok(Pairs(fs))
  BY <1>1 DEF PartsBefore
<1>8. Split(Outside(ps, o), t) = Outside(ps, o \o t)
  <2> DEFINE k == f.key
             v == f.value
  <2>1. PlainKey(k) /\ v \in CharSeq /\ t = Start(k) \o Quote(v)
    BY FieldType
  <2>2. o \in CharSeq
    BY <1>2
  <2> HIDE DEF k, v, t, o
  <2>3. Split(Outside(ps, o), Start(k) \o Quote(v)) = Outside(ps, o \o (Start(k) \o Quote(v)))
    BY <2>1, <2>2, SplitField
  <2>4. QED BY <2>1, <2>3
<1>9. SplitFirst \in SplitStates
  <2>1. <<>> \in Seq(CharSeq)
    OBVIOUS
  <2>2. QED BY Zenon, <2>1, EmptyText, ReadPartLaws DEF SplitFirst
<1> DEFINE ot == o \o t
<1>10. ot \in CharSeq /\ ot \o o = p
  <2> HIDE DEF t, o
  <2>1. ot \in CharSeq
    BY <1>2, CharFacts
  <2>2. (o \o t) \o o = o \o (t \o o)
    BY Zenon, <1>2, Assoc
  <2>3. QED BY <2>1, <2>2
<1>11. Split(Outside(ps, ot), o) = Outside(ps, ot \o o)
  <2>1. \A i \in DOMAIN o : o[i] \notin {"\"", ","}
    <3> HIDE DEF o
    <3>1. QED BY <1>2 DEF Blank, IsSpace
  <2> HIDE DEF ot, o
  <2>2. QED BY <1>2, <1>10, <2>1, SplitPlain
<1>12. Split(SplitFirst, x) = Outside(ps, p)
  <2>1. Outside(ps, o) \in SplitStates
    <3> HIDE DEF o
    <3>1. QED BY <1>2, ReadPartLaws
  <2> HIDE DEF b, t, o
  <2>2. Split(SplitFirst, b \o to) = Split(Split(SplitFirst, b), to)
    <3> HIDE DEF to
    <3>1. QED BY <1>2, <1>3, <1>9, SplitLaws
  <2>3. Split(Outside(ps, o), t \o o) = Split(Split(Outside(ps, o), t), o)
    BY Zenon, <1>2, <2>1, SplitLaws
  <2> HIDE DEF p
  <2>4. QED BY <1>7, <1>8, <1>10, <1>11, <2>2, <2>3
<1>13. SplitTopLevel(x) = Append(ps, p)
  <2>1. Trim(p) # <<>>
    BY <1>2
  <2> HIDE DEF p, x
  <2>2. QED BY <1>12, <2>1, LastPart DEF Outside
<1>14. ReadFields(Append(ps, p)) = Ok(Pairs(Append(fs, f)))
  <2> DEFINE pr == Pairs(fs)
  <2>1. pr \in Seq(FieldPairs) /\ Pairs(Append(fs, f)) = Append(pr, PairOf(f))
    BY PairsLaws
  <2>2. ReadFields(ps) = Ok(pr)
    BY <1>7
  <2>3. ReadFields(Append(ps, p)) = ReadField[ReadFields(ps)][p]
    <3> HIDE DEF p
    <3>1. QED BY <1>4, ReadFieldsLaws
  <2> HIDE DEF pr
  <2>4. ReadField[Ok(pr)][o \o (Field(f) \o o)] = Ok(Append(pr, PairOf(f)))
    <3> HIDE DEF o
    <3>1. QED BY <1>2, <2>1, ReadFieldLaws
  <2>5. QED BY <2>1, <2>2, <2>3, <2>4
<1> DEFINE r == ReadFields(SplitTopLevel(Inner(s)))
<1>15. r = Ok(Pairs(Append(fs, f)))
  <2> HIDE DEF s, x, p
  <2>1. QED BY <1>5, <1>13, <1>14
<1>16. ParseValue(raw) = IF r.ok THEN Ok([k |-> "Table", v |-> r.v]) ELSE Fail
  <2> HIDE DEF s, raw
  <2>1. QED BY <1>5, <1>6, ValueIs
<1>17. ParseValue(raw) = Ok([k |-> "Table", v |-> Pairs(Append(fs, f))])
  <2>1. r.ok /\ r.v = Pairs(Append(fs, f))
    BY <1>15 DEF Ok
  <2> HIDE DEF r
  <2>2. QED BY <1>16, <2>1
<1>18. QED BY <1>5, <1>17

\* What is written of a table that is cut off: up to the quote of its value, and then of that value.
LEMMA OpenTableIs ==
  ASSUME NEW fs \in Seq(PlainFields), NEW k, PlainKey(k)
  PROVE  \E h \in CharSeq :
           /\ Solid(h) /\ h[1] = "{" /\ h[Len(h)] = "\""
           /\ \A x \in CharSeq : OpenTable(fs, k, x) = h \o Esc(x) /\ OpenTable(fs, k, x) \in CharSeq
<1> DEFINE b == BeforeField(fs)
           c == "{"
           a == <<c>>
           d == "}"
           st == Start(k)
           q == <<"\"">>
           o == <<" ">>
           sq == st \o q
           h == a \o (b \o sq)
<1>1. /\ a \in CharSeq /\ b \in CharSeq /\ st \in CharSeq /\ q \in CharSeq /\ Solid(q)
      /\ a # <<>> /\ a[1] = c /\ c \in Characters /\ d \in Characters /\ ~IsSpace(c) /\ q # <<>>
      /\ q[1] = "\"" /\ o \in CharSeq /\ Len(q) = 1
  <2>1. c \in Characters /\ d \in Characters /\ ~IsSpace(c)
    BY CharactersAssumption DEF IsSpace
  <2>2. a \in CharSeq /\ a # <<>> /\ a[1] = c
    BY <2>1, OneChar
  <2>3. q \in CharSeq /\ Solid(q) /\ o \in CharSeq
    BY OneChars
  <2>4. q # <<>> /\ q[1] = "\"" /\ Len(q) = 1
    OBVIOUS
  <2>5. b \in CharSeq /\ st \in CharSeq
    BY BeforeFieldLaws, EmptyText, StartLaws
  <2>6. QED BY <2>1, <2>2, <2>3, <2>4, <2>5
<1> HIDE DEF a, b, st, q, d
<1>2. sq \in CharSeq /\ b \o sq \in CharSeq /\ h \in CharSeq
  <2>1. sq \in CharSeq
    BY <1>1, CharFacts
  <2> HIDE DEF sq
  <2>2. b \o sq \in CharSeq
    BY <1>1, <2>1, CharFacts
  <2>3. QED BY <1>1, <2>1, <2>2, CharFacts
\* The text is h and what is written of the value.
<1>3. ASSUME NEW x \in CharSeq
      PROVE  /\ OpenTable(fs, k, x) = h \o Esc(x) /\ OpenTable(fs, k, x) \in CharSeq
             /\ OpenTable(fs, k, x) = a \o (b \o Opened(k, x)) /\ Opened(k, x) \in CharSeq
  <2> DEFINE e == Esc(x)
             qe == q \o e
             y == st \o qe
  <2>1. e \in CharSeq
    BY EscLaws
  <2>2. Opened(k, x) = y
    BY DEF Opened, st, q
  <2> HIDE DEF e
  <2>3. qe \in CharSeq
    BY <1>1, <2>1, CharFacts
  <2>4. sq \o e = st \o (q \o e)
    <3>1. st \in CharSeq /\ q \in CharSeq /\ e \in CharSeq
      BY <1>1, <2>1
    <3>2. QED BY Zenon, <3>1, Assoc
  <2> HIDE DEF qe
  <2>5. y \in CharSeq
    BY <1>1, <2>3, CharFacts
  <2>6. (b \o sq) \o e = b \o (sq \o e)
    <3>1. b \in CharSeq /\ sq \in CharSeq /\ e \in CharSeq
      BY <1>1, <1>2, <2>1
    <3> HIDE DEF sq
    <3>2. QED BY Zenon, <3>1, Assoc
  <2>7. (a \o (b \o sq)) \o e = a \o ((b \o sq) \o e)
    <3> DEFINE bs == b \o sq
    <3>1. a \in CharSeq /\ bs \in CharSeq /\ e \in CharSeq
      BY <1>1, <1>2, <2>1
    <3> HIDE DEF bs
    <3>2. (a \o bs) \o e = a \o (bs \o e)
      BY Zenon, <3>1, Assoc
    <3>3. QED BY <3>2 DEF bs
  <2>8. h \o e = a \o (b \o y)
    BY <2>4, <2>6, <2>7 DEF qe
  <2>9. h \o e \in CharSeq
    <3> HIDE DEF h
    <3>1. QED BY <1>2, <2>1, CharFacts
  <2>10. OpenTable(fs, k, x) = a \o (b \o y)
    BY <2>2 DEF OpenTable, a, b
  <2>11. QED BY <2>2, <2>5, <2>8, <2>9, <2>10 DEF e
<1>4. Solid(h) /\ h[1] = c /\ h[Len(h)] = "\""
  <2> DEFINE bs == b \o sq
  <2>1. sq # <<>> /\ sq[Len(sq)] = q[Len(q)]
    BY <1>1, ConcatEnds
  <2> HIDE DEF sq
  <2>2. bs # <<>> /\ bs[Len(bs)] = sq[Len(sq)]
    BY <1>1, <1>2, <2>1, ConcatEnds
  <2>3. bs \in CharSeq
    BY <1>2
  <2> HIDE DEF bs
  <2>4. a \o bs # <<>> /\ (a \o bs)[1] = c /\ (a \o bs)[Len(a \o bs)] = bs[Len(bs)]
    BY <1>1, <2>2, <2>3, ConcatEnds
  <2>5. ~IsSpace(q[Len(q)])
    BY <1>1 DEF Solid
  <2>6. h = a \o bs
    BY DEF bs
  <2> HIDE DEF h, c
  <2>7. QED BY <1>1, <2>1, <2>2, <2>4, <2>5, <2>6 DEF Solid
<1> HIDE DEF h
<1>5. QED BY <1>2, <1>3, <1>4

\* A table that is cut off in a value is not read.
LEMMA OpenTableValue ==
  ASSUME NEW fs \in Seq(PlainFields), NEW k, PlainKey(k), NEW u \in CharSeq, NEW w \in CharSeq, Blank(w)
  PROVE  /\ ParseValue(w \o OpenTable(fs, k, u)) = Fail
         /\ OpenTable(fs, k, u) \in CharSeq
<1> DEFINE b == BeforeField(fs)
           c == "{"
           a == <<c>>
           d == "}"
           o == <<" ">>
           raw == w \o OpenTable(fs, k, u)
<1>1. /\ a \in CharSeq /\ b \in CharSeq /\ c \in Characters /\ d \in Characters /\ o \in CharSeq
  <2>1. c \in Characters /\ d \in Characters
    BY CharactersAssumption
  <2>2. a \in CharSeq
    BY <2>1, OneChar
  <2>3. o \in CharSeq
    BY OneChars
  <2>4. b \in CharSeq
    BY BeforeFieldLaws, EmptyText
  <2>5. QED BY <2>1, <2>2, <2>3, <2>4
<1>2. PICK h \in CharSeq :
        /\ Solid(h) /\ h[1] = "{" /\ h[Len(h)] = "\""
        /\ \A x \in CharSeq : OpenTable(fs, k, x) = h \o Esc(x) /\ OpenTable(fs, k, x) \in CharSeq
  BY OpenTableIs
<1> HIDE DEF a, b, d
<1>3. ASSUME NEW x \in CharSeq
      PROVE  /\ OpenTable(fs, k, x) = h \o Esc(x) /\ OpenTable(fs, k, x) \in CharSeq
             /\ OpenTable(fs, k, x) = a \o (b \o Opened(k, x)) /\ Opened(k, x) \in CharSeq
  <2>1. Opened(k, x) \in CharSeq
    BY EmptyText, OpenedRead
  <2>2. QED BY <1>2, <2>1 DEF OpenTable, a, b
<1>4. Solid(h) /\ h[1] = c
  BY <1>2
<1>5. PICK x \in CharSeq : Trim(raw) = OpenTable(fs, k, x) /\ Solid(h \o Esc(x))
  <2>1. \E x \in CharSeq, y \in CharSeq :
          u = x \o y /\ Solid(h \o Esc(x)) /\ Trim(w \o (h \o Esc(u))) = h \o Esc(x)
    BY <1>2, <1>4, TrimOpen
  <2>2. PICK x \in CharSeq : Trim(w \o (h \o Esc(u))) = h \o Esc(x) /\ Solid(h \o Esc(x))
    BY Zenon, <2>1
  <2>3. OpenTable(fs, k, u) = h \o Esc(u) /\ OpenTable(fs, k, x) = h \o Esc(x)
    BY <1>3
  <2>4. QED BY <2>2, <2>3
<1> DEFINE s == OpenTable(fs, k, x)
           z == Esc(x)
<1>6. s \in CharSeq /\ s = h \o z /\ z \in CharSeq /\ s # <<>> /\ s[1] = c
  <2>1. s \in CharSeq /\ s = h \o z
    BY <1>3
  <2>2. z \in CharSeq
    BY EscLaws
  <2> HIDE DEF s, z
  <2>3. h # <<>>
    BY <1>4 DEF Solid
  <2>4. QED BY <1>2, <1>4, <2>1, <2>2, <2>3, ConcatEnds
<1>7. ASSUME Enclosed(s, "{", "}") PROVE ParseValue(raw) = Fail
  <2>1. Len(s) \in Nat /\ Last(s) = s[Len(s)] /\ Last(s) = d
    <3> HIDE DEF s
    <3>0. s \in CharSeq
      BY <1>6
    <3>1. Len(s) \in Nat /\ s[Len(s)] = Last(s)
      BY <3>0 DEF CharSeq, Last
    <3>2. Last(s) = d
      BY <1>7 DEF Enclosed, d
    <3>3. QED BY <3>1, <3>2
  <2>2. x # <<>>
    <3> SUFFICES ASSUME x = <<>> PROVE FALSE
      OBVIOUS
    <3>1. z = <<>>
      BY EscLaws
    <3>2. s = h
      <4> HIDE DEF s, z
      <4>1. QED BY <1>2, <1>6, <3>1, CharFacts
    <3>3. h[Len(h)] = "\""
      BY <1>2
    <3>4. d # "\""
      BY DEF d
    <3> HIDE DEF s
    <3>5. QED BY <2>1, <3>2, <3>3, <3>4
  <2>3. PICK y \in CharSeq, e \in Characters : x = Append(y, e) /\ e = x[Len(x)]
    <3>1. \E y \in CharSeq, e \in Characters : x = Append(y, e) /\ e = x[Len(x)] /\ Len(x) = Len(y) + 1
      BY <2>2, LastChar
    <3>2. QED BY Zenon, <3>1
  <2>4. e = d
    <3>1. z # <<>> /\ z[Len(z)] = x[Len(x)]
      BY <2>2, EscEnd
    <3> HIDE DEF s, z
    <3>2. (h \o z)[Len(h \o z)] = z[Len(z)]
      BY <1>2, <1>6, <3>1, ConcatEnds
    <3>3. QED BY <1>6, <2>1, <2>3, <3>1, <3>2
  <2> DEFINE p == Opened(k, y)
             bp == b \o p
             op == o \o p
             de == <<d>>
             ez == Esc(y)
             sz == h \o ez
  <2>5. p \in CharSeq /\ sz = a \o bp /\ sz \in CharSeq
    BY <1>3
  <2>6. z = ez \o de /\ ez \in CharSeq /\ de \in CharSeq
    <3>1. EscOf(e) = <<e>>
      BY <2>4 DEF EscOf, d
    <3>2. Esc(Append(y, e)) = Esc(y) \o EscOf(e)
      BY EscLaws
    <3>3. ez \in CharSeq
      BY EscLaws
    <3>4. QED BY <1>1, <2>3, <2>4, <3>1, <3>2, <3>3, OneChar
  <2> HIDE DEF p, z, ez, de
  <2>7. bp \in CharSeq /\ op \in CharSeq
    <3>1. bp \in CharSeq
      BY <1>1, <2>5, CharFacts
    <3>2. op \in CharSeq
      BY <1>1, <2>5, CharFacts
    <3>3. QED BY <3>1, <3>2
  <2>8. s = a \o (bp \o de)
    <3>1. (h \o ez) \o de = h \o (ez \o de)
      <4>1. h \in CharSeq /\ ez \in CharSeq /\ de \in CharSeq
        BY <1>2, <2>6
      <4>2. QED BY SMTT(40), <4>1, Assoc
    <3> HIDE DEF bp
    <3>2. (a \o bp) \o de = a \o (bp \o de)
      <4>1. a \in CharSeq /\ bp \in CharSeq /\ de \in CharSeq
        BY <1>1, <2>6, <2>7
      <4>2. \A p1 \in CharSeq, p2 \in CharSeq, p3 \in CharSeq : (p1 \o p2) \o p3 = p1 \o (p2 \o p3)
        BY CharFacts
      <4>3. \A p3 \in CharSeq : (a \o bp) \o p3 = a \o (bp \o p3)
        BY Zenon, <4>1, <4>2
      <4>4. QED BY Zenon, <4>1, <4>3
    <3> HIDE DEF s
    <3>3. QED BY <1>6, <2>5, <2>6, <3>1, <3>2
  <2>9. Inner(s) = bp
    <3> HIDE DEF s, bp
    <3>1. Inner(<<"{">> \o (bp \o <<"}">>)) = bp
      BY <2>7, Braced
    <3>2. QED BY <2>8, <3>1 DEF a, de, d
  <2>10. PICK ps \in Seq(CharSeq) : PartsBefore(fs, ps)
    BY BeforeFieldParts
  <2>11. Split(SplitFirst, b) = Outside(ps, o) /\ ReadFields(ps) = Ok(Pairs(fs))
    BY <2>10 DEF PartsBefore, b
  <2>12. Split(SplitFirst, bp) = Within(ps, op)
    <3>1. SplitFirst \in SplitStates
      <4>1. <<>> \in Seq(CharSeq)
        OBVIOUS
      <4>2. QED BY Zenon, <4>1, EmptyText, ReadPartLaws DEF SplitFirst
    <3>0. o \in CharSeq
      BY <1>1
    <3>2. Split(SplitFirst, b \o p) = Split(Split(SplitFirst, b), p)
      BY <1>1, <2>5, <3>1, SplitLaws
    <3> HIDE DEF o
    <3>3. Split(Outside(ps, o), Opened(k, y)) = Within(ps, o \o Opened(k, y))
      BY <3>0, SplitField
    <3>4. QED BY <2>11, <3>2, <3>3 DEF p
  <2>13. Trim(op) # <<>> /\ Blank(o)
    <3>0. o \in CharSeq
      BY <1>1
    <3>1. Blank(o)
      BY OneChars
    <3> HIDE DEF o
    <3>2. \E v \in CharSeq : /\ Trim(o \o Opened(k, y)) = Opened(k, v) /\ Solid(Opened(k, v))
                             /\ Opened(k, v) # <<>> /\ ParsePair(Opened(k, v)) = Fail
      BY <3>0, <3>1, OpenedRead
    <3>3. QED BY <3>1, <3>2 DEF p
  <2>14. SplitTopLevel(bp) = Append(ps, op)
    <3> HIDE DEF bp, op
    <3>1. QED BY <2>12, <2>13, LastPart DEF Within
  <2>15. ReadFields(Append(ps, op)) = Fail
    <3> DEFINE pr == Pairs(fs)
    <3>1. pr \in Seq(FieldPairs)
      BY PairsLaws
    <3>0. o \in CharSeq
      BY <1>1
    <3>2. k \in Characters
      BY DEF PlainKey
    <3>3. ReadFields(Append(ps, op)) = ReadField[ReadFields(ps)][op]
      <4> HIDE DEF op
      <4>1. QED BY <2>7, ReadFieldsLaws
    <3>4. ReadFields(ps) = Ok(pr)
      BY <2>11
    <3> HIDE DEF pr, o
    <3>5. ReadField[Ok(pr)][o \o Opened(k, y)] = Fail
      BY <2>13, <3>0, <3>1, <3>2, ReadFieldLaws
    <3>6. QED BY <3>3, <3>4, <3>5 DEF p
  <2> DEFINE r == ReadFields(SplitTopLevel(Inner(s)))
  <2>16. ~r.ok
    <3>1. r = Fail
      BY <2>9, <2>14, <2>15
    <3>2. QED BY <3>1 DEF Fail
  <2> HIDE DEF s, raw
  <2>17. Trim(raw) = s
    BY <1>5 DEF s
  <2>18. ParseValue(raw) = IF r.ok THEN Ok([k |-> "Table", v |-> r.v]) ELSE Fail
    BY <1>7, <2>17, ValueIs
  <2> HIDE DEF r
  <2>19. QED BY <2>16, <2>18
<1>8. ASSUME ~Enclosed(s, "{", "}") PROVE ParseValue(raw) = Fail
  <2> DEFINE r == ParseQuoted(s)
  <2>1. Trim(s) = s
    <3> DEFINE e == <<>>
    <3>1. e \in CharSeq /\ Blank(e)
      BY EmptyText
    <3>2. Solid(s)
      BY <1>5, <1>6
    <3> HIDE DEF s
    <3>3. e \o (s \o e) = s
      BY <1>6, CharFacts DEF e
    <3> HIDE DEF e
    <3>4. Trim(e \o (s \o e)) = s
      BY <1>6, <3>1, <3>2, TrimOf
    <3>5. QED BY <3>3, <3>4
  <2>2. ~Enclosed(s, "\"", "\"")
    <3>1. "\"" # c
      OBVIOUS
    <3> HIDE DEF s, c
    <3>2. QED BY <1>6, <3>1, NoTable
  <2>3. r = Fail
    BY <2>1, <2>2 DEF ParseQuoted
  <2>4. ParseValue(raw) = IF r.ok THEN Ok([k |-> "Str", v |-> r.v]) ELSE Fail
    <3> HIDE DEF s, raw
    <3>1. Trim(raw) = s
      BY <1>5 DEF s
    <3>2. QED BY <1>8, <3>1, ValueIs
  <2>5. ParseValue(raw) = Fail
    BY <2>3, <2>4 DEF Fail
  <2>6. QED BY <2>5
<1>9. ParseValue(raw) = Fail
  BY <1>7, <1>8
<1>10. QED BY <1>3, <1>5, <1>9

\* The characters at which a line is cut, and a text without them.
Breaks == {"#", "\n"}

\* Texts a line can keep.
Clean(s) == \A i \in DOMAIN s : s[i] \notin Breaks

\* The text s is cut at the end of a.
CutAt(s, a) ==
  a \in CharSeq /\ Clean(a) /\ \E c \in Breaks, w \in CharSeq : s = a \o (<<c>> \o w)

\* Two texts put together are clean when both are.
LEMMA CleanConcat ==
  ASSUME NEW a \in CharSeq, NEW b \in CharSeq
  PROVE  Clean(a \o b) <=> Clean(a) /\ Clean(b)
<1> DEFINE s == a \o b
<1>1. /\ Len(a) \in Nat /\ Len(b) \in Nat /\ Len(s) = Len(a) + Len(b)
      /\ DOMAIN a = 1..Len(a) /\ DOMAIN b = 1..Len(b) /\ DOMAIN s = 1..(Len(a) + Len(b))
      /\ \A i \in 1..Len(a) : s[i] = a[i]
      /\ \A i \in 1..Len(b) : s[Len(a) + i] = b[i]
  BY ConcatIndex
<1> HIDE DEF s
<1>2. ASSUME Clean(a), Clean(b) PROVE Clean(s)
  <2>1. ASSUME NEW i \in DOMAIN s PROVE s[i] \notin Breaks
    <3>1. CASE i <= Len(a)
      <4>1. i \in 1..Len(a)
        BY <1>1, <3>1
      <4>2. QED BY <1>1, <1>2, <4>1 DEF Clean
    <3>2. CASE i > Len(a)
      <4>1. i - Len(a) \in 1..Len(b) /\ i = Len(a) + (i - Len(a))
        BY <1>1, <3>2
      <4>2. s[i] = b[i - Len(a)]
        BY <1>1, <4>1
      <4>3. QED BY <1>1, <1>2, <4>1, <4>2 DEF Clean
    <3>3. QED BY <1>1, <3>1, <3>2
  <2>2. QED BY <2>1 DEF Clean
<1>3. ASSUME Clean(s) PROVE Clean(a) /\ Clean(b)
  <2>1. ASSUME NEW i \in DOMAIN a PROVE a[i] \notin Breaks
    <3>1. i \in DOMAIN s /\ s[i] = a[i]
      BY <1>1
    <3>2. QED BY <1>3, <3>1 DEF Clean
  <2>2. ASSUME NEW i \in DOMAIN b PROVE b[i] \notin Breaks
    <3>1. Len(a) + i \in DOMAIN s /\ s[Len(a) + i] = b[i]
      BY <1>1
    <3>2. QED BY <1>3, <3>1 DEF Clean
  <2>3. QED BY <2>1, <2>2 DEF Clean
<1>4. QED BY <1>2, <1>3 DEF s

\* A text of one character is clean when the character is.
LEMMA CleanChar ==
  ASSUME NEW c \in Characters
  PROVE  <<c>> \in CharSeq /\ (Clean(<<c>>) <=> c \notin Breaks)
<1>1. <<c>> \in CharSeq
  BY OneChar
<1>2. DOMAIN <<c>> = {1} /\ <<c>>[1] = c
  OBVIOUS
<1>3. QED BY <1>1, <1>2 DEF Clean

\* Nothing is clean.
LEMMA CleanEmpty == Clean(<<>>)
BY DEF Clean

\* A text that is cut, behind a clean one.
LEMMA CutBehind ==
  ASSUME NEW h \in CharSeq, Clean(h), NEW s \in CharSeq, NEW a, CutAt(s, a)
  PROVE  CutAt(h \o s, h \o a)
<1>1. PICK c \in Breaks, w \in CharSeq : s = a \o (<<c>> \o w)
  BY DEF CutAt
<1> DEFINE r == <<c>> \o w
<1>2. a \in CharSeq /\ Clean(a) /\ c \in Characters
  BY CharactersAssumption DEF CutAt, Breaks
<1>3. <<c>> \in CharSeq
  BY <1>2, OneChar
<1>4. r \in CharSeq
  BY <1>3, CharFacts
<1>5. h \o a \in CharSeq
  BY <1>2, CharFacts
<1>6. Clean(h \o a)
  BY <1>2, CleanConcat
<1> HIDE DEF r
<1>7. (h \o a) \o r = h \o (a \o r)
  BY ZenonT(60), <1>2, <1>4, Assoc
<1>8. h \o s = (h \o a) \o (<<c>> \o w)
  BY <1>1, <1>7 DEF r
<1>9. QED BY Zenon, <1>5, <1>6, <1>8 DEF CutAt

\* A text that is cut, with more behind it.
LEMMA CutMore ==
  ASSUME NEW s \in CharSeq, NEW a, CutAt(s, a), NEW t \in CharSeq
  PROVE  CutAt(s \o t, a)
<1>1. PICK c \in Breaks, w \in CharSeq : s = a \o (<<c>> \o w)
  BY DEF CutAt
<1> DEFINE q == <<c>>
           r == q \o w
           x == w \o t
<1>2. a \in CharSeq /\ Clean(a) /\ c \in Characters
  BY CharactersAssumption DEF CutAt, Breaks
<1>3. q \in CharSeq
  BY <1>2, OneChar
<1> HIDE DEF q
<1>4. r \in CharSeq /\ x \in CharSeq
  BY <1>3, CharFacts
<1>5. (q \o w) \o t = q \o (w \o t)
  BY Zenon, <1>3, Assoc
<1> HIDE DEF r
<1>6. (a \o r) \o t = a \o (r \o t)
  BY ZenonT(60), <1>2, <1>4, Assoc
<1>7. s \o t = a \o (q \o x)
  BY <1>1, <1>5, <1>6 DEF r, q
<1>8. s \o t = a \o (<<c>> \o x)
  BY <1>7 DEF q
<1> HIDE DEF x
<1>9. QED BY Zenon, <1>2, <1>4, <1>8 DEF CutAt

\* A text that is not clean is cut at the first of its breaks.
LEMMA FirstCut ==
  \A v \in CharSeq : Clean(v) \/ \E u \in CharSeq : CutAt(v, u)
<1> DEFINE T == {v \in CharSeq : Clean(v) \/ \E u \in CharSeq : CutAt(v, u)}
<1>1. <<>> \in T
  BY CharFacts, CleanEmpty
<1>2. ASSUME NEW s \in CharSeq, NEW c \in Characters, s \in T PROVE Append(s, c) \in T
  <2>1. /\ s \o <<c>> = Append(s, c) /\ Append(s, c) \in CharSeq /\ <<c>> \in CharSeq
        /\ (Clean(<<c>>) <=> c \notin Breaks)
    BY CharFacts, CleanChar
  <2>2. CASE Clean(s) /\ c \notin Breaks
    <3>1. Clean(s \o <<c>>)
      BY <2>1, <2>2, CleanConcat
    <3>2. QED BY <2>1, <3>1
  <2>3. CASE Clean(s) /\ c \in Breaks
    <3>1. <<c>> = <<c>> \o <<>> /\ <<>> \in CharSeq
      BY <2>1, CharFacts
    <3>2. Append(s, c) = s \o (<<c>> \o <<>>)
      BY <2>1, <3>1
    <3>3. CutAt(Append(s, c), s)
      BY Zenon, <2>3, <3>1, <3>2 DEF CutAt
    <3>4. QED BY <2>1, <3>3
  <2>4. ASSUME NEW u \in CharSeq, CutAt(s, u) PROVE Append(s, c) \in T
    <3>1. CutAt(s \o <<c>>, u)
      BY <2>1, <2>4, CutMore
    <3>2. QED BY <2>1, <3>1
  <2>5. QED BY <1>2, <2>2, <2>3, <2>4
<1>3. \A s \in CharSeq, c \in Characters : s \in T => Append(s, c) \in T
  BY <1>2
<1>4. \A s \in CharSeq : s \in T
  <2> HIDE DEF T
  <2>1. QED BY <1>1, <1>3, CharInduction
<1>5. QED BY <1>4

\* What Esc writes of a clean text is clean.
LEMMA EscClean ==
  \A v \in CharSeq : Clean(v) => Clean(Esc(v))
<1> DEFINE T == {v \in CharSeq : Clean(v) => Clean(Esc(v))}
<1>1. <<>> \in T
  BY CharFacts, CleanEmpty, EscLaws
<1>2. ASSUME NEW s \in CharSeq, NEW c \in Characters, s \in T PROVE Append(s, c) \in T
  <2>1. /\ s \o <<c>> = Append(s, c) /\ Append(s, c) \in CharSeq /\ <<c>> \in CharSeq
        /\ (Clean(<<c>>) <=> c \notin Breaks)
    BY CharFacts, CleanChar
  <2>2. ASSUME Clean(Append(s, c)) PROVE Clean(Esc(Append(s, c)))
    <3>1. Clean(s) /\ c \notin Breaks
      BY <2>1, <2>2, CleanConcat
    <3>2. Clean(Esc(s))
      BY <1>2, <3>1
    <3>3. EscOf(c) \in CharSeq /\ Clean(EscOf(c))
      <4>1. EscOf(c) \in CharSeq
        BY EscOfType
      <4>2. Clean(EscOf(c))
        <5>1. CASE c \in {"\\", "\""}
          <6> DEFINE b == "\\"
          <6>1. b \in Characters /\ b \notin Breaks
            BY CharactersAssumption DEF Breaks
          <6>2. EscOf(c) = <<b, c>>
            BY <5>1 DEF EscOf
          <6> HIDE DEF b
          <6>3. EscOf(c) = <<b>> \o <<c>>
            BY <6>1, <6>2, TwoChars
          <6>4. <<b>> \in CharSeq /\ Clean(<<b>>)
            BY <6>1, CleanChar
          <6>5. QED BY <2>1, <3>1, <6>3, <6>4, CleanConcat
        <5>2. CASE c \notin {"\\", "\""}
          <6>1. EscOf(c) = <<c>>
            BY <5>2 DEF EscOf
          <6>2. QED BY <2>1, <3>1, <6>1
        <5>3. QED BY <5>1, <5>2
      <4>3. QED BY <4>1, <4>2
    <3>4. Esc(Append(s, c)) = Esc(s) \o EscOf(c) /\ Esc(s) \in CharSeq
      BY EscLaws
    <3>5. Clean(Esc(s) \o EscOf(c))
      BY <3>2, <3>3, <3>4, CleanConcat
    <3>6. QED BY <3>4, <3>5
  <2>3. QED BY <2>1, <2>2
<1>3. \A s \in CharSeq, c \in Characters : s \in T => Append(s, c) \in T
  BY <1>2
<1>4. \A s \in CharSeq : s \in T
  <2> HIDE DEF T
  <2>1. QED BY <1>1, <1>3, CharInduction
<1>5. QED BY <1>4

\* What is written of a value is cut where the value is.
LEMMA EscCut ==
  ASSUME NEW v \in CharSeq, ~Clean(v)
  PROVE  \E u \in CharSeq : CutAt(Esc(v), Esc(u)) /\ CutAt(v, u)
<1>1. PICK u \in CharSeq : CutAt(v, u)
  BY FirstCut
<1>2. PICK c \in Breaks, w \in CharSeq : v = u \o (<<c>> \o w)
  BY <1>1 DEF CutAt
<1> DEFINE q == <<c>>
           r == q \o w
<1>3. c \in Characters /\ Clean(u) /\ c \notin {"\\", "\""}
  BY <1>1, CharactersAssumption DEF CutAt, Breaks
<1>4. q \in CharSeq /\ Esc(q) = q
  <2>1. q \in CharSeq
    BY <1>3, OneChar
  <2>2. \A i \in DOMAIN q : q[i] \notin {"\\", "\""}
    <3>1. DOMAIN q = {1} /\ q[1] = c
      OBVIOUS
    <3> HIDE DEF q
    <3>2. QED BY <1>3, <3>1
  <2> HIDE DEF q
  <2>3. QED BY <2>1, <2>2, EscPlain
<1> HIDE DEF q
<1>5. r \in CharSeq /\ Esc(r) = q \o Esc(w) /\ Esc(w) \in CharSeq /\ Esc(u) \in CharSeq
  <2>1. r \in CharSeq
    BY <1>4, CharFacts
  <2>2. Esc(q \o w) = Esc(q) \o Esc(w)
    BY <1>4, EscConcat
  <2>3. Esc(w) \in CharSeq /\ Esc(u) \in CharSeq
    BY EscLaws
  <2>4. QED BY <1>4, <2>1, <2>2, <2>3
<1> HIDE DEF r
<1>6. Esc(u \o r) = Esc(u) \o Esc(r)
  BY <1>5, EscConcat
<1>7. Esc(v) = Esc(u) \o (<<c>> \o Esc(w))
  BY <1>2, <1>5, <1>6 DEF q, r
<1>8. Clean(Esc(u))
  BY <1>3, EscClean
<1>9. CutAt(Esc(v), Esc(u))
  BY Zenon, <1>5, <1>7, <1>8 DEF CutAt
<1>10. QED BY <1>1, <1>9

\* A quoted value is cut where the value is.
LEMMA QuoteCut ==
  ASSUME NEW v \in CharSeq
  PROVE  /\ Clean(v) => Clean(Quote(v))
         /\ ~Clean(v) => \E u \in CharSeq : CutAt(Quote(v), <<"\"">> \o Esc(u))
<1> DEFINE c == "\""
           q == <<c>>
           e == Esc(v)
           eq == e \o q
<1>1. c \in Characters /\ c \notin Breaks
  BY CharactersAssumption DEF Breaks
<1>2. Quote(v) = q \o eq
  BY QuoteLaws
<1> HIDE DEF c
<1>3. q \in CharSeq /\ Clean(q)
  BY <1>1, CleanChar
<1>4. e \in CharSeq
  BY EscLaws
<1> HIDE DEF q
<1>5. eq \in CharSeq
  BY <1>3, <1>4, CharFacts
<1>6. ASSUME Clean(v) PROVE Clean(Quote(v))
  <2>1. Clean(e)
    BY <1>6, EscClean
  <2> HIDE DEF e
  <2>2. Clean(e \o q)
    BY <1>3, <1>4, <2>1, CleanConcat
  <2> HIDE DEF eq
  <2>3. Clean(q \o eq)
    BY <1>3, <1>5, <2>2, CleanConcat DEF eq
  <2>4. QED BY <1>2, <2>3
<1>7. ASSUME ~Clean(v) PROVE \E u \in CharSeq : CutAt(Quote(v), q \o Esc(u))
  <2>1. PICK u \in CharSeq : CutAt(Esc(v), Esc(u))
    BY <1>7, EscCut
  <2> DEFINE a == Esc(u)
  <2>2. CutAt(e, a)
    BY <2>1
  <2> HIDE DEF e, a
  <2>3. CutAt(e \o q, a)
    BY <1>3, <1>4, <2>2, CutMore
  <2> HIDE DEF eq
  <2>4. CutAt(q \o eq, q \o a)
    BY <1>3, <1>5, <2>3, CutBehind DEF eq
  <2>5. QED BY <1>2, <2>4 DEF a
<1>8. QED BY <1>6, <1>7 DEF q, c

\* The beginning of a field is clean.
LEMMA StartClean ==
  ASSUME NEW k, PlainKey(k)
  PROVE  Start(k) \in CharSeq /\ Clean(Start(k))
<1> DEFINE o == " "
           g == "="
<1>1. /\ k \in Characters /\ k \notin Breaks /\ o \in Characters /\ o \notin Breaks
      /\ g \in Characters /\ g \notin Breaks
  BY CharactersAssumption DEF PlainKey, IsSpace, Breaks
<1>2. Start(k) = <<k, o, g, o>>
  BY DEF Start
<1> HIDE DEF o, g
<1>3. Start(k) = <<k, o>> \o (<<g>> \o <<o>>)
  BY <1>1, <1>2, FourChars
<1>4. <<k, o>> = <<k>> \o <<o>>
  BY <1>1, TwoChars
<1>5. /\ <<k>> \in CharSeq /\ Clean(<<k>>) /\ <<o>> \in CharSeq /\ Clean(<<o>>)
      /\ <<g>> \in CharSeq /\ Clean(<<g>>)
  BY <1>1, CleanChar
<1> DEFINE a == <<k>>
           b == <<o>>
           c == <<g>>
<1> HIDE DEF a, b, c
<1>6. a \o b \in CharSeq /\ Clean(a \o b)
  BY <1>5, CharFacts, CleanConcat DEF a, b
<1>7. c \o b \in CharSeq /\ Clean(c \o b)
  BY <1>5, CharFacts, CleanConcat DEF c, b
<1> DEFINE x == a \o b
           y == c \o b
<1>8. Start(k) = x \o y
  BY <1>3, <1>4 DEF a, b, c
<1> HIDE DEF x, y
<1>9. x \o y \in CharSeq /\ Clean(x \o y)
  BY <1>6, <1>7, CharFacts, CleanConcat DEF x, y
<1>10. QED BY <1>8, <1>9

\* A field is cut where its value is.
LEMMA FieldCut ==
  ASSUME NEW f \in PlainFields
  PROVE  /\ Clean(f.value) => Clean(Field(f))
         /\ ~Clean(f.value) => \E u \in CharSeq : CutAt(Field(f), Opened(f.key, u))
<1> DEFINE k == f.key
           v == f.value
           s == Start(k)
           t == Quote(v)
<1>1. PlainKey(k) /\ v \in CharSeq /\ Field(f) = s \o t
  BY FieldType
<1> HIDE DEF k, v
<1>2. s \in CharSeq /\ Clean(s) /\ t \in CharSeq
  BY <1>1, StartClean, QuoteLaws
<1>3. ASSUME Clean(v) PROVE Clean(s \o t)
  <2>1. Clean(t)
    BY <1>1, <1>3, QuoteCut
  <2> HIDE DEF s, t
  <2>2. QED BY <1>2, <2>1, CleanConcat
<1>4. ASSUME ~Clean(v) PROVE \E u \in CharSeq : CutAt(s \o t, Opened(k, u))
  <2>1. PICK u \in CharSeq : CutAt(t, <<"\"">> \o Esc(u))
    BY <1>1, <1>4, QuoteCut
  <2> DEFINE a == <<"\"">> \o Esc(u)
  <2>2. Opened(k, u) = s \o a
    BY DEF Opened
  <2> HIDE DEF s, t, a
  <2>3. CutAt(s \o t, s \o a)
    BY <1>2, <2>1, CutBehind DEF a
  <2>4. QED BY <2>2, <2>3
<1>5. QED BY <1>1, <1>3, <1>4 DEF k, v

\* Fields whose values a line can keep.
CleanFields(fs) == \A i \in DOMAIN fs : Clean(fs[i].value)

\* A text is cut in the value of a field that comes behind others.
CutInField(s) ==
  \E gs \in Seq(PlainFields), k \in Characters, u \in CharSeq :
    PlainKey(k) /\ CutAt(s, BeforeField(gs) \o Opened(k, u))

\* A text that is cut in a field, with more behind it.
LEMMA CutInFieldMore ==
  ASSUME NEW s \in CharSeq, CutInField(s), NEW t \in CharSeq
  PROVE  CutInField(s \o t)
<1>1. PICK gs \in Seq(PlainFields), k \in Characters, u \in CharSeq :
        PlainKey(k) /\ CutAt(s, BeforeField(gs) \o Opened(k, u))
  BY DEF CutInField
<1> DEFINE a == BeforeField(gs) \o Opened(k, u)
<1> HIDE DEF a
<1>2. CutAt(s \o t, a)
  BY <1>1, CutMore DEF a
<1>3. QED BY <1>1, <1>2 DEF CutInField, a

\* The values of one more field.
LEMMA CleanFieldsAppend ==
  ASSUME NEW fs \in Seq(PlainFields), NEW f \in PlainFields
  PROVE  CleanFields(Append(fs, f)) <=> CleanFields(fs) /\ Clean(f.value)
<1> DEFINE g == Append(fs, f)
<1>1. /\ DOMAIN g = DOMAIN fs \cup {Len(fs) + 1} /\ g[Len(fs) + 1] = f
      /\ \A i \in DOMAIN fs : g[i] = fs[i]
  BY AppendType
<1> HIDE DEF g
<1>2. CleanFields(g) <=> CleanFields(fs) /\ Clean(f.value)
  BY <1>1 DEF CleanFields
<1>3. QED BY <1>2 DEF g

\* A text of fields is clean as they are, or cut in one of them.
FieldsCut(fs, t) == IF CleanFields(fs) THEN Clean(t) ELSE CutInField(t)

\* Fields are cut in the first value that is not clean: one more field.
LEMMA OneFieldCut ==
  ASSUME NEW fs \in Seq(PlainFields), NEW f \in PlainFields, FieldsCut(fs, BeforeField(fs))
  PROVE  FieldsCut(Append(fs, f), BeforeField(fs) \o Field(f))
<1> DEFINE b == BeforeField(fs)
           t == Field(f)
           g == Append(fs, f)
<1>1. b \in CharSeq /\ t \in CharSeq
  BY BeforeFieldLaws, FieldType
<1>2. CleanFields(g) <=> CleanFields(fs) /\ Clean(f.value)
  BY CleanFieldsAppend
<1>3. CASE CleanFields(g)
  <2>1. Clean(b) /\ Clean(t)
    BY <1>2, <1>3, FieldCut DEF FieldsCut
  <2> HIDE DEF b, t, g
  <2>2. Clean(b \o t)
    BY <1>1, <2>1, CleanConcat
  <2>3. QED BY <1>3, <2>2 DEF FieldsCut, b, t, g
<1>4. CASE ~CleanFields(fs)
  <2>1. CutInField(b)
    BY <1>4 DEF FieldsCut
  <2> HIDE DEF b, t, g
  <2>2. CutInField(b \o t)
    BY <1>1, <2>1, CutInFieldMore
  <2>3. QED BY <1>2, <1>4, <2>2 DEF FieldsCut, b, t, g
<1>5. CASE CleanFields(fs) /\ ~Clean(f.value)
  <2>1. Clean(b)
    BY <1>5 DEF FieldsCut
  <2>2. PICK u \in CharSeq : CutAt(t, Opened(f.key, u))
    BY <1>5, FieldCut
  <2> DEFINE k == f.key
             a == Opened(k, u)
  <2>3. PlainKey(k) /\ k \in Characters
    BY FieldType DEF PlainKey
  <2> HIDE DEF a, b, t, k
  <2>4. CutAt(b \o t, b \o a)
    BY <1>1, <2>1, <2>2, CutBehind DEF a, k
  <2>5. CutInField(b \o t)
    BY <2>3, <2>4 DEF CutInField, a, b
  <2> HIDE DEF g
  <2>6. QED BY <1>2, <1>5, <2>5 DEF FieldsCut, b, t, g
<1>6. QED BY <1>2, <1>3, <1>4, <1>5

\* The same of all the fields before one.
LEMMA BeforeFieldCut ==
  \A fs \in Seq(PlainFields) : FieldsCut(fs, BeforeField(fs))
<1> DEFINE T == {fs \in Seq(PlainFields) : FieldsCut(fs, BeforeField(fs))}
<1>1. <<>> \in T
  <2> DEFINE c == " "
  <2>1. c \in Characters /\ c \notin Breaks
    BY CharactersAssumption DEF Breaks
  <2>2. BeforeField(<<>>) = <<c>>
    BY BeforeFieldLaws
  <2> HIDE DEF c
  <2>3. Clean(BeforeField(<<>>))
    BY <2>1, <2>2, CleanChar
  <2>4. CleanFields(<<>>) /\ <<>> \in Seq(PlainFields)
    BY DEF CleanFields
  <2>5. QED BY <2>3, <2>4 DEF FieldsCut
<1>2. ASSUME NEW fs \in Seq(PlainFields), NEW f \in PlainFields, fs \in T PROVE Append(fs, f) \in T
  <2> DEFINE b == BeforeField(fs)
             t == Field(f)
             g == Append(fs, f)
             bt == b \o t
  <2>1. b \in CharSeq /\ t \in CharSeq /\ BeforeField(g) = bt \o Comma /\ Comma \in CharSeq
    BY BeforeFieldLaws, FieldType, CommaText
  <2>2. FieldsCut(g, bt)
    BY <1>2, OneFieldCut
  <2>3. g \in Seq(PlainFields)
    BY AppendType
  <2>4. Clean(Comma)
    <3> DEFINE c == ","
               d == " "
    <3>1. c \in Characters /\ c \notin Breaks /\ d \in Characters /\ d \notin Breaks
      BY CharactersAssumption DEF Breaks
    <3>2. Comma = <<c>> \o <<d>>
      BY CommaText
    <3> HIDE DEF c, d
    <3>3. <<c>> \in CharSeq /\ Clean(<<c>>) /\ <<d>> \in CharSeq /\ Clean(<<d>>)
      BY <3>1, CleanChar
    <3>4. QED BY <3>2, <3>3, CleanConcat
  <2> HIDE DEF b, t
  <2>5. bt \in CharSeq
    BY <2>1, CharFacts
  <2> HIDE DEF bt, g
  <2>6. FieldsCut(g, bt \o Comma)
    BY <2>1, <2>2, <2>4, <2>5, CleanConcat, CutInFieldMore DEF FieldsCut
  <2>7. QED BY <2>1, <2>3, <2>6 DEF g
<1>3. \A fs \in Seq(PlainFields), f \in PlainFields : fs \in T => Append(fs, f) \in T
  BY <1>2
<1>4. \A fs \in Seq(PlainFields) : fs \in T
  <2> HIDE DEF T
  <2>1. QED BY <1>1, <1>3, AppendInduction
<1>5. QED BY <1>4

\* A table is cut in the value of one of its fields.
LEMMA TableCut ==
  ASSUME NEW fs \in Seq(PlainFields), NEW f \in PlainFields
  PROVE  /\ CleanFields(Append(fs, f)) => Clean(TableText(fs, f))
         /\ ~CleanFields(Append(fs, f)) =>
              \E gs \in Seq(PlainFields), k \in Characters, u \in CharSeq :
                PlainKey(k) /\ CutAt(TableText(fs, f), OpenTable(gs, k, u))
<1> DEFINE b == BeforeField(fs)
           t == Field(f)
           bt == b \o t
           o == " "
           i == "{"
           j == "}"
           g == Append(fs, f)
           oj == <<o>> \o <<j>>
           ii == <<i>>
<1>1. b \in CharSeq /\ t \in CharSeq
  BY BeforeFieldLaws, FieldType
<1>2. FieldsCut(g, bt)
  BY BeforeFieldCut, OneFieldCut
<1>3. /\ o \in Characters /\ o \notin Breaks /\ i \in Characters /\ i \notin Breaks
      /\ j \in Characters /\ j \notin Breaks
  BY CharactersAssumption DEF Breaks
<1>4. TableText(fs, f) = ii \o ((b \o (t \o <<o>>)) \o <<j>>)
  BY DEF TableText
<1>4a. \A gs, k, u : OpenTable(gs, k, u) = ii \o (BeforeField(gs) \o Opened(k, u))
  BY DEF OpenTable
<1> HIDE DEF o, i, j, b, t
<1>5. /\ ii \in CharSeq /\ Clean(ii) /\ <<o>> \in CharSeq /\ Clean(<<o>>)
      /\ <<j>> \in CharSeq /\ Clean(<<j>>)
  BY <1>3, CleanChar
<1> DEFINE p == <<o>>
           q == <<j>>
<1> HIDE DEF p, q, ii
<1>6. bt \in CharSeq /\ p \in CharSeq /\ q \in CharSeq
  BY <1>1, <1>5, CharFacts DEF p, q
<1>7. p \o q \in CharSeq /\ Clean(p \o q)
  BY <1>5, <1>6, CharFacts, CleanConcat DEF p, q
<1>8. (b \o t) \o p = b \o (t \o p)
  BY ZenonT(60), <1>1, <1>6, Assoc
<1>9. (bt \o p) \o q = bt \o (p \o q)
  <2> HIDE DEF bt
  <2>1. QED BY Zenon, <1>6, Assoc
<1> DEFINE pq == p \o q
           btpq == bt \o pq
<1>10. TableText(fs, f) = ii \o btpq
  BY <1>4, <1>8, <1>9 DEF p, q
<1> HIDE DEF bt, pq
<1>11. btpq \in CharSeq
  BY <1>6, <1>7, CharFacts DEF pq
<1>12. FieldsCut(g, btpq)
  <2> HIDE DEF g
  <2>1. QED BY <1>2, <1>6, <1>7, CleanConcat, CutInFieldMore DEF FieldsCut, pq
<1> HIDE DEF btpq
<1>13. ASSUME CleanFields(g) PROVE Clean(ii \o btpq)
  <2> HIDE DEF g
  <2>1. Clean(btpq)
    BY <1>12, <1>13 DEF FieldsCut
  <2>2. QED BY <1>5, <1>11, <2>1, CleanConcat
<1>14. ASSUME ~CleanFields(g)
       PROVE  \E gs \in Seq(PlainFields), k \in Characters, u \in CharSeq :
                PlainKey(k) /\ CutAt(ii \o btpq, OpenTable(gs, k, u))
  <2> HIDE DEF g
  <2>1. PICK gs \in Seq(PlainFields), k \in Characters, u \in CharSeq :
          PlainKey(k) /\ CutAt(btpq, BeforeField(gs) \o Opened(k, u))
    BY <1>12, <1>14 DEF FieldsCut, CutInField
  <2> DEFINE a == BeforeField(gs) \o Opened(k, u)
  <2>2. OpenTable(gs, k, u) = ii \o a
    BY <1>4a
  <2> HIDE DEF a
  <2>3. CutAt(ii \o btpq, ii \o a)
    BY <1>5, <1>11, <2>1, CutBehind DEF a
  <2>4. QED BY Zenon, <2>1, <2>2, <2>3
<1>15. QED BY <1>10, <1>13, <1>14

\* The parts of a text are texts.
LEMMA SplitType ==
  ASSUME NEW s \in CharSeq
  PROVE  SplitTopLevel(s) \in Seq(CharSeq)
<1>1. SplitFirst \in SplitStates
  <2>1. <<>> \in Seq(CharSeq)
    OBVIOUS
  <2>2. QED BY Zenon, <2>1, EmptyText, ReadPartLaws DEF SplitFirst
<1> DEFINE end == Split(SplitFirst, s)
<1>2. end \in SplitStates
  BY <1>1, SplitLaws
<1>3. end.parts \in Seq(CharSeq) /\ end.part \in CharSeq
  <2> HIDE DEF end
  <2>1. QED BY <1>2 DEF SplitStates
<1>4. SplitTopLevel(s) = IF Trim(end.part) = <<>> THEN end.parts ELSE Append(end.parts, end.part)
  BY DEF SplitTopLevel, Split, SplitFirst, Outside
<1> HIDE DEF end
<1>5. Append(end.parts, end.part) \in Seq(CharSeq)
  BY <1>3, AppendType
<1>6. QED BY <1>3, <1>4, <1>5

\* The fields of parts are pairs, if they are read.
LEMMA ReadFieldsType ==
  ASSUME NEW parts \in Seq(CharSeq)
  PROVE  ReadFields(parts) \in Tables
<1>1. ScanLawsOf(ReadField, Tables, CharSeq)
  BY ReadFieldLaws, ScanLaws
<1>2. Ok(<<>>) \in Tables
  BY DEF Tables, Ok
<1>3. QED BY Zenon, <1>1, <1>2 DEF ScanLawsOf, ReadFields

\* The two kinds of values.
Str(s) == [k |-> "Str", v |-> s]
Table(ps) == [k |-> "Table", v |-> ps]
ParsedValues == {Str(s) : s \in CharSeq} \cup {Table(ps) : ps \in Seq(FieldPairs)}

\* A value is a string or a table, if it is read.
LEMMA ValueType ==
  ASSUME NEW raw \in CharSeq
  PROVE  ParseValue(raw) \in Results(ParsedValues)
<1> DEFINE t == Trim(raw)
<1>1. t \in CharSeq
  BY TrimType
<1> HIDE DEF t
<1>2. CASE Enclosed(t, "{", "}")
  <2> DEFINE r == ReadFields(SplitTopLevel(Inner(t)))
  <2>1. Inner(t) \in CharSeq
    BY <1>1, InnerType
  <2>2. SplitTopLevel(Inner(t)) \in Seq(CharSeq)
    BY <2>1, SplitType
  <2>3. r \in Tables
    BY <2>2, ReadFieldsType
  <2>4. ParseValue(raw) = IF r.ok THEN Ok([k |-> "Table", v |-> r.v]) ELSE Fail
    BY <1>2, ValueIs DEF t
  <2> HIDE DEF r
  <2>5. r.ok => r.v \in Seq(FieldPairs)
    <3>1. CASE r = Fail
      BY <3>1 DEF Fail
    <3>2. CASE r \in [ok : {TRUE}, v : Seq(FieldPairs)]
      BY <3>2
    <3>3. QED BY <2>3, <3>1, <3>2 DEF Tables
  <2>6. QED BY <2>4, <2>5 DEF Results, ParsedValues, Table
<1>3. CASE ~Enclosed(t, "{", "}")
  <2> DEFINE r == ParseQuoted(t)
  <2>1. r \in Results(CharSeq)
    BY <1>1, QuotedType
  <2>2. ParseValue(raw) = IF r.ok THEN Ok([k |-> "Str", v |-> r.v]) ELSE Fail
    BY <1>3, ValueIs DEF t
  <2> HIDE DEF r
  <2>3. r.ok => r.v \in CharSeq
    BY <2>1 DEF Results, Fail, Ok
  <2>4. QED BY <2>2, <2>3 DEF Results, ParsedValues, Str
<1>4. QED BY <1>2, <1>3

\* The first of the pairs of a key.
LEMMA TableGetIs ==
  ASSUME NEW ps \in Seq(FieldPairs), NEW key
  PROVE  /\ \A i \in DOMAIN ps : ps[i].key = <<key>> /\ (\A j \in 1..(i - 1) : ps[j].key # <<key>>)
                                   => TableGet(ps, key) = <<ps[i].value>>
         /\ (\A i \in DOMAIN ps : ps[i].key # <<key>>) => TableGet(ps, key) = <<>>
<1> DEFINE found == {i \in 1..Len(ps) : ps[i].key = <<key>>}
           n == SelectInSeq(ps, LAMBDA p : p.key = <<key>>)
<1>1. n = IF found # {} THEN Min(found) ELSE 0
  BY Zenon DEF SelectInSeq
<1>2. Len(ps) \in Nat /\ DOMAIN ps = 1..Len(ps)
  OBVIOUS
<1>3. TableGet(ps, key) = IF n = 0 THEN <<>> ELSE <<ps[n].value>>
  BY DEF TableGet
<1>4. ASSUME \A i \in DOMAIN ps : ps[i].key # <<key>> PROVE TableGet(ps, key) = <<>>
  <2>1. found = {}
    BY <1>2, <1>4
  <2>2. n = 0
    BY <1>1, <2>1
  <2> HIDE DEF n
  <2>3. QED BY <1>3, <2>2
<1>5. ASSUME NEW i \in DOMAIN ps, ps[i].key = <<key>>, \A j \in 1..(i - 1) : ps[j].key # <<key>>
      PROVE  TableGet(ps, key) = <<ps[i].value>>
  <2>1. i \in found /\ found \subseteq Int /\ i \in Nat /\ i # 0
    BY <1>2, <1>5
  <2>2. ASSUME NEW j \in found PROVE i <= j
    BY <1>2, <1>5
  <2> HIDE DEF found
  <2>3. Min(found) = i
    BY <2>1, <2>2, MinIs
  <2>4. n = i
    BY <1>1, <2>1, <2>3
  <2> HIDE DEF n
  <2>5. QED BY <1>3, <2>1, <2>4
<1>6. QED BY <1>4, <1>5

\* The pairs have a first one of a key, or none.
LEMMA FirstPair ==
  ASSUME NEW ps \in Seq(FieldPairs), NEW key
  PROVE  \/ \A i \in DOMAIN ps : ps[i].key # <<key>>
         \/ \E i \in DOMAIN ps : ps[i].key = <<key>> /\ \A j \in 1..(i - 1) : ps[j].key # <<key>>
<1> DEFINE found == {i \in 1..Len(ps) : ps[i].key = <<key>>}
<1>1. Len(ps) \in Nat /\ DOMAIN ps = 1..Len(ps)
  OBVIOUS
<1>2. CASE found = {}
  BY <1>1, <1>2
<1>3. CASE found # {}
  <2>1. found \subseteq 1..Len(ps)
    OBVIOUS
  <2> DEFINE m == Min(found)
  <2>2. m \in found /\ \A i \in found : m <= i
    <3> HIDE DEF found
    <3>1. QED BY <1>1, <1>3, <2>1, MinMaxIn
  <2> HIDE DEF m
  <2>3. m \in DOMAIN ps /\ ps[m].key = <<key>>
    BY <1>1, <2>2
  <2>4. \A j \in 1..(m - 1) : ps[j].key # <<key>>
    BY <1>1, <2>2, <2>3
  <2>5. QED BY <2>3, <2>4
<1>4. QED BY <1>2, <1>3

\* The value of a key is a text, if there is one.
LEMMA TableGetType ==
  ASSUME NEW ps \in Seq(FieldPairs), NEW key
  PROVE  TableGet(ps, key) \in Options /\ (TableGet(ps, key) # <<>> => TableGet(ps, key)[1] \in CharSeq)
<1>1. CASE \A i \in DOMAIN ps : ps[i].key # <<key>>
  <2>1. TableGet(ps, key) = <<>>
    BY <1>1, TableGetIs
  <2>2. <<>> \in Options
    BY DEF Options
  <2>3. QED BY <2>1, <2>2
<1>2. ASSUME NEW i \in DOMAIN ps, ps[i].key = <<key>>, \A j \in 1..(i - 1) : ps[j].key # <<key>>
      PROVE  TableGet(ps, key) \in Options /\ (TableGet(ps, key) # <<>> => TableGet(ps, key)[1] \in CharSeq)
  <2> DEFINE v == ps[i].value
  <2>1. TableGet(ps, key) = <<v>>
    BY <1>2, TableGetIs
  <2>2. v \in CharSeq
    <3>1. ps[i] \in FieldPairs
      OBVIOUS
    <3>2. QED BY <3>1 DEF FieldPairs
  <2> HIDE DEF v
  <2>3. <<v>> \in Options /\ <<v>>[1] = v
    BY <2>2 DEF Options
  <2>4. QED BY <2>1, <2>2, <2>3
<1>3. QED BY <1>1, <1>2, FirstPair

\* The value of a key when a pair is added: the first one stays.
LEMMA TableGetAppend ==
  ASSUME NEW ps \in Seq(FieldPairs), NEW p \in FieldPairs, NEW key
  PROVE  TableGet(Append(ps, p), key)
           = IF TableGet(ps, key) # <<>> THEN TableGet(ps, key)
             ELSE IF p.key = <<key>> THEN <<p.value>> ELSE <<>>
<1> DEFINE qs == Append(ps, p)
           n == Len(ps) + 1
<1>1. /\ qs \in Seq(FieldPairs) /\ Len(ps) \in Nat /\ DOMAIN ps = 1..Len(ps) /\ n \in DOMAIN qs
      /\ DOMAIN qs = DOMAIN ps \cup {n} /\ qs[n] = p /\ \A i \in DOMAIN ps : qs[i] = ps[i]
  BY AppendType
<1> HIDE DEF qs
<1>2. ASSUME NEW i \in DOMAIN ps, ps[i].key = <<key>>, \A j \in 1..(i - 1) : ps[j].key # <<key>>
      PROVE  TableGet(qs, key) = TableGet(ps, key) /\ TableGet(ps, key) # <<>>
  <2>1. TableGet(ps, key) = <<ps[i].value>>
    BY <1>2, TableGetIs
  <2>2. i \in DOMAIN qs /\ qs[i] = ps[i]
    BY <1>1
  <2>3. \A j \in 1..(i - 1) : qs[j] = ps[j]
    BY <1>1
  <2>4. qs[i].key = <<key>> /\ \A j \in 1..(i - 1) : qs[j].key # <<key>>
    BY <1>2, <2>2, <2>3
  <2>5. TableGet(qs, key) = <<qs[i].value>>
    BY <1>1, <2>2, <2>4, TableGetIs
  <2>6. QED BY <2>1, <2>2, <2>5
<1>3. ASSUME \A i \in DOMAIN ps : ps[i].key # <<key>>
      PROVE  TableGet(ps, key) = <<>> /\ TableGet(qs, key) = IF p.key = <<key>> THEN <<p.value>> ELSE <<>>
  <2>1. TableGet(ps, key) = <<>>
    BY <1>3, TableGetIs
  <2>2. CASE p.key = <<key>>
    <3>1. \A j \in 1..(n - 1) : qs[j].key # <<key>>
      BY <1>1, <1>3
    <3>2. TableGet(qs, key) = <<qs[n].value>>
      BY <1>1, <2>2, <3>1, TableGetIs
    <3>3. QED BY <1>1, <2>1, <2>2, <3>2
  <2>3. CASE p.key # <<key>>
    <3>1. \A i \in DOMAIN qs : qs[i].key # <<key>>
      BY <1>1, <1>3, <2>3
    <3>2. TableGet(qs, key) = <<>>
      BY <1>1, <3>1, TableGetIs
    <3>3. QED BY <2>1, <2>3, <3>2
  <2>4. QED BY <2>2, <2>3
<1>4. TableGet(qs, key)
        = IF TableGet(ps, key) # <<>> THEN TableGet(ps, key)
          ELSE IF p.key = <<key>> THEN <<p.value>> ELSE <<>>
  BY <1>2, <1>3, FirstPair
<1>5. QED BY <1>4 DEF qs

\* A table is read as a dependency, if it is read.
LEMMA DepType ==
  ASSUME NEW name \in CharSeq, NEW ps \in Seq(FieldPairs)
  PROVE  DepFromTable(name, ps) \in Results(Dependencies)
<1> DEFINE path == TableGet(ps, "path")
           git == TableGet(ps, "git")
           branch == TableGet(ps, "branch")
           tag == TableGet(ps, "tag")
           rev == TableGet(ps, "rev")
           src1 == PathSource(path[1])
           src2 == GitSource(git[1], branch, tag, rev)
<1>1. /\ path # <<>> => path[1] \in CharSeq
      /\ git # <<>> => git[1] \in CharSeq
      /\ branch \in Options /\ tag \in Options /\ rev \in Options
  BY TableGetType
<1>2. DepFromTable(name, ps) =
        IF path # <<>> /\ git = <<>> THEN Ok(Dependency(name, src1))
        ELSE IF path = <<>> /\ git # <<>> THEN Ok(Dependency(name, src2))
        ELSE Fail
  BY DEF DepFromTable
<1> HIDE DEF path, git, branch, tag, rev
<1>3. path # <<>> => Dependency(name, src1) \in Dependencies
  BY <1>1 DEF Dependency, Dependencies, PathSource, DepSources
<1>4. git # <<>> => Dependency(name, src2) \in Dependencies
  BY <1>1 DEF Dependency, Dependencies, GitSource, DepSources
<1> HIDE DEF src1, src2
<1>5. QED BY <1>2, <1>3, <1>4 DEF Results

\* The type of the state after the line of a section.
LEMMA SectionType ==
  ASSUME NEW st \in ParseStates, NEW line \in CharSeq
  PROVE  ReadSection(st, line) \in ParseStates
<1> DEFINE name == Trim(Inner(line))
<1>1. name \in {<<s>> : s \in Sections} => name[1] \in Sections
  OBVIOUS
<1>2. ReadSection(st, line) =
        IF name \in {<<s>> : s \in Sections} THEN [st EXCEPT !.section = name[1]]
        ELSE [st EXCEPT !.ok = FALSE]
  BY DEF ReadSection
<1> HIDE DEF name
<1>3. QED BY <1>1, <1>2 DEF ParseStates

\* The type of the state after a pair.
LEMMA AddPairType ==
  ASSUME NEW st \in ParseStates, NEW key \in CharSeq, NEW value \in Results(ParsedValues)
  PROVE  AddPair(st, key, value) \in ParseStates
<1>1. ASSUME NEW dep \in Results(Dependencies) PROVE AddDep(st, dep) \in ParseStates
  <2>1. CASE dep.ok
    <3>1. dep.v \in Dependencies
      BY <2>1 DEF Results, Fail, Ok
    <3>2. st.deps \in Seq(Dependencies)
      BY DEF ParseStates
    <3>2a. Append(st.deps, dep.v) \in Seq(Dependencies)
      BY <3>1, <3>2, AppendType
    <3>3. QED BY <2>1, <3>2a DEF AddDep, ParseStates
  <2>2. CASE ~dep.ok
    BY <2>2 DEF AddDep, ParseStates
  <2>3. QED BY <2>1, <2>2
<1>2. CASE value.ok /\ st.section = "package" /\ value.v.k = "Str"
  <2>1. value.v \in ParsedValues
    BY <1>2 DEF Results, Fail, Ok
  <2>2. value.v.v \in CharSeq
    BY <1>2, <2>1 DEF ParsedValues, Str, Table
  <2> DEFINE p == [key |-> key, value |-> value.v.v]
  <2>3. p \in FieldPairs
    BY <2>2 DEF FieldPairs
  <2> HIDE DEF p
  <2>4. Append(st.package, p) \in Seq(FieldPairs)
    <3>1. st.package \in Seq(FieldPairs)
      BY DEF ParseStates
    <3>2. QED BY <2>3, <3>1, AppendType
  <2>5. AddPair(st, key, value) = [st EXCEPT !.package = Append(st.package, p)]
    BY <1>2 DEF AddPair, p
  <2>6. QED BY <2>4, <2>5 DEF ParseStates
<1>3. CASE value.ok /\ st.section = "dependencies" /\ value.v.k = "Table"
  <2>1. value.v \in ParsedValues
    BY <1>3 DEF Results, Fail, Ok
  <2>2. value.v.v \in Seq(FieldPairs)
    BY <1>3, <2>1 DEF ParsedValues, Str, Table
  <2>3. AddPair(st, key, value) = AddDep(st, DepFromTable(key, value.v.v))
    BY <1>3 DEF AddPair
  <2>4. DepFromTable(key, value.v.v) \in Results(Dependencies)
    BY <2>2, DepType
  <2>5. QED BY <1>1, <2>3, <2>4
<1>4. CASE /\ ~(value.ok /\ st.section = "package" /\ value.v.k = "Str")
           /\ ~(value.ok /\ st.section = "dependencies" /\ value.v.k = "Table")
  <2>1. AddPair(st, key, value) = [st EXCEPT !.ok = FALSE]
    BY <1>4 DEF AddPair
  <2>2. QED BY <2>1 DEF ParseStates
<1>5. QED BY <1>2, <1>3, <1>4

\* The type of the state after the line of a pair.
LEMMA PairStateType ==
  ASSUME NEW st \in ParseStates, NEW line \in CharSeq
  PROVE  ReadPair(st, line) \in ParseStates
<1> DEFINE eq == Index(line, "=")
           key == Trim(Before(line, eq))
           value == ParseValue(Behind(line, eq))
<1>1. Before(line, eq) \in CharSeq /\ Behind(line, eq) \in CharSeq
  BY IndexType
<1>2. key \in CharSeq /\ value \in Results(ParsedValues)
  <2> HIDE DEF eq
  <2>1. QED BY <1>1, TrimType, ValueType
<1>3. ReadPair(st, line) = IF eq = 0 THEN [st EXCEPT !.ok = FALSE] ELSE AddPair(st, key, value)
  BY DEF ReadPair
<1> HIDE DEF eq, key, value
<1>4. AddPair(st, key, value) \in ParseStates
  BY <1>2, AddPairType
<1>5. [st EXCEPT !.ok = FALSE] \in ParseStates
  BY DEF ParseStates
<1>6. QED BY <1>3, <1>4, <1>5

\* A line without its comment is a text.
LEMMA CutType ==
  ASSUME NEW raw \in CharSeq
  PROVE  CutComment(raw) \in CharSeq
BY IndexType DEF CutComment

\* The reading of a line, and the kinds of lines.
LEMMA ReadLineLaws ==
  /\ ReadLine \in Steps(ParseStates, CharSeq)
  /\ \A st \in ParseStates, raw \in CharSeq :
       /\ ~st.ok => ReadLine[st][raw] = st
       /\ Trim(CutComment(raw)) = <<>> => ReadLine[st][raw] = st
       /\ st.ok /\ Trim(CutComment(raw)) # <<>> =>
            ReadLine[st][raw] = IF Enclosed(Trim(CutComment(raw)), "[", "]")
                                THEN ReadSection(st, Trim(CutComment(raw)))
                                ELSE ReadPair(st, Trim(CutComment(raw)))
<1>1. ASSUME NEW st \in ParseStates, NEW raw \in CharSeq, NEW line, line = Trim(CutComment(raw))
      PROVE  /\ ~st.ok => ReadLine[st][raw] = st
             /\ line = <<>> => ReadLine[st][raw] = st
             /\ st.ok /\ line # <<>> /\ Enclosed(line, "[", "]") => ReadLine[st][raw] = ReadSection(st, line)
             /\ st.ok /\ line # <<>> /\ ~Enclosed(line, "[", "]") => ReadLine[st][raw] = ReadPair(st, line)
  <2>1. ReadLine[st][raw] = ReadTrimmed(st, line)
    BY Zenon, <1>1 DEF ReadLine
  <2> DEFINE e == Enclosed(line, "[", "]")
             a == ReadSection(st, line)
             b == ReadPair(st, line)
  <2>2. /\ ~st.ok => ReadTrimmed(st, line) = st
        /\ line = <<>> => ReadTrimmed(st, line) = st
        /\ st.ok /\ line # <<>> /\ e => ReadTrimmed(st, line) = a
        /\ st.ok /\ line # <<>> /\ ~e => ReadTrimmed(st, line) = b
    <3>1. ReadTrimmed(st, line) = CASE ~st.ok \/ line = <<>> -> st
                                    [] st.ok /\ line # <<>> /\ e -> a
                                    [] OTHER -> b
      BY DEF ReadTrimmed
    <3> HIDE DEF e, a, b
    <3>2. st.ok \in BOOLEAN
      BY DEF ParseStates
    <3>3. QED BY <3>1, <3>2
  <2>3. QED BY <2>1, <2>2
<1>2. ASSUME NEW st \in ParseStates, NEW raw \in CharSeq PROVE ReadLine[st][raw] \in ParseStates
  <2> DEFINE line == Trim(CutComment(raw))
  <2>1. line \in CharSeq
    BY CutType, TrimType
  <2> HIDE DEF line
  <2>2. ReadSection(st, line) \in ParseStates /\ ReadPair(st, line) \in ParseStates
    BY <2>1, SectionType, PairStateType
  <2>3. st.ok \in BOOLEAN
    BY DEF ParseStates
  <2>4. QED BY <1>1, <2>2, <2>3 DEF line
<1>3. ReadLine = [st \in ParseStates |-> [raw \in CharSeq |-> ReadLine[st][raw]]]
  BY Zenon DEF ReadLine
<1>4. ReadLine \in Steps(ParseStates, CharSeq)
  BY <1>2, <1>3 DEF Steps
<1>5. QED BY <1>1, <1>4

\* The first line, and a text broken into lines.
FirstLine == LineState(<<>>, <<>>)
BrokenUp(t) == Scan(BreakLine, FirstLine, t)

\* What is read of a text but its last, open line.
OpenLine(t) == BrokenUp(t).line

\* The state after the lines before the last one.
ReadBefore(t) == Scan(ReadLine, FirstState, BrokenUp(t).done)

\* The steps that break a text into lines.
LEMMA BreakLineLaws ==
  /\ BreakLine \in Steps(LineStates, Characters)
  /\ FirstLine \in LineStates
  /\ \A st \in LineStates, c \in Characters :
       BreakLine[st][c] = IF c = "\n" THEN LineState(Append(st.done, st.line), <<>>)
                          ELSE LineState(st.done, Append(st.line, c))
<1>1. ASSUME NEW st \in LineStates, NEW c \in Characters
      PROVE  BreakLine[st][c] = IF c = "\n" THEN LineState(Append(st.done, st.line), <<>>)
                                ELSE LineState(st.done, Append(st.line, c))
  BY Zenon DEF BreakLine
<1>2. ASSUME NEW st \in LineStates, NEW c \in Characters PROVE BreakLine[st][c] \in LineStates
  <2>1. st.done \in Seq(CharSeq) /\ st.line \in CharSeq
    BY DEF LineStates
  <2>2. Append(st.done, st.line) \in Seq(CharSeq) /\ Append(st.line, c) \in CharSeq /\ <<>> \in CharSeq
    BY <2>1, AppendType, CharFacts
  <2> DEFINE d == st.done
             l == st.line
             dl == Append(d, l)
             lc == Append(l, c)
             e == <<>>
  <2>3. BreakLine[st][c] = IF c = "\n" THEN LineState(dl, e) ELSE LineState(d, lc)
    BY <1>1
  <2>4. dl \in Seq(CharSeq) /\ lc \in CharSeq /\ e \in CharSeq /\ d \in Seq(CharSeq)
    BY <2>1, <2>2
  <2> HIDE DEF d, l, dl, lc, e
  <2>5. QED BY <2>3, <2>4 DEF LineStates, LineState
<1>3. BreakLine = [st \in LineStates |-> [c \in Characters |-> BreakLine[st][c]]]
  BY Zenon DEF BreakLine
<1>4. BreakLine \in Steps(LineStates, Characters)
  BY <1>2, <1>3 DEF Steps
<1>5. FirstLine \in LineStates
  <2>1. <<>> \in Seq(CharSeq) /\ <<>> \in CharSeq
    BY CharFacts
  <2>2. QED BY <2>1 DEF FirstLine, LineStates, LineState
<1>6. QED BY <1>1, <1>4, <1>5

\* The first state, and what the lines of a text make of it.
LEMMA FirstStateType ==
  /\ FirstState \in ParseStates /\ FirstState.ok
  /\ ScanLawsOf(ReadLine, ParseStates, CharSeq)
<1>1. <<>> \in Seq(FieldPairs) /\ <<>> \in Seq(Dependencies)
  OBVIOUS
<1>2. FirstState \in ParseStates /\ FirstState.ok
  BY <1>1 DEF FirstState, ParseStates
<1>3. ReadLine \in Steps(ParseStates, CharSeq)
  BY ReadLineLaws
<1>4. QED BY <1>2, <1>3, ScanLaws

\* What is read before a text and of one more character: its line is open until its end.
LEMMA ReadBeforeLaws ==
  /\ ReadBefore(<<>>) = FirstState /\ OpenLine(<<>>) = <<>>
  /\ \A t \in CharSeq : ReadBefore(t) \in ParseStates /\ OpenLine(t) \in CharSeq
  /\ \A t \in CharSeq, c \in Characters :
       IF c = "\n"
       THEN ReadBefore(Append(t, c)) = ReadLine[ReadBefore(t)][OpenLine(t)] /\ OpenLine(Append(t, c)) = <<>>
       ELSE ReadBefore(Append(t, c)) = ReadBefore(t) /\ OpenLine(Append(t, c)) = Append(OpenLine(t), c)
<1>1. TextLaws(BreakLine, LineStates)
  BY BreakLineLaws, TextScan
<1>2. BrokenUp(<<>>) = FirstLine
  BY <1>1, BreakLineLaws DEF TextLaws, BrokenUp
<1>3. ASSUME NEW t \in CharSeq PROVE BrokenUp(t) \in LineStates
  BY <1>1, BreakLineLaws DEF TextLaws, BrokenUp
<1>4. ASSUME NEW t \in CharSeq, NEW c \in Characters PROVE BrokenUp(Append(t, c)) = BreakLine[BrokenUp(t)][c]
  BY Zenon, <1>1, BreakLineLaws DEF TextLaws, BrokenUp
<1>5. ReadBefore(<<>>) = FirstState /\ OpenLine(<<>>) = <<>>
  <2>1. BrokenUp(<<>>).done = <<>> /\ BrokenUp(<<>>).line = <<>>
    BY <1>2 DEF FirstLine, LineState
  <2>2. Scan(ReadLine, FirstState, <<>>) = FirstState
    BY Zenon, FirstStateType DEF ScanLawsOf
  <2>3. QED BY <2>1, <2>2 DEF ReadBefore, OpenLine
<1>6. ASSUME NEW t \in CharSeq PROVE ReadBefore(t) \in ParseStates /\ OpenLine(t) \in CharSeq
  <2>1. BrokenUp(t).done \in Seq(CharSeq) /\ BrokenUp(t).line \in CharSeq
    BY <1>3 DEF LineStates
  <2>2. Scan(ReadLine, FirstState, BrokenUp(t).done) \in ParseStates
    BY Zenon, <2>1, FirstStateType DEF ScanLawsOf
  <2>3. QED BY <2>1, <2>2 DEF ReadBefore, OpenLine
<1>7. ASSUME NEW t \in CharSeq, NEW c \in Characters, c # "\n"
      PROVE  ReadBefore(Append(t, c)) = ReadBefore(t) /\ OpenLine(Append(t, c)) = Append(OpenLine(t), c)
  <2> DEFINE b == BrokenUp(t)
             d == BrokenUp(Append(t, c))
  <2>1. d = LineState(b.done, Append(b.line, c))
    <3>1. d = BreakLine[b][c] /\ b \in LineStates
      BY <1>3, <1>4
    <3> HIDE DEF b, d
    <3>2. BreakLine[b][c] = LineState(b.done, Append(b.line, c))
      BY <1>7, <3>1, BreakLineLaws
    <3>3. QED BY <3>1, <3>2
  <2>2. d.done = b.done /\ d.line = Append(b.line, c)
    <3> HIDE DEF b, d
    <3>1. QED BY <2>1 DEF LineState
  <2>3. QED BY <2>2 DEF ReadBefore, OpenLine
<1>8. ASSUME NEW t \in CharSeq, NEW c \in Characters, c = "\n"
      PROVE  ReadBefore(Append(t, c)) = ReadLine[ReadBefore(t)][OpenLine(t)] /\ OpenLine(Append(t, c)) = <<>>
  <2> DEFINE b == BrokenUp(t)
             d == BrokenUp(Append(t, c))
  <2>1. d = LineState(Append(b.done, b.line), <<>>) /\ b \in LineStates
    <3>1. d = BreakLine[b][c] /\ b \in LineStates
      BY <1>3, <1>4
    <3> HIDE DEF b, d
    <3>2. BreakLine[b][c] = LineState(Append(b.done, b.line), <<>>)
      BY <1>8, <3>1, BreakLineLaws
    <3>3. QED BY <3>1, <3>2
  <2>2. /\ d.done = Append(b.done, b.line) /\ d.line = <<>>
        /\ b.done \in Seq(CharSeq) /\ b.line \in CharSeq
    <3> HIDE DEF b, d
    <3>1. QED BY <2>1 DEF LineState, LineStates
  <2> DEFINE bd == b.done
             bl == b.line
  <2>3. Scan(ReadLine, FirstState, Append(bd, bl)) = ReadLine[Scan(ReadLine, FirstState, bd)][bl]
    <3>1. bd \in Seq(CharSeq) /\ bl \in CharSeq
      BY <2>2
    <3> HIDE DEF bd, bl, b, d
    <3>2. FirstState \in ParseStates
      BY FirstStateType
    <3>3. \A f \in ParseStates, s \in Seq(CharSeq), l \in CharSeq :
            Scan(ReadLine, f, Append(s, l)) = ReadLine[Scan(ReadLine, f, s)][l]
      BY FirstStateType DEF ScanLawsOf
    <3>4. QED BY Zenon, <3>1, <3>2, <3>3
  <2>4. QED BY <2>2, <2>3 DEF ReadBefore, OpenLine
<1>9. QED BY <1>5, <1>6, <1>7, <1>8

\* Texts without the end of a line.
Unbroken(x) == \A i \in DOMAIN x : x[i] # "\n"

\* A text of one line with one more character.
LEMMA UnbrokenAppend ==
  ASSUME NEW x \in CharSeq, NEW c \in Characters
  PROVE  Unbroken(Append(x, c)) <=> Unbroken(x) /\ c # "\n"
BY AppendChar DEF Unbroken

\* A text without a line break stays in the open line.
LEMMA ReadOpen ==
  ASSUME NEW t \in CharSeq
  PROVE  \A x \in CharSeq : Unbroken(x) => /\ ReadBefore(t \o x) = ReadBefore(t)
                                           /\ OpenLine(t \o x) = OpenLine(t) \o x
<1> DEFINE Q(x) == ReadBefore(t \o x) = ReadBefore(t) /\ OpenLine(t \o x) = OpenLine(t) \o x
           T == {x \in CharSeq : Unbroken(x) => Q(x)}
<1>0. OpenLine(t) \in CharSeq
  BY ReadBeforeLaws
<1>1. <<>> \in T
  <2>1. t \o <<>> = t /\ OpenLine(t) \o <<>> = OpenLine(t) /\ <<>> \in CharSeq
    BY <1>0, CharFacts
  <2>2. QED BY <2>1
<1>2. ASSUME NEW x \in CharSeq, NEW c \in Characters, x \in T PROVE Append(x, c) \in T
  <2>1. Append(x, c) \in CharSeq
    BY CharFacts
  <2>2. ASSUME Unbroken(Append(x, c)) PROVE Q(Append(x, c))
    <3> DEFINE tx == t \o x
               o == OpenLine(t)
    <3>1. Unbroken(x) /\ c # "\n"
      BY <2>2, UnbrokenAppend
    <3>2. ReadBefore(tx) = ReadBefore(t) /\ OpenLine(tx) = o \o x
      BY <1>2, <3>1
    <3>3. t \o Append(x, c) = Append(tx, c)
      BY ConcatAppend
    <3>4. o \o Append(x, c) = Append(o \o x, c)
      <4> HIDE DEF o
      <4>1. QED BY <1>0, ConcatAppend DEF o
    <3>5. tx \in CharSeq
      BY CharFacts
    <3> HIDE DEF tx, o
    <3>6. ReadBefore(Append(tx, c)) = ReadBefore(tx) /\ OpenLine(Append(tx, c)) = Append(OpenLine(tx), c)
      BY <3>1, <3>5, ReadBeforeLaws
    <3>7. QED BY <3>2, <3>3, <3>4, <3>6 DEF o
  <2>3. QED BY <2>1, <2>2
<1>3. \A x \in CharSeq, c \in Characters : x \in T => Append(x, c) \in T
  BY <1>2
<1>4. \A x \in CharSeq : x \in T
  <2> HIDE DEF T
  <2>1. QED BY <1>1, <1>3, CharInduction
<1>5. QED BY <1>4

\* The reading of a whole text.
ReadAll(t) == Scan(ReadLine, FirstState, Lines(t))

\* An empty line changes nothing.
LEMMA EmptyLine ==
  ASSUME NEW st \in ParseStates
  PROVE  ReadLine[st][<<>>] = st
<1>1. <<>> \in CharSeq /\ Blank(<<>>)
  BY EmptyText
<1>2. Index(<<>>, "#") = 0
  <2>1. Index(<<>>, "#") \in 0..Len(<<>>)
    BY <1>1, IndexType
  <2>2. QED BY <2>1
<1>3. CutComment(<<>>) = <<>>
  BY <1>2 DEF CutComment
<1>4. Trim(CutComment(<<>>)) = <<>>
  BY <1>1, <1>3, TrimBlank
<1>5. QED BY <1>1, <1>4, ReadLineLaws

\* A text is read as its lines, and what is left of the last one.
LEMMA ReadAllIs ==
  ASSUME NEW t \in CharSeq
  PROVE  ReadAll(t) = ReadLine[ReadBefore(t)][OpenLine(t)]
<1> DEFINE b == BrokenUp(t)
           bd == b.done
           bl == b.line
<1>1. Lines(t) = IF bl = <<>> THEN bd ELSE Append(bd, bl)
  BY DEF Lines, BrokenUp, FirstLine
<1>2. b \in LineStates
  <2>1. TextLaws(BreakLine, LineStates)
    BY BreakLineLaws, TextScan
  <2>2. QED BY <2>1, BreakLineLaws DEF TextLaws, BrokenUp
<1>3. bd \in Seq(CharSeq) /\ bl \in CharSeq
  <2> HIDE DEF b
  <2>1. QED BY <1>2 DEF LineStates
<1>4. ReadBefore(t) = Scan(ReadLine, FirstState, bd) /\ OpenLine(t) = bl /\ ReadBefore(t) \in ParseStates
  BY ReadBeforeLaws DEF ReadBefore, OpenLine
<1> HIDE DEF bd, bl
<1>5. Scan(ReadLine, FirstState, Append(bd, bl)) = ReadLine[Scan(ReadLine, FirstState, bd)][bl]
  <2>1. ScanLawsOf(ReadLine, ParseStates, CharSeq) /\ FirstState \in ParseStates
    BY FirstStateType
  <2>2. \A st \in ParseStates, s \in Seq(CharSeq), l \in CharSeq :
          Scan(ReadLine, st, Append(s, l)) = ReadLine[Scan(ReadLine, st, s)][l]
    BY <2>1, Zenon DEF ScanLawsOf
  <2>3. \A s \in Seq(CharSeq), l \in CharSeq :
          Scan(ReadLine, FirstState, Append(s, l)) = ReadLine[Scan(ReadLine, FirstState, s)][l]
    BY <2>1, <2>2, Zenon
  <2>4. QED BY <1>3, <2>3, Zenon
<1>6. CASE bl = <<>>
  <2>1. ReadLine[ReadBefore(t)][<<>>] = ReadBefore(t)
    BY <1>4, EmptyLine
  <2>2. QED BY <1>1, <1>4, <1>6, <2>1 DEF ReadAll
<1>7. CASE bl # <<>>
  BY <1>1, <1>4, <1>5, <1>7 DEF ReadAll
<1>8. QED BY <1>6, <1>7

\* A text that is not read, whatever comes behind it.
Uncommented(a) == \A i \in DOMAIN a : a[i] # "#"

\* Texts with a line that fails, also when only a comment follows.
Dead(t) ==
  \/ ~ReadBefore(t).ok
  \/ \E a \in CharSeq, w \in CharSeq :
       OpenLine(t) = a \o (<<"#">> \o w) /\ Uncommented(a) /\ ~ReadLine[ReadBefore(t)][a].ok

\* A comment is cut off.
LEMMA CommentCut ==
  ASSUME NEW a \in CharSeq, Uncommented(a), NEW w \in CharSeq
  PROVE  CutComment(a) = a /\ CutComment(a \o (<<"#">> \o w)) = a
<1> DEFINE c == "#"
           s == a \o (<<c>> \o w)
<1>1. c \in Characters /\ \A i \in DOMAIN a : a[i] # c
  BY CharactersAssumption DEF Uncommented
<1>2. CutComment(a) = a
  BY <1>1, IndexType DEF CutComment
<1>3. Index(s, c) = Len(a) + 1 /\ Len(a) + 1 # 0 /\ Before(s, Len(a) + 1) = a
  <2> HIDE DEF c
  <2>1. QED BY <1>1, IndexOf
<1>4. CutComment(s) = a
  <2> HIDE DEF s
  <2>1. QED BY <1>3 DEF CutComment
<1>5. QED BY <1>2, <1>4

\* A line is read as it is without its comment.
LEMMA CommentedLine ==
  ASSUME NEW st \in ParseStates, NEW a \in CharSeq, Uncommented(a), NEW w \in CharSeq
  PROVE  ReadLine[st][a \o (<<"#">> \o w)] = ReadLine[st][a]
<1> DEFINE s == a \o (<<"#">> \o w)
<1>1. s \in CharSeq
  <2> DEFINE c == "#"
             q == <<c>>
             r == q \o w
  <2>1. c \in Characters
    BY CharactersAssumption
  <2> HIDE DEF c
  <2>2. q \in CharSeq
    BY <2>1, OneChar
  <2> HIDE DEF q
  <2>3. r \in CharSeq
    BY <2>2, CharFacts
  <2> HIDE DEF r
  <2>4. a \o r \in CharSeq
    BY <2>3, CharFacts
  <2>5. QED BY <2>4 DEF r, q, c
<1>2. CutComment(a) = CutComment(s)
  BY CommentCut
<1> HIDE DEF s
<1>3. ReadLine[st][s] = ReadTrimmed(st, Trim(CutComment(s)))
  BY Zenon, <1>1 DEF ReadLine
<1>4. ReadLine[st][a] = ReadTrimmed(st, Trim(CutComment(a)))
  BY Zenon DEF ReadLine
<1>5. QED BY <1>2, <1>3, <1>4 DEF s

\* A text of which a line fails is refused.
LEMMA DeadFails ==
  ASSUME NEW t \in CharSeq, Dead(t)
  PROVE  ~ReadLine[ReadBefore(t)][OpenLine(t)].ok
<1> DEFINE st == ReadBefore(t)
           o == OpenLine(t)
<1>1. st \in ParseStates /\ o \in CharSeq
  BY ReadBeforeLaws
<1>2. CASE ~st.ok
  <2> HIDE DEF st, o
  <2>1. ReadLine[st][o] = st
    BY <1>1, <1>2, ReadLineLaws
  <2>2. QED BY <1>2, <2>1 DEF st, o
<1>3. ASSUME NEW a \in CharSeq, NEW w \in CharSeq,
             o = a \o (<<"#">> \o w), Uncommented(a), ~ReadLine[st][a].ok
      PROVE  ~ReadLine[st][o].ok
  <2> HIDE DEF st, o
  <2>1. ReadLine[st][a \o (<<"#">> \o w)] = ReadLine[st][a]
    BY <1>1, <1>3, CommentedLine
  <2>2. QED BY <1>3, <2>1
<1>4. QED BY <1>2, <1>3 DEF Dead

\* It is refused whatever follows it.
LEMMA DeadStays ==
  ASSUME NEW t \in CharSeq, Dead(t)
  PROVE  \A x \in CharSeq : Dead(t \o x)
<1> DEFINE T == {x \in CharSeq : Dead(t \o x)}
<1>1. <<>> \in T
  BY CharFacts
<1>2. ASSUME NEW x \in CharSeq, NEW c \in Characters, x \in T PROVE Append(x, c) \in T
  <2> DEFINE tx == t \o x
             r == Append(tx, c)
             st == ReadBefore(tx)
             o == OpenLine(tx)
  <2>1. Append(x, c) \in CharSeq /\ tx \in CharSeq /\ t \o Append(x, c) = r
    BY CharFacts, ConcatAppend
  <2>2. Dead(tx)
    BY <1>2
  <2> HIDE DEF tx
  <2>3. st \in ParseStates /\ o \in CharSeq
    BY <2>1, ReadBeforeLaws
  <2>4. Dead(r)
    <3>1. CASE c = "\n"
      <4>1. ReadBefore(r) = ReadLine[st][o]
        BY <2>1, <3>1, ReadBeforeLaws
      <4>2. ~ReadLine[st][o].ok
        BY <2>1, <2>2, DeadFails
      <4>3. QED BY <4>1, <4>2 DEF Dead
    <3>2. CASE c # "\n"
      <4>1. ReadBefore(r) = st /\ OpenLine(r) = Append(o, c)
        BY <2>1, <3>2, ReadBeforeLaws
      <4> HIDE DEF st, o, r
      <4>2. CASE ~st.ok
        BY <4>1, <4>2 DEF Dead
      <4>3. ASSUME NEW a \in CharSeq, NEW w \in CharSeq,
                   o = a \o (<<"#">> \o w), Uncommented(a), ~ReadLine[st][a].ok
            PROVE  Dead(r)
        <5> DEFINE h == "#"
                   q == <<h>>
                   b == q \o w
                   v == Append(w, c)
        <5>1. h \in Characters
          BY CharactersAssumption
        <5>2. o = a \o b
          BY <4>3
        <5> HIDE DEF h
        <5>3. q \in CharSeq
          BY <5>1, OneChar
        <5> HIDE DEF q
        <5>4. b \in CharSeq
          BY <5>3, CharFacts
        <5>5. Append(b, c) = q \o v
          BY <5>3, ConcatAppend
        <5> HIDE DEF b
        <5>6. Append(a \o b, c) = a \o Append(b, c)
          BY <5>4, ConcatAppend
        <5>7. v \in CharSeq
          BY CharFacts
        <5>8. OpenLine(r) = a \o (<<"#">> \o v)
          BY <4>1, <5>2, <5>5, <5>6 DEF q, h
        <5> HIDE DEF v
        <5>9. QED BY Zenon, <4>1, <4>3, <5>7, <5>8 DEF Dead
      <4>4. QED BY <2>2, <4>2, <4>3 DEF Dead, st, o
    <3>3. QED BY <3>1, <3>2
  <2>5. QED BY <2>1, <2>4
<1>3. \A x \in CharSeq, c \in Characters : x \in T => Append(x, c) \in T
  BY <1>2
<1>4. \A x \in CharSeq : x \in T
  <2> HIDE DEF T
  <2>1. QED BY <1>1, <1>3, CharInduction
<1>5. QED BY <1>4

\* The end of a line.
Break == <<"\n">>

\* A line behind a text that ends with a line break is read as it is.
LEMMA LineRead ==
  ASSUME NEW t \in CharSeq, OpenLine(t) = <<>>, NEW L \in CharSeq, Clean(L)
  PROVE  /\ ReadBefore(t \o (L \o Break)) = ReadLine[ReadBefore(t)][L]
         /\ OpenLine(t \o (L \o Break)) = <<>> /\ t \o (L \o Break) \in CharSeq
<1> DEFINE c == "\n"
           tl == t \o L
<1>1. c \in Characters
  BY CharactersAssumption
<1>2. Unbroken(L)
  BY DEF Clean, Unbroken, Breaks
<1>3. ReadBefore(tl) = ReadBefore(t) /\ OpenLine(tl) = OpenLine(t) \o L
  BY <1>2, ReadOpen
<1>4. OpenLine(tl) = L /\ tl \in CharSeq
  BY <1>3, CharFacts
<1>5. t \o (L \o Break) = Append(tl, c)
  <2>1. L \o <<c>> = Append(L, c)
    <3> HIDE DEF c
    <3>1. QED BY <1>1, CharFacts
  <2>2. t \o Append(L, c) = Append(t \o L, c)
    <3> HIDE DEF c
    <3>1. QED BY <1>1, ConcatAppend
  <2>3. QED BY <2>1, <2>2 DEF Break
<1> HIDE DEF tl
<1>6. ReadBefore(Append(tl, c)) = ReadLine[ReadBefore(tl)][OpenLine(tl)] /\ OpenLine(Append(tl, c)) = <<>>
      /\ Append(tl, c) \in CharSeq
  BY <1>1, <1>4, ReadBeforeLaws, CharFacts
<1> HIDE DEF c
<1>7. QED BY <1>3, <1>4, <1>5, <1>6

\* A line that cannot be read up to where it is cut.
LEMMA LineCut ==
  ASSUME NEW t \in CharSeq, OpenLine(t) = <<>>, NEW L \in CharSeq, NEW a, CutAt(L, a),
         ~ReadLine[ReadBefore(t)][a].ok
  PROVE  Dead(t \o (L \o Break))
<1>1. PICK c \in Breaks, w \in CharSeq : L = a \o (<<c>> \o w)
  BY DEF CutAt
<1> DEFINE q == <<c>>
           r == q \o w
           ta == t \o a
           tq == ta \o q
           wb == w \o Break
           st == ReadBefore(t)
<1>2. a \in CharSeq /\ Clean(a) /\ c \in Characters
  BY CharactersAssumption DEF CutAt, Breaks
<1>3. q \in CharSeq /\ ta \in CharSeq /\ ta \o q = Append(ta, c) /\ Break \in CharSeq
  <2>1. "\n" \in Characters
    BY CharactersAssumption
  <2>2. QED BY <1>2, <2>1, CharFacts DEF Break
<1>4. ReadBefore(ta) = st /\ OpenLine(ta) = a
  <2>1. Unbroken(a)
    BY <1>2 DEF Clean, Unbroken, Breaks
  <2>2. ReadBefore(ta) = st /\ OpenLine(ta) = OpenLine(t) \o a
    BY <1>2, <2>1, ReadOpen
  <2>3. QED BY <1>2, <2>2, CharFacts
<1>5. Dead(tq)
  <2>1. CASE c = "\n"
    <3> HIDE DEF ta, q
    <3>1. ReadBefore(Append(ta, c)) = ReadLine[ReadBefore(ta)][OpenLine(ta)]
      BY <1>2, <1>3, <2>1, ReadBeforeLaws
    <3>2. ~ReadBefore(tq).ok
      BY <1>3, <1>4, <3>1
    <3>3. QED BY <3>2 DEF Dead
  <2>2. CASE c # "\n"
    <3>1. c = "#"
      BY <2>2 DEF Breaks
    <3> HIDE DEF ta, st
    <3>2. ReadBefore(tq) = st /\ OpenLine(tq) = Append(a, c)
      <4> HIDE DEF q
      <4>1. ReadBefore(Append(ta, c)) = ReadBefore(ta) /\ OpenLine(Append(ta, c)) = Append(OpenLine(ta), c)
        BY <1>2, <1>3, <2>2, ReadBeforeLaws
      <4>2. QED BY <1>3, <1>4, <4>1
    <3>3. Append(a, c) = a \o <<c>> /\ <<c>> \o <<>> = <<c>> /\ <<>> \in CharSeq
      BY <1>2, CharFacts
    <3>4. OpenLine(tq) = a \o (<<"#">> \o <<>>)
      <4> HIDE DEF tq, q
      <4>1. QED BY <3>1, <3>2, <3>3
    <3>5. Uncommented(a)
      BY <1>2 DEF Clean, Uncommented, Breaks
    <3> HIDE DEF tq
    <3>6. ~ReadLine[ReadBefore(tq)][a].ok
      BY <3>2 DEF st
    <3>7. QED BY Zenon, <1>2, <3>3, <3>4, <3>5, <3>6 DEF Dead
  <2>3. QED BY <2>1, <2>2
<1>6. t \o (L \o Break) = tq \o wb
  <2> HIDE DEF q
  <2>1. r \in CharSeq /\ wb \in CharSeq
    BY <1>3, CharFacts
  <2>2. (q \o w) \o Break = q \o (w \o Break)
    BY ZenonT(60), <1>3, Assoc
  <2> HIDE DEF r
  <2>3. (a \o r) \o Break = a \o (r \o Break)
    <3>1. a \in CharSeq /\ r \in CharSeq /\ Break \in CharSeq
      BY <1>2, <1>3, <2>1
    <3> HIDE DEF wb, ta, tq, st
    <3>2. QED BY ZenonT(60), <3>1, Assoc
  <2>4. r \o Break = q \o wb
    BY <2>2 DEF r
  <2> HIDE DEF wb
  <2> DEFINE qw == q \o wb
  <2>5. qw \in CharSeq
    BY <1>3, <2>1, CharFacts
  <2> HIDE DEF qw
  <2>6. (t \o a) \o qw = t \o (a \o qw)
    BY ZenonT(60), <1>2, <2>5, Assoc
  <2>7. (ta \o q) \o wb = ta \o (q \o wb)
    <3> HIDE DEF ta, tq, st
    <3>1. ta \in CharSeq /\ q \in CharSeq /\ wb \in CharSeq
      BY <1>3, <2>1
    <3>2. QED BY ZenonT(60), <3>1, Assoc
  <2>8. L \o Break = a \o qw
    BY <1>1, <2>3, <2>4 DEF r, q, qw
  <2>9. QED BY <2>6, <2>7, <2>8 DEF qw
<1>7. wb \in CharSeq /\ tq \in CharSeq
  <2> HIDE DEF ta, q
  <2>1. QED BY <1>3, CharFacts
<1>8. Dead(tq \o wb)
  <2> HIDE DEF tq, wb
  <2>1. QED BY <1>5, <1>7, DeadStays
<1>9. QED BY <1>6, <1>8

\* A text without spaces at its ends is its own.
LEMMA TrimSelf ==
  ASSUME NEW s \in CharSeq, Solid(s)
  PROVE  Trim(s) = s
<1> DEFINE e == <<>>
<1>1. e \in CharSeq /\ Blank(e)
  BY EmptyText
<1>2. e \o (s \o e) = s
  BY CharFacts
<1> HIDE DEF e
<1>3. Trim(e \o (s \o e)) = s
  BY <1>1, TrimOf
<1>4. QED BY <1>2, <1>3

\* A clean line is read as it is, without the spaces at its ends.
LEMMA CleanLine ==
  ASSUME NEW st \in ParseStates, st.ok, NEW a \in CharSeq, Clean(a), NEW l, l = Trim(a), l # <<>>
  PROVE  ReadLine[st][a] = IF Enclosed(l, "[", "]") THEN ReadSection(st, l) ELSE ReadPair(st, l)
<1>1. Uncommented(a)
  BY DEF Clean, Uncommented, Breaks
<1>2. CutComment(a) = a
  BY <1>1, EmptyText, CommentCut
<1>3. QED BY <1>2, ReadLineLaws

\* A state in which every line before has been read.
ReadState(section, package, deps) ==
  [ok |-> TRUE, section |-> section, package |-> package, deps |-> deps]

\* The type of such a state.
LEMMA ReadStateType ==
  ASSUME NEW section \in {""} \cup Sections, NEW package \in Seq(FieldPairs), NEW deps \in Seq(Dependencies)
  PROVE  ReadState(section, package, deps) \in ParseStates /\ ReadState(section, package, deps).ok
BY DEF ReadState, ParseStates

\* The line of a pair, by its key and its value.
LEMMA PairRead ==
  ASSUME NEW st, NEW l, NEW i, i = Index(l, "="), i # 0, NEW key, key = Trim(Before(l, i)),
         NEW value, value = ParseValue(Behind(l, i))
  PROVE  ReadPair(st, l) = AddPair(st, key, value)
BY DEF ReadPair

\* A value that is not read fails the line.
LEMMA PairFails ==
  ASSUME NEW st \in ParseStates, NEW key
  PROVE  ~AddPair(st, key, Fail).ok
<1>1. AddPair(st, key, Fail) = [st EXCEPT !.ok = FALSE]
  BY DEF AddPair, Fail
<1>2. QED BY <1>1 DEF ParseStates

\* A string in the section of the package.
LEMMA StringAdded ==
  ASSUME NEW package, NEW deps, NEW key, NEW v
  PROVE  AddPair(ReadState("package", package, deps), key, Ok(Str(v)))
           = ReadState("package", Append(package, [key |-> key, value |-> v]), deps)
BY DEF AddPair, ReadState, Ok, Str

\* A table in the section of the dependencies.
LEMMA TableAdded ==
  ASSUME NEW package, NEW deps, NEW key, NEW ps, NEW d, DepFromTable(key, ps) = Ok(d)
  PROVE  AddPair(ReadState("dependencies", package, deps), key, Ok(Table(ps)))
           = ReadState("dependencies", package, Append(deps, d))
<1>1. AddPair(ReadState("dependencies", package, deps), key, Ok(Table(ps)))
        = AddDep(ReadState("dependencies", package, deps), DepFromTable(key, ps))
  BY DEF AddPair, ReadState, Ok, Table
<1>2. AddDep(ReadState("dependencies", package, deps), Ok(d)) = ReadState("dependencies", package, Append(deps, d))
  BY DEF AddDep, ReadState, Ok
<1>3. QED BY <1>1, <1>2

\* No bracket opens a line that begins with a key.
LEMMA NoSection ==
  ASSUME NEW s \in CharSeq, s # <<>>, NEW k, PlainKey(k), s[1] = k
  PROVE  ~Enclosed(s, "[", "]")
<1> DEFINE a == "["
<1>1. a # k
  BY DEF PlainKey
<1> HIDE DEF a
<1>2. ~Enclosed(s, a, "]")
  BY <1>1, NoTable
<1>3. QED BY <1>2 DEF a

\* The line of a clean entry of the package.
LEMMA FieldLine ==
  ASSUME NEW package \in Seq(FieldPairs), NEW deps \in Seq(Dependencies), NEW f \in PlainFields,
         Clean(f.value)
  PROVE  ReadLine[ReadState("package", package, deps)][Field(f)]
           = ReadState("package", Append(package, PairOf(f)), deps)
<1> DEFINE st == ReadState("package", package, deps)
           l == Field(f)
           k == f.key
           v == f.value
           x == Quote(v)
<1>1. st \in ParseStates /\ st.ok
  BY ReadStateType DEF Sections
<1>2. /\ l \in CharSeq /\ l # <<>> /\ Solid(l) /\ l[1] = k /\ PlainKey(k) /\ v \in CharSeq /\ l = Start(k) \o x
      /\ x \in CharSeq
  <2>1. l \in CharSeq /\ l # <<>> /\ Solid(l) /\ l[1] = k
    BY EmptyText, FieldRead
  <2>2. PlainKey(k) /\ v \in CharSeq /\ l = Start(k) \o x
    BY FieldType
  <2> HIDE DEF l, k, v
  <2>3. x \in CharSeq
    BY <2>2, QuoteLaws
  <2>4. QED BY <2>1, <2>2, <2>3
<1>3. Clean(l)
  BY FieldCut
<1> HIDE DEF st, l, k, v
<1>4. Trim(l) = l /\ ~Enclosed(l, "[", "]")
  BY <1>2, TrimSelf, NoSection
<1>5. ReadLine[st][l] = ReadPair(st, l)
  BY <1>1, <1>2, <1>3, <1>4, CleanLine
<1> DEFINE i == Index(l, "=")
<1>6. i # 0 /\ Trim(Before(l, i)) = <<k>> /\ Behind(l, i) = <<" ">> \o x
  <2> HIDE DEF x
  <2>1. QED BY <1>2, StartLaws
<1>7. ParseValue(<<" ">> \o x) = Ok(Str(v))
  BY <1>2, OneChars, StringValue DEF Str
<1> HIDE DEF i, x
<1>8. ReadPair(st, l) = AddPair(st, <<k>>, Ok(Str(v)))
  <2> DEFINE key == <<k>>
             value == Ok(Str(v))
  <2>1. key = Trim(Before(l, i)) /\ value = ParseValue(Behind(l, i)) /\ i # 0 /\ i = Index(l, "=")
    BY <1>6, <1>7 DEF i
  <2> HIDE DEF key, value
  <2>2. ReadPair(st, l) = AddPair(st, key, value)
    BY <2>1, PairRead
  <2>3. QED BY <2>2 DEF key, value
<1>9. PairOf(f) = [key |-> <<k>>, value |-> v]
  BY DEF PairOf, k, v
<1>10. AddPair(st, <<k>>, Ok(Str(v))) = ReadState("package", Append(package, [key |-> <<k>>, value |-> v]), deps)
  BY StringAdded DEF st
<1>11. QED BY <1>5, <1>8, <1>9, <1>10 DEF st, l

\* The line of an entry that is cut in its value fails.
LEMMA OpenFieldLine ==
  ASSUME NEW st \in ParseStates, st.ok, NEW k, PlainKey(k), NEW u \in CharSeq, Clean(Opened(k, u))
  PROVE  ~ReadLine[st][Opened(k, u)].ok
<1> DEFINE a == Opened(k, u)
           e == <<>>
<1>1. e \in CharSeq /\ Blank(e)
  BY EmptyText
<1>2. a \in CharSeq
  BY <1>1, OpenedRead
<1>3. PICK x \in CharSeq : Trim(e \o a) = Opened(k, x) /\ Opened(k, x) # <<>>
  <2> HIDE DEF e
  <2>1. \E x \in CharSeq : /\ Trim(e \o Opened(k, u)) = Opened(k, x) /\ Solid(Opened(k, x))
                           /\ Opened(k, x) # <<>> /\ ParsePair(Opened(k, x)) = Fail
    BY <1>1, OpenedRead
  <2>2. QED BY Zenon, <2>1 DEF a
<1> DEFINE l == Opened(k, x)
           y == <<"\"">> \o Esc(x)
           i == Index(l, "=")
<1>4. Trim(a) = l /\ l \in CharSeq /\ l # <<>> /\ l[1] = k
  <2>1. e \o a = a
    <3> HIDE DEF a
    <3>1. QED BY <1>2, CharFacts
  <2>2. l \in CharSeq /\ l # <<>> /\ l[1] = k
    BY <1>1, OpenedRead
  <2>3. QED BY <1>3, <2>1, <2>2
<1>5. y \in CharSeq
  BY OneChars, EscLaws, CharFacts
<1>6. l = Start(k) \o y
  BY DEF Opened
<1>7. ParseValue(<<" ">> \o y) = Fail
  BY OneChars, StringValue
<1> HIDE DEF a, l
<1>8. ~Enclosed(l, "[", "]")
  BY <1>4, NoSection
<1>9. ReadLine[st][a] = ReadPair(st, l)
  BY <1>2, <1>4, <1>8, CleanLine DEF a
<1>10. i # 0 /\ Behind(l, i) = <<" ">> \o y
  <2> HIDE DEF y
  <2>1. QED BY <1>5, <1>6, StartLaws
<1> HIDE DEF i, y
<1> DEFINE key == Trim(Before(l, i))
<1>11. ReadPair(st, l) = AddPair(st, key, Fail)
  BY ZenonT(60), <1>7, <1>10, PairRead DEF i
<1> HIDE DEF key
<1>12. QED BY <1>9, <1>11, PairFails DEF a

\* A line that opens a section.
LEMMA SectionLine ==
  ASSUME NEW st \in ParseStates, st.ok, NEW s \in Sections
  PROVE  /\ ReadLine[st][<<"[">> \o (<<s>> \o <<"]">>)] = [st EXCEPT !.section = s]
         /\ <<"[">> \o (<<s>> \o <<"]">>) \in CharSeq /\ Clean(<<"[">> \o (<<s>> \o <<"]">>))
<1> DEFINE a == "["
           c == "]"
           b == <<s>>
           l == <<a>> \o (b \o <<c>>)
<1>1. /\ a \in Characters /\ c \in Characters /\ s \in Characters /\ ~IsSpace(a) /\ ~IsSpace(c) /\ ~IsSpace(s)
      /\ a \notin Breaks /\ c \notin Breaks /\ s \notin Breaks
  BY CharactersAssumption DEF IsSpace, Breaks, Sections
<1> HIDE DEF a, c
<1>2. b \in CharSeq /\ Solid(b) /\ Clean(b) /\ <<a>> \in CharSeq /\ Clean(<<a>>) /\ <<c>> \in CharSeq /\ Clean(<<c>>)
  BY <1>1, OneChar, CleanChar
<1> HIDE DEF b
<1>3. Inner(l) = b /\ Len(l) >= 2 /\ l \in CharSeq /\ Head(l) = a /\ Last(l) = c
  BY <1>1, <1>2, InnerOf
<1>4. Clean(l)
  <2> DEFINE p == <<a>>
             q == <<c>>
             r == b \o q
  <2> HIDE DEF p, q
  <2>1. r \in CharSeq /\ Clean(r)
    BY <1>2, CharFacts, CleanConcat DEF q
  <2> HIDE DEF r
  <2>2. Clean(p \o r)
    BY <1>2, <2>1, CleanConcat DEF p
  <2>3. QED BY <2>2 DEF p, q, r
<1> HIDE DEF l
<1>5. l # <<>> /\ Head(l) = l[1] /\ Last(l) = l[Len(l)]
  <2>1. Len(l) >= 1
    BY <1>3 DEF CharSeq
  <2>2. QED BY <1>3, <2>1, TextEnds
<1>6. Solid(l) /\ Enclosed(l, a, c)
  BY <1>1, <1>3, <1>5 DEF Solid, Enclosed
<1>7. Trim(l) = l /\ Trim(b) = b
  BY <1>2, <1>3, <1>6, TrimSelf
<1>8. Enclosed(l, "[", "]")
  BY <1>6 DEF a, c
<1>9. ReadLine[st][l] = ReadSection(st, l)
  BY <1>3, <1>4, <1>5, <1>7, <1>8, CleanLine
<1>10. ReadSection(st, l) = [st EXCEPT !.section = s]
  <2>1. b \in {<<x>> : x \in Sections} /\ b[1] = s
    BY DEF b
  <2>2. ReadSection(st, l) = IF b \in {<<x>> : x \in Sections} THEN [st EXCEPT !.section = b[1]]
                             ELSE [st EXCEPT !.ok = FALSE]
    BY <1>3, <1>7 DEF ReadSection
  <2>3. QED BY <2>1, <2>2
<1>11. QED BY <1>3, <1>4, <1>9, <1>10 DEF l, a, b, c

\* A state in another section.
SectionOf(st, s) == [st EXCEPT !.section = s]

\* The state in another section.
LEMMA SectionOpened ==
  ASSUME NEW section, NEW s, NEW package, NEW deps, NEW st, st = ReadState(section, package, deps)
  PROVE  SectionOf(st, s) = ReadState(s, package, deps)
<1> DEFINE r == [st EXCEPT !.section = s]
           t == ReadState(s, package, deps)
           F == {"ok", "section", "package", "deps"}
<1>1. st = [x \in F |-> st[x]] /\ t = [x \in F |-> t[x]]
  BY DEF ReadState
<1>2. t.section = s /\ t.ok = st.ok /\ t.package = st.package /\ t.deps = st.deps
  BY DEF ReadState
<1> HIDE DEF t
<1>3. r = [x \in F |-> IF x = "section" THEN s ELSE st[x]]
  BY <1>1
<1>4. \A x \in F : t[x] = IF x = "section" THEN s ELSE st[x]
  BY <1>2
<1>5. QED BY <1>1, <1>3, <1>4 DEF t, SectionOf

\* The same of the state by its fields.
LEMMA SectionMoved ==
  ASSUME NEW section, NEW s, NEW package, NEW deps
  PROVE  SectionOf(ReadState(section, package, deps), s) = ReadState(s, package, deps)
<1> DEFINE st == ReadState(section, package, deps)
<1>1. st = ReadState(section, package, deps)
  OBVIOUS
<1> HIDE DEF st
<1>2. SectionOf(st, s) = ReadState(s, package, deps)
  BY <1>1, SectionOpened
<1>3. QED BY <1>1, <1>2

\* A value x with the name n.
EqualSign == <<"=">>
Space == <<" ">>
Named(n, x) == n \o (Space \o (EqualSign \o (Space \o x)))

\* The space and the equals sign.
LEMMA NameSigns ==
  /\ Space \in CharSeq /\ Blank(Space) /\ Clean(Space)
  /\ EqualSign \in CharSeq /\ Clean(EqualSign)
<1> DEFINE o == " "
           g == "="
<1>1. o \in Characters /\ o \notin Breaks /\ g \in Characters /\ g \notin Breaks
  BY CharactersAssumption DEF Breaks
<1>2. Space = <<o>> /\ EqualSign = <<g>> /\ Space \in CharSeq /\ Blank(Space)
  BY OneChars DEF Space, EqualSign
<1> HIDE DEF o, g
<1>3. QED BY <1>1, <1>2, CleanChar

\* A value with its name is a text.
LEMMA NamedType ==
  ASSUME NEW n \in CharSeq, NEW x \in CharSeq
  PROVE  /\ Space \o x \in CharSeq /\ EqualSign \o (Space \o x) \in CharSeq
         /\ Space \o (EqualSign \o (Space \o x)) \in CharSeq
         /\ Named(n, x) \in CharSeq
<1> DEFINE a == Space \o x
           b == EqualSign \o a
           c == Space \o b
<1>1. a \in CharSeq
  BY NameSigns, CharFacts
<1> HIDE DEF a
<1>2. b \in CharSeq
  BY <1>1, NameSigns, CharFacts
<1> HIDE DEF b
<1>3. c \in CharSeq
  BY <1>2, NameSigns, CharFacts
<1> HIDE DEF c
<1>4. n \o c \in CharSeq
  BY <1>3, CharFacts
<1>5. Named(n, x) = n \o c
  BY DEF Named, a, b, c
<1>6. QED BY <1>1, <1>2, <1>3, <1>4, <1>5 DEF a, b, c

\* A name is found before its equals sign, and its value behind it.
LEMMA NamedEquals ==
  ASSUME NEW n, PlainName(n), NEW x \in CharSeq
  PROVE  /\ Index(Named(n, x), "=") = Len(n) + 2 /\ Len(n) + 2 # 0
         /\ Trim(Before(Named(n, x), Len(n) + 2)) = n
         /\ Behind(Named(n, x), Len(n) + 2) = Space \o x
<1> DEFINE g == "="
           p == n \o Space
           y == Space \o x
           z == EqualSign \o y
           l == p \o (<<g>> \o y)
<1>1. n \in CharSeq /\ Solid(n) /\ g \in Characters /\ \A i \in DOMAIN n : n[i] # g
  BY CharactersAssumption DEF PlainName
<1>2. y \in CharSeq /\ z \in CharSeq
  BY NamedType, <1>1
<1>3. p \in CharSeq
  BY <1>1, NameSigns, CharFacts
<1>4. Len(p) = Len(n) + 1 /\ Len(n) \in Nat /\ \A i \in DOMAIN p : p[i] # g
  <2>1. Len(Space) = 1 /\ Space[1] # g
    BY DEF Space
  <2>2. /\ Len(n) \in Nat /\ Len(p) = Len(n) + Len(Space)
        /\ DOMAIN n = 1..Len(n) /\ DOMAIN p = 1..(Len(n) + Len(Space))
        /\ \A i \in 1..Len(n) : p[i] = n[i]
        /\ \A i \in 1..Len(Space) : p[Len(n) + i] = Space[i]
    BY <1>1, NameSigns, ConcatIndex
  <2> HIDE DEF p, g
  <2>3. ASSUME NEW i \in DOMAIN p PROVE p[i] # g
    <3>1. i \in 1..Len(n) \/ i = Len(n) + 1
      BY <2>1, <2>2
    <3>2. CASE i = Len(n) + 1
      <4>1. p[Len(n) + 1] = Space[1]
        BY <2>1, <2>2
      <4>2. QED BY <2>1, <3>2, <4>1
    <3>3. QED BY <1>1, <2>2, <3>1, <3>2
  <2>4. QED BY <2>1, <2>2, <2>3
<1>5. Named(n, x) = l
  <2>1. Named(n, x) = n \o (Space \o z)
    BY DEF Named
  <2> HIDE DEF y, z
  <2>2. (n \o Space) \o z = n \o (Space \o z)
    BY ZenonT(60), <1>1, <1>2, NameSigns, Assoc
  <2>3. QED BY <2>1, <2>2 DEF z, EqualSign
<1> HIDE DEF p, y, g
<1>6. Index(l, g) = Len(p) + 1 /\ Before(l, Len(p) + 1) = p /\ Behind(l, Len(p) + 1) = y
  BY <1>1, <1>2, <1>3, <1>4, IndexOf
<1>7. Trim(p) = n
  <2> DEFINE e == <<>>
             no == n \o Space
  <2>1. e \in CharSeq /\ Blank(e)
    BY EmptyText
  <2>2. e \o (n \o Space) = p
    <3>1. no \in CharSeq
      BY <1>3 DEF p
    <3> HIDE DEF no
    <3>2. e \o no = no
      BY <3>1, CharFacts
    <3>3. QED BY <3>2 DEF no, p
  <2> HIDE DEF e
  <2>3. Trim(e \o (n \o Space)) = n
    BY <1>1, <2>1, NameSigns, TrimOf
  <2>4. QED BY <2>2, <2>3
<1> HIDE DEF l
<1>8. Len(p) + 1 = Len(n) + 2
  BY <1>4
<1>9. QED BY <1>4, <1>5, <1>6, <1>7, <1>8 DEF g, y

\* Where a value with its name begins and ends.
LEMMA NamedEnds ==
  ASSUME NEW n, PlainName(n), NEW x \in CharSeq, x # <<>>
  PROVE  /\ Named(n, x) # <<>> /\ Named(n, x)[1] = n[1]
         /\ Named(n, x)[Len(Named(n, x))] = x[Len(x)]
         /\ Len(n) \in Nat /\ Len(n) + 2 < Len(Named(n, x)) /\ Named(n, x)[Len(n) + 2] = "="
<1> DEFINE a == Space \o x
           b == EqualSign \o a
           c == Space \o b
<1>1. a \in CharSeq /\ b \in CharSeq /\ c \in CharSeq /\ n \in CharSeq /\ n # <<>>
  BY NamedType DEF PlainName, Solid
<1>2. Named(n, x) = n \o c
  BY DEF Named
<1>3. a # <<>> /\ a[Len(a)] = x[Len(x)]
  BY NameSigns, ConcatEnds
<1> HIDE DEF a
<1>4. b # <<>> /\ b[Len(b)] = a[Len(a)]
  BY <1>1, <1>3, NameSigns, ConcatEnds
<1>5. Len(b) = Len(EqualSign) + Len(a) /\ b[1] = EqualSign[1]
  <2>1. EqualSign # <<>>
    BY DEF EqualSign
  <2>2. b[1] = EqualSign[1]
    BY <1>1, <2>1, NameSigns, ConcatEnds
  <2>3. Len(b) = Len(EqualSign) + Len(a)
    BY <1>1, NameSigns, ConcatIndex
  <2>4. QED BY <2>2, <2>3
<1> HIDE DEF b
<1>6. c # <<>> /\ c[Len(c)] = b[Len(b)]
  BY <1>1, <1>4, NameSigns, ConcatEnds
<1>7. Len(c) = Len(Space) + Len(b) /\ \A i \in 1..Len(b) : c[Len(Space) + i] = b[i]
  BY <1>1, NameSigns, ConcatIndex
<1> HIDE DEF c
<1>8. n \o c # <<>> /\ (n \o c)[1] = n[1] /\ (n \o c)[Len(n \o c)] = c[Len(c)]
  BY <1>1, <1>6, ConcatEnds
<1>9. /\ Len(n) \in Nat /\ Len(n \o c) = Len(n) + Len(c)
      /\ \A i \in 1..Len(c) : (n \o c)[Len(n) + i] = c[i]
  BY <1>1, ConcatIndex
<1>10. Len(Space) = 1 /\ Len(EqualSign) = 1 /\ EqualSign[1] = "=" /\ Len(a) \in Nat /\ Len(a) >= 1
  <2>1. Len(a) \in Nat /\ Len(a) >= 1
    BY <1>1, <1>3 DEF CharSeq
  <2>2. QED BY <2>1 DEF Space, EqualSign
<1> DEFINE nc == n \o c
<1>11. nc = Named(n, x)
  BY <1>2
<1> HIDE DEF nc
<1>12. Len(b) = 1 + Len(a) /\ Len(c) = 1 + Len(b) /\ Len(nc) = Len(n) + Len(c)
  BY <1>5, <1>7, <1>9, <1>10 DEF nc
<1>13. Len(n) + 2 < Len(nc)
  BY <1>9, <1>10, <1>12
<1>14. nc[Len(n) + 2] = "="
  <2>1. 2 \in 1..Len(c) /\ 1 \in 1..Len(b)
    BY <1>10, <1>12
  <2>2. nc[Len(n) + 2] = c[2]
    BY <1>9, <2>1 DEF nc
  <2>3. c[1 + 1] = b[1]
    BY <1>7, <1>10, <2>1
  <2>4. QED BY <1>5, <1>10, <2>2, <2>3
<1>15. nc # <<>> /\ nc[1] = n[1] /\ nc[Len(nc)] = x[Len(x)]
  BY <1>3, <1>4, <1>6, <1>8 DEF nc
<1>16. QED BY <1>9, <1>11, <1>13, <1>14, <1>15

\* A value with more behind it.
LEMMA NamedMore ==
  ASSUME NEW n \in CharSeq, NEW x \in CharSeq, NEW y \in CharSeq
  PROVE  Named(n, x \o y) = Named(n, x) \o y
<1> DEFINE x1 == Space \o x
           x2 == EqualSign \o x1
           x3 == Space \o x2
<1>1. x1 \in CharSeq /\ x2 \in CharSeq /\ x3 \in CharSeq
  BY NamedType
<1>2. Space \in CharSeq /\ EqualSign \in CharSeq
  BY NameSigns
<1>3. (Space \o x) \o y = Space \o (x \o y)
  BY ZenonT(60), <1>2, Assoc
<1>4. Named(n, x) = n \o x3 /\ x1 = Space \o x /\ x2 = EqualSign \o x1 /\ x3 = Space \o x2
  BY DEF Named
<1> HIDE DEF x1, x2, x3
<1>5. (EqualSign \o x1) \o y = EqualSign \o (x1 \o y)
  <2>1. EqualSign \in CharSeq /\ x1 \in CharSeq
    BY <1>1, <1>2
  <2>2. QED BY SMTT(40), <2>1, Assoc
<1>6. (Space \o x2) \o y = Space \o (x2 \o y)
  <2>1. Space \in CharSeq /\ x2 \in CharSeq
    BY <1>1, <1>2
  <2>2. QED BY <2>1, Assoc
<1>7. (n \o x3) \o y = n \o (x3 \o y)
  BY ZenonT(60), <1>1, Assoc
<1>8. Named(n, x \o y) = n \o (Space \o (EqualSign \o (Space \o (x \o y))))
  BY DEF Named
<1>9. QED BY <1>3, <1>4, <1>5, <1>6, <1>7, <1>8

\* A line with a name is cut in its value.
LEMMA NamedCut ==
  ASSUME NEW n, PlainName(n), NEW x \in CharSeq
  PROVE  /\ Clean(x) => Clean(Named(n, x))
         /\ \A a : CutAt(x, a) => CutAt(Named(n, x), Named(n, a))
<1> DEFINE p == Space \o x
           q == EqualSign \o p
           r == Space \o q
<1>1. p \in CharSeq /\ q \in CharSeq /\ r \in CharSeq /\ n \in CharSeq /\ Clean(n)
  <2>1. n \in CharSeq /\ Clean(n)
    BY DEF PlainName, Clean, Breaks
  <2>2. QED BY <2>1, NamedType
<1>2. Named(n, x) = n \o r
  BY DEF Named
<1>3. ASSUME Clean(x) PROVE Clean(Named(n, x))
  <2>1. Clean(p)
    BY <1>3, NameSigns, CleanConcat
  <2> HIDE DEF p
  <2>2. Clean(q)
    BY <1>1, <2>1, NameSigns, CleanConcat
  <2> HIDE DEF q
  <2>3. Clean(r)
    BY <1>1, <2>2, NameSigns, CleanConcat
  <2> HIDE DEF r
  <2>4. Clean(n \o r)
    BY <1>1, <2>3, CleanConcat
  <2>5. QED BY <1>2, <2>4
<1>4. ASSUME NEW a, CutAt(x, a) PROVE CutAt(Named(n, x), Named(n, a))
  <2> DEFINE pa == Space \o a
             qa == EqualSign \o pa
             ra == Space \o qa
  <2>0. Named(n, a) = n \o ra
    BY DEF Named
  <2>1. CutAt(p, pa)
    BY <1>4, NameSigns, CutBehind
  <2> HIDE DEF p, pa
  <2>2. CutAt(q, qa)
    BY <1>1, <2>1, NameSigns, CutBehind
  <2> HIDE DEF q, qa
  <2>3. CutAt(r, ra)
    BY <1>1, <2>2, NameSigns, CutBehind
  <2> HIDE DEF r, ra
  <2>4. CutAt(n \o r, n \o ra)
    BY <1>1, <2>3, CutBehind
  <2>5. QED BY <1>2, <2>0, <2>4
<1>5. QED BY <1>3, <1>4

\* No section has an equal sign in its name.
LEMMA SectionFails ==
  ASSUME NEW st \in ParseStates, NEW l \in CharSeq, NEW j \in Nat, 1 < j, j < Len(l), l[j] = "="
  PROVE  ~ReadSection(st, l).ok
<1> DEFINE i == Inner(l)
           name == Trim(i)
<1>1. i = SubSeq(l, 2, Len(l) - 1) /\ i \in CharSeq
  BY InnerType DEF Inner
<1>2. Len(l) \in Nat /\ l \in Seq(Characters)
  BY DEF CharSeq
<1>3. j - 1 \in DOMAIN i /\ i[j - 1] = "="
  BY <1>1, <1>2
<1> HIDE DEF i
<1>4. ~IsSpace(i[j - 1])
  BY <1>3 DEF IsSpace
<1>5. PICK m \in DOMAIN name : name[m] = "="
  <2> DEFINE p == j - 1
  <2>1. p \in DOMAIN i /\ ~IsSpace(i[p]) /\ i[p] = "="
    BY <1>3, <1>4
  <2> HIDE DEF p
  <2>2. \E m \in DOMAIN Trim(i) : Trim(i)[m] = i[p]
    BY <1>1, <2>1, TrimType
  <2>3. QED BY <2>1, <2>2
<1>6. ASSUME NEW s \in Sections, name = <<s>> PROVE FALSE
  <2>1. m = 1 /\ name[m] = s
    BY <1>6
  <2>2. QED BY <1>5, <2>1 DEF Sections
<1>7. ReadSection(st, l) = [st EXCEPT !.ok = FALSE]
  BY <1>6 DEF ReadSection, i
<1>8. QED BY <1>7 DEF ParseStates

\* A line that ends with a brace opens no section.
LEMMA NoSectionEnd ==
  ASSUME NEW s \in CharSeq, s # <<>>, NEW c, s[Len(s)] = c, NEW a, NEW b, b # c
  PROVE  ~Enclosed(s, a, b)
<1>1. Last(s) = s[Len(s)]
  BY DEF CharSeq, Last
<1>2. QED BY <1>1 DEF Enclosed

\* The line of a dependency is read as that dependency.
LEMMA TableLine ==
  ASSUME NEW package \in Seq(FieldPairs), NEW deps \in Seq(Dependencies), NEW n, PlainName(n),
         NEW fs \in Seq(PlainFields), NEW f \in PlainFields, CleanFields(Append(fs, f)),
         NEW d, DepFromTable(n, Pairs(Append(fs, f))) = Ok(d)
  PROVE  ReadLine[ReadState("dependencies", package, deps)][Named(n, TableText(fs, f))]
           = ReadState("dependencies", package, Append(deps, d))
<1> DEFINE st == ReadState("dependencies", package, deps)
           x == TableText(fs, f)
           l == Named(n, x)
           ps == Pairs(Append(fs, f))
           c == "}"
<1>1. st \in ParseStates /\ st.ok
  BY ReadStateType DEF Sections
<1>2. x \in CharSeq /\ Solid(x) /\ x[Len(x)] = c /\ ParseValue(Space \o x) = Ok(Table(ps))
  <2>1. x \in CharSeq /\ Solid(x)
    BY EmptyText, TableValue
  <2>2. ParseValue(Space \o x) = Ok([k |-> "Table", v |-> ps])
    BY NameSigns, TableValue
  <2>3. Enclosed(x, "{", "}")
    <3> DEFINE b == BeforeField(fs)
               t == Field(f)
               o == <<" ">>
               to == t \o o
               y == b \o to
    <3>1. b \in CharSeq /\ t \in CharSeq /\ o \in CharSeq
      BY BeforeFieldLaws, FieldType, OneChars
    <3> HIDE DEF t, o
    <3>2. to \in CharSeq
      BY <3>1, CharFacts
    <3> HIDE DEF b, to
    <3>3. y \in CharSeq
      BY <3>1, <3>2, CharFacts
    <3>4. x = <<"{">> \o (y \o <<"}">>)
      BY DEF TableText, y, b, to, t, o
    <3> HIDE DEF y, x
    <3>5. QED BY <3>3, <3>4, Braced
  <2>4. x[Len(x)] = c
    <3> HIDE DEF x
    <3>1. x # <<>> /\ Last(x) = x[Len(x)]
      BY <2>1 DEF CharSeq, Last, Solid
    <3>2. QED BY <2>3, <3>1 DEF Enclosed
  <2>5. QED BY <2>1, <2>2, <2>4 DEF Table
<1>3. Clean(x)
  BY TableCut
<1> HIDE DEF st, x, ps
<1>4. x # <<>> /\ ~IsSpace(x[Len(x)]) /\ n \in CharSeq /\ n # <<>> /\ ~IsSpace(n[1])
  BY <1>2 DEF Solid, PlainName
<1>5. l \in CharSeq /\ l # <<>> /\ l[1] = n[1] /\ l[Len(l)] = x[Len(x)]
  BY <1>2, <1>4, NamedType, NamedEnds
<1>6. Clean(l)
  BY <1>2, <1>3, NamedCut
<1> DEFINE i == Index(l, "=")
<1>7. i # 0 /\ Trim(Before(l, i)) = n /\ Behind(l, i) = Space \o x
  BY <1>2, NamedEquals
<1> HIDE DEF l
<1>8. Solid(l) /\ Trim(l) = l
  BY <1>4, <1>5, TrimSelf DEF Solid
<1>9. ~Enclosed(l, "[", "]")
  <2>1. "]" # c
    OBVIOUS
  <2> HIDE DEF c
  <2>2. QED BY <1>2, <1>5, <2>1, NoSectionEnd
<1>10. ReadLine[st][l] = ReadPair(st, l)
  BY <1>1, <1>5, <1>6, <1>8, <1>9, CleanLine
<1>11. ReadPair(st, l) = AddPair(st, n, Ok(Table(ps)))
  <2> DEFINE value == Ok(Table(ps))
  <2>1. n = Trim(Before(l, i)) /\ value = ParseValue(Behind(l, i)) /\ i # 0 /\ i = Index(l, "=")
    BY <1>2, <1>7
  <2> HIDE DEF value, i
  <2>2. ReadPair(st, l) = AddPair(st, n, value)
    BY <2>1, PairRead
  <2>3. QED BY <2>2 DEF value
<1>12. AddPair(st, n, Ok(Table(ps))) = ReadState("dependencies", package, Append(deps, d))
  BY TableAdded DEF st, ps
<1>13. QED BY <1>10, <1>11, <1>12 DEF st, l, x

\* It is not read when it is cut off in a value.
LEMMA OpenTableLine ==
  ASSUME NEW st \in ParseStates, st.ok, NEW n, PlainName(n), NEW gs \in Seq(PlainFields),
         NEW k, PlainKey(k), NEW u \in CharSeq, Clean(Named(n, OpenTable(gs, k, u)))
  PROVE  ~ReadLine[st][Named(n, OpenTable(gs, k, u))].ok
<1> DEFINE a == Named(n, OpenTable(gs, k, u))
<1>1. PICK h \in CharSeq :
        /\ Solid(h) /\ h[1] = "{" /\ h[Len(h)] = "\""
        /\ \A x \in CharSeq : OpenTable(gs, k, x) = h \o Esc(x) /\ OpenTable(gs, k, x) \in CharSeq
  BY OpenTableIs
<1> DEFINE nh == Named(n, h)
<1>2. n \in CharSeq /\ n # <<>> /\ ~IsSpace(n[1]) /\ h # <<>> /\ ~IsSpace(h[Len(h)])
  BY <1>1 DEF PlainName, Solid
<1>3. nh \in CharSeq /\ Solid(nh)
  BY <1>2, NamedType, NamedEnds DEF Solid
<1>4. ASSUME NEW x \in CharSeq PROVE Named(n, OpenTable(gs, k, x)) = nh \o Esc(x)
  <2>1. Esc(x) \in CharSeq
    BY EscLaws
  <2>2. Named(n, h \o Esc(x)) = nh \o Esc(x)
    BY <1>2, <2>1, NamedMore
  <2>3. QED BY <1>1, <2>2
<1> HIDE DEF nh
<1>5. PICK x \in CharSeq : Trim(a) = Named(n, OpenTable(gs, k, x))
  <2> DEFINE e == <<>>
  <2>1. e \in CharSeq /\ Blank(e)
    BY EmptyText
  <2>2. a = nh \o Esc(u) /\ e \o a = a
    <3>1. a = nh \o Esc(u)
      BY <1>4
    <3>2. nh \o Esc(u) \in CharSeq
      BY <1>3, EscLaws, CharFacts
    <3> HIDE DEF a
    <3>3. QED BY <3>1, <3>2, CharFacts
  <2> HIDE DEF e, a
  <2>3. \E x \in CharSeq, y \in CharSeq :
          u = x \o y /\ Solid(nh \o Esc(x)) /\ Trim(e \o (nh \o Esc(u))) = nh \o Esc(x)
    BY <1>3, <2>1, TrimOpen
  <2>4. PICK x \in CharSeq : Trim(e \o (nh \o Esc(u))) = nh \o Esc(x)
    BY Zenon, <2>3
  <2>5. QED BY <1>4, <2>2, <2>4
<1> DEFINE t == OpenTable(gs, k, x)
           l == Named(n, t)
           i == Index(l, "=")
<1>6. /\ a \in CharSeq /\ t \in CharSeq /\ t # <<>> /\ ParseValue(Space \o t) = Fail
  <2>1. OpenTable(gs, k, u) \in CharSeq /\ t \in CharSeq /\ t = h \o Esc(x)
    BY <1>1
  <2>2. a \in CharSeq
    <3> DEFINE z == OpenTable(gs, k, u)
    <3>1. z \in CharSeq
      BY <2>1
    <3> HIDE DEF z
    <3>2. Named(n, z) \in CharSeq
      BY <1>2, <3>1, NamedType
    <3>3. QED BY <3>2 DEF z
  <2>3. t # <<>>
    <3> DEFINE e == Esc(x)
    <3>1. e \in CharSeq /\ t = h \o e
      BY <2>1, EscLaws
    <3> HIDE DEF e, t
    <3>2. h \o e # <<>>
      BY <1>2, <3>1, ConcatEnds
    <3>3. QED BY <3>1, <3>2
  <2>4. ParseValue(Space \o t) = Fail
    BY NameSigns, OpenTableValue
  <2>5. QED BY <2>1, <2>2, <2>3, <2>4
<1> HIDE DEF t
<1>7. /\ l \in CharSeq /\ l # <<>> /\ Len(n) \in Nat /\ Len(n) + 2 < Len(l) /\ l[Len(n) + 2] = "="
  BY <1>2, <1>6, NamedType, NamedEnds
<1>8. i # 0 /\ Behind(l, i) = Space \o t
  BY <1>6, NamedEquals
<1>9. Trim(a) = l
  BY <1>5 DEF t
<1> HIDE DEF a, l
<1>10. ReadLine[st][a] = IF Enclosed(l, "[", "]") THEN ReadSection(st, l) ELSE ReadPair(st, l)
  BY <1>6, <1>7, <1>9, CleanLine DEF a
<1>11. ~ReadSection(st, l).ok
  <2> DEFINE j == Len(n) + 2
  <2>1. j \in Nat /\ 1 < j /\ j < Len(l) /\ l[j] = "="
    BY <1>7
  <2> HIDE DEF j
  <2>2. QED BY <1>7, <2>1, SectionFails
<1>12. ~ReadPair(st, l).ok
  <2> DEFINE key == Trim(Before(l, i))
  <2> HIDE DEF i
  <2>1. ReadPair(st, l) = AddPair(st, key, Fail)
    BY ZenonT(60), <1>6, <1>8, PairRead DEF i
  <2> HIDE DEF key
  <2>2. QED BY <2>1, PairFails
<1>13. QED BY <1>10, <1>11, <1>12 DEF a

\* The keys that the code reads and writes.
KeyText == {"name", "version", "entry", "path", "git", "branch", "tag", "rev"}

\* The keys of the code stand for themselves.
LEMMA KeysArePlain ==
  ASSUME NEW key \in KeyText
  PROVE  PlainKey(key)
BY CharactersAssumption DEF KeyText, PlainKey, IsSpace

\* A key and its value are a field.
LEMMA KeyValueType ==
  ASSUME NEW key, PlainKey(key), NEW v \in CharSeq
  PROVE  /\ KeyValue(key, v) \in PlainFields /\ PairOf(KeyValue(key, v)) = [key |-> <<key>>, value |-> v]
         /\ KeyValue(key, v).value = v /\ KeyValue(key, v).key = key
<1>1. key \in Characters
  BY DEF PlainKey
<1>2. QED BY <1>1 DEF KeyValue, PlainFields, PairOf

\* The field of an option that is there.
Given(key, o) == [j \in DOMAIN o |-> KeyValue(key, o[j])]

\* Options whose value a line can keep.
CleanOption(o) == \A j \in DOMAIN o : Clean(o[j])

\* An option is empty or one value.
LEMMA OptionKinds ==
  ASSUME NEW o \in Options
  PROVE  o = <<>> \/ \E v \in CharSeq : o = <<v>>
<1>1. o \in Seq(CharSeq) /\ Len(o) <= 1
  BY DEF Options
<1>2. CASE Len(o) = 0
  BY <1>1, <1>2
<1>3. CASE Len(o) = 1
  <2>1. o[1] \in CharSeq
    BY <1>1, <1>3
  <2>2. o = <<o[1]>>
    BY <1>1, <1>3
  <2>3. QED BY <2>1, <2>2
<1>4. Len(o) = 0 \/ Len(o) = 1
  <2> DEFINE n == Len(o)
  <2>1. n \in Nat /\ n <= 1
    BY <1>1
  <2> HIDE DEF n
  <2>2. n = 0 \/ n = 1
    BY <2>1
  <2>3. QED BY <2>2 DEF n
<1>5. QED BY <1>2, <1>3, <1>4

\* The fields of an option.
LEMMA GivenIs ==
  ASSUME NEW key, PlainKey(key)
  PROVE  /\ Given(key, <<>>) = <<>> /\ CleanOption(<<>>)
         /\ \A v \in CharSeq : Given(key, <<v>>) = <<KeyValue(key, v)>> /\ (CleanOption(<<v>>) <=> Clean(v))
<1>1. Given(key, <<>>) = <<>> /\ CleanOption(<<>>)
  BY DEF Given, CleanOption
<1>2. ASSUME NEW v \in CharSeq
      PROVE  Given(key, <<v>>) = <<KeyValue(key, v)>> /\ (CleanOption(<<v>>) <=> Clean(v))
  <2>1. DOMAIN <<v>> = {1} /\ <<v>>[1] = v
    OBVIOUS
  <2> DEFINE f == KeyValue(key, v)
             g == Given(key, <<v>>)
  <2>2. g = [j \in {1} |-> f]
    BY <2>1 DEF Given
  <2>3. f \in PlainFields
    BY KeyValueType
  <2> HIDE DEF f, g
  <2>4. g = <<f>>
    <3>1. <<f>> \in Seq(PlainFields) /\ Len(<<f>>) = 1 /\ <<f>>[1] = f
      BY <2>3
    <3>2. g \in Seq(PlainFields) /\ Len(g) = 1 /\ g[1] = f
      BY <2>2, <2>3
    <3>3. \A i \in 1..Len(g) : g[i] = <<f>>[i]
      BY <3>1, <3>2
    <3>4. QED BY <3>1, <3>2, <3>3, SeqEqual
  <2>5. CleanOption(<<v>>) <=> Clean(v)
    BY <2>1 DEF CleanOption
  <2>6. QED BY <2>4, <2>5 DEF f, g
<1>3. QED BY <1>1, <1>2

\* What the table of the fields gives of a key.
Got(fs, key) == TableGet(Pairs(fs), key)

\* The value of a key when a field is added.
LEMMA GotAppend ==
  ASSUME NEW fs \in Seq(PlainFields), NEW key, PlainKey(key), NEW v \in CharSeq, NEW x
  PROVE  Got(Append(fs, KeyValue(key, v)), x)
           = IF Got(fs, x) # <<>> THEN Got(fs, x) ELSE IF x = key THEN <<v>> ELSE <<>>
<1> DEFINE f == KeyValue(key, v)
           p == PairOf(f)
           ps == Pairs(fs)
<1>1. f \in PlainFields /\ p.key = <<key>> /\ p.value = v
  BY KeyValueType
<1>2. p \in FieldPairs
  BY <1>1, FieldType
<1>3. ps \in Seq(FieldPairs) /\ Pairs(Append(fs, f)) = Append(ps, p)
  BY <1>1, PairsLaws
<1> HIDE DEF f, p, ps
<1>4. TableGet(Append(ps, p), x)
        = IF TableGet(ps, x) # <<>> THEN TableGet(ps, x) ELSE IF p.key = <<x>> THEN <<p.value>> ELSE <<>>
  BY <1>2, <1>3, TableGetAppend
<1>5. p.key = <<x>> <=> x = key
  BY <1>1
<1>6. QED BY <1>1, <1>3, <1>4, <1>5 DEF Got, f, ps

\* Without fields there is no value.
LEMMA GotNone ==
  ASSUME NEW x
  PROVE  Got(<<>>, x) = <<>>
<1>1. Pairs(<<>>) = <<>>
  BY PairsLaws
<1>2. <<>> \in Seq(FieldPairs) /\ \A i \in DOMAIN <<>> : <<>>[i].key # <<x>>
  OBVIOUS
<1>3. TableGet(<<>>, x) = <<>>
  BY <1>2, TableGetIs
<1>4. QED BY <1>1, <1>3 DEF Got

\* Sequences put together with none and with one.
LEMMA SeqFacts ==
  ASSUME NEW S, NEW s \in Seq(S)
  PROVE  /\ s \o <<>> = s
         /\ \A e \in S : s \o <<e>> = Append(s, e)
OBVIOUS

\* The values of one field.
LEMMA OneGot ==
  ASSUME NEW key, PlainKey(key), NEW v \in CharSeq
  PROVE  /\ <<KeyValue(key, v)>> \in Seq(PlainFields) /\ <<KeyValue(key, v)>> # <<>>
         /\ CleanFields(<<KeyValue(key, v)>>) <=> Clean(v)
         /\ \A x : Got(<<KeyValue(key, v)>>, x) = IF x = key THEN <<v>> ELSE <<>>
<1> DEFINE f == KeyValue(key, v)
           e == <<>>
<1>1. f \in PlainFields /\ f.value = v
  BY KeyValueType
<1>2. e \in Seq(PlainFields)
  OBVIOUS
<1>3. Append(e, f) = <<f>> /\ <<f>> \in Seq(PlainFields) /\ <<f>> # <<>>
  <2> HIDE DEF f
  <2>1. QED BY <1>1
<1>4. CleanFields(Append(e, f)) <=> CleanFields(e) /\ Clean(f.value)
  <2> HIDE DEF f, e
  <2>1. QED BY <1>1, <1>2, CleanFieldsAppend
<1>5. CleanFields(e)
  BY DEF CleanFields
<1>6. ASSUME NEW x PROVE Got(Append(e, f), x) = IF x = key THEN <<v>> ELSE <<>>
  <2>1. Got(e, x) = <<>>
    BY GotNone
  <2>2. Got(Append(e, KeyValue(key, v)), x)
          = IF Got(e, x) # <<>> THEN Got(e, x) ELSE IF x = key THEN <<v>> ELSE <<>>
    <3> HIDE DEF e
    <3>1. QED BY <1>2, GotAppend
  <2>3. QED BY <2>1, <2>2
<1> HIDE DEF f, e
<1>7. QED BY <1>1, <1>3, <1>4, <1>5, <1>6 DEF f

\* The fields with one for an option.
LEMMA GivenLaws ==
  ASSUME NEW fs \in Seq(PlainFields), fs # <<>>, NEW key, PlainKey(key), NEW o \in Options
  PROVE  /\ fs \o Given(key, o) \in Seq(PlainFields) /\ fs \o Given(key, o) # <<>>
         /\ CleanFields(fs \o Given(key, o)) <=> CleanFields(fs) /\ CleanOption(o)
         /\ \A x : Got(fs \o Given(key, o), x)
                     = IF Got(fs, x) # <<>> THEN Got(fs, x) ELSE IF x = key THEN o ELSE <<>>
<1>1. CASE o = <<>>
  <2>1. fs \o Given(key, o) = fs /\ CleanOption(o)
    BY <1>1, GivenIs, SeqFacts
  <2> DEFINE g == fs \o Given(key, o)
  <2>2. g = fs
    BY <2>1
  <2> HIDE DEF g
  <2>3. \A x : Got(g, x) = IF Got(fs, x) # <<>> THEN Got(fs, x) ELSE IF x = key THEN o ELSE <<>>
    BY <1>1, <2>2
  <2>4. QED BY <2>1, <2>2, <2>3 DEF g
<1>2. ASSUME NEW v \in CharSeq, o = <<v>>
      PROVE  /\ fs \o Given(key, o) \in Seq(PlainFields) /\ fs \o Given(key, o) # <<>>
             /\ CleanFields(fs \o Given(key, o)) <=> CleanFields(fs) /\ CleanOption(o)
             /\ \A x : Got(fs \o Given(key, o), x)
                         = IF Got(fs, x) # <<>> THEN Got(fs, x) ELSE IF x = key THEN o ELSE <<>>
  <2> DEFINE f == KeyValue(key, v)
             g == fs \o Given(key, o)
  <2>1. f \in PlainFields /\ f.value = v
    BY KeyValueType
  <2>2. Given(key, o) = <<f>> /\ (CleanOption(o) <=> Clean(v))
    BY <1>2, GivenIs
  <2>3. g = Append(fs, f)
    <3> HIDE DEF f
    <3>1. fs \o <<f>> = Append(fs, f)
      BY <2>1, SeqFacts
    <3>2. QED BY <2>2, <3>1
  <2>4. \A x : Got(Append(fs, KeyValue(key, v)), x)
                 = IF Got(fs, x) # <<>> THEN Got(fs, x) ELSE IF x = key THEN <<v>> ELSE <<>>
    BY GotAppend
  <2>5. \A x : Got(g, x) = IF Got(fs, x) # <<>> THEN Got(fs, x) ELSE IF x = key THEN o ELSE <<>>
    <3> HIDE DEF g
    <3>1. QED BY <1>2, <2>3, <2>4 DEF f
  <2> HIDE DEF f, g
  <2>6. g \in Seq(PlainFields) /\ g # <<>>
    BY <2>1, <2>3, AppendType
  <2>7. CleanFields(g) <=> CleanFields(fs) /\ Clean(v)
    BY <2>1, <2>3, CleanFieldsAppend
  <2>8. QED BY <2>2, <2>5, <2>6, <2>7 DEF g
<1>3. QED BY <1>1, <1>2, OptionKinds

\* Sources whose values a line can keep.
CleanSource(s) ==
  IF s.k = "Path" THEN Clean(s.path)
  ELSE Clean(s.url) /\ CleanOption(s.branch) /\ CleanOption(s.tag) /\ CleanOption(s.rev)

\* The fields of a source give the source.
LEMMA SourceFields ==
  ASSUME NEW source \in DepSources, NEW name
  PROVE  /\ FieldsOf(source) \in Seq(PlainFields) /\ FieldsOf(source) # <<>>
         /\ CleanFields(FieldsOf(source)) <=> CleanSource(source)
         /\ DepFromTable(name, Pairs(FieldsOf(source))) = Ok(Dependency(name, source))
<1>0. /\ PlainKey("path") /\ PlainKey("git") /\ PlainKey("branch") /\ PlainKey("tag") /\ PlainKey("rev")
  BY KeysArePlain DEF KeyText
<1>1. CASE source \in [k : {"Path"}, path : CharSeq]
  <2> DEFINE v == source.path
             fs == <<KeyValue("path", v)>>
  <2>1. v \in CharSeq /\ source.k = "Path" /\ source = PathSource(v)
    BY <1>1 DEF PathSource
  <2>2. FieldsOf(source) = fs
    BY <2>1 DEF FieldsOf
  <2> HIDE DEF v
  <2>3. /\ fs \in Seq(PlainFields) /\ fs # <<>> /\ (CleanFields(fs) <=> Clean(v))
        /\ \A x : Got(fs, x) = IF x = "path" THEN <<v>> ELSE <<>>
    BY <1>0, <2>1, OneGot
  <2> HIDE DEF fs
  <2>4. Got(fs, "path") = <<v>> /\ Got(fs, "git") = <<>>
    BY <2>3
  <2>5. DepFromTable(name, Pairs(fs)) = Ok(Dependency(name, PathSource(v)))
    <3>1. TableGet(Pairs(fs), "path") # <<>> /\ TableGet(Pairs(fs), "git") = <<>>
          /\ TableGet(Pairs(fs), "path")[1] = v
      BY <2>4 DEF Got
    <3>2. QED BY <3>1 DEF DepFromTable
  <2>6. CleanSource(source) <=> Clean(v)
    BY <2>1 DEF CleanSource, v
  <2>7. QED BY <2>1, <2>2, <2>3, <2>5, <2>6
<1>2. CASE source \in [k : {"Git"}, url : CharSeq, branch : Options, tag : Options, rev : Options]
  <2> DEFINE v == source.url
             o1 == source.branch
             o2 == source.tag
             o3 == source.rev
             f0 == <<KeyValue("git", v)>>
             f1 == f0 \o Given("branch", o1)
             f2 == f1 \o Given("tag", o2)
             f3 == f2 \o Given("rev", o3)
  <2>1. v \in CharSeq /\ o1 \in Options /\ o2 \in Options /\ o3 \in Options /\ source.k = "Git"
    BY <1>2
  <2>1a. source = GitSource(v, o1, o2, o3)
    BY <1>2 DEF GitSource
  <2>2. FieldsOf(source) = f3
    BY <2>1 DEF FieldsOf, Given
  <2>3. CleanSource(source) <=> Clean(v) /\ CleanOption(o1) /\ CleanOption(o2) /\ CleanOption(o3)
    BY <2>1 DEF CleanSource
  <2> HIDE DEF v, o1, o2, o3
  <2>4. /\ f0 \in Seq(PlainFields) /\ f0 # <<>> /\ (CleanFields(f0) <=> Clean(v))
        /\ \A x : Got(f0, x) = IF x = "git" THEN <<v>> ELSE <<>>
    BY <1>0, <2>1, OneGot
  <2> HIDE DEF f0
  <2>5. /\ f1 \in Seq(PlainFields) /\ f1 # <<>> /\ (CleanFields(f1) <=> CleanFields(f0) /\ CleanOption(o1))
        /\ \A x : Got(f1, x) = IF Got(f0, x) # <<>> THEN Got(f0, x) ELSE IF x = "branch" THEN o1 ELSE <<>>
    BY <1>0, <2>1, <2>4, GivenLaws
  <2> HIDE DEF f1
  <2>6. /\ f2 \in Seq(PlainFields) /\ f2 # <<>> /\ (CleanFields(f2) <=> CleanFields(f1) /\ CleanOption(o2))
        /\ \A x : Got(f2, x) = IF Got(f1, x) # <<>> THEN Got(f1, x) ELSE IF x = "tag" THEN o2 ELSE <<>>
    BY <1>0, <2>1, <2>5, GivenLaws
  <2> HIDE DEF f2
  <2>7. /\ f3 \in Seq(PlainFields) /\ f3 # <<>> /\ (CleanFields(f3) <=> CleanFields(f2) /\ CleanOption(o3))
        /\ \A x : Got(f3, x) = IF Got(f2, x) # <<>> THEN Got(f2, x) ELSE IF x = "rev" THEN o3 ELSE <<>>
    BY <1>0, <2>1, <2>6, GivenLaws
  <2> HIDE DEF f3
  <2>8. /\ Got(f3, "path") = <<>> /\ Got(f3, "git") = <<v>> /\ Got(f3, "branch") = o1
        /\ Got(f3, "tag") = o2 /\ Got(f3, "rev") = o3
    <3>1. Got(f0, "path") = <<>> /\ Got(f0, "git") = <<v>> /\ Got(f0, "branch") = <<>>
          /\ Got(f0, "tag") = <<>> /\ Got(f0, "rev") = <<>>
      BY <2>4
    <3>2. Got(f1, "path") = <<>> /\ Got(f1, "git") = <<v>> /\ Got(f1, "branch") = o1
          /\ Got(f1, "tag") = <<>> /\ Got(f1, "rev") = <<>>
      BY <2>5, <3>1
    <3>3. Got(f2, "path") = <<>> /\ Got(f2, "git") = <<v>> /\ Got(f2, "branch") = o1
          /\ Got(f2, "tag") = o2 /\ Got(f2, "rev") = <<>>
      BY <2>6, <3>2
    <3>4. QED BY <2>7, <3>3
  <2>9. DepFromTable(name, Pairs(f3)) = Ok(Dependency(name, GitSource(v, o1, o2, o3)))
    <3>1. TableGet(Pairs(f3), "path") = <<>> /\ TableGet(Pairs(f3), "git") # <<>>
          /\ TableGet(Pairs(f3), "git")[1] = v /\ TableGet(Pairs(f3), "branch") = o1
          /\ TableGet(Pairs(f3), "tag") = o2 /\ TableGet(Pairs(f3), "rev") = o3
      BY <2>8 DEF Got
    <3>2. QED BY <3>1 DEF DepFromTable
  <2>10. QED BY <2>1a, <2>2, <2>3, <2>4, <2>5, <2>6, <2>7, <2>9
<1>3. QED BY <1>1, <1>2 DEF DepSources

\* Fields are none, or some and a last one.
LEMMA LastField ==
  ASSUME NEW fs \in Seq(PlainFields), fs # <<>>
  PROVE  \E gs \in Seq(PlainFields), f \in PlainFields : fs = Append(gs, f)
BY SequenceEmptyOrAppend

\* Five characters are five texts of one.
LEMMA FiveChars ==
  \A i \in Characters, j \in Characters, k \in Characters, l \in Characters, m \in Characters :
    <<i, j, k, l, m>> = <<i>> \o (<<j>> \o (<<k>> \o (<<l>> \o <<m>>)))
<1>0. SUFFICES ASSUME NEW i \in Characters, NEW j \in Characters, NEW k \in Characters,
                      NEW l \in Characters, NEW m \in Characters
               PROVE  <<i, j, k, l, m>> = <<i>> \o (<<j>> \o (<<k>> \o (<<l>> \o <<m>>)))
  OBVIOUS
<1> DEFINE p == <<i, j, k, l>>
           x1 == <<i>>
           x2 == <<j>>
           x3 == <<k>>
           x4 == <<l>>
           x5 == <<m>>
           ij == <<i, j>>
           y == x3 \o x4
<1>1. x1 \in CharSeq /\ x2 \in CharSeq /\ x3 \in CharSeq /\ x4 \in CharSeq /\ x5 \in CharSeq
  BY OneChar
<1>2. p = ij \o y /\ ij = x1 \o x2
  <2>1. p = ij \o y
    BY FourChars
  <2>2. ij = x1 \o x2
    BY TwoChars
  <2>3. QED BY <2>1, <2>2
<1>3. p \in CharSeq
  BY CharFacts
<1>4. <<i, j, k, l, m>> = p \o x5
  <2>1. p \in Seq(Characters) /\ <<i, j, k, l, m>> = Append(p, m)
    OBVIOUS
  <2> HIDE DEF p
  <2>2. p \o <<m>> = Append(p, m)
    BY <1>3, CharFacts
  <2>3. QED BY <2>1, <2>2
<1> HIDE DEF p, x1, x2, x3, x4, x5, ij
<1>5. y \in CharSeq
  BY <1>1, CharFacts
<1>6. (x3 \o x4) \o x5 = x3 \o (x4 \o x5)
  BY ZenonT(60), <1>1, Assoc
<1> DEFINE z == x1 \o x2
           w == y \o x5
<1> HIDE DEF y
<1>7. z \in CharSeq /\ w \in CharSeq
  BY <1>1, <1>5, CharFacts
<1>7a. (z \o y) \o x5 = z \o (y \o x5)
  <2> HIDE DEF z, w
  <2>1. z \in CharSeq /\ y \in CharSeq /\ x5 \in CharSeq
    BY <1>1, <1>5, <1>7
  <2>2. \A c \in CharSeq : (z \o y) \o c = z \o (y \o c)
    BY <2>1, Assoc
  <2>3. QED BY <2>1, <2>2
<1> HIDE DEF w
<1>7b. (x1 \o x2) \o w = x1 \o (x2 \o w)
  BY SMTT(40), <1>1, <1>7, Assoc
<1>8. <<i, j, k, l, m>> = x1 \o (x2 \o (x3 \o (x4 \o x5)))
  BY <1>2, <1>4, <1>6, <1>7a, <1>7b DEF y, z, w
<1>9. QED BY <1>8 DEF x1, x2, x3, x4, x5

\* Five texts and one behind them.
LEMMA FiveTexts ==
  ASSUME NEW x1 \in CharSeq, NEW x2 \in CharSeq, NEW x3 \in CharSeq, NEW x4 \in CharSeq,
         NEW x5 \in CharSeq, NEW x6 \in CharSeq
  PROVE  /\ (x1 \o (x2 \o (x3 \o (x4 \o x5)))) \o x6 = x1 \o (x2 \o (x3 \o (x4 \o (x5 \o x6))))
         /\ x1 \o (x2 \o (x3 \o (x4 \o x5))) \in CharSeq
<1> DEFINE y4 == x4 \o x5
           y3 == x3 \o y4
           y2 == x2 \o y3
           y1 == x1 \o y2
<1>1. y4 \in CharSeq
  BY CharFacts
<1>2. (x4 \o x5) \o x6 = x4 \o (x5 \o x6)
  BY ZenonT(60), Assoc
<1> HIDE DEF y4
<1>3. y3 \in CharSeq
  BY <1>1, CharFacts
<1>4. (x3 \o y4) \o x6 = x3 \o (y4 \o x6)
  BY SMTT(40), <1>1, Assoc
<1> HIDE DEF y3
<1>5. y2 \in CharSeq
  BY <1>3, CharFacts
<1>6. (x2 \o y3) \o x6 = x2 \o (y3 \o x6)
  BY SMTT(40), <1>3, Assoc
<1> HIDE DEF y2
<1>7. y1 \in CharSeq
  BY <1>5, CharFacts
<1> HIDE DEF y1
<1>8. (x1 \o y2) \o x6 = x1 \o (y2 \o x6)
  <2>1. \A c \in CharSeq : (x1 \o y2) \o c = x1 \o (y2 \o c)
    BY <1>5, Assoc
  <2>2. QED BY <2>1
<1>9. QED BY <1>2, <1>4, <1>6, <1>7, <1>8 DEF y1, y2, y3, y4

\* The line of a dependency is its name and the table of its fields.
LEMMA DependencyLineIs ==
  ASSUME NEW d \in Dependencies, NEW gs \in Seq(PlainFields), NEW f \in PlainFields,
         FieldsOf(d.source) = Append(gs, f)
  PROVE  DependencyLine(d) = Named(d.name, TableText(gs, f))
<1> DEFINE o == " "
           g == "="
           c == "{"
           e == "}"
           n == d.name
           j == JoinedFields(Append(gs, f))
           so == <<o>>
           sg == <<g>>
           sc == <<c>>
           se == <<e>>
           p == BeforeField(gs)
           t == Field(f)
           head == <<o, g, o, c, o>>
           tail == so \o se
<1>1. o \in Characters /\ g \in Characters /\ c \in Characters /\ e \in Characters
  BY CharactersAssumption
<1>2. DependencyLine(d) = ((n \o head) \o j) \o <<o, e>>
  BY DEF DependencyLine, JoinedFields
<1>3. Named(n, TableText(gs, f)) = n \o (so \o (sg \o (so \o (sc \o ((p \o (t \o so)) \o se)))))
  BY DEF Named, Space, EqualSign, TableText
<1>4. so \o j = p \o t /\ j \in CharSeq /\ p \in CharSeq /\ t \in CharSeq
  <2>1. <<" ">> \o JoinedFields(Append(gs, f)) = BeforeField(gs) \o Field(f)
    BY BeforeFieldLaws
  <2>2. Append(gs, f) \in Seq(PlainFields)
    BY AppendType
  <2>3. j \in CharSeq
    <3> DEFINE fs == Append(gs, f)
    <3>1. fs \in Seq(PlainFields)
      BY <2>2
    <3> HIDE DEF fs
    <3>2. JoinedFields(fs) \in CharSeq
      BY <3>1, JoinLaws
    <3>3. QED BY <3>2 DEF fs
  <2>4. QED BY <2>1, <2>3, BeforeFieldLaws, FieldType
<1> HIDE DEF o, g, c, e
<1>5. /\ so \in CharSeq /\ sg \in CharSeq /\ sc \in CharSeq /\ se \in CharSeq
      /\ head = so \o (sg \o (so \o (sc \o so))) /\ <<o, e>> = tail
  <2>1. so \in CharSeq /\ sg \in CharSeq /\ sc \in CharSeq /\ se \in CharSeq
    BY <1>1, OneChar
  <2>2. <<o, g, o, c, o>> = <<o>> \o (<<g>> \o (<<o>> \o (<<c>> \o <<o>>)))
    <3>1. \A a1, a2, a3, a4, a5 \in Characters :
             <<a1, a2, a3, a4, a5>> = <<a1>> \o (<<a2>> \o (<<a3>> \o (<<a4>> \o <<a5>>)))
      BY FiveChars
    <3>2. o \in Characters
      BY <1>1
    <3>3. g \in Characters
      BY <1>1
    <3>4. c \in Characters
      BY <1>1
    <3>5. \A a2, a3, a4, a5 \in Characters :
             <<o, a2, a3, a4, a5>> = <<o>> \o (<<a2>> \o (<<a3>> \o (<<a4>> \o <<a5>>)))
      BY <3>1, <3>2
    <3>6. \A a3, a4, a5 \in Characters :
             <<o, g, a3, a4, a5>> = <<o>> \o (<<g>> \o (<<a3>> \o (<<a4>> \o <<a5>>)))
      BY <3>3, <3>5
    <3>7. \A a4, a5 \in Characters :
             <<o, g, o, a4, a5>> = <<o>> \o (<<g>> \o (<<o>> \o (<<a4>> \o <<a5>>)))
      BY <3>2, <3>6
    <3>8. \A a5 \in Characters :
             <<o, g, o, c, a5>> = <<o>> \o (<<g>> \o (<<o>> \o (<<c>> \o <<a5>>)))
      BY <3>4, <3>7
    <3>9. QED BY <3>2, <3>8
  <2>3. <<o, e>> = <<o>> \o <<e>>
    BY <1>1, TwoChars
  <2>4. QED BY <2>1, <2>2, <2>3
<1>6. n \in CharSeq
  BY DEF Dependencies
<1> HIDE DEF n, j, so, sg, sc, se, p, t, head
<1>7. tail \in CharSeq
  BY <1>5, CharFacts
<1> HIDE DEF tail
<1> DEFINE jt == j \o tail
<1>8. jt \in CharSeq
  BY <1>4, <1>7, CharFacts
<1>9. head \in CharSeq /\ head \o jt = so \o (sg \o (so \o (sc \o (so \o jt))))
  <2> HIDE DEF jt
  <2>1. /\ (so \o (sg \o (so \o (sc \o so)))) \o jt = so \o (sg \o (so \o (sc \o (so \o jt))))
        /\ so \o (sg \o (so \o (sc \o so))) \in CharSeq
    BY <1>5, <1>8, FiveTexts
  <2>2. QED BY <1>5, <2>1
<1>10. ((n \o head) \o j) \o tail = n \o (head \o jt)
  <2>1. n \in CharSeq /\ head \in CharSeq /\ j \in CharSeq /\ tail \in CharSeq
    BY <1>4, <1>6, <1>7, <1>9
  <2>2. ((n \o head) \o j) \o tail = n \o (head \o (j \o tail))
    <3> DEFINE y == n \o head
    <3>1. y \in CharSeq
      BY <2>1, CharFacts
    <3>2. (n \o head) \o jt = n \o (head \o jt)
      <4> HIDE DEF jt
      <4>1. QED BY SMTT(40), <1>8, <2>1, Assoc
    <3> HIDE DEF y
    <3>3. (y \o j) \o tail = y \o (j \o tail)
      BY <2>1, <3>1, Assoc
    <3>4. QED BY <3>2, <3>3 DEF y, jt
  <2>3. QED BY <2>2 DEF jt
<1>11. so \o jt = (p \o t) \o tail
  <2>1. so \in CharSeq /\ j \in CharSeq /\ tail \in CharSeq
    BY <1>4, <1>5, <1>7
  <2>2. (so \o j) \o tail = so \o (j \o tail)
    BY <2>1, Assoc
  <2>3. QED BY <1>4, <2>2 DEF jt
<1>12. (p \o (t \o so)) \o se = (p \o t) \o tail
  <2> DEFINE ts == t \o so
  <2>1. p \in CharSeq /\ t \in CharSeq /\ so \in CharSeq /\ se \in CharSeq
    BY <1>4, <1>5
  <2>2. ts \in CharSeq
    BY <2>1, CharFacts
  <2>3. (t \o so) \o se = t \o (so \o se)
    BY <2>1, Assoc
  <2> HIDE DEF ts
  <2>4. (p \o ts) \o se = p \o (ts \o se)
    BY ZenonT(60), <2>1, <2>2, Assoc
  <2>5. (p \o t) \o tail = p \o (t \o tail)
    BY ZenonT(60), <2>1, <1>7, Assoc
  <2>6. QED BY <2>3, <2>4, <2>5 DEF ts, tail
<1>13. QED BY <1>2, <1>3, <1>5, <1>9, <1>10, <1>11, <1>12 DEF n

\* What is read of a text of whole lines: the state after them, or a line that fails when
\* one of them holds a value that its line does not keep.
Reads(t, st, clean) ==
  t \in CharSeq /\ IF clean THEN OpenLine(t) = <<>> /\ ReadBefore(t) = st ELSE Dead(t)

\* One more line.
LEMMA LineStep ==
  ASSUME NEW t, NEW st, NEW clean \in BOOLEAN, Reads(t, st, clean), NEW L \in CharSeq,
         NEW fine \in BOOLEAN, NEW new,
         fine => Clean(L) /\ ReadLine[st][L] = new,
         ~fine => \E a : CutAt(L, a) /\ ~ReadLine[st][a].ok
  PROVE  Reads(t \o (L \o Break), new, clean /\ fine)
<1> DEFINE x == L \o Break
<1>1. t \in CharSeq
  BY DEF Reads
<1>2. x \in CharSeq /\ t \o x \in CharSeq
  <2>1. Break \in CharSeq
    BY CharactersAssumption, OneChar DEF Break
  <2>2. x \in CharSeq
    BY <2>1, CharFacts
  <2> HIDE DEF x
  <2>3. QED BY <1>1, <2>2, CharFacts
<1>3. CASE clean /\ fine
  <2>1. OpenLine(t) = <<>> /\ ReadBefore(t) = st
    BY <1>3 DEF Reads
  <2>2. Clean(L) /\ ReadLine[st][L] = new
    BY <1>3
  <2>3. ReadBefore(t \o (L \o Break)) = ReadLine[ReadBefore(t)][L] /\ OpenLine(t \o (L \o Break)) = <<>>
    BY <1>1, <2>1, <2>2, LineRead
  <2>4. QED BY <1>2, <1>3, <2>1, <2>2, <2>3 DEF Reads
<1>4. CASE clean /\ ~fine
  <2>1. OpenLine(t) = <<>> /\ ReadBefore(t) = st
    BY <1>4 DEF Reads
  <2>2. PICK a : CutAt(L, a) /\ ~ReadLine[st][a].ok
    BY <1>4, Zenon
  <2>3. ~ReadLine[ReadBefore(t)][a].ok
    BY <2>1, <2>2
  <2>4. Dead(t \o (L \o Break))
    BY <1>1, <2>1, <2>2, <2>3, LineCut
  <2>5. QED BY <1>2, <1>4, <2>4 DEF Reads
<1>5. CASE ~clean
  <2>1. Dead(t)
    BY <1>5 DEF Reads
  <2>2. \A y \in CharSeq : Dead(t \o y)
    BY <1>1, <2>1, DeadStays
  <2>3. Dead(t \o x)
    BY <1>2, <2>2
  <2>4. QED BY <1>2, <1>5, <2>3 DEF Reads
<1>6. QED BY <1>3, <1>4, <1>5

\* Nothing is read as the first state.
LEMMA NothingRead == Reads(<<>>, ReadState("", <<>>, <<>>), TRUE)
<1>1. FirstState = ReadState("", <<>>, <<>>)
  BY DEF FirstState, ReadState
<1>2. QED BY <1>1, ReadBeforeLaws, CharFacts DEF Reads

\* The line of a section, and the sections a line can be read in.
HeaderLine(s) == <<"[">> \o (<<s>> \o <<"]">>)
AnySection == {""} \cup Sections

\* The line of a section.
LEMMA SectionStep ==
  ASSUME NEW section \in AnySection, NEW package \in Seq(FieldPairs), NEW deps \in Seq(Dependencies),
         NEW t, NEW clean \in BOOLEAN, Reads(t, ReadState(section, package, deps), clean),
         NEW s \in Sections
  PROVE  Reads(t \o (HeaderLine(s) \o Break), ReadState(s, package, deps), clean)
<1> DEFINE st == ReadState(section, package, deps)
           new == ReadState(s, package, deps)
           L == HeaderLine(s)
<1>1. st \in ParseStates /\ st.ok
  BY ReadStateType DEF AnySection
<1>2. SectionOf(ReadState(section, package, deps), s) = ReadState(s, package, deps)
  BY SectionMoved
<1>2a. SectionOf(st, s) = new
  BY <1>2
<1> HIDE DEF st, new
<1>3. /\ ReadLine[st][<<"[">> \o (<<s>> \o <<"]">>)] = [st EXCEPT !.section = s]
      /\ <<"[">> \o (<<s>> \o <<"]">>) \in CharSeq /\ Clean(<<"[">> \o (<<s>> \o <<"]">>))
  BY <1>1, SectionLine
<1>4. ReadLine[st][L] = new /\ L \in CharSeq /\ Clean(L)
  BY <1>2a, <1>3 DEF HeaderLine, SectionOf
<1> HIDE DEF L
<1>5. Reads(t, st, clean)
  BY DEF st
<1>6. Reads(t \o (L \o Break), new, clean /\ TRUE)
  BY <1>4, <1>5, LineStep
<1>7. QED BY <1>6 DEF L, new

\* An empty line.
LEMMA EmptyStep ==
  ASSUME NEW st \in ParseStates, NEW t, NEW clean \in BOOLEAN, Reads(t, st, clean)
  PROVE  Reads(t \o (<<>> \o Break), st, clean)
<1> DEFINE L == <<>>
<1>1. L \in CharSeq /\ Clean(L) /\ ReadLine[st][L] = st
  <2>1. <<>> \in CharSeq
    BY CharFacts
  <2>2. Clean(<<>>)
    BY CleanEmpty
  <2>3. ReadLine[st][<<>>] = st
    BY EmptyLine
  <2>4. QED BY <2>1, <2>2, <2>3, Zenon
<1> HIDE DEF L
<1>2. Reads(t \o (L \o Break), st, clean /\ TRUE)
  BY <1>1, LineStep
<1>3. QED BY <1>2 DEF L

\* An entry of the package, as it is read.
Entry(key, v) == [key |-> <<key>>, value |-> v]

\* An entry of the package.
LEMMA EntryStep ==
  ASSUME NEW package \in Seq(FieldPairs), NEW t, NEW clean \in BOOLEAN,
         Reads(t, ReadState("package", package, <<>>), clean), NEW key, PlainKey(key), NEW v \in CharSeq
  PROVE  Reads(t \o (Field(KeyValue(key, v)) \o Break),
               ReadState("package", Append(package, Entry(key, v)), <<>>), clean /\ Clean(v))
<1> DEFINE f == KeyValue(key, v)
           st == ReadState("package", package, <<>>)
           new == ReadState("package", Append(package, Entry(key, v)), <<>>)
           L == Field(f)
           fine == Clean(v)
<1>1. f \in PlainFields /\ PairOf(f) = Entry(key, v) /\ f.value = v /\ f.key = key
  BY KeyValueType DEF Entry
<1>2. <<>> \in Seq(Dependencies)
  OBVIOUS
<1>3. st \in ParseStates /\ st.ok
  BY <1>2, ReadStateType DEF Sections
<1> HIDE DEF f
<1>4. Clean(v) => Clean(L) /\ ReadLine[st][L] = new
  <2>1. ASSUME Clean(v) PROVE Clean(L) /\ ReadLine[st][L] = new
    <3>1. Clean(f.value)
      BY <1>1, <2>1
    <3>2. ReadLine[ReadState("package", package, <<>>)][Field(f)]
            = ReadState("package", Append(package, PairOf(f)), <<>>)
      BY <1>1, <1>2, <3>1, FieldLine
    <3>3. Clean(Field(f))
      BY <1>1, <3>1, FieldCut
    <3>4. QED BY <1>1, <3>2, <3>3
  <2>2. QED BY <2>1
<1>5. L \in CharSeq
  BY <1>1, FieldType
<1> HIDE DEF st, new, L
<1>6. ~Clean(v) => \E a : CutAt(L, a) /\ ~ReadLine[st][a].ok
  <2>1. ASSUME ~Clean(v) PROVE \E a : CutAt(L, a) /\ ~ReadLine[st][a].ok
    <3>1. ~Clean(f.value)
      BY <1>1, <2>1
    <3>2. \E u \in CharSeq : CutAt(Field(f), Opened(f.key, u))
      BY <1>1, <3>1, FieldCut
    <3>3. PICK u \in CharSeq : CutAt(Field(f), Opened(f.key, u))
      BY <3>2, Zenon
    <3>4. CutAt(L, Opened(key, u))
      BY <1>1, <3>3 DEF L
    <3>5. Clean(Opened(key, u))
      BY <3>4 DEF CutAt
    <3>6. ~ReadLine[st][Opened(key, u)].ok
      BY <1>3, <3>5, OpenFieldLine
    <3>7. QED BY <3>4, <3>6
  <2>2. QED BY <2>1
<1>7. Reads(t, st, clean)
  BY DEF st
<1>8. fine \in BOOLEAN /\ (fine => Clean(L) /\ ReadLine[st][L] = new)
      /\ (~fine => \E a : CutAt(L, a) /\ ~ReadLine[st][a].ok)
  BY <1>4, <1>6 DEF Clean
<1> HIDE DEF fine
<1>9. Reads(t \o (L \o Break), new, clean /\ fine)
  BY <1>5, <1>7, <1>8, LineStep
<1>10. QED BY <1>9 DEF L, new, fine, f

\* Dependencies whose names stand for themselves.
NamedDependencies == {d \in Dependencies : PlainName(d.name)}

\* The line of a dependency.
LEMMA DependencyStep ==
  ASSUME NEW package \in Seq(FieldPairs), NEW deps \in Seq(Dependencies), NEW t, NEW clean \in BOOLEAN,
         Reads(t, ReadState("dependencies", package, deps), clean), NEW d \in NamedDependencies
  PROVE  Reads(t \o (DependencyLine(d) \o Break),
               ReadState("dependencies", package, Append(deps, d)), clean /\ CleanSource(d.source))
<1> DEFINE n == d.name
           source == d.source
           all == FieldsOf(source)
           st == ReadState("dependencies", package, deps)
           new == ReadState("dependencies", package, Append(deps, d))
           L == DependencyLine(d)
           fine == CleanSource(source)
<1>1. d \in Dependencies /\ PlainName(n) /\ n \in CharSeq /\ source \in DepSources
      /\ d = Dependency(n, source)
  <2>1. d \in Dependencies /\ PlainName(d.name)
    BY DEF NamedDependencies
  <2>2. d.name \in CharSeq /\ d.source \in DepSources /\ d = [name |-> d.name, source |-> d.source]
    BY <2>1 DEF Dependencies
  <2>3. QED BY <2>1, <2>2 DEF Dependency
<1>2. fine \in BOOLEAN
  BY DEF CleanSource, Clean, CleanOption
<1>3. st \in ParseStates /\ st.ok
  BY ReadStateType DEF Sections
<1>4. L = DependencyLine(d) /\ all = FieldsOf(d.source) /\ Reads(t, st, clean)
      /\ n = d.name /\ source = d.source
  OBVIOUS
<1> HIDE DEF n, source
<1>5. /\ all \in Seq(PlainFields) /\ all # <<>>
      /\ CleanFields(all) <=> CleanSource(source)
      /\ DepFromTable(n, Pairs(all)) = Ok(Dependency(n, source))
  BY <1>1, SourceFields
<1> HIDE DEF all, fine, st, new, L
<1>6. PICK gs \in Seq(PlainFields), f \in PlainFields : all = Append(gs, f)
  <2>1. \E gs \in Seq(PlainFields), f \in PlainFields : all = Append(gs, f)
    BY <1>5, LastField
  <2>2. QED BY <2>1, Zenon
<1>7. L = Named(n, TableText(gs, f))
  BY <1>1, <1>4, <1>6, DependencyLineIs
<1> DEFINE x == TableText(gs, f)
<1>8. x \in CharSeq
  <2>1. Blank(<<>>) /\ <<>> \in CharSeq
    BY CharFacts DEF Blank
  <2>2. TableText(gs, f) \in CharSeq
    BY <2>1, TableValue
  <2>3. QED BY <2>2
<1>9. CleanFields(Append(gs, f)) <=> fine
  BY <1>5, <1>6 DEF fine
<1>10. fine => Clean(L) /\ ReadLine[st][L] = new
  <2>1. ASSUME fine PROVE Clean(L) /\ ReadLine[st][L] = new
    <3>1. CleanFields(Append(gs, f)) /\ DepFromTable(n, Pairs(Append(gs, f))) = Ok(d)
      BY <1>1, <1>5, <1>6, <1>9, <2>1
    <3>2. Clean(x)
      BY <3>1, TableCut
    <3>3. Clean(Named(n, x))
      <4> HIDE DEF x
      <4>1. QED BY <1>1, <1>8, <3>2, NamedCut
    <3>4. ReadLine[ReadState("dependencies", package, deps)][Named(n, TableText(gs, f))]
            = ReadState("dependencies", package, Append(deps, d))
      BY <1>1, <3>1, TableLine
    <3>5. QED BY <1>7, <3>3, <3>4 DEF st, new
  <2>2. QED BY <2>1
<1>11. ~fine => \E a : CutAt(L, a) /\ ~ReadLine[st][a].ok
  <2>1. ASSUME ~fine PROVE \E a : CutAt(L, a) /\ ~ReadLine[st][a].ok
    <3>1. ~CleanFields(Append(gs, f))
      BY <1>9, <2>1
    <3>2. \E hs \in Seq(PlainFields), k \in Characters, u \in CharSeq :
            PlainKey(k) /\ CutAt(TableText(gs, f), OpenTable(hs, k, u))
      BY <3>1, TableCut
    <3>3. PICK hs \in Seq(PlainFields), k \in Characters, u \in CharSeq :
            PlainKey(k) /\ CutAt(TableText(gs, f), OpenTable(hs, k, u))
      BY <3>2, Zenon
    <3> DEFINE y == OpenTable(hs, k, u)
               a == Named(n, y)
    <3>4. CutAt(x, y)
      BY <3>3
    <3>5. CutAt(Named(n, x), Named(n, y))
      <4> HIDE DEF x, y
      <4>1. QED BY <1>1, <1>8, <3>4, NamedCut
    <3>6. CutAt(L, a)
      BY <1>7, <3>5
    <3>7. Clean(Named(n, OpenTable(hs, k, u)))
      BY <3>6 DEF CutAt
    <3>8. ~ReadLine[st][Named(n, OpenTable(hs, k, u))].ok
      BY <1>1, <1>3, <3>3, <3>7, OpenTableLine
    <3>9. QED BY <3>6, <3>8
  <2>2. QED BY <2>1
<1>12. L \in CharSeq
  <2> HIDE DEF x
  <2>1. Named(n, x) \in CharSeq
    BY <1>1, <1>8, NamedType
  <2>2. QED BY <1>7, <2>1 DEF x
<1>13. Reads(t \o (L \o Break), new, clean /\ fine)
  BY ZenonT(60), <1>2, <1>4, <1>10, <1>11, <1>12, LineStep
<1>14. QED BY <1>13, <1>4 DEF L, new, fine

\* The line of a section with its end.
HeaderText(s) == HeaderLine(s) \o Break

\* The headers as they are written.
LEMMA Headers ==
  /\ <<"[", "package", "]", "\n">> = HeaderText("package")
  /\ <<"\n", "[", "dependencies", "]", "\n">> = Break \o HeaderText("dependencies")
  /\ Break \in CharSeq /\ HeaderText("package") \in CharSeq /\ HeaderText("dependencies") \in CharSeq
<1> DEFINE o == "["
           c == "]"
           n == "\n"
           p == "package"
           d == "dependencies"
<1>1. o \in Characters /\ c \in Characters /\ n \in Characters /\ p \in Characters /\ d \in Characters
  BY CharactersAssumption
<1> HIDE DEF o, c, n, p, d
<1>2. ASSUME NEW s \in Characters
      PROVE  /\ (<<o>> \o (<<s>> \o <<c>>)) \o <<n>> = <<o, s>> \o (<<c>> \o <<n>>)
             /\ (<<o>> \o (<<s>> \o <<c>>)) \o <<n>> = <<o>> \o (<<s>> \o (<<c>> \o <<n>>))
             /\ (<<o>> \o (<<s>> \o <<c>>)) \o <<n>> \in CharSeq
  <2> DEFINE so == <<o>>
             ss == <<s>>
             sc == <<c>>
             sn == <<n>>
             x == ss \o sc
             y == sc \o sn
  <2>1. so \in CharSeq /\ ss \in CharSeq /\ sc \in CharSeq /\ sn \in CharSeq
    BY <1>1, OneChar
  <2>2. <<o, s>> = so \o ss
    BY <1>1, TwoChars
  <2> HIDE DEF so, ss, sc, sn
  <2>3. x \in CharSeq /\ y \in CharSeq
    BY <2>1, CharFacts
  <2>4. (ss \o sc) \o sn = ss \o (sc \o sn)
    BY <2>1, Assoc
  <2>4a. (so \o ss) \o y = so \o (ss \o y)
    <3> HIDE DEF y
    <3>1. QED BY SMTT(40), <2>1, <2>3, Assoc
  <2>5. (so \o x) \o sn = so \o (x \o sn) /\ so \o x \in CharSeq
    <3> HIDE DEF x
    <3>1. (so \o x) \o sn = so \o (x \o sn)
      BY SMTT(40), <2>1, <2>3, Assoc
    <3>2. QED BY <2>1, <2>3, <3>1, CharFacts
  <2>6. (so \o x) \o sn \in CharSeq
    <3> DEFINE z == so \o x
    <3>1. z \in CharSeq
      BY <2>5
    <3> HIDE DEF z
    <3>2. z \o sn \in CharSeq
      BY <2>1, <3>1, CharFacts
    <3>3. QED BY <3>2 DEF z
  <2>7. QED BY <2>2, <2>4, <2>4a, <2>5, <2>6 DEF x, y, so, ss, sc, sn
<1>3. <<o, p, c, n>> = (<<o>> \o (<<p>> \o <<c>>)) \o <<n>>
  <2>1. <<o, p, c, n>> = <<o, p>> \o (<<c>> \o <<n>>)
    BY <1>1, FourChars
  <2>2. QED BY <1>1, <1>2, <2>1
<1>4. <<n, o, d, c, n>> = <<n>> \o ((<<o>> \o (<<d>> \o <<c>>)) \o <<n>>)
  <2>1. \A i, j, k, l, m \in Characters :
           <<i, j, k, l, m>> = <<i>> \o (<<j>> \o (<<k>> \o (<<l>> \o <<m>>)))
    BY FiveChars
  <2>2. \A j, k, l, m \in Characters :
           <<n, j, k, l, m>> = <<n>> \o (<<j>> \o (<<k>> \o (<<l>> \o <<m>>)))
    BY <1>1, <2>1
  <2>3. \A k, l, m \in Characters :
           <<n, o, k, l, m>> = <<n>> \o (<<o>> \o (<<k>> \o (<<l>> \o <<m>>)))
    BY <1>1, <2>2
  <2>4. \A l, m \in Characters :
           <<n, o, d, l, m>> = <<n>> \o (<<o>> \o (<<d>> \o (<<l>> \o <<m>>)))
    BY <1>1, <2>3
  <2>5. <<n, o, d, c, n>> = <<n>> \o (<<o>> \o (<<d>> \o (<<c>> \o <<n>>)))
    BY <1>1, <2>4
  <2>6. (<<o>> \o (<<d>> \o <<c>>)) \o <<n>> = <<o>> \o (<<d>> \o (<<c>> \o <<n>>))
    BY <1>1, <1>2
  <2>7. QED BY <2>5, <2>6
<1>5. <<n>> \in CharSeq
  BY <1>1, OneChar
<1>6. (<<o>> \o (<<p>> \o <<c>>)) \o <<n>> \in CharSeq /\ (<<o>> \o (<<d>> \o <<c>>)) \o <<n>> \in CharSeq
  BY <1>1, <1>2
<1>7. QED BY <1>3, <1>4, <1>5, <1>6 DEF HeaderText, HeaderLine, Break, o, c, n, p, d

\* What is written of the dependencies behind a text.
Written(t, ds) == Scan(WriteDependency, t, ds)

\* The line of a dependency is a text.
LEMMA DependencyLineType ==
  ASSUME NEW d \in Dependencies
  PROVE  DependencyLine(d) \in CharSeq
<1> DEFINE all == FieldsOf(d.source)
<1>1. d.source \in DepSources /\ d.name \in CharSeq
  BY DEF Dependencies
<1>2. all \in Seq(PlainFields) /\ all # <<>>
  BY <1>1, SourceFields
<1>3. all = FieldsOf(d.source)
  OBVIOUS
<1> HIDE DEF all
<1>4. \E gs \in Seq(PlainFields), f \in PlainFields : all = Append(gs, f)
  BY <1>2, LastField
<1>5. PICK gs \in Seq(PlainFields), f \in PlainFields : all = Append(gs, f)
  BY <1>4, Zenon
<1>6. DependencyLine(d) = Named(d.name, TableText(gs, f))
  BY <1>3, <1>5, DependencyLineIs
<1> DEFINE x == TableText(gs, f)
<1>7. x \in CharSeq
  <2>1. Blank(<<>>) /\ <<>> \in CharSeq
    BY CharFacts DEF Blank
  <2>2. TableText(gs, f) \in CharSeq
    BY <2>1, TableValue
  <2>3. QED BY <2>2
<1>8. DependencyLine(d) = Named(d.name, x)
  BY <1>6
<1> HIDE DEF x
<1>9. QED BY <1>1, <1>7, <1>8, NamedType

\* The dependencies are written one after the other.
LEMMA WriteLaws ==
  /\ WriteDependency \in Steps(CharSeq, Dependencies)
  /\ \A t \in CharSeq, d \in Dependencies : WriteDependency[t][d] = t \o (DependencyLine(d) \o Break)
  /\ \A t \in CharSeq : Written(t, <<>>) = t
  /\ \A t \in CharSeq, ds \in Seq(Dependencies), d \in Dependencies :
       Written(t, Append(ds, d)) = Written(t, ds) \o (DependencyLine(d) \o Break)
<1>1. ASSUME NEW t \in CharSeq, NEW d \in Dependencies
      PROVE  /\ WriteDependency[t][d] = t \o (DependencyLine(d) \o Break)
             /\ t \o (DependencyLine(d) \o Break) \in CharSeq
  <2> DEFINE x == DependencyLine(d)
             y == x \o Break
  <2>1. x \in CharSeq /\ Break \in CharSeq
    BY DependencyLineType, Headers
  <2>2. WriteDependency[t][d] = (t \o DependencyLine(d)) \o Break
    BY Zenon DEF WriteDependency, Break
  <2> HIDE DEF x
  <2>3. (t \o x) \o Break = t \o (x \o Break)
    BY <2>1, Assoc
  <2>4. y \in CharSeq
    BY <2>1, CharFacts
  <2> HIDE DEF y
  <2>5. t \o y \in CharSeq
    BY <2>4, CharFacts
  <2>6. QED BY <2>2, <2>3, <2>5 DEF x, y
<1>2. ASSUME NEW t \in CharSeq, NEW d \in Dependencies PROVE WriteDependency[t][d] \in CharSeq
  BY <1>1
<1>3. WriteDependency \in Steps(CharSeq, Dependencies)
  <2>1. WriteDependency = [out \in CharSeq |-> [d \in Dependencies |-> WriteDependency[out][d]]]
    BY Zenon DEF WriteDependency
  <2>2. QED BY <1>2, <2>1 DEF Steps
<1>4. ScanLawsOf(WriteDependency, CharSeq, Dependencies)
  BY <1>3, ScanLaws
<1>5. \A t \in CharSeq : Written(t, <<>>) = t
  BY Zenon, <1>4 DEF ScanLawsOf, Written
<1>6. ASSUME NEW t \in CharSeq, NEW ds \in Seq(Dependencies), NEW d \in Dependencies
      PROVE  Written(t, Append(ds, d)) = Written(t, ds) \o (DependencyLine(d) \o Break)
  <2>1. Written(t, Append(ds, d)) = WriteDependency[Written(t, ds)][d]
    BY Zenon, <1>4 DEF ScanLawsOf, Written
  <2>2. Written(t, ds) \in CharSeq
    BY Zenon, <1>4 DEF ScanLawsOf, Written
  <2>3. QED BY <1>1, <2>1, <2>2
<1>7. QED BY <1>1, <1>3, <1>5, <1>6

\* Dependencies whose values a line can keep.
CleanDependencies(ds) == \A i \in DOMAIN ds : CleanSource(ds[i].source)

\* The values of one more dependency.
LEMMA CleanDependenciesAppend ==
  ASSUME NEW ds \in Seq(NamedDependencies), NEW d \in NamedDependencies
  PROVE  /\ CleanDependencies(Append(ds, d)) <=> CleanDependencies(ds) /\ CleanSource(d.source)
         /\ CleanDependencies(ds) \in BOOLEAN /\ ds \in Seq(Dependencies) /\ d \in Dependencies
<1> DEFINE m == Len(ds)
           e == Append(ds, d)
<1>1. m \in Nat /\ DOMAIN ds = 1..m /\ DOMAIN e = 1..(m + 1) /\ e[m + 1] = d
      /\ \A i \in 1..m : e[i] = ds[i]
  OBVIOUS
<1>2. NamedDependencies \subseteq Dependencies
  BY DEF NamedDependencies
<1>3. ds \in Seq(Dependencies) /\ d \in Dependencies
  BY <1>2
<1> HIDE DEF m, e
<1>4. CleanDependencies(e) <=> CleanDependencies(ds) /\ CleanSource(d.source)
  <2>1. ASSUME CleanDependencies(e) PROVE CleanDependencies(ds) /\ CleanSource(d.source)
    <3>1. m + 1 \in DOMAIN e /\ \A i \in 1..m : i \in DOMAIN e
      BY <1>1
    <3>2. QED BY <1>1, <2>1, <3>1 DEF CleanDependencies
  <2>2. ASSUME CleanDependencies(ds), CleanSource(d.source) PROVE CleanDependencies(e)
    <3>1. ASSUME NEW i \in DOMAIN e PROVE CleanSource(e[i].source)
      <4>1. i \in 1..m \/ i = m + 1
        BY <1>1
      <4>2. QED BY <1>1, <2>2, <4>1 DEF CleanDependencies
    <3>2. QED BY <3>1 DEF CleanDependencies
  <2>3. QED BY <2>1, <2>2
<1>5. CleanDependencies(ds) \in BOOLEAN
  BY DEF CleanDependencies
<1>6. QED BY <1>3, <1>4, <1>5 DEF e

\* The lines of the dependencies.
LEMMA DependenciesRead ==
  ASSUME NEW package \in Seq(FieldPairs), NEW t, NEW clean \in BOOLEAN,
         Reads(t, ReadState("dependencies", package, <<>>), clean)
  PROVE  \A ds \in Seq(NamedDependencies) :
           Reads(Written(t, ds), ReadState("dependencies", package, ds), clean /\ CleanDependencies(ds))
<1> DEFINE P(ds) == Reads(Written(t, ds), ReadState("dependencies", package, ds), clean /\ CleanDependencies(ds))
           T == {ds \in Seq(NamedDependencies) : P(ds)}
<1>0. t \in CharSeq
  BY DEF Reads
<1>1. <<>> \in T
  <2>1. Written(t, <<>>) = t
    BY <1>0, WriteLaws
  <2>2. (clean /\ CleanDependencies(<<>>)) = clean
    BY DEF CleanDependencies
  <2>3. P(<<>>)
    <3> DEFINE e == <<>>
    <3>1. Written(t, e) = t /\ (clean /\ CleanDependencies(e)) = clean
          /\ Reads(t, ReadState("dependencies", package, e), clean)
      BY <2>1, <2>2
    <3> HIDE DEF e
    <3>2. P(e)
      BY <3>1
    <3>3. QED BY <3>2 DEF e
  <2> HIDE DEF P
  <2>4. QED BY <2>3
<1>2. ASSUME NEW ds \in Seq(NamedDependencies), NEW d \in NamedDependencies, ds \in T
      PROVE  Append(ds, d) \in T
  <2>1. /\ CleanDependencies(Append(ds, d)) <=> CleanDependencies(ds) /\ CleanSource(d.source)
        /\ CleanDependencies(ds) \in BOOLEAN /\ ds \in Seq(Dependencies) /\ d \in Dependencies
    BY CleanDependenciesAppend
  <2>2. Written(t, Append(ds, d)) = Written(t, ds) \o (DependencyLine(d) \o Break)
    BY <1>0, <2>1, WriteLaws
  <2> DEFINE w == Written(t, ds)
             fine == clean /\ CleanDependencies(ds)
             e == Append(ds, d)
  <2>3. Reads(w, ReadState("dependencies", package, ds), fine) /\ fine \in BOOLEAN
    BY <1>2, <2>1
  <2>4. e \in Seq(NamedDependencies)
    BY AppendType
  <2> HIDE DEF w, fine
  <2>5. Reads(w \o (DependencyLine(d) \o Break), ReadState("dependencies", package, Append(ds, d)),
              fine /\ CleanSource(d.source))
    BY <2>1, <2>3, DependencyStep
  <2>6. (fine /\ CleanSource(d.source)) = (clean /\ CleanDependencies(e))
    BY <2>1 DEF fine
  <2>7. P(e)
    BY <2>2, <2>5, <2>6 DEF w
  <2> HIDE DEF P, e
  <2>8. e \in T
    BY <2>4, <2>7
  <2>9. QED BY <2>8 DEF e
<1>3. \A ds \in Seq(NamedDependencies) : ds \in T
  <2> HIDE DEF T
  <2>1. QED BY <1>1, <1>2, AppendInduction
<1>4. QED BY <1>3

\* What the functions of the module make of a manifest whose names stand for themselves.
PlainManifests ==
  [name : CharSeq, version : CharSeq, entry : CharSeq, dependencies : Seq(NamedDependencies)]

\* No value of the manifest has a character that a line cannot keep.
CleanManifest(m) ==
  Clean(m.name) /\ Clean(m.version) /\ Clean(m.entry) /\ CleanDependencies(m.dependencies)

\* The entries of a package, as they are read.
PackagePairs(m) ==
  Append(Append(Append(<<>>, Entry("name", m.name)), Entry("version", m.version)), Entry("entry", m.entry))

\* The line of an entry with its end.
EntryText(key, v) == Field(KeyValue(key, v)) \o Break

\* The line of an entry is a text.
LEMMA EntryType ==
  ASSUME NEW key, PlainKey(key), NEW v \in CharSeq
  PROVE  EntryText(key, v) \in CharSeq /\ Entry(key, v) \in FieldPairs
<1> DEFINE f == KeyValue(key, v)
           t == Field(f)
<1>1. f \in PlainFields /\ PairOf(f) = Entry(key, v)
  BY KeyValueType DEF Entry
<1> HIDE DEF f
<1>2. t \in CharSeq /\ Break \in CharSeq
  BY <1>1, FieldType, Headers
<1> HIDE DEF t
<1>3. t \o Break \in CharSeq
  BY <1>2, CharFacts
<1>4. <<key>> \in CharSeq
  BY CharFacts DEF PlainKey
<1>5. QED BY <1>3, <1>4 DEF EntryText, t, f, Entry, FieldPairs

\* The text before the dependencies.
PackageText(m) ==
  (((HeaderText("package") \o EntryText("name", m.name)) \o EntryText("version", m.version))
    \o EntryText("entry", m.entry)) \o (Break \o HeaderText("dependencies"))

\* The text of a manifest: its package, then its dependencies.
LEMMA ToTomlIs ==
  ASSUME NEW m \in PlainManifests
  PROVE  ToToml(m) = Written(PackageText(m), m.dependencies)
<1> DEFINE h == <<"[", "package", "]", "\n">>
           t == <<"\n", "[", "dependencies", "]", "\n">>
<1>1. ToToml(m)
        = Scan(WriteDependency,
               (((h \o (Field(KeyValue("name", m.name)) \o Break))
                  \o (Field(KeyValue("version", m.version)) \o Break))
                 \o (Field(KeyValue("entry", m.entry)) \o Break)) \o t,
               m.dependencies)
  BY Zenon DEF ToToml, Break
<1>2. h = HeaderText("package") /\ t = Break \o HeaderText("dependencies")
  BY Headers
<1> HIDE DEF h, t
<1>3. QED BY <1>1, <1>2 DEF PackageText, EntryText, Written

\* The lines before the dependencies.
LEMMA PackageRead ==
  ASSUME NEW m \in PlainManifests
  PROVE  Reads(PackageText(m), ReadState("dependencies", PackagePairs(m), <<>>),
               Clean(m.name) /\ Clean(m.version) /\ Clean(m.entry))
<1> DEFINE h == HeaderText("package")
           n == m.name
           v == m.version
           e == m.entry
           t1 == h \o EntryText("name", n)
           t2 == t1 \o EntryText("version", v)
           t3 == t2 \o EntryText("entry", e)
           t4 == t3 \o (<<>> \o Break)
           p1 == Append(<<>>, Entry("name", n))
           p2 == Append(p1, Entry("version", v))
           p3 == Append(p2, Entry("entry", e))
           c1 == TRUE /\ Clean(n)
           c2 == c1 /\ Clean(v)
           c3 == c2 /\ Clean(e)
           k1 == "name"
           k2 == "version"
           k3 == "entry"
<1>1. n \in CharSeq /\ v \in CharSeq /\ e \in CharSeq
  BY DEF PlainManifests
<1>2. PlainKey(k1) /\ PlainKey(k2) /\ PlainKey(k3)
  BY KeysArePlain DEF KeyText
<1>3. c1 \in BOOLEAN /\ c2 \in BOOLEAN /\ c3 \in BOOLEAN
      /\ (c3 <=> Clean(m.name) /\ Clean(m.version) /\ Clean(m.entry))
  BY DEF Clean
<1> DEFINE none == <<>>
<1>4. none \in Seq(FieldPairs) /\ none \in Seq(Dependencies)
  OBVIOUS
<1>5. Reads(h, ReadState("package", <<>>, <<>>), TRUE)
  <2> DEFINE s == "package"
             s0 == ""
             y == HeaderText(s)
  <2>1. Reads(none, ReadState(s0, none, none), TRUE)
    BY NothingRead, Zenon
  <2>2. s \in Sections /\ s0 \in AnySection
    BY DEF Sections, AnySection
  <2>3. y \in CharSeq
    BY Headers
  <2> HIDE DEF s, s0, none
  <2>4. Reads(none \o (HeaderLine(s) \o Break), ReadState(s, none, none), TRUE)
    BY <1>4, <2>1, <2>2, SectionStep
  <2>5. <<>> \o y = y
    <3> HIDE DEF y
    <3>1. QED BY <2>3, CharFacts
  <2>6. none \o y = y
    BY <2>5 DEF none
  <2>7. Reads(y, ReadState(s, none, none), TRUE)
    BY <2>4, <2>6 DEF HeaderText
  <2>8. QED BY <2>7 DEF s, none
<1> HIDE DEF n, v, e
<1>6. Reads(t1, ReadState("package", p1, <<>>), c1)
  <2>1. Reads(h, ReadState("package", none, <<>>), TRUE)
    BY <1>5
  <2> HIDE DEF k1, h, none
  <2>2. Reads(h \o (Field(KeyValue(k1, n)) \o Break), ReadState("package", Append(none, Entry(k1, n)), <<>>),
              TRUE /\ Clean(n))
    BY <1>1, <1>2, <1>4, <2>1, EntryStep
  <2>3. QED BY <2>2, Zenon DEF none, k1, EntryText
<1>7. p1 \in Seq(FieldPairs) /\ p2 \in Seq(FieldPairs) /\ p3 \in Seq(FieldPairs)
  <2>1. Entry(k1, n) \in FieldPairs /\ Entry(k2, v) \in FieldPairs /\ Entry(k3, e) \in FieldPairs
    <3> HIDE DEF k1, k2, k3
    <3>1. QED BY <1>1, <1>2, EntryType
  <2>2. p1 \in Seq(FieldPairs)
    BY <1>4, <2>1, AppendType
  <2> HIDE DEF p1
  <2>3. p2 \in Seq(FieldPairs)
    BY <2>1, <2>2, AppendType
  <2> HIDE DEF p2
  <2>4. p3 \in Seq(FieldPairs)
    BY <2>1, <2>3, AppendType
  <2>5. QED BY <2>2, <2>3, <2>4
<1> HIDE DEF h, t1, p1, c1
<1>8. Reads(t2, ReadState("package", p2, <<>>), c2)
  <2> HIDE DEF k2
  <2>1. Reads(t1 \o (Field(KeyValue(k2, v)) \o Break), ReadState("package", Append(p1, Entry(k2, v)), <<>>),
              c1 /\ Clean(v))
    BY <1>1, <1>2, <1>3, <1>6, <1>7, EntryStep
  <2>2. QED BY <2>1, Zenon DEF k2, EntryText
<1> HIDE DEF t2, p2, c2
<1>9. Reads(t3, ReadState("package", p3, <<>>), c3)
  <2> HIDE DEF k3
  <2>1. Reads(t2 \o (Field(KeyValue(k3, e)) \o Break), ReadState("package", Append(p2, Entry(k3, e)), <<>>),
              c2 /\ Clean(e))
    BY <1>1, <1>2, <1>3, <1>7, <1>8, EntryStep
  <2>2. QED BY <2>1, Zenon DEF k3, EntryText
<1> HIDE DEF t3, p3, c3
<1>10. Reads(t4, ReadState("package", p3, <<>>), c3)
  <2> DEFINE st == ReadState("package", p3, <<>>)
  <2>1. st \in ParseStates
    BY <1>4, <1>7, ReadStateType DEF Sections
  <2>2. Reads(t3, st, c3)
    BY <1>9
  <2> HIDE DEF st
  <2>3. Reads(t3 \o (<<>> \o Break), st, c3)
    BY <1>3, <2>1, <2>2, EmptyStep
  <2>4. QED BY <2>3, Zenon DEF st
<1> HIDE DEF t4
<1>11. Reads(t4 \o HeaderText("dependencies"), ReadState("dependencies", p3, <<>>), c3)
  <2> DEFINE s == "dependencies"
             s0 == "package"
  <2>1. s \in Sections /\ s0 \in AnySection
    BY DEF Sections, AnySection
  <2>2. Reads(t4, ReadState(s0, p3, none), c3)
    BY <1>10
  <2> HIDE DEF s, s0, none
  <2>3. Reads(t4 \o (HeaderLine(s) \o Break), ReadState(s, p3, none), c3)
    BY <1>3, <1>4, <1>7, <2>1, <2>2, SectionStep
  <2>4. QED BY <2>3, Zenon DEF s, none, HeaderText
<1>12. t4 \o HeaderText("dependencies") = t3 \o (Break \o HeaderText("dependencies"))
  <2> DEFINE y == HeaderText("dependencies")
             b == <<>> \o Break
  <2>1. y \in CharSeq /\ Break \in CharSeq /\ t3 \in CharSeq
    BY <1>9, Headers DEF Reads
  <2>2. b = Break
    BY <2>1, CharFacts
  <2> HIDE DEF y, b
  <2>3. (t3 \o Break) \o y = t3 \o (Break \o y)
    BY <2>1, Assoc
  <2>4. t4 = t3 \o b
    BY Zenon DEF t4, b
  <2>5. QED BY <2>2, <2>3, <2>4 DEF y
<1>13. Reads(t3 \o (Break \o HeaderText("dependencies")), ReadState("dependencies", p3, <<>>), c3)
  BY <1>11, <1>12
<1>14. PackageText(m) = t3 \o (Break \o HeaderText("dependencies")) /\ p3 = PackagePairs(m)
  BY Zenon DEF PackageText, PackagePairs, t3, t2, t1, h, p3, p2, p1, n, v, e
<1>15. QED BY <1>3, <1>13, <1>14

\* The first value of a key when an entry is added.
LEMMA EntryGet ==
  ASSUME NEW ps \in Seq(FieldPairs), NEW key, NEW v, Entry(key, v) \in FieldPairs, NEW x
  PROVE  TableGet(Append(ps, Entry(key, v)), x)
           = IF TableGet(ps, x) # <<>> THEN TableGet(ps, x) ELSE IF key = x THEN <<v>> ELSE <<>>
<1> DEFINE p == Entry(key, v)
<1>1. p \in FieldPairs /\ p.key = <<key>> /\ p.value = v
  BY DEF Entry
<1>2. <<key>> = <<x>> <=> key = x
  OBVIOUS
<1> HIDE DEF p
<1>3. TableGet(Append(ps, p), x)
        = IF TableGet(ps, x) # <<>> THEN TableGet(ps, x) ELSE IF p.key = <<x>> THEN <<p.value>> ELSE <<>>
  BY <1>1, TableGetAppend
<1>4. QED BY <1>1, <1>2, <1>3 DEF p

\* In no pairs there is no value.
LEMMA NothingGot ==
  ASSUME NEW x
  PROVE  TableGet(<<>>, x) = <<>>
<1> DEFINE e == <<>>
<1>1. e \in Seq(FieldPairs) /\ \A i \in DOMAIN e : e[i].key # <<x>>
  OBVIOUS
<1>2. e = <<>>
  OBVIOUS
<1> HIDE DEF e
<1>3. TableGet(e, x) = <<>>
  BY <1>1, TableGetIs
<1>4. QED BY <1>2, <1>3

\* The entries of the package, as they are found.
LEMMA PackageGet ==
  ASSUME NEW m \in PlainManifests
  PROVE  /\ TableGet(PackagePairs(m), "name") = <<m.name>>
         /\ TableGet(PackagePairs(m), "version") = <<m.version>>
         /\ TableGet(PackagePairs(m), "entry") = <<m.entry>>
<1> DEFINE n == m.name
           v == m.version
           e == m.entry
           k1 == "name"
           k2 == "version"
           k3 == "entry"
           p0 == <<>>
           p1 == Append(p0, Entry(k1, n))
           p2 == Append(p1, Entry(k2, v))
           p3 == Append(p2, Entry(k3, e))
<1>1. n \in CharSeq /\ v \in CharSeq /\ e \in CharSeq
  BY DEF PlainManifests
<1>2. /\ PlainKey(k1) /\ PlainKey(k2) /\ PlainKey(k3)
      /\ k1 # k2 /\ k1 # k3 /\ k2 # k3
  BY KeysArePlain DEF KeyText
<1>3. PackagePairs(m) = p3
  BY Zenon DEF PackagePairs
<1>4. p0 \in Seq(FieldPairs) /\ \A x : TableGet(p0, x) = <<>>
  BY NothingGot
<1> HIDE DEF n, v, e, k1, k2, k3, p0
<1>5. Entry(k1, n) \in FieldPairs /\ Entry(k2, v) \in FieldPairs /\ Entry(k3, e) \in FieldPairs
  BY <1>1, <1>2, EntryType
<1>6. p1 \in Seq(FieldPairs)
  BY <1>4, <1>5, AppendType
<1>7. TableGet(p1, k1) = <<n>> /\ TableGet(p1, k2) = <<>> /\ TableGet(p1, k3) = <<>>
  BY <1>2, <1>4, <1>5, EntryGet
<1> HIDE DEF p1
<1>8. p2 \in Seq(FieldPairs)
  BY <1>5, <1>6, AppendType
<1>9. TableGet(p2, k1) = <<n>> /\ TableGet(p2, k2) = <<v>> /\ TableGet(p2, k3) = <<>>
  BY <1>2, <1>5, <1>6, <1>7, EntryGet
<1> HIDE DEF p2
<1>10. TableGet(p3, k1) = <<n>> /\ TableGet(p3, k2) = <<v>> /\ TableGet(p3, k3) = <<e>>
  BY <1>2, <1>5, <1>8, <1>9, EntryGet
<1>11. QED BY <1>3, <1>10 DEF n, v, e, k1, k2, k3

\* What is read of the text that is written.
LEMMA TomlRead ==
  ASSUME NEW m \in PlainManifests
  PROVE  Reads(ToToml(m), ReadState("dependencies", PackagePairs(m), m.dependencies), CleanManifest(m))
<1> DEFINE package == PackagePairs(m)
           t == PackageText(m)
           ds == m.dependencies
           clean == Clean(m.name) /\ Clean(m.version) /\ Clean(m.entry)
<1>1. package \in Seq(FieldPairs)
  <2> DEFINE n == Entry("name", m.name)
             v == Entry("version", m.version)
             e == Entry("entry", m.entry)
             p == Append(<<>>, n)
             q == Append(p, v)
             r == Append(q, e)
  <2>1. PlainKey("name") /\ PlainKey("version") /\ PlainKey("entry")
    BY KeysArePlain DEF KeyText
  <2>2. m.name \in CharSeq /\ m.version \in CharSeq /\ m.entry \in CharSeq
    BY DEF PlainManifests
  <2>3. n \in FieldPairs /\ v \in FieldPairs /\ e \in FieldPairs
    BY <2>1, <2>2, EntryType
  <2> HIDE DEF n, v, e
  <2>4. p \in Seq(FieldPairs)
    BY <2>3
  <2> HIDE DEF p
  <2>5. q \in Seq(FieldPairs)
    BY <2>3, <2>4, AppendType
  <2> HIDE DEF q
  <2>6. r \in Seq(FieldPairs)
    BY <2>3, <2>5, AppendType
  <2>7. QED BY <2>6, Zenon DEF PackagePairs, p, q, n, v, e
<1>2. ds \in Seq(NamedDependencies)
  BY DEF PlainManifests
<1>3. Reads(t, ReadState("dependencies", package, <<>>), clean)
  BY PackageRead
<1>4. clean \in BOOLEAN /\ ((clean /\ CleanDependencies(ds)) = CleanManifest(m))
  BY DEF Clean, CleanManifest, CleanDependencies
<1>5. ToToml(m) = Written(t, ds)
  BY ToTomlIs
<1> HIDE DEF package, t, clean
<1>6. Reads(Written(t, ds), ReadState("dependencies", package, ds), clean /\ CleanDependencies(ds))
  <2> HIDE DEF ds
  <2>1. QED BY <1>1, <1>2, <1>3, <1>4, DependenciesRead
<1>7. QED BY <1>4, <1>5, <1>6 DEF package

\* A manifest is read back from the text written of it (parse_str and to_toml_string), for every
\* name, version and entry and every list of dependencies whose names stand for themselves,
\* unless one of its values has a # or a line feed: then the text is refused, and never
\* taken for another manifest.
THEOREM ReadBackExactly ==
  ASSUME NEW m \in PlainManifests
  PROVE  ParseManifest(ToToml(m)) = IF CleanManifest(m) THEN Ok(m) ELSE Fail
<1> DEFINE t == ToToml(m)
           st == ReadState("dependencies", PackagePairs(m), m.dependencies)
           end == ReadAll(t)
<1>1. Reads(t, st, CleanManifest(m))
  BY TomlRead
<1>2. ParseManifest(t) = ManifestOf(end)
  BY Zenon DEF ParseManifest, ReadAll
<1>3. t \in CharSeq
  BY <1>1 DEF Reads
<1> HIDE DEF t
<1>4. end = ReadLine[ReadBefore(t)][OpenLine(t)]
  BY <1>3, ReadAllIs
<1> HIDE DEF end
<1>5. CASE CleanManifest(m)
  <2>1. OpenLine(t) = <<>> /\ ReadBefore(t) = st
    <3> HIDE DEF st
    <3>1. QED BY <1>1, <1>5 DEF Reads
  <2>2. ReadBefore(t) \in ParseStates
    BY <1>3, ReadBeforeLaws
  <2>3. end = st
    <3> HIDE DEF st
    <3>1. st \in ParseStates
      BY <2>1, <2>2
    <3>2. ReadLine[st][<<>>] = st
      BY <3>1, EmptyLine
    <3>3. QED BY <1>4, <2>1, <3>2
  <2>4. end.ok /\ end.package = PackagePairs(m) /\ end.deps = m.dependencies
    BY <2>3 DEF ReadState
  <2> HIDE DEF st
  <2>5. /\ TableGet(end.package, "name") = <<m.name>>
        /\ TableGet(end.package, "version") = <<m.version>>
        /\ TableGet(end.package, "entry") = <<m.entry>>
    BY <2>4, PackageGet
  <2>6. ManifestOf(end) = Ok([name |-> m.name, version |-> m.version, entry |-> m.entry,
                              dependencies |-> m.dependencies])
    BY <2>4, <2>5 DEF ManifestOf
  <2>7. m = [name |-> m.name, version |-> m.version, entry |-> m.entry, dependencies |-> m.dependencies]
    BY DEF PlainManifests
  <2>8. QED BY <1>2, <1>5, <2>6, <2>7 DEF t
<1>6. CASE ~CleanManifest(m)
  <2>1. Dead(t)
    BY <1>1, <1>6 DEF Reads
  <2>2. ~end.ok
    BY <1>3, <1>4, <2>1, DeadFails
  <2>3. ManifestOf(end) = Fail
    BY <2>2 DEF ManifestOf
  <2>4. QED BY <1>2, <1>6, <2>3 DEF t
<1>7. QED BY <1>5, <1>6

\* An empty manifest is refused: it has no name (parse_str).
THEOREM EmptyIsRefused == ParseManifest(<<>>) = Fail
<1> DEFINE t == <<>>
           end == ReadAll(t)
<1>1. t \in CharSeq /\ ReadBefore(t) = FirstState /\ OpenLine(t) = <<>>
  BY CharFacts, ReadBeforeLaws
<1>2. ParseManifest(t) = ManifestOf(end)
  BY Zenon DEF ParseManifest, ReadAll
<1> HIDE DEF t
<1>3. end = ReadLine[ReadBefore(t)][OpenLine(t)]
  BY <1>1, ReadAllIs
<1> HIDE DEF end
<1>4. ReadLine[FirstState][<<>>] = FirstState
  BY FirstStateType, EmptyLine
<1>5. end = FirstState
  BY <1>1, <1>3, <1>4
<1>6. end.package = <<>>
  BY <1>5 DEF FirstState
<1>7. TableGet(end.package, "name") = <<>>
  BY <1>6, NothingGot
<1>8. ManifestOf(end) = Fail
  BY <1>7 DEF ManifestOf
<1>9. QED BY <1>2, <1>8 DEF t
============================================================================
