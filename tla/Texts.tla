-------------------------------- MODULE Texts ------------------------------
(***************************************************************************)
(* Texts for the instances: a string of TLA+ read as the characters of the *)
(* lexer, a run of letters as one.                                         *)
(***************************************************************************)
EXTENDS Lexer

WordEnd(s, i) ==
  CHOOSE j \in i..(Len(s) + 1) : /\ \A m \in i..(j - 1) : IsLetter(SubSeq(s, m, m))
                                 /\ j <= Len(s) => ~IsLetter(SubSeq(s, j, j))
RECURSIVE Chars(_)
Chars(s) ==
  LET end == IF s = "" THEN 1 ELSE WordEnd(s, 1)
      next == IF end = 1 THEN 2 ELSE end
  IN IF s = "" THEN <<>> ELSE <<SubSeq(s, 1, next - 1)>> \o Chars(SubSeq(s, next, Len(s)))
============================================================================
