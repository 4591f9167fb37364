------------------------------- MODULE Lexer -------------------------------
(***************************************************************************)
(* The lexer of Oberih (lexer/mod.rs).  A source text is a sequence of     *)
(* characters.  A character is a string: a digit, a symbol, a blank, or    *)
(* anything else, which stands for a letter; a whole word may be taken as  *)
(* one letter, so that a name or a keyword is a run of such letters.  A    *)
(* token carries the line it starts on and its offset in the text.         *)
(***************************************************************************)
EXTENDS Integers, Sequences, FiniteSetsExt, TLC

Digits == {"0", "1", "2", "3", "4", "5", "6", "7", "8", "9"}
DigitValue == [d \in Digits |-> CHOOSE v \in 0..9 : ToString(v) = d]

Blanks == {" ", "\n", "\t"}

\* The operators of two characters, which win over their first character.
Pairs == {<<"-", ">">>, <<"=", "=">>, <<"=", ">">>, <<"&", "&">>, <<"|", "|">>,
          <<"!", "=">>, <<"<", "=">>, <<"<", "<">>, <<">", "=">>}

Symbols == {"+", "*", "/", ".", "(", ")", "{", "}", "[", "]", ",", ":", ";", "?",
            "-", "=", "&", "|", "^", "~", "!", "<", ">"}

Marks == {"\"", "\\", "#", "@"}
IsLetter(c) == c \notin Digits \cup Blanks \cup Symbols \cup Marks

Keywords == {"fn", "resilient", "struct", "enum", "let", "return", "if", "else",
             "while", "for", "in", "match", "spawn", "import", "private", "Ok", "Err"}

----------------------------------------------------------------------------
\* peek and peek2: the character at i, or the end of the text.
At(src, i) == IF i <= Len(src) THEN src[i] ELSE "eof"

\* The end of the longest run from i of characters of a class.
RunEnd(src, i, Class(_)) ==
  CHOOSE j \in i..(Len(src) + 1) :
    /\ \A m \in i..(j - 1) : Class(src[m])
    /\ j <= Len(src) => ~Class(src[j])

LineOf(src, i) == 1 + Quantify(1..(i - 1), LAMBDA j : src[j] = "\n")
LineStart(src, i) == Max({0} \cup {j \in 1..(i - 1) : src[j] = "\n"}) + 1

IsBlank(c) == c \in Blanks
IsDigit(c) == c \in Digits
InLine(c) == c # "\n"
InWord(c) == IsLetter(c) \/ c \in Digits

\* Blanks and // comments before the next token.  A comment is trailing when
\* something other than blanks precedes it on its line.
RECURSIVE SkipBlanks(_, _, _)
SkipBlanks(src, i, comments) ==
  LET j == RunEnd(src, i, IsBlank)
      end == RunEnd(src, j, InLine)
      comment == [line |-> LineOf(src, j),
                  text |-> SubSeq(src, j, end - 1),
                  trailing |-> \E m \in LineStart(src, j)..(j - 1) : ~IsBlank(src[m])]
  IN IF At(src, j) = "/" /\ At(src, j + 1) = "/"
     THEN SkipBlanks(src, end, Append(comments, comment))
     ELSE [i |-> j, comments |-> comments]

----------------------------------------------------------------------------
\* A number literal: its sign belongs to it, a dot only before a digit.
RECURSIVE Decimal(_)
Decimal(ds) == IF ds = <<>> THEN 0
               ELSE 10 * Decimal(SubSeq(ds, 1, Len(ds) - 1)) + DigitValue[ds[Len(ds)]]

LexNumber(src, i) ==
  LET first == IF src[i] = "-" THEN i + 1 ELSE i
      dot == RunEnd(src, first, IsDigit)
      whole == Decimal(SubSeq(src, first, dot - 1))
      isFraction == At(src, dot) = "." /\ At(src, dot + 1) \in Digits
      end == IF isFraction THEN RunEnd(src, dot + 1, IsDigit) ELSE dot
  IN [ok |-> TRUE, i |-> end,
      tok |-> [t |-> "num", sign |-> IF src[i] = "-" THEN -1 ELSE 1, n |-> whole,
               frac |-> SubSeq(src, dot + 1, end - 1)]]

\* A string literal from after its opening quote: \n, \t and \r stand for control
\* characters, any other escaped character for itself.
Escaped == [c \in {"n", "t", "r"} |-> CASE c = "n" -> "\n" [] c = "t" -> "\t" [] c = "r" -> "\r"]

RECURSIVE LexString(_, _, _)

\* Mutant: a backslash stays in the text of the literal.
LexStringRaw(src, i, s) ==
  CASE At(src, i) = "eof" -> [ok |-> FALSE, i |-> i]
    [] At(src, i) = "\"" -> [ok |-> TRUE, i |-> i + 1, tok |-> [t |-> "str", s |-> s]]
    [] At(src, i) = "\\" /\ i = Len(src) -> [ok |-> FALSE, i |-> i]
    [] At(src, i) = "\\" /\ i < Len(src) -> LexString(src, i + 2, s \o <<"\\", src[i + 1]>>)
    [] OTHER -> LexString(src, i + 1, Append(s, src[i]))

LexString(src, i, s) ==
  CASE At(src, i) = "eof" -> [ok |-> FALSE, i |-> i]
    [] At(src, i) = "\"" -> [ok |-> TRUE, i |-> i + 1, tok |-> [t |-> "str", s |-> s]]
    [] At(src, i) = "\\" /\ i = Len(src) -> [ok |-> FALSE, i |-> i]
    [] At(src, i) = "\\" /\ i < Len(src) ->
         LET c == src[i + 1]
         IN LexString(src, i + 2, Append(s, IF c \in DOMAIN Escaped THEN Escaped[c] ELSE c))
    [] OTHER -> LexString(src, i + 1, Append(s, src[i]))

\* The modifiers of a resilient function are no keywords: they stay names.
LexWord(src, i) ==
  LET end == RunEnd(src, i, InWord)
      word == SubSeq(src, i, end - 1)
  IN [ok |-> TRUE, i |-> end,
      tok |-> CASE word \in {<<w>> : w \in Keywords} -> [t |-> src[i]]
                [] word = <<"true">> -> [t |-> "bool", b |-> TRUE]
                [] word = <<"false">> -> [t |-> "bool", b |-> FALSE]
                [] OTHER -> [t |-> "ident", name |-> word]]

LexSymbol(src, i) ==
  LET isPair == <<src[i], At(src, i + 1)>> \in Pairs
  IN [ok |-> TRUE, i |-> IF isPair THEN i + 2 ELSE i + 1,
      tok |-> [t |-> IF isPair THEN src[i] \o src[i + 1] ELSE src[i]]]

StartsNumber(src, i) ==
  src[i] \in Digits \/ (src[i] = "-" /\ At(src, i + 1) \in Digits)

NextToken(src, i) ==
  CASE StartsNumber(src, i) -> LexNumber(src, i)
    [] src[i] = "\"" -> LexString(src, i + 1, <<>>)
    [] IsLetter(src[i]) -> LexWord(src, i)
    [] src[i] \in Symbols /\ ~StartsNumber(src, i) -> LexSymbol(src, i)
    [] OTHER -> [ok |-> FALSE, i |-> i]

\* All tokens and comments of a text, or ok = FALSE with the offset of the error.
RECURSIVE TokensFrom(_, _, _, _)
TokensFrom(src, i, toks, comments) ==
  LET skip == SkipBlanks(src, i, comments)
      next == NextToken(src, skip.i)
      Placed(tok) == tok @@ [line |-> LineOf(src, skip.i), pos |-> skip.i]
  IN IF skip.i > Len(src)
     THEN [ok |-> TRUE, toks |-> Append(toks, Placed([t |-> "eof"])),
           comments |-> skip.comments]
     ELSE IF next.ok
          THEN TokensFrom(src, next.i, Append(toks, Placed(next.tok)), skip.comments)
          ELSE [ok |-> FALSE, i |-> skip.i]

Tokenize(src) == TokensFrom(src, 1, <<>>, <<>>)

\* What a token says, without where it stands.
Kind(tok) == [f \in DOMAIN tok \ {"line", "pos"} |-> tok[f]]
============================================================================
