----------------------------- MODULE Formatter -----------------------------
(***************************************************************************)
(* The source formatter of Oberih (formatter.rs, the command oberih fmt).  *)
(* It prints the tree of the parser as characters and puts the comments    *)
(* the lexer collected back at the line of the nodes they stood next to.   *)
(* Indentation is left out.  A printer is the text written so far and the  *)
(* index of the first comment not written yet.                             *)
(***************************************************************************)
EXTENDS Parser

PREC_UNARY == 10
PREC_TRY == 11
PREC_POSTFIX == 12

BinopPrec(op) == CHOOSE level \in DOMAIN Levels : op \in Levels[level]

ExprPrec(e) ==
  CASE e.k = "BinOp" -> BinopPrec(e.op)
    [] e.k = "Unary" -> PREC_UNARY
    [] e.k = "Try" -> PREC_TRY
    [] e.k = "Lambda" -> 0
    [] OTHER -> 13

----------------------------------------------------------------------------
Joined(texts) ==
  FlattenSeq([j \in DOMAIN texts |-> IF j = 1 THEN texts[j] ELSE <<",", " ">> \o texts[j]])
JoinedBy(F(_), items) == Joined([j \in DOMAIN items |-> F(items[j])])
Quoted(s) == <<"\"">> \o s \o <<"\"">>

RECURSIVE DigitsOf(_)
DigitsOf(n) == IF n < 10 THEN <<ToString(n)>> ELSE DigitsOf(n \div 10) \o <<ToString(n % 10)>>

\* A float without the zeros that end its fraction.
Fraction(frac) ==
  LET last == Max({0} \cup {j \in DOMAIN frac : frac[j] # "0"})
  IN IF last = 0 THEN <<>> ELSE <<".">> \o SubSeq(frac, 1, last)
FmtFloat(x) == (IF x.sign = -1 THEN <<"-">> ELSE <<>>) \o DigitsOf(x.n) \o Fraction(x.frac)

\* A number without a fraction is printed as an integer, and -0 as 0.
FmtNumber(x) == IF x.n = 0 /\ Fraction(x.frac) = <<>> THEN <<"0">> ELSE FmtFloat(x)

\* Only a backslash and a quote are escaped.
Escape(s) ==
  FlattenSeq([j \in DOMAIN s |-> IF s[j] \in {"\\", "\""} THEN <<"\\", s[j]>> ELSE <<s[j]>>])

RECURSIVE FmtType(_)
FmtType(ty) ==
  CASE ty.k = "Simple" -> ty.name
    [] ty.k = "Generic" -> ty.name \o <<"<">> \o JoinedBy(FmtType, ty.args) \o <<">">>
    [] ty.k = "Func" ->
         <<"Fn", "(">> \o JoinedBy(FmtType, ty.params) \o <<")">> \o
         (IF ty.ret = <<>> THEN <<>> ELSE <<" ", "-", ">", " ">> \o FmtType(ty.ret[1]))

FmtTypeParams(names) ==
  IF names = <<>> THEN <<>> ELSE <<"<">> \o Joined(names) \o <<">">>

FmtPattern(p) ==
  CASE p.k = "Wildcard" -> <<"_">>
    [] p.k = "Literal" -> (CASE "n" \in DOMAIN p -> FmtFloat(p)
                             [] "s" \in DOMAIN p -> Quoted(p.s)
                             [] "b" \in DOMAIN p -> <<IF p.b THEN "true" ELSE "false">>)
    [] p.k = "Variant" -> p.name
    [] p.k = "Ctor" -> p.name \o <<"(">> \o p.bind \o <<")">>

----------------------------------------------------------------------------
\* Writing lines and comments.
Printer(out, next) == [out |-> out, next |-> next]
WriteLine(pr, text) == [pr EXCEPT !.out = @ \o text \o <<"\n">>]

\* The comments before a line of the source, each on a line of its own.
RECURSIVE EmitCommentsBefore(_, _, _)
EmitCommentsBefore(pr, cs, line) ==
  IF pr.next <= Len(cs) /\ cs[pr.next].line < line
  THEN EmitCommentsBefore(Printer(WriteLine(pr, cs[pr.next].text).out, pr.next + 1), cs, line)
  ELSE pr

\* The next comment, if it ended this line of the source, at the end of the line
\* just written.
AttachTrailing(pr, cs, line) ==
  IF /\ pr.next <= Len(cs) /\ cs[pr.next].trailing /\ cs[pr.next].line = line
     /\ pr.out # <<>> /\ Last(pr.out) = "\n"
  THEN Printer(Front(pr.out) \o <<" ", " ">> \o cs[pr.next].text \o <<"\n">>, pr.next + 1)
  ELSE pr

\* Mutant: the comments after the last declaration are forgotten.
FlushNothing(pr, cs) == pr

RECURSIVE FlushRemainingComments(_, _)
FlushRemainingComments(pr, cs) ==
  IF pr.next > Len(cs) THEN pr
  ELSE FlushRemainingComments(Printer(WriteLine(pr, cs[pr.next].text).out, pr.next + 1), cs)

\* A line of the source and the trailing comment of that line.
WriteNode(pr, cs, text, line) == AttachTrailing(WriteLine(pr, text), cs, line)

\* The characters of an operator.
OpText(op) == IF op \in Symbols THEN <<op>>
              ELSE CHOOSE pair \in Pairs \cup {<<">", ">">>} : pair[1] \o pair[2] = op

RECURSIVE FmtExpr(_), FmtStmts(_, _, _)

\* Mutant: an operand as tight as its operator has no parentheses on the right either.
FmtPrecLoose(e, min) == IF ExprPrec(e) < min - 1 THEN <<"(">> \o FmtExpr(e) \o <<")">> ELSE FmtExpr(e)

\* An expression, in parentheses when it binds looser than min.
FmtPrec(e, min) ==
  IF ExprPrec(e) < min THEN <<"(">> \o FmtExpr(e) \o <<")">> ELSE FmtExpr(e)

FmtArgs(args) == <<"(">> \o JoinedBy(FmtExpr, args) \o <<")">>

FmtNeg(expr) ==
  LET inner == FmtPrec(expr, PREC_UNARY)
  IN IF Head(inner) = "-" THEN <<"-", "(">> \o inner \o <<")">> ELSE <<"-">> \o inner

\* The block of a lambda is printed by a printer that knows no comments.
FmtLambda(e) ==
  LET Param(p) == p.name \o (IF p.ty = <<>> THEN <<>> ELSE <<":", " ">> \o FmtType(p.ty[1]))
      head == <<"fn", "(">> \o JoinedBy(Param, e.params) \o <<")">>
      ret == IF e.ret = <<>> THEN <<>> ELSE <<" ", "-", ">", " ">> \o FmtType(e.ret[1])
  IN IF e.body.k = "Value" THEN head \o <<" ", "=", ">", " ">> \o FmtExpr(e.body.value)
     ELSE head \o ret \o <<" ", "{", "\n">>
          \o FmtStmts(Printer(<<>>, 1), <<>>, e.body.stmts).out \o <<"}">>

FmtMatch(e) ==
  LET Arm(arm) == FmtPattern(arm.pattern) \o <<" ", "=", ">", " ">> \o FmtExpr(arm.body)
                  \o <<",", "\n">>
  IN <<"match", " ">> \o FmtExpr(e.scrutinee) \o <<" ", "{", "\n">>
     \o FlattenSeq([j \in DOMAIN e.arms |-> Arm(e.arms[j])]) \o <<"}">>

FmtExpr(e) ==
  CASE e.k = "Number" -> FmtNumber(e)
    [] e.k = "String" -> Quoted(Escape(e.s))
    [] e.k = "Bool" -> <<IF e.b THEN "true" ELSE "false">>
    [] e.k = "Ident" -> e.name
    [] e.k = "Result" -> <<e.variant>> \o FmtArgs(<<e.value>>)
    [] e.k = "BinOp" ->
         LET level == BinopPrec(e.op)
         IN FmtPrec(e.left, level) \o <<" ">> \o OpText(e.op) \o <<" ">>
            \o FmtPrec(e.right, level + 1)
    [] e.k = "Unary" ->
         IF e.op = "-" THEN FmtNeg(e.expr) ELSE <<e.op>> \o FmtPrec(e.expr, PREC_UNARY)
    [] e.k = "Try" -> FmtPrec(e.expr, PREC_TRY) \o <<"?">>
    [] e.k = "Field" -> FmtPrec(e.object, PREC_POSTFIX) \o <<".">> \o e.field
    [] e.k = "MethodCall" ->
         FmtPrec(e.object, PREC_POSTFIX) \o <<".">> \o e.method \o FmtArgs(e.args)
    [] e.k = "Call" -> FmtPrec(e.callee, PREC_POSTFIX) \o FmtArgs(e.args)
    [] e.k = "Index" -> FmtPrec(e.object, PREC_POSTFIX) \o <<"[">> \o FmtExpr(e.index) \o <<"]">>
    [] e.k = "Spawn" -> <<"spawn", " ">> \o e.name \o FmtArgs(e.args)
    [] e.k = "List" -> <<"[">> \o JoinedBy(FmtExpr, e.elems) \o <<"]">>
    [] e.k = "Map" ->
         LET Entry(x) == FmtExpr(x.key) \o <<":", " ">> \o FmtExpr(x.value)
         IN <<"{">> \o JoinedBy(Entry, e.entries) \o <<"}">>
    [] e.k = "Lambda" -> FmtLambda(e)
    [] e.k = "Match" -> FmtMatch(e)

----------------------------------------------------------------------------
\* A block: its statements and the comments before the line that closes it.
FmtBlock(pr, cs, stmts, closeLine) ==
  EmitCommentsBefore(FmtStmts(pr, cs, stmts), cs, closeLine)

\* A header, a block and the line that closes it.
FmtBraces(pr, cs, header, line, stmts, endLine) ==
  LET open == WriteNode(pr, cs, header \o <<" ", "{">>, line)
  IN WriteNode(FmtBlock(open, cs, stmts, endLine), cs, <<"}">>, endLine)

\* The end of an if, after the statements of its first block.
FmtElse(pr, cs, s) ==
  LET else == s.otherwise[1]
      between == WriteNode(pr, cs, <<"}", " ", "else", " ", "{">>, s.thenEnd)
  IN IF s.otherwise = <<>> THEN WriteNode(pr, cs, <<"}">>, s.thenEnd)
     ELSE WriteNode(FmtBlock(between, cs, else.body, else.end), cs, <<"}">>, else.end)

FmtIf(pr, cs, s) ==
  LET header == <<"if", " ", "(">> \o FmtExpr(s.cond) \o <<")", " ", "{">>
  IN FmtElse(FmtBlock(WriteNode(pr, cs, header, s.line), cs, s.then, s.thenEnd), cs, s)

FmtStmt(pr, cs, s) ==
  LET Write(text) == WriteNode(pr, cs, text, s.line)
      annotation == IF s.ty = <<>> THEN <<>> ELSE <<":", " ">> \o FmtType(s.ty[1])
  IN CASE s.k = "Let" -> Write(<<"let", " ">> \o s.name \o annotation \o <<" ", "=", " ">>
                               \o FmtExpr(s.value))
       [] s.k = "Return" -> Write(<<"return", " ">> \o FmtExpr(s.value))
       [] s.k = "Assign" -> Write(FmtExpr(s.target) \o <<" ", "=", " ">> \o FmtExpr(s.value))
       [] s.k = "Expr" -> Write(FmtExpr(s.value))
       [] s.k = "If" -> FmtIf(pr, cs, s)
       [] s.k = "While" -> FmtBraces(pr, cs, <<"while", " ", "(">> \o FmtExpr(s.cond) \o <<")">>,
                                     s.line, s.body, s.end)
       [] s.k = "For" -> FmtBraces(pr, cs, <<"for", " ", "(">> \o s.var \o <<" ", "in", " ">>
                                           \o FmtExpr(s.iter) \o <<")">>, s.line, s.body, s.end)

FmtStmts(pr, cs, stmts) ==
  FoldLeft(LAMBDA p, s : FmtStmt(EmitCommentsBefore(p, cs, s.line), cs, s), pr, stmts)

----------------------------------------------------------------------------
\* Declarations.
FmtDur(d) == FmtNumber(d.value) \o d.unit

FmtModifier(m) ==
  LET NamedArg(name, text) == <<name, ":", " ">> \o text
      Args(texts) == <<m.k, "(">> \o Joined(texts) \o <<")">>
      Amount(name, value) ==
        IF value = <<>> THEN <<>> ELSE <<NamedArg(name, FmtFloat(value[1]))>>
  IN CASE m.k \in {"deadline", "timeout"} -> Args(<<FmtDur(m.time)>>)
       [] m.k \in {"retryBudget", "retries"} -> Args(<<DigitsOf(m.count)>>)
       [] m.k \in {"fallback", "emergencyFallback"} -> Args(<<FmtExpr(m.value)>>)
       [] m.k = "circuitBreaker" -> Args(<<NamedArg("failThreshold", DigitsOf(m.count)),
                                           NamedArg("cooldown", FmtDur(m.time))>>)
       [] m.k = "idempotent" -> Args(<<NamedArg("key", FmtExpr(m.value))>>)
       [] m.k = "cache" -> Args(<<NamedArg("ttl", FmtDur(m.time))>>)
       [] m.k = "rateLimit" -> Args(<<DigitsOf(m.count), NamedArg("per", FmtDur(m.time))>>)
       [] m.k = "bulkhead" -> Args(<<NamedArg("maxConcurrent", DigitsOf(m.count))>>)
       [] m.k = "hedging" -> Args(<<NamedArg("after", FmtDur(m.time))>>)
       [] m.k = "budget" -> Args(Amount("tokens", m.tokens) \o Amount("cost", m.cost))
       [] m.k \in PlainModifiers -> <<m.k>>

FmtTyped(f) == f.name \o <<":", " ">> \o FmtType(f.ty)

FnHeader(f) ==
  (IF f.isPrivate THEN <<"private", " ">> ELSE <<>>)
  \o (IF f.isResilient THEN <<"resilient", " ">> ELSE <<>>)
  \o <<"fn", " ">> \o f.name \o (IF f.method = <<>> THEN <<>> ELSE <<".">> \o f.method[1])
  \o FmtTypeParams(f.generics) \o <<"(">> \o JoinedBy(FmtTyped, f.params) \o <<")">>
  \o <<" ", "-", ">", " ">> \o FmtType(f.ret)

\* With modifiers the opening brace has a line of its own.
FmtFn(pr, cs, f) ==
  LET Modifier(p, m) == WriteLine(p, FmtModifier(m))
      Body(p) == FmtBlock(WriteLine(p, <<"{">>), cs, f.body, f.end)
  IN IF f.modifiers = <<>> THEN FmtBraces(pr, cs, FnHeader(f), f.line, f.body, f.end)
     ELSE WriteNode(Body(FoldLeft(Modifier, WriteNode(pr, cs, FnHeader(f), f.line), f.modifiers)),
                    cs, <<"}">>, f.end)

\* The fields of a struct and the variants of an enum: one line each.
FmtMembers(pr, cs, header, line, members, Text(_), endLine) ==
  LET open == WriteNode(pr, cs, header \o <<" ", "{">>, line)
      Member(p, j) ==
        WriteNode(EmitCommentsBefore(p, cs, members[j].line), cs,
                  Text(members[j]) \o (IF j < Len(members) THEN <<",">> ELSE <<>>),
                  members[j].line)
      all == FoldLeft(Member, open, [j \in DOMAIN members |-> j])
  IN WriteNode(EmitCommentsBefore(all, cs, endLine), cs, <<"}">>, endLine)

FmtStruct(pr, cs, s) ==
  FmtMembers(pr, cs, (IF s.isPrivate THEN <<"private", " ">> ELSE <<>>) \o <<"struct", " ">>
                     \o s.name \o FmtTypeParams(s.generics), s.line, s.fields, FmtTyped, s.end)

FmtEnum(pr, cs, e) ==
  FmtMembers(pr, cs, <<"enum", " ">> \o e.name, e.line, e.variants, LAMBDA v : v.name, e.end)

FmtItem(pr, cs, item) ==
  CASE item.k = "Import" -> WriteLine(pr, <<"import", " ">> \o Quoted(item.path))
    [] item.k = "Struct" -> FmtStruct(pr, cs, item)
    [] item.k = "Enum" -> FmtEnum(pr, cs, item)
    [] item.k = "Fn" -> FmtFn(pr, cs, item)

\* The items, with an empty line before each but the first, then the comments left.
FormatProgram(items, cs) ==
  LET Blank(p, j) == IF j = 1 THEN p ELSE WriteLine(p, <<>>)
      One(p, j) == FmtItem(Blank(EmitCommentsBefore(p, cs, items[j].line), j), cs, items[j])
  IN FlushRemainingComments(FoldLeft(One, Printer(<<>>, 1), [j \in DOMAIN items |-> j]), cs).out
============================================================================
