------------------------------- MODULE Parser ------------------------------
(***************************************************************************)
(* The recursive-descent parser of Oberih (parser/mod.rs).  A parse from   *)
(* token i gives [ok |-> TRUE, v |-> tree, i |-> next token], or ok =      *)
(* FALSE with the token where it stopped.  A tree (parser/ast.rs) is a     *)
(* record with its kind in k and the line of its span; an Option is a      *)
(* sequence of at most one element.                                        *)
(*                                                                         *)
(* A function of the parser that only expects tokens and parts one after   *)
(* the other is a form: a sequence of elements that Fill reads in order,   *)
(* each part going to a field of the tree.                                 *)
(***************************************************************************)
EXTENDS Lexer, SequencesExt

Good(v, i) == [ok |-> TRUE, v |-> v, i |-> i]
Bad(i) == [ok |-> FALSE, i |-> i]

\* The elements of a form.
Tk(t) == [e |-> "token", t |-> t]                    \* expect
Id(f) == [e |-> "ident", f |-> f]                    \* expect_ident
Named(word) == [e |-> "named", word |-> word]        \* expect_named, before its ":"
Of(f, part) == [e |-> "part", f |-> f, part |-> part]
Opt(f, t, part) == [e |-> "option", f |-> f, t |-> t, part |-> part]
Line(f) == [e |-> "line", f |-> f]
\* Parts up to a closing token: with Many a comma after each may be left out, with
\* Listed the first one left out ends the list.
Many(f, part, close) == [e |-> "many", f |-> f, part |-> part, close |-> close]
Listed(f, part, close) == [e |-> "listed", f |-> f, part |-> part, close |-> close]

----------------------------------------------------------------------------
\* Declarations.
ImportForm == <<Tk("import"), Of("path", "string")>>

StructForm == <<Tk("struct"), Id("name"), Of("generics", "generics"), Tk("{"),
                Many("fields", "field", "}"), Line("end"), Tk("}")>>
FieldForm == <<Id("name"), Tk(":"), Of("ty", "type")>>

EnumForm == <<Tk("enum"), Id("name"), Tk("{"),
              Many("variants", "variant", "}"), Line("end"), Tk("}")>>
VariantForm == <<Id("name")>>

FnHead == <<Id("name"), Opt("method", ".", "ident")>>
FnRest == <<Of("generics", "generics"), Tk("("), Many("params", "field", ")"), Tk(")"),
            Opt("ret", "->", "type"), Of("modifiers", "modifiers"),
            Tk("{"), Of("body", "block"), Line("end"), Tk("}")>>

\* Types.
FnTypeForm == <<Tk("("), Listed("params", "type", ")"), Tk(")"), Opt("ret", "->", "type")>>
GenericForm == <<Tk("<"), Many("args", "type", ">"), Tk(">")>>

\* Statements.
LetForm == <<Tk("let"), Id("name"), Opt("ty", ":", "type"), Tk("="), Of("value", "expr")>>
ReturnForm == <<Tk("return"), Of("value", "expr")>>
IfForm == <<Tk("if"), Tk("("), Of("cond", "expr"), Tk(")"), Tk("{"), Of("then", "block"),
            Line("thenEnd"), Tk("}"), Opt("otherwise", "else", "braces")>>
WhileForm == <<Tk("while"), Tk("("), Of("cond", "expr"), Tk(")"), Tk("{"),
               Of("body", "block"), Line("end"), Tk("}")>>
ForForm == <<Tk("for"), Tk("("), Id("var"), Tk("in"), Of("iter", "expr"), Tk(")"), Tk("{"),
             Of("body", "block"), Line("end"), Tk("}")>>
BracesForm == <<Tk("{"), Of("body", "block"), Line("end"), Tk("}")>>

\* Expressions.
ParenForm == <<Tk("("), Of("value", "expr"), Tk(")")>>
SpawnForm == <<Tk("spawn"), Id("name"), Tk("("), Many("args", "expr", ")"), Tk(")")>>
ArgsForm == <<Tk("("), Many("args", "expr", ")"), Tk(")")>>
IndexForm == <<Tk("["), Of("index", "expr"), Tk("]")>>
ListForm == <<Tk("["), Many("elems", "expr", "]"), Tk("]")>>
MapForm == <<Tk("{"), Many("entries", "entry", "}"), Tk("}")>>
EntryForm == <<Of("key", "expr"), Tk(":"), Of("value", "expr")>>
MatchForm == <<Tk("match"), Of("scrutinee", "expr"), Tk("{"), Many("arms", "arm", "}"), Tk("}")>>
ArmForm == <<Of("pattern", "pattern"), Tk("=>"), Of("body", "arm body")>>
IfExprForm == <<Tk("if"), Tk("("), Of("cond", "expr"), Tk(")"), Of("then", "braces"),
                Opt("otherwise", "else", "braces")>>
LambdaHead == <<Tk("fn"), Tk("("), Listed("params", "lambda param", ")"), Tk(")"),
                Opt("ret", "->", "type")>>
BindForm == <<Tk("("), Id("bind"), Tk(")")>>

\* The modifiers that take arguments, by name.
ModifierForms ==
  [m \in {"deadline", "timeout", "retryBudget", "retries", "fallback", "emergencyFallback",
          "circuitBreaker", "idempotent", "cache", "rateLimit", "bulkhead", "hedging", "budget"} |->
     CASE m \in {"deadline", "timeout"} -> <<Of("time", "duration")>>
       [] m \in {"retryBudget", "retries"} -> <<Of("count", "u32")>>
       [] m \in {"fallback", "emergencyFallback"} -> <<Of("value", "expr")>>
       [] m = "circuitBreaker" -> <<Named("failThreshold"), Tk(":"), Of("count", "u32"), Tk(","),
                                    Named("cooldown"), Tk(":"), Of("time", "duration")>>
       [] m = "idempotent" -> <<Named("key"), Tk(":"), Of("value", "expr")>>
       [] m = "cache" -> <<Named("ttl"), Tk(":"), Of("time", "duration")>>
       [] m = "rateLimit" -> <<Of("count", "u32"), Tk(","), Named("per"), Tk(":"),
                               Of("time", "duration")>>
       [] m = "bulkhead" -> <<Named("maxConcurrent"), Tk(":"), Of("count", "u32")>>
       [] m = "hedging" -> <<Named("after"), Tk(":"), Of("time", "duration")>>
       [] m = "budget" -> <<Many("parts", "budget part", ")")>>]
PlainModifiers == {"durable", "traced"}
BudgetPartForm == <<Id("name"), Tk(":"), Of("amount", "number")>>
Units == {"ms", "s", "m"}

----------------------------------------------------------------------------
\* The binary operators from the loosest level to the tightest.
Levels == <<{"||"}, {"&&"}, {"==", "!=", "<", ">", "<=", ">="}, {"|"}, {"^"}, {"&"},
            {"<<", ">>"}, {"+", "-"}, {"*", "/"}>>

\* Two > that touch are one operator in an expression.
IsShr(ts, i) == /\ ts[i].t = ">" /\ i < Len(ts) /\ ts[i + 1].t = ">"
                /\ ts[i + 1].pos = ts[i].pos + 1

OpAt(ts, i) == IF IsShr(ts, i) THEN ">>" ELSE ts[i].t

\* Any node begins with its kind and the line of its first token.
Node(k, ts, i) == [k |-> k, line |-> ts[i].line]

\* block_to_expr: the value of a block is its last return or expression, whatever
\* the other statements of the block are.
BlockToExpr(block, line) ==
  LET Valued == {j \in DOMAIN block : block[j].k \in {"Return", "Expr"}}
  IN IF Valued = {} THEN [k |-> "Bool", b |-> FALSE, line |-> line]
     ELSE block[Max(Valued)].value
----------------------------------------------------------------------------
After(r, F(_)) == IF r.ok THEN Good(F(r.v), r.i) ELSE r

RECURSIVE Fill(_, _, _, _), Parts(_, _, _, _), Part(_, _, _), Binary(_, _, _),
          BinaryRest(_, _, _, _, _), Unary(_, _), TryRest(_, _, _, _), PostfixRest(_, _, _)

\* expect, expect_ident, eat and check, as the elements of a form use them.
Fill(form, ts, i, node) ==
  IF form = <<>> THEN Good(node, i)
  ELSE LET it == Head(form)
           Next(j, fields) == Fill(Tail(form), ts, j, fields @@ node)
           With(r) == IF r.ok THEN Next(r.i, it.f :> r.v) ELSE r
       IN CASE it.e = "token" -> IF ts[i].t = it.t THEN Next(i + 1, <<>>) ELSE Bad(i)
            [] it.e = "ident" -> With(Part("ident", ts, i))
            [] it.e = "named" -> IF ts[i].t = "ident" /\ ts[i].name = <<it.word>>
                                 THEN Next(i + 1, <<>>) ELSE Bad(i)
            [] it.e = "part" -> With(Part(it.part, ts, i))
            [] it.e = "option" ->
                 IF ts[i].t # it.t THEN Next(i, it.f :> <<>>)
                 ELSE With(After(Part(it.part, ts, i + 1), LAMBDA v : <<v>>))
            [] it.e = "line" -> Next(i, it.f :> ts[i].line)
            [] it.e \in {"many", "listed"} -> With(Parts(it, ts, i, <<>>))

\* The parts of a list, its elements separated by commas.
Parts(it, ts, i, parts) ==
  IF ts[i].t = it.close THEN Good(parts, i)
  ELSE LET r == Part(it.part, ts, i)
           all == Append(parts, r.v)
       IN IF ~r.ok THEN r
          ELSE IF ts[r.i].t = "," THEN Parts(it, ts, r.i + 1, all)
          ELSE IF it.e = "listed" THEN Good(all, r.i) ELSE Parts(it, ts, r.i, all)

\* What a literal token says.
Literal(tok) == [f \in DOMAIN tok \ {"t", "line", "pos"} |-> tok[f]]

Ident(ts, i) == IF ts[i].t = "ident" THEN Good(ts[i].name, i + 1) ELSE Bad(i)

Generics(ts, i) ==
  IF ts[i].t # "<" THEN Good(<<>>, i)
  ELSE After(Fill(<<Tk("<"), Many("names", "ident", ">"), Tk(">")>>, ts, i, <<>>),
             LAMBDA r : r.names)

Type(ts, i) ==
  LET name == ts[i].name
  IN CASE ts[i].t # "ident" -> Bad(i)
       [] ts[i].t = "ident" /\ ts[i + 1].t = "(" /\ name = <<"Fn">> ->
            Fill(FnTypeForm, ts, i + 1, [k |-> "Func"])
       [] ts[i].t = "ident" /\ ts[i + 1].t = "<" ->
            Fill(GenericForm, ts, i + 1, [k |-> "Generic", name |-> name])
       [] OTHER -> Good([k |-> "Simple", name |-> name], i + 1)

\* expect_u32 keeps the whole part and clamps at 0; expect_number takes any number.
Number(ts, i) ==
  IF ts[i].t = "num" THEN Good(Literal(ts[i]), i + 1) ELSE Bad(i)
U32(ts, i) == After(Number(ts, i), LAMBDA v : Max({0, v.sign * v.n}))
Duration(ts, i) ==
  LET unit == Ident(ts, i + 1)
  IN CASE ts[i].t # "num" -> Bad(i)
       [] ts[i].t = "num" /\ unit.ok /\ unit.v \in {<<u>> : u \in Units} ->
            Good([value |-> Number(ts, i).v, unit |-> unit.v], i + 2)
       [] OTHER -> Bad(i + 1)

IsModifier(ts, i) ==
  ts[i].t = "ident" /\ ts[i].name \in {<<m>> : m \in DOMAIN ModifierForms \cup PlainModifiers}

\* A budget keeps the last amount of tokens and the last cost it names.
LastAmount(parts, name) ==
  LET named == SelectSeq(parts, LAMBDA p : p.name = <<name>>)
  IN IF named = <<>> THEN <<>> ELSE <<Last(named).amount>>
WithAmounts(m) ==
  IF m.k # "budget" THEN m
  ELSE [k |-> "budget", tokens |-> LastAmount(m.parts, "tokens"),
        cost |-> LastAmount(m.parts, "cost")]

RECURSIVE Modifiers(_, _, _)
Modifiers(ts, i, mods) ==
  IF ~IsModifier(ts, i) THEN Good(mods, i)
  ELSE LET name == ts[i].name[1]
           r == IF name \in PlainModifiers THEN Good([k |-> name], i + 1)
                ELSE Fill(<<Tk("(")>> \o ModifierForms[name] \o <<Tk(")")>>, ts, i + 1,
                          [k |-> name])
       IN IF r.ok THEN Modifiers(ts, r.i, Append(mods, WithAmounts(r.v))) ELSE r

Pattern(ts, i) ==
  LET tok == ts[i]
  IN CASE tok.t \in {"num", "str", "bool"} ->
            Good(Literal(tok) @@ [k |-> "Literal"], i + 1)
       [] tok.t = "ident" /\ tok.name = <<"_">> -> Good([k |-> "Wildcard"], i + 1)
       [] tok.t \in {"Ok", "Err"} -> Fill(BindForm, ts, i + 1, [k |-> "Ctor", name |-> <<tok.t>>])
       [] tok.t = "ident" /\ tok.name # <<"_">> ->
            IF ts[i + 1].t = "(" THEN Fill(BindForm, ts, i + 1, [k |-> "Ctor", name |-> tok.name])
            ELSE Good([k |-> "Variant", name |-> tok.name], i + 1)
       [] OTHER -> Bad(i)

----------------------------------------------------------------------------
\* Statements.
RECURSIVE Block(_, _, _)
Block(ts, i, stmts) ==
  IF ts[i].t \in {"}", "eof"} THEN Good(stmts, i)
  ELSE LET r == Part("stmt", ts, i)
       IN IF r.ok THEN Block(ts, r.i, Append(stmts, r.v)) ELSE r

ExprOrAssign(ts, i) ==
  LET target == Part("expr", ts, i)
  IN IF target.ok /\ ts[target.i].t = "="
     THEN Fill(<<Tk("="), Of("value", "expr")>>, ts, target.i,
               Node("Assign", ts, i) @@ [target |-> target.v])
     ELSE After(target, LAMBDA e : [k |-> "Expr", value |-> e, line |-> e.line])

StatementForms == [let |-> LetForm, return |-> ReturnForm, if |-> IfForm,
                   while |-> WhileForm, for |-> ForForm]
StatementKinds == [let |-> "Let", return |-> "Return", if |-> "If",
                   while |-> "While", for |-> "For"]

Stmt(ts, i) ==
  LET t == ts[i].t
  IN IF t \in DOMAIN StatementForms
     THEN Fill(StatementForms[t], ts, i, Node(StatementKinds[t], ts, i))
     ELSE ExprOrAssign(ts, i)

----------------------------------------------------------------------------
\* Expressions: each level is left-associative over operands of the next one.
Binary(level, ts, i) ==
  IF level > Len(Levels) THEN Unary(ts, i)
  ELSE LET left == Binary(level + 1, ts, i)
       IN IF left.ok THEN BinaryRest(level, ts, left.i, left.v, ts[i].line) ELSE left

BinaryRest(level, ts, i, left, line) ==
  LET op == OpAt(ts, i)
      right == Binary(level + 1, ts, IF op = ">>" THEN i + 2 ELSE i + 1)
  IN IF op \notin Levels[level] THEN Good(left, i)
     ELSE IF ~right.ok THEN right
     ELSE BinaryRest(level, ts, right.i,
                     [k |-> "BinOp", op |-> op, left |-> left, right |-> right.v,
                      line |-> line], line)

Unary(ts, i) ==
  IF ts[i].t \in {"!", "-", "~"}
  THEN After(Unary(ts, i + 1), LAMBDA e : Node("Unary", ts, i) @@ [op |-> ts[i].t, expr |-> e])
  ELSE LET primary == Part("primary", ts, i)
           postfix == PostfixRest(ts, primary.i, primary.v)
       IN IF ~primary.ok THEN primary
          ELSE IF ~postfix.ok THEN postfix ELSE TryRest(ts, postfix.i, postfix.v, ts[i].line)

TryRest(ts, i, expr, line) ==
  IF ts[i].t = "?"
  THEN TryRest(ts, i + 1, [k |-> "Try", expr |-> expr, line |-> line], line)
  ELSE Good(expr, i)

PostfixRest(ts, i, expr) ==
  LET field == Ident(ts, i + 1)
      r == CASE ts[i].t = "(" -> Fill(ArgsForm, ts, i, Node("Call", ts, i) @@ [callee |-> expr])
             [] ts[i].t = "[" -> Fill(IndexForm, ts, i, Node("Index", ts, i) @@ [object |-> expr])
             [] ts[i].t = "." /\ field.ok /\ ts[i + 2].t = "(" ->
                  Fill(ArgsForm, ts, i + 2, Node("MethodCall", ts, i) @@
                                            [object |-> expr, method |-> field.v])
             [] ts[i].t = "." /\ field.ok /\ ts[i + 2].t # "(" ->
                  Good(Node("Field", ts, i) @@ [object |-> expr, field |-> field.v], i + 2)
             [] OTHER -> field
  IN IF ts[i].t \notin {"(", "[", "."} THEN Good(expr, i)
     ELSE IF r.ok THEN PostfixRest(ts, r.i, r.v) ELSE r

\* A lambda ends in => and an expression, and then has no result type, or in a block.
LambdaBody(ts, head) ==
  LET WithBody(r) == After(r, LAMBDA body : head.v @@ [body |-> body])
  IN IF ts[head.i].t # "=>"
     THEN WithBody(After(Part("braces", ts, head.i), LAMBDA b : [k |-> "Block", stmts |-> b.body]))
     ELSE IF head.v.ret # <<>> THEN Bad(head.i + 1)
     ELSE WithBody(After(Part("expr", ts, head.i + 1), LAMBDA e : [k |-> "Value", value |-> e]))

\* An if in an expression is a match on true, its missing else the value false.
IfExpr(ts, i) ==
  LET line == ts[i].line
      Arm(pattern, body) == [k |-> "Arm", line |-> line, pattern |-> pattern, body |-> body]
      Else(r) == IF r.otherwise = <<>> THEN [k |-> "Bool", b |-> FALSE, line |-> line]
                 ELSE BlockToExpr(r.otherwise[1].body, line)
  IN After(Fill(IfExprForm, ts, i, <<>>), LAMBDA r :
       [k |-> "Match", line |-> line, scrutinee |-> r.cond,
        arms |-> <<Arm([k |-> "Literal", b |-> TRUE], BlockToExpr(r.then.body, line)),
                   Arm([k |-> "Wildcard"], Else(r))>>])

\* The body of a match arm: { always opens a block.
ArmBody(ts, i) ==
  IF ts[i].t = "{"
  THEN After(Part("braces", ts, i), LAMBDA b : BlockToExpr(b.body, ts[i].line))
  ELSE Part("expr", ts, i)

Atoms == [num |-> "Number", str |-> "String", bool |-> "Bool", ident |-> "Ident"]

Primary(ts, i) ==
  LET t == ts[i].t
  IN CASE t \in DOMAIN Atoms -> Good(Node(Atoms[t], ts, i) @@ Literal(ts[i]), i + 1)
       [] t \in {"Ok", "Err"} ->
            Fill(ParenForm, ts, i + 1, Node("Result", ts, i) @@ [variant |-> t])
       [] t = "spawn" -> Fill(SpawnForm, ts, i, Node("Spawn", ts, i))
       [] t = "match" -> Fill(MatchForm, ts, i, Node("Match", ts, i))
       [] t = "if" -> IfExpr(ts, i)
       [] t = "fn" -> LET head == Fill(LambdaHead, ts, i, Node("Lambda", ts, i))
                      IN IF head.ok THEN LambdaBody(ts, head) ELSE head
       [] t = "(" -> After(Fill(ParenForm, ts, i, <<>>), LAMBDA r : r.value)
       [] t = "[" -> Fill(ListForm, ts, i, Node("List", ts, i))
       [] t = "{" -> Fill(MapForm, ts, i, Node("Map", ts, i))
       [] OTHER -> Bad(i)

----------------------------------------------------------------------------
\* Declarations: i is after fn, resilient and private.
FnDecl(ts, i, isPrivate, isResilient) ==
  LET head == Fill(FnHead, ts, i, Node("Fn", ts, i) @@
                                  [isPrivate |-> isPrivate, isResilient |-> isResilient])
      Nil == [k |-> "Simple", name |-> <<"Nil">>]
      WithResult(f) == [f EXCEPT !.ret = IF f.ret = <<>> THEN Nil ELSE f.ret[1]]
  IN IF head.ok THEN After(Fill(FnRest, ts, head.i, head.v), WithResult) ELSE head

StructDecl(ts, i, isPrivate) ==
  Fill(StructForm, ts, i, Node("Struct", ts, i) @@ [isPrivate |-> isPrivate])

Item(ts, i) ==
  LET t == ts[i].t
  IN CASE t = "import" -> Fill(ImportForm, ts, i, Node("Import", ts, i))
       [] t = "struct" -> StructDecl(ts, i, FALSE)
       [] t = "enum" -> Fill(EnumForm, ts, i, Node("Enum", ts, i))
       [] t = "private" /\ ts[i + 1].t = "struct" -> StructDecl(ts, i + 1, TRUE)
       [] t = "private" /\ ts[i + 1].t = "fn" -> FnDecl(ts, i + 2, TRUE, FALSE)
       [] t = "resilient" /\ ts[i + 1].t = "fn" -> FnDecl(ts, i + 2, FALSE, TRUE)
       [] t = "fn" -> FnDecl(ts, i + 1, FALSE, FALSE)
       [] OTHER -> Bad(i)

RECURSIVE Items(_, _, _)
Items(ts, i, items) ==
  IF ts[i].t = "eof" THEN Good(items, i)
  ELSE LET r == Item(ts, i)
       IN IF r.ok THEN Items(ts, r.i, Append(items, r.v)) ELSE r

ParseProgram(ts) == Part("items", ts, 1)

----------------------------------------------------------------------------
\* The parts of a form, by name.
Part(part, ts, i) ==
  CASE part = "items" -> Items(ts, i, <<>>)
    [] part = "expr" -> Binary(1, ts, i)
    [] part = "primary" -> Primary(ts, i)
    [] part = "arm body" -> ArmBody(ts, i)
    [] part = "stmt" -> Stmt(ts, i)
    [] part = "block" -> Block(ts, i, <<>>)
    [] part = "braces" -> Fill(BracesForm, ts, i, <<>>)
    [] part = "ident" -> Ident(ts, i)
    [] part = "string" -> IF ts[i].t = "str" THEN Good(ts[i].s, i + 1) ELSE Bad(i)
    [] part = "number" -> Number(ts, i)
    [] part = "u32" -> U32(ts, i)
    [] part = "duration" -> Duration(ts, i)
    [] part = "type" -> Type(ts, i)
    [] part = "generics" -> Generics(ts, i)
    [] part = "modifiers" -> Modifiers(ts, i, <<>>)
    [] part = "pattern" -> Pattern(ts, i)
    [] part = "arm" -> Fill(ArmForm, ts, i, Node("Arm", ts, i))
    [] part = "entry" -> Fill(EntryForm, ts, i, <<>>)
    [] part = "field" -> Fill(FieldForm, ts, i, Node("Field", ts, i))
    [] part = "variant" -> Fill(VariantForm, ts, i, Node("Variant", ts, i))
    [] part = "budget part" -> Fill(BudgetPartForm, ts, i, <<>>)
    [] part = "lambda param" -> Fill(<<Id("name"), Opt("ty", ":", "type")>>, ts, i, <<>>)
============================================================================
