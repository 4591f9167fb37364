------------------------------- MODULE Meaning ------------------------------
(***************************************************************************)
(* What a program of Oberih means: an evaluator over its trees, without    *)
(* instructions, slots or an operand stack.  It is the specification the   *)
(* compiler and the virtual machine are compared with.  A name belongs to  *)
(* the block that binds it, a lambda keeps the values its names have where *)
(* it is made, and ? on an Err returns from the function it stands in.     *)
(*                                                                         *)
(* A state s has the variables in scope, innermost last, and the heap of   *)
(* Values.  An evaluation ends with a value, with a return from the        *)
(* function, stuck, or at a name that nothing in scope binds.              *)
(***************************************************************************)
EXTENDS Compiler, Values

Value(x, s) == [how |-> "value", x |-> x, s |-> s]
Returning(x, s) == [how |-> "return", x |-> x, s |-> s]
Stuck == [how |-> "stuck"]
Unbound == [how |-> "unbound"]
Ended(r) == r.how \in {"stuck", "unbound"}
Then(r, F(_, _)) == IF r.how = "value" THEN F(r.x, r.s) ELSE r

\* The result of a computation of Values, for the variables of s.
Lift(r, s) == IF r.ok THEN Value(r.value, [s EXCEPT !.heap = r.heap]) ELSE Stuck

Bind(s, name, x) == [s EXCEPT !.vars = Append(@, [name |-> name, x |-> x])]
BindAll(s, names, xs) ==
  [s EXCEPT !.vars = @ \o [j \in DOMAIN names |-> [name |-> names[j], x |-> ArgAt(xs, j)]]]
VarIndex(s, name) == SelectLastInSeq(s.vars, LAMBDA var : var.name = name)

\* A block leaves the variables it found, with the values it gave them.
Scoped(r, outer) ==
  IF Ended(r) THEN r ELSE [r EXCEPT !.s.vars = SubSeq(@, 1, Len(outer.vars))]

RECURSIVE Eval(_, _, _)

\* The call of a function value, an evaluation of its own.
Apply(f, xs, s, p) == Eval([k |-> "Apply", f |-> f, xs |-> xs], s, p)

EvalAll(es, s, p) ==
  FoldLeft(LAMBDA acc, e : Then(acc, LAMBDA xs, t : Then(Eval(e, t, p),
                                  LAMBDA x, u : Value(Append(xs, x), u))),
           Value(<<>>, s), es)
ExecAll(stmts, s, p) ==
  Scoped(FoldLeft(LAMBDA acc, stmt : Then(acc, LAMBDA x, t : Eval(stmt, t, p)),
                  Value(Nil, s), stmts), s)

Lambda(params, body, vars) == [v |-> "Lambda", params |-> params, body |-> body, vars |-> vars]
IsFunction(x) == Callable(x) \/ x.v = "Lambda"

----------------------------------------------------------------------------
\* Calls: the body of a function runs with its own variables and the caller's heap.
BackIn(s, r) == IF Ended(r) THEN r ELSE Value(r.x, [s EXCEPT !.heap = r.s.heap])
CallBody(names, xs, body, vars, s, p) ==
  LET inner == BindAll([s EXCEPT !.vars = vars], names, xs)
  IN BackIn(s, IF body.k = "Value" THEN Eval(body.value, inner, p)
               ELSE Then(ExecAll(body.stmts, inner, p), LAMBDA x, t : Value(Nil, t)))

CallDecl(f, xs, s, p) == CallBody(Names(f.params), xs, [k |-> "Block", stmts |-> f.body], <<>>, s, p)
FnDeclOf(p, name) == SelectInSeq(p.fns, LAMBDA f : FnName(f) = name)

\* The higher-order built-ins, as the functions on lists they are.
HigherOrderCall(op, xs, s, p) ==
  LET list == Elems(xs[1], s.heap)
      Ask(acc, x, F(_, _)) == Then(acc, LAMBDA out, t : Then(Apply(xs[2], <<x>>, t, p),
                                                             LAMBDA y, u : Value(F(out, y), u)))
      Each(F(_, _, _), init) ==
        FoldLeft(LAMBDA acc, x : Ask(acc, x, LAMBDA out, y : F(out, x, y)), Value(init, s), list)
      Until(stop, F(_)) ==      \* nothing is asked after the first answer that decides
        FoldLeft(LAMBDA acc, x : IF acc.how = "value" /\ acc.x # stop THEN acc
                                 ELSE Ask(acc, x, LAMBDA out, y : IF IsTruthy(y) THEN F(x) ELSE stop),
                 Value(stop, s), list)
      All == FoldLeft(LAMBDA acc, x : IF acc.how = "value" /\ acc.x # Bool(TRUE) THEN acc
                                      ELSE Ask(acc, x, LAMBDA out, y : Bool(IsTruthy(y))),
                      Value(Bool(TRUE), s), list)
      Fold(from, init) ==
        FoldLeft(LAMBDA acc, x : Then(acc, LAMBDA out, t : Apply(xs[2], <<out, x>>, t, p)),
                 Value(init, s), from)
      ToList(r) == Then(r, LAMBDA out, t : Lift(NewList(out, t.heap), t))
  IN CASE xs[1].v # "List" \/ ~IsFunction(ArgAt(xs, 2)) -> Stuck
       [] xs[1].v = "List" /\ op = "map" -> ToList(Each(LAMBDA out, x, y : Append(out, y), <<>>))
       [] xs[1].v = "List" /\ op = "filter" ->
            ToList(Each(LAMBDA out, x, y : IF IsTruthy(y) THEN Append(out, x) ELSE out, <<>>))
       [] xs[1].v = "List" /\ op = "each" -> Each(LAMBDA out, x, y : Nil, Nil)
       [] xs[1].v = "List" /\ op = "any" -> Until(Bool(FALSE), LAMBDA x : Bool(TRUE))
       [] xs[1].v = "List" /\ op = "find" -> Until(Nil, LAMBDA x : x)
       [] xs[1].v = "List" /\ op = "all" -> All
       [] xs[1].v = "List" /\ op = "sortBy" ->
            Then(Each(LAMBDA out, x, y : Append(out, y), <<>>), LAMBDA keys, t :
                 IF Comparable(keys) THEN Lift(NewList(SortByKeys(list, keys), t.heap), t) ELSE Stuck)
       [] xs[1].v = "List" /\ op = "reduce" ->
            IF Len(xs) > 2 THEN Fold(list, xs[3])
            ELSE IF list = <<>> THEN Stuck ELSE Fold(Tail(list), Head(list))

CallFunction(f, xs, s, p) ==
  CASE f.v = "Lambda" -> CallBody(f.params, xs, f.body, f.vars, s, p)
    [] f.v = "Fn" -> CallDecl(p.fns[FnDeclOf(p, f.name)], xs, s, p)
    [] f.v = "Builtin" -> IF f.name[1] \in HigherOrder THEN HigherOrderCall(f.name[1], xs, s, p)
                          ELSE Lift(CallBuiltin(f.name[1], xs, s.heap), s)
    [] OTHER -> Stuck

----------------------------------------------------------------------------
\* Expressions.
NameValue(name, s, p) ==
  CASE VarIndex(s, name) # 0 -> Value(s.vars[VarIndex(s, name)].x, s)
    [] VarIndex(s, name) = 0 /\ FnDeclOf(p, name) # 0 -> Value(Fn(name), s)
    [] VarIndex(s, name) = 0 /\ FnDeclOf(p, name) = 0 /\ IsBuiltin(name) -> Value(Builtin(name), s)
    [] OTHER -> Unbound

EvalCall(e, s, p) ==
  LET name == e.callee.name
      fields == p.structs[name]
      Construct(xs, t) ==
        Lift(Allocated("Struct", StructObject(name, [f \in ToSet(fields) |->
               xs[SelectLastInSeq(fields, LAMBDA g : g = f)]]), t.heap), t)
  IN IF e.callee.k = "Ident" /\ name \in DOMAIN p.structs
     THEN Then(EvalAll(e.args, s, p), Construct)
     ELSE Then(EvalAll(<<e.callee>> \o e.args, s, p),
               LAMBDA xs, t : Apply(Head(xs), Tail(xs), t, p))

EvalMethod(e, s, p) ==
  LET Send(object, xs, t) ==
        LET f == FnDeclOf(p, t.heap[object.at].type \o <<".">> \o e.method)
            held == LookUp(Entries(object, t.heap), Str(e.method), Nil)
        IN CASE object.v = "Struct" -> IF f = 0 THEN Stuck
                                       ELSE CallDecl(p.fns[f], <<object>> \o xs, t, p)
             [] object.v = "Map" /\ e.method[1] \notin MapMethods -> Apply(held, xs, t, p)
             [] OTHER -> Lift(NativeMethod(object, e.method[1], xs, t.heap), t)
  IN Then(EvalAll(<<e.object>> \o e.args, s, p), LAMBDA xs, t : Send(Head(xs), Tail(xs), t))

\* The first arm whose pattern fits; nil when there is none.
Fits(pattern, x) ==
  CASE pattern.k = "Wildcard" -> TRUE
    [] pattern.k = "Literal" -> \/ "n" \in DOMAIN pattern /\ x = Num(pattern.sign * pattern.n)
                                \/ "s" \in DOMAIN pattern /\ x = Str(pattern.s)
                                \/ "b" \in DOMAIN pattern /\ x = Bool(pattern.b)
    [] pattern.k \in {"Ctor", "Variant"} -> \/ x.v \in {"Ok", "Err"} /\ <<x.v>> = pattern.name
                                            \/ x.v = "Enum" /\ x.variant = pattern.name

EvalMatch(e, s, p) ==
  LET Choose(x, t) ==
        LET j == SelectInSeq(e.arms, LAMBDA arm : Fits(arm.pattern, x))
            arm == e.arms[j]
            inner == IF arm.pattern.k # "Ctor" THEN t
                     ELSE Bind(t, arm.pattern.bind, IF x.v \in {"Ok", "Err"} THEN x.of ELSE x)
        IN IF j = 0 THEN Value(Nil, t) ELSE Scoped(Eval(arm.body, inner, p), t)
  IN Then(Eval(e.scrutinee, s, p), Choose)

EvalField(e, s, p) ==
  LET name == e.object.name
  IN IF e.object.k = "Ident" /\ VarIndex(s, name) = 0 /\ name \in DOMAIN p.enums
     THEN Value(EnumVal(name, e.field), s)
     ELSE Then(Eval(e.object, s, p), LAMBDA x, t : Lift(GetField(x, e.field, t.heap), t))

EvalMap(e, s, p) ==
  LET Build(xs, t) ==
        LET n == Len(e.entries)
            Put(entries, j) == Insert(entries, xs[2 * j - 1], xs[2 * j])
        IN IF \A j \in 1..n : IsKey(xs[2 * j - 1])
           THEN Lift(Allocated("Map", MapObject(FoldLeft(Put, <<>>, [j \in 1..n |-> j])), t.heap), t)
           ELSE Stuck
  IN Then(EvalAll(Children(e), s, p), Build)

EvalTry(x, t) == CASE x.v = "Ok" -> Value(x.of, t)
                   [] x.v = "Err" -> Returning(x, t)
                   [] OTHER -> Value(x, t)

EvalExpr(e, s, p) ==
  CASE e.k = "Number" -> Value(Num(e.sign * e.n), s)
    [] e.k = "String" -> Value(Str(e.s), s)
    [] e.k = "Bool" -> Value(Bool(e.b), s)
    [] e.k = "Ident" -> NameValue(e.name, s, p)
    [] e.k = "Result" -> Then(Eval(e.value, s, p), LAMBDA x, t : Value(Result(e.variant, x), t))
    [] e.k = "BinOp" -> Then(EvalAll(<<e.left, e.right>>, s, p),
                             LAMBDA xs, t : Lift(BinaryOp(e.op, xs[1], xs[2], t.heap), t))
    [] e.k = "Unary" -> Then(Eval(e.expr, s, p), LAMBDA x, t : Lift(UnaryOp(e.op, x, t.heap), t))
    [] e.k = "Try" -> Then(Eval(e.expr, s, p), EvalTry)
    [] e.k = "Field" -> EvalField(e, s, p)
    [] e.k = "Index" -> Then(EvalAll(<<e.object, e.index>>, s, p),
                             LAMBDA xs, t : Lift(GetIndex(xs[1], xs[2], t.heap), t))
    [] e.k = "Call" -> EvalCall(e, s, p)
    [] e.k = "MethodCall" -> EvalMethod(e, s, p)
    [] e.k = "Match" -> EvalMatch(e, s, p)
    [] e.k = "List" -> Then(EvalAll(e.elems, s, p), LAMBDA xs, t : Lift(NewList(xs, t.heap), t))
    [] e.k = "Map" -> EvalMap(e, s, p)
    [] e.k = "Lambda" -> Value(Lambda(Names(e.params), e.body, s.vars), s)
    [] OTHER -> Stuck

----------------------------------------------------------------------------
\* Statements.
Assign(target, value, s, p) ==
  LET Set(xs, t, r) == IF r.ok THEN Value(Nil, [t EXCEPT !.heap = r.heap]) ELSE Stuck
      at == VarIndex(s, target.name)
  IN CASE target.k = "Ident" ->
            IF at = 0 THEN Unbound
            ELSE Then(Eval(value, s, p), LAMBDA x, t : Value(Nil, [t EXCEPT !.vars[at].x = x]))
       [] target.k = "Field" ->
            Then(EvalAll(<<target.object, value>>, s, p),
                 LAMBDA xs, t : Set(xs, t, SetField(xs[1], target.field, xs[2], t.heap)))
       [] target.k = "Index" ->
            Then(EvalAll(<<target.object, target.index, value>>, s, p),
                 LAMBDA xs, t : Set(xs, t, SetIndex(xs[1], xs[2], xs[3], t.heap)))

RECURSIVE While(_, _, _), ForFrom(_, _, _, _, _)
While(stmt, s, p) ==
  LET Turn(x, t) == IF ~IsTruthy(x) THEN Value(Nil, t)
                    ELSE Then(ExecAll(stmt.body, t, p), LAMBDA y, u : While(stmt, u, p))
  IN Then(Eval(stmt.cond, s, p), Turn)

ForFrom(stmt, list, j, s, p) ==
  LET elems == Elems(list, s.heap)
      turn == Scoped(ExecAll(stmt.body, Bind(s, stmt.var, elems[j]), p), s)
  IN IF j > Len(elems) THEN Value(Nil, s)
     ELSE Then(turn, LAMBDA x, t : ForFrom(stmt, list, j + 1, t, p))

If(stmt, s, p) ==
  LET Branch(x, t) == IF IsTruthy(x) THEN ExecAll(stmt.then, t, p)
                      ELSE IF stmt.otherwise = <<>> THEN Value(Nil, t)
                      ELSE ExecAll(stmt.otherwise[1].body, t, p)
  IN Then(Eval(stmt.cond, s, p), Branch)

Exec(stmt, s, p) ==
  CASE stmt.k = "Let" -> Then(Eval(stmt.value, s, p), LAMBDA x, t : Value(Nil, Bind(t, stmt.name, x)))
    [] stmt.k = "Return" -> Then(Eval(stmt.value, s, p), Returning)
    [] stmt.k = "Assign" -> Assign(stmt.target, stmt.value, s, p)
    [] stmt.k = "Expr" -> Eval(stmt.value, s, p)
    [] stmt.k = "If" -> If(stmt, s, p)
    [] stmt.k = "While" -> While(stmt, s, p)
    [] stmt.k = "For" -> Then(Eval(stmt.iter, s, p), LAMBDA x, t :
                              Then(Lift(Iterable(x, t.heap), t),
                                   LAMBDA list, u : ForFrom(stmt, list, 1, u, p)))

Eval(t, s, p) ==
  CASE t.k \in StmtKinds -> Exec(t, s, p)
    [] t.k = "Apply" -> CallFunction(t.f, t.xs, s, p)
    [] OTHER -> EvalExpr(t, s, p)

----------------------------------------------------------------------------
\* A value without its places in a heap; a function is only a function.
RECURSIVE Shown(_, _)
Shown(x, h) ==
  LET All(xs) == [j \in DOMAIN xs |-> Shown(xs[j], h)]
  IN CASE IsFunction(x) -> [v |-> "function"]
       [] x.v \in {"Ok", "Err"} -> Result(x.v, Shown(x.of, h))
       [] x.v = "List" -> [v |-> "List", elems |-> All(Elems(x, h))]
       [] x.v = "Map" -> [v |-> "Map", entries |-> [j \in DOMAIN Entries(x, h) |->
                                                      All(Entries(x, h)[j])]]
       [] x.v = "Struct" -> [v |-> "Struct", type |-> h[x.at].type,
                             fields |-> [f \in DOMAIN h[x.at].fields |-> Shown(h[x.at].fields[f], h)]]
       [] OTHER -> x

ShownEnd(r) ==
  CASE r.how = "unbound" -> [status |-> "unbound"]
    [] r.how = "stuck" -> [status |-> "failed"]
    [] OTHER -> [status |-> "done", result |-> Shown(r.x, r.s.heap)]

\* What the function of a name, called without arguments, gives.
MeaningOf(items, name) ==
  LET p == [fns |-> Kept(items, "Fn"),
            structs |-> Table(Kept(items, "Struct"), LAMBDA s : Names(s.fields)),
            enums |-> Table(Kept(items, "Enum"), LAMBDA e : Names(e.variants))]
  IN IF FnDeclOf(p, name) = 0 THEN [status |-> "unbound"]
     ELSE ShownEnd(CallDecl(p.fns[FnDeclOf(p, name)], <<>>, [vars |-> <<>>, heap |-> <<>>], p))
============================================================================
