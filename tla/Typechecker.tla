----------------------------- MODULE Typechecker ----------------------------
(***************************************************************************)
(* The typechecker of Oberih (typechecker.rs).  A checker g has the        *)
(* signatures and tables of the program, the errors reported so far, and   *)
(* what the type parameters of a variable of a generic struct stand for    *)
(* (vars), which is kept by the name of the variable alone.  Infer gives   *)
(* the type of an expression and the checker after it; an environment is a *)
(* function from names to types.                                           *)
(***************************************************************************)
EXTENDS Compiler

Simple(name) == [t |-> name]
NumberTy == Simple("Number")
StrTy == Simple("Str")
BoolTy == Simple("Bool")
Unknown == Simple("Unknown")
ListTy(of) == [t |-> "List", of |-> of]
MapTy(key, value) == [t |-> "Map", key |-> key, value |-> value]
ResultTy(good, bad) == [t |-> "Result", good |-> good, bad |-> bad]
StructTy(name) == [t |-> "Struct", name |-> name]
EnumTy(name) == [t |-> "Enum", name |-> name]
FnTy(params, ret) == [t |-> "Fn", params |-> params, ret |-> ret]
GenericTy(name) == [t |-> "Generic", name |-> name]

TypeParameters == {<<c>> : c \in {"A", "B", "E", "K", "T", "U", "V"}}
BasicTypes == [Number |-> NumberTy, String |-> StrTy, Bool |-> BoolTy, Nil |-> Simple("Nil"),
               Fn |-> FnTy(<<>>, Unknown)]

\* ty_from_ast: any other name is taken for a struct, that of an enum too.
RECURSIVE TyFromAst(_)
TyFromAst(type) ==
  LET Arg(j) == IF j <= Len(type.args) THEN TyFromAst(type.args[j]) ELSE Unknown
      TyOr(ret) == IF ret = <<>> THEN Unknown ELSE TyFromAst(ret[1])
  IN CASE type.k = "Func" -> FnTy([j \in DOMAIN type.params |-> TyFromAst(type.params[j])],
                                  TyOr(type.ret))
       [] type.k = "Simple" /\ type.name \in {<<b>> : b \in DOMAIN BasicTypes} ->
            BasicTypes[type.name[1]]
       [] type.k = "Simple" /\ type.name \in TypeParameters -> GenericTy(type.name)
       [] type.k = "Generic" /\ type.name = <<"Result">> -> ResultTy(Arg(1), Arg(2))
       [] type.k = "Generic" /\ type.name = <<"List">> -> ListTy(Arg(1))
       [] type.k = "Generic" /\ type.name = <<"Map">> -> MapTy(Arg(1), Arg(2))
       [] OTHER -> StructTy(type.name)

Declared(option) == IF option = <<>> THEN Unknown ELSE TyFromAst(option[1])

\* types_compatible: what is not known fits everything; parameters are contravariant.
BareFn == FnTy(<<>>, Unknown)
RECURSIVE Compatible(_, _)
Compatible(got, expected) ==
  \/ {got.t, expected.t} \cap {"Unknown", "Generic"} # {}
  \/ /\ got.t = expected.t
     /\ CASE got.t \in {"Struct", "Enum"} -> got.name = expected.name
          [] got.t = "List" -> Compatible(got.of, expected.of)
          [] got.t = "Map" -> /\ Compatible(got.key, expected.key)
                              /\ Compatible(got.value, expected.value)
          [] got.t = "Result" -> /\ Compatible(got.good, expected.good)
                                 /\ Compatible(got.bad, expected.bad)
          [] got.t = "Fn" -> \/ BareFn \in {got, expected}
                             \/ /\ Len(got.params) = Len(expected.params)
                                /\ \A j \in DOMAIN got.params :
                                     Compatible(expected.params[j], got.params[j])
                                /\ Compatible(got.ret, expected.ret)
          [] OTHER -> TRUE

----------------------------------------------------------------------------
Typed(ty, g) == [ty |-> ty, g |-> g]
ErrorIf(g, wrong, what) == IF wrong THEN [g EXCEPT !.errors = Append(@, what)] ELSE g
Define(env, name, ty) == (name :> ty) @@ env

RECURSIVE CheckTree(_, _, _, _)

\* The type of an expression and the checker after it.
Infer(e, env, g) == CheckTree(e, env, Unknown, g)

\* The statements of a function with a result type, in an environment a let extends.
CheckBlock(stmts, env, ret, g) ==
  FoldLeft(LAMBDA acc, s : CheckTree(s, acc.env, ret, acc.g), [env |-> env, g |-> g], stmts).g

\* The types of expressions, left to right.
InferAll(es, env, g) ==
  FoldLeft(LAMBDA acc, e : LET r == Infer(e, env, acc.g)
                           IN [tys |-> Append(acc.tys, r.ty), g |-> r.g],
           [tys |-> <<>>, g |-> g], es)

\* The operands of an operator are numbers unless unknown.
\* Mutant: a boolean passes for a number.
NumericOrBool(ty) == ty.t \in {"Number", "Bool", "Unknown"}

Numeric(ty) == ty.t \in {"Number", "Unknown"}

InferBinOp(e, env, g) ==
  LET l == Infer(e.left, env, g)
      r == Infer(e.right, env, l.g)
      kinds == {l.ty.t, r.ty.t}
      Numbers(ty) == Typed(ty, ErrorIf(r.g, kinds # {"Number"} /\ "Unknown" \notin kinds, "operand"))
  IN CASE e.op = "+" ->
            IF "Str" \in kinds THEN Typed(StrTy, r.g)
            ELSE IF "Unknown" \in kinds THEN Typed(Unknown, r.g)
            ELSE IF kinds = {"Number"} THEN Typed(NumberTy, r.g)
            ELSE Typed(Unknown, ErrorIf(r.g, TRUE, "operand"))
       [] e.op \in {"==", "!=", "&&", "||"} -> Typed(BoolTy, r.g)
       [] e.op \in {"<", ">", "<=", ">="} -> Numbers(BoolTy)
       [] OTHER -> Numbers(NumberTy)

InferUnary(e, env, g) ==
  LET r == Infer(e.expr, env, g)
  IN IF e.op = "!" THEN Typed(BoolTy, r.g)
     ELSE Typed(NumberTy, ErrorIf(r.g, ~Numeric(r.ty), "operand"))

InferTry(e, env, g) ==
  LET r == Infer(e.expr, env, g)
  IN CASE r.ty.t = "Result" -> Typed(r.ty.good, r.g)
       [] r.ty.t = "Unknown" -> r
       [] OTHER -> Typed(Unknown, ErrorIf(r.g, TRUE, "try"))

InferIdent(e, env, g) ==
  CASE e.name \in DOMAIN env -> Typed(env[e.name], g)
    [] e.name \notin DOMAIN env /\ e.name \in DOMAIN g.fns -> Typed(g.fns[e.name], g)
    [] e.name \notin DOMAIN env \cup DOMAIN g.fns /\ e.name \in DOMAIN g.structs ->
         Typed(StructTy(e.name), g)
    [] OTHER -> Typed(Unknown, g)

\* A field of type T of a generic struct has the type remembered for the variable.
StructField(e, ty, g) ==
  LET fields == g.structs[ty.name]
      field == fields[e.field]
      var == IF e.object.k = "Ident" THEN e.object.name ELSE <<>>
  IN IF ty.name \notin DOMAIN g.structs THEN Typed(Unknown, g)
     ELSE IF e.field \notin DOMAIN fields THEN Typed(Unknown, ErrorIf(g, TRUE, "field"))
     ELSE IF /\ field.t = "Generic" /\ var \in DOMAIN g.vars
             /\ field.name \in DOMAIN g.vars[var]
          THEN Typed(g.vars[var][field.name], g) ELSE Typed(field, g)

\* The text of a type has the word Number in it.
RECURSIVE MentionsNumber(_)
MentionsNumber(ty) ==
  CASE ty.t = "Number" -> TRUE
    [] ty.t = "List" -> MentionsNumber(ty.of)
    [] ty.t = "Map" -> MentionsNumber(ty.key) \/ MentionsNumber(ty.value)
    [] ty.t = "Result" -> MentionsNumber(ty.good) \/ MentionsNumber(ty.bad)
    [] ty.t = "Fn" -> \/ MentionsNumber(ty.ret)
                      \/ \E j \in DOMAIN ty.params : MentionsNumber(ty.params[j])
    [] OTHER -> FALSE

InferField(e, env, g) ==
  LET name == e.object.name
      object == Infer(e.object, env, g)
  IN IF e.object.k = "Ident" /\ name \notin DOMAIN env /\ name \in DOMAIN g.enums
     THEN Typed(EnumTy(name), ErrorIf(g, e.field \notin g.enums[name], "variant"))
     ELSE CASE object.ty.t = "Struct" -> StructField(e, object.ty, object.g)
            [] object.ty.t = "Map" ->
                 IF object.ty.key.t \in {"Str", "Unknown"} THEN Typed(object.ty.value, object.g)
                 ELSE Typed(Unknown, ErrorIf(object.g, TRUE, "field"))
            [] object.ty.t = "Unknown" -> Typed(Unknown, object.g)
            [] OTHER -> Typed(Unknown, ErrorIf(object.g, TRUE,
                                 IF MentionsNumber(object.ty) THEN "field of a number"
                                 ELSE "not a struct"))

\* builtin_ret_ty: the built-ins whose result depends on their argument.
BuiltinRetTy(name, tys) ==
  LET ty == IF tys = <<>> THEN Unknown ELSE tys[1]
      results == [keys |-> ListTy(ty.key), values |-> ListTy(ty.value),
              entries |-> ListTy(ListTy(Unknown)), mapHas |-> BoolTy, mapGet |-> ty.value,
              mapDelete |-> ty.value, mapSet |-> ty, mapMerge |-> ty, len |-> NumberTy]
  IN CASE name = <<"typeOf">> -> StrTy
       [] name # <<"typeOf">> /\ ty.t = "Map" /\ name[1] \in DOMAIN results -> results[name[1]]
       [] OTHER -> Unknown

\* The arguments of a constructor are counted but not looked at; the arguments beyond the
\* parameters of a function are not looked at either.
InferCall(e, env, g) ==
  LET name == e.callee.name
      named == e.callee.k = "Ident"
      args == InferAll(e.args, env, g)
      sig == g.fns[name]
      Pass(acc, j) ==
        LET r == Infer(e.args[j], env, acc)
        IN ErrorIf(r.g, ~Compatible(r.ty, sig.params[j]), "argument")
      counted == ErrorIf(g, Len(e.args) # Len(sig.params), "arity")
      given == [j \in 1..Min({Len(e.args), Len(sig.params)}) |-> j]
  IN CASE named /\ name \in DOMAIN g.structs ->
            Typed(StructTy(name),
                  ErrorIf(g, Len(e.args) # Cardinality(DOMAIN g.structs[name]), "arity"))
       [] named /\ name \notin DOMAIN g.structs /\ name \in DOMAIN g.fns ->
            Typed(sig.ret, FoldLeft(Pass, counted, given))
       [] named /\ name \notin DOMAIN g.structs \cup DOMAIN g.fns ->
            Typed(BuiltinRetTy(name, args.tys), args.g)
       [] OTHER -> Typed(Unknown, args.g)

\* A method of a struct: neither the number nor the types of its arguments are checked.
MethodTy(ty, method, g) ==
  LET name == ty.name \o <<".">> \o method
      ofStr == [len |-> NumberTy, trim |-> StrTy, toUpper |-> StrTy, toLower |-> StrTy,
                contains |-> BoolTy, startsWith |-> BoolTy, split |-> ListTy(StrTy)]
      ofList == [len |-> NumberTy, push |-> ty]
      ofMap == [len |-> NumberTy, keys |-> ListTy(ty.key), values |-> ListTy(ty.value),
                entries |-> ListTy(ListTy(Unknown)), has |-> BoolTy, get |-> ty.value,
                delete |-> ty.value, set |-> ty, merge |-> ty]
      From(table) == IF method[1] \in DOMAIN table THEN table[method[1]] ELSE Unknown
  IN CASE ty.t = "Struct" -> IF name \in DOMAIN g.fns THEN g.fns[name].ret ELSE Unknown
       [] ty.t = "Str" -> From(ofStr)
       [] ty.t = "List" -> From(ofList)
       [] ty.t = "Map" -> From(ofMap)
       [] OTHER -> Unknown

InferMethodCall(e, env, g) ==
  LET object == Infer(e.object, env, g)
      args == InferAll(e.args, env, object.g)
  IN Typed(MethodTy(object.ty, e.method, g), args.g)

\* The type of a match is that of its first arm that has one.
InferMatch(e, env, g) ==
  LET ArmEnv(arm) == IF arm.pattern.k = "Ctor" THEN Define(env, arm.pattern.bind, Unknown) ELSE env
      Arm(acc, arm) == LET r == Infer(arm.body, ArmEnv(arm), acc.g)
                       IN IF acc.ty = Unknown THEN r ELSE Typed(acc.ty, r.g)
  IN FoldLeft(Arm, Typed(Unknown, Infer(e.scrutinee, env, g).g), e.arms)

InferSpawn(e, env, g) ==
  LET wrong == e.name \in DOMAIN g.fns /\ Len(g.fns[e.name].params) # Len(e.args)
  IN Typed(Unknown, InferAll(e.args, env, ErrorIf(g, wrong, "arity")).g)

InferIndex(e, env, g) ==
  LET object == Infer(e.object, env, g)
      index == Infer(e.index, env, object.g)
      Counted(ty) == Typed(ty, ErrorIf(index.g, ~Numeric(index.ty), "index"))
  IN CASE object.ty.t = "Map" ->
            Typed(object.ty.value, ErrorIf(index.g, ~Compatible(index.ty, object.ty.key), "key"))
       [] object.ty.t \in {"Unknown", "Generic"} -> Typed(Unknown, index.g)
       [] object.ty.t = "List" -> Counted(object.ty.of)
       [] OTHER -> Counted(Unknown)

InferLambda(e, env, g) ==
  LET tys == [j \in DOMAIN e.params |-> Declared(e.params[j].ty)]
      Bind(acc, j) == Define(acc, e.params[j].name, tys[j])
      inner == FoldLeft(Bind, env, [j \in DOMAIN tys |-> j])
      value == Infer(e.body.value, inner, g)
      declared == Declared(e.ret)
      wrong == e.ret # <<>> /\ ~Compatible(value.ty, declared)
  IN IF e.body.k = "Value"
     THEN Typed(FnTy(tys, IF e.ret = <<>> THEN value.ty ELSE declared),
                ErrorIf(value.g, wrong, "lambda"))
     ELSE Typed(FnTy(tys, declared), CheckBlock(e.body.stmts, inner, declared, g))

\* The keys and the values of a map have a type when they all have the same.
InferMap(e, env, g) ==
  LET r == InferAll(Children(e), env, g)
      Column(first) == {r.tys[j] : j \in {i \in DOMAIN r.tys : i % 2 = first}}
      Common(tys) == IF Cardinality(tys) = 1 THEN CHOOSE ty \in tys : TRUE ELSE Unknown
      bad == {"List", "Map", "Struct", "Enum", "Nil", "Fn", "Result"}
  IN Typed(MapTy(Common(Column(1)), Common(Column(0))),
           ErrorIf(r.g, \E ty \in Column(1) : ty.t \in bad, "key"))

InferList(e, env, g) ==
  LET r == InferAll(e.elems, env, g)
  IN Typed(ListTy(IF r.tys = <<>> THEN Unknown ELSE r.tys[1]), r.g)

InferResult(e, env, g) ==
  LET r == Infer(e.value, env, g)
  IN Typed(IF e.variant = "Ok" THEN ResultTy(r.ty, Unknown) ELSE ResultTy(Unknown, r.ty), r.g)

InferExpr(e, env, g) ==
  CASE e.k = "Number" -> Typed(NumberTy, g)
    [] e.k = "String" -> Typed(StrTy, g)
    [] e.k = "Bool" -> Typed(BoolTy, g)
    [] e.k = "Ident" -> InferIdent(e, env, g)
    [] e.k = "Result" -> InferResult(e, env, g)
    [] e.k = "BinOp" -> InferBinOp(e, env, g)
    [] e.k = "Unary" -> InferUnary(e, env, g)
    [] e.k = "Try" -> InferTry(e, env, g)
    [] e.k = "Field" -> InferField(e, env, g)
    [] e.k = "Call" -> InferCall(e, env, g)
    [] e.k = "MethodCall" -> InferMethodCall(e, env, g)
    [] e.k = "Match" -> InferMatch(e, env, g)
    [] e.k = "Spawn" -> InferSpawn(e, env, g)
    [] e.k = "Index" -> InferIndex(e, env, g)
    [] e.k = "List" -> InferList(e, env, g)
    [] e.k = "Map" -> InferMap(e, env, g)
    [] e.k = "Lambda" -> InferLambda(e, env, g)

----------------------------------------------------------------------------
\* Statements: a checker and the environment of the block, which a let extends.
IsConstruction(s, g) ==
  s.k = "Let" /\ s.value.k = "Call" /\ s.value.callee.k = "Ident"
  /\ s.value.callee.name \in DOMAIN g.generics

\* The checker after a let of a generic struct, and the type arguments of the variable.
Construction(s, env, g) ==
  LET params == g.generics[s.value.callee.name]
      n == Min({Len(params), Len(s.value.args)})
      args == InferAll(SubSeq(s.value.args, 1, n), env, g)
  IN [g |-> args.g,
      map |-> [param \in {params[j] : j \in 1..n} |->
                 args.tys[SelectLastInSeq(SubSeq(params, 1, n), LAMBDA p : p = param)]]]

\* Mutant: the first type arguments of a variable stay when it is made once more.
ConstructedMapKept(s, env, g) ==
  LET new == Construction(s, env, g)
  IN IF IsConstruction(s, g) THEN [new.g EXCEPT !.vars = @ @@ (s.name :> new.map)] ELSE g

ConstructedMap(s, env, g) ==
  LET new == Construction(s, env, g)
  IN IF IsConstruction(s, g) THEN [new.g EXCEPT !.vars = (s.name :> new.map) @@ @] ELSE g

CheckLet(s, env, g) ==
  LET value == Infer(s.value, env, g)
      declared == Declared(s.ty)
      fits == s.ty = <<>> \/ Compatible(value.ty, declared)
  IN [env |-> Define(env, s.name, IF s.ty = <<>> THEN value.ty ELSE declared),
      g |-> ConstructedMap(s, env, ErrorIf(value.g, ~fits, "let"))]

CheckCond(e, env, g) ==
  LET cond == Infer(e, env, g) IN ErrorIf(cond.g, cond.ty.t \notin {"Bool", "Unknown"}, "condition")

ElementTy(ty) == CASE ty.t = "List" -> ty.of
                   [] ty.t = "Map" -> ty.key
                   [] ty.t = "Str" -> StrTy
                   [] OTHER -> Unknown

CheckFor(s, env, ret, g) ==
  LET iter == Infer(s.iter, env, g)
      wrong == iter.ty.t \notin {"List", "Map", "Str", "Unknown"}
  IN CheckBlock(s.body, Define(env, s.var, ElementTy(iter.ty)), ret, ErrorIf(iter.g, wrong, "for"))

CheckStmt(s, env, ret, g) ==
  LET value == Infer(s.value, env, g)
      target == Infer(s.target, env, value.g)
      then == CheckBlock(s.then, env, ret, CheckCond(s.cond, env, g))
      Same(h) == [env |-> env, g |-> h]
  IN CASE s.k = "Let" -> CheckLet(s, env, g)
       [] s.k = "Return" -> Same(ErrorIf(value.g, ~Compatible(value.ty, ret), "return"))
       [] s.k = "Assign" -> Same(ErrorIf(target.g, ~Compatible(value.ty, target.ty), "assign"))
       [] s.k = "If" -> Same(IF s.otherwise = <<>> THEN then
                             ELSE CheckBlock(s.otherwise[1].body, env, ret, then))
       [] s.k = "While" -> Same(CheckBlock(s.body, env, ret, CheckCond(s.cond, env, g)))
       [] s.k = "For" -> Same(CheckFor(s, env, ret, g))
       [] s.k = "Expr" -> Same(value.g)

CheckTree(t, env, ret, g) ==
  IF t.k \in StmtKinds THEN CheckStmt(t, env, ret, g) ELSE InferExpr(t, env, g)

----------------------------------------------------------------------------
\* Programs: the signatures first, the last one of a name winning, then the bodies.
ParamTypes(fields) == [j \in DOMAIN fields |-> TyFromAst(fields[j].ty)]

Signatures(items) ==
  LET fns == Kept(items, "Fn")
      Sig(name) == LET f == fns[SelectLastInSeq(fns, LAMBDA d : FnName(d) = name)]
                   IN FnTy(ParamTypes(f.params), TyFromAst(f.ret))
      Fields(s) == [name \in ToSet(Names(s.fields)) |->
                      TyFromAst(s.fields[SelectLastInSeq(s.fields, LAMBDA d : d.name = name)].ty)]
      generic == SelectSeq(Kept(items, "Struct"), LAMBDA s : s.generics # <<>>)
  IN [errors |-> <<>>, vars |-> <<>>,
      fns |-> [name \in {FnName(f) : f \in ToSet(fns)} |-> Sig(name)],
      structs |-> Table(Kept(items, "Struct"), Fields),
      generics |-> Table(generic, LAMBDA s : s.generics),
      enums |-> Table(Kept(items, "Enum"), LAMBDA e : ToSet(Names(e.variants)))]

CheckFn(f, g) ==
  LET tys == ParamTypes(f.params)
      Bind(acc, j) == Define(acc, f.params[j].name, tys[j])
  IN CheckBlock(f.body, FoldLeft(Bind, <<>>, [j \in DOMAIN tys |-> j]), TyFromAst(f.ret), g)

\* check: a resilient function without a deadline is an error too.
TypeErrors(items) ==
  LET checked == FoldLeft(LAMBDA g, f : CheckFn(f, g), Signatures(items), Kept(items, "Fn"))
      Bounded(f) == f.isResilient => \E j \in DOMAIN f.modifiers : f.modifiers[j].k = "deadline"
      unbounded == SelectSeq(Kept(items, "Fn"), LAMBDA f : ~Bounded(f))
  IN checked.errors \o [j \in DOMAIN unbounded |-> "deadline"]
============================================================================
