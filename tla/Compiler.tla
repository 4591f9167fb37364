------------------------------ MODULE Compiler -----------------------------
(***************************************************************************)
(* The compiler of Oberih (compiler/mod.rs) to the instructions of         *)
(* bytecode.rs.  A context is the code and the local slots of the function *)
(* being compiled, with the functions, the struct and the enum tables of   *)
(* the program; ok is FALSE after a compile error.  Slots and addresses    *)
(* count from 1.                                                           *)
(***************************************************************************)
EXTENDS Trees

Instr(op) == [op |-> op]
Instr1(op, arg) == [op |-> op, arg |-> arg]

Emit(c, instr) == [c EXCEPT !.code = Append(@, instr)]
EmitAll(c, instrs) == [c EXCEPT !.code = @ \o instrs]
Here(c) == Len(c.code) + 1
PatchJump(c, at) == [c EXCEPT !.code[at].arg = Here(c)]
CompileError(c) == [c EXCEPT !.ok = FALSE]

\* A function has one list of locals for all its blocks: the last one with a name wins.
LocalSlot(c, name) == SelectLastInSeq(c.locals, LAMBDA local : local = name)
IsLocal(c, name) == name \in ToSet(c.locals)
AllocLocal(c, name) == [c EXCEPT !.locals = Append(@, name)]

\* Allocate a slot for a name and store the top of the stack in it.
StoreNew(c, name) == Emit(AllocLocal(c, name), Instr1("StoreLocal", Len(c.locals) + 1))

LoadName(c, name) ==
  Emit(c, IF IsLocal(c, name) THEN Instr1("LoadLocal", LocalSlot(c, name))
          ELSE Instr1("LoadGlobal", name))

SuspendingBuiltins == {<<b>> : b \in {"sleep", "httpGet", "httpPost", "httpPut",
                                      "httpDelete", "serve", "stopServer"}}

RECURSIVE CompileTree(_, _)

CompileExprs(es, c) == FoldLeft(LAMBDA acc, e : CompileTree(e, acc), c, es)
CompileStmts(ss, c) == FoldLeft(LAMBDA acc, s : CompileTree(s, acc), c, ss)

----------------------------------------------------------------------------
\* The code of a function, with its parameters in the first locals.
StartFn(f, c) == [c EXCEPT !.code = <<>>, !.locals = [j \in DOMAIN f.params |-> f.params[j].name]]
EndFn(name, c) ==
  [c EXCEPT !.fns = Append(@, [name |-> name, locals |-> Len(c.locals), code |-> c.code])]

\* A lambda is a function of the captured values and the parameters.
LambdaName(n) == <<"__lambda_", ToString(n)>>

CompileLambda(e, c) ==
  LET params == [j \in DOMAIN e.params |-> e.params[j].name]
      Capture(names, name) ==
        IF name \in ToSet(params) \/ ~IsLocal(c, name) \/ name \in ToSet(names)
        THEN names ELSE Append(names, name)
      captured == FoldLeft(Capture, <<>>, CollectAllRefs(LambdaParts(e.body)))
      name == LambdaName(c.lambdas + 1)
      inner == [c EXCEPT !.code = <<>>, !.locals = captured \o params, !.lambdas = @ + 1]
      body == IF e.body.k = "Value" THEN CompileTree(e.body.value, inner)
              ELSE Emit(CompileStmts(e.body.stmts, inner), Instr("PushNil"))
      outer == [EndFn(name, Emit(body, Instr("Return"))) EXCEPT !.code = c.code, !.locals = c.locals]
      loads == [j \in DOMAIN captured |-> Instr1("LoadLocal", LocalSlot(c, captured[j]))]
  IN IF captured = <<>> THEN Emit(outer, Instr1("LoadGlobal", name))
     ELSE EmitAll(outer, Append(loads, [op |-> "MakeClosure", arg |-> name, n |-> Len(captured)]))

----------------------------------------------------------------------------
\* Statements.
CompileIf(s, c) ==
  LET cond == Emit(CompileTree(s.cond, c), Instr1("JumpIfFalse", 0))
      then == CompileStmts(s.then, cond)
      jump == Emit(then, Instr1("Jump", 0))
      else == CompileStmts(s.otherwise[1].body, PatchJump(jump, Len(cond.code)))
  IN IF s.otherwise = <<>> THEN PatchJump(then, Len(cond.code))
     ELSE PatchJump(else, Len(jump.code))

CompileWhile(s, c) ==
  LET cond == Emit(CompileTree(s.cond, c), Instr1("JumpIfFalse", 0))
      body == CompileStmts(s.body, cond)
  IN PatchJump(Emit(body, Instr1("Jump", Here(c))), Len(cond.code))

\* A for walks a snapshot by index and asks the function len for its length each time.
CompileFor(s, c) ==
  LET iter == StoreNew(Emit(CompileTree(s.iter, Emit(c, Instr1("LoadGlobal", <<"__iterable">>))),
                            Instr1("Call", 1)), <<"__iter">>)
      iterSlot == Len(iter.locals)
      start == StoreNew(Emit(iter, Instr1("PushNum", 0)), <<"__i">>)
      indexSlot == Len(start.locals)
      cond == EmitAll(start, <<Instr1("LoadLocal", indexSlot), Instr1("LoadGlobal", <<"len">>),
                               Instr1("LoadLocal", iterSlot), Instr1("Call", 1),
                               Instr1("Binary", "<"), Instr1("JumpIfFalse", 0)>>)
      elem == StoreNew(EmitAll(cond, <<Instr1("LoadLocal", iterSlot),
                                       Instr1("LoadLocal", indexSlot), Instr("LoadIndex")>>), s.var)
      body == CompileStmts(s.body, elem)
      next == EmitAll(body, <<Instr1("LoadLocal", indexSlot), Instr1("PushNum", 1),
                              Instr1("Binary", "+"), Instr1("StoreLocal", indexSlot),
                              Instr1("Jump", Here(start))>>)
  IN PatchJump(next, Len(cond.code))

CompileAssign(s, c) ==
  LET value == CompileTree(s.value, c)
      object == CompileTree(s.target.object, c)
      index == CompileTree(s.target.index, object)
  IN CASE s.target.k = "Ident" ->
            IF IsLocal(value, s.target.name)
            THEN Emit(value, Instr1("StoreLocal", LocalSlot(value, s.target.name)))
            ELSE CompileError(value)
       [] s.target.k = "Field" ->
            Emit(CompileTree(s.value, object), Instr1("StoreField", s.target.field))
       [] s.target.k = "Index" -> Emit(CompileTree(s.value, index), Instr("StoreIndex"))
       [] OTHER -> CompileError(c)

CompileStmt(s, c) ==
  CASE s.k = "Let" -> StoreNew(CompileTree(s.value, c), s.name)
    [] s.k = "Return" -> Emit(CompileTree(s.value, c), Instr("Return"))
    [] s.k = "Assign" -> CompileAssign(s, c)
    [] s.k = "If" -> CompileIf(s, c)
    [] s.k = "While" -> CompileWhile(s, c)
    [] s.k = "For" -> CompileFor(s, c)
    [] s.k = "Expr" -> Emit(CompileTree(s.value, c), Instr("Pop"))

----------------------------------------------------------------------------
\* Expressions.  The name of a struct is its constructor, even where a local variable
\* has that name; the name of an enum gives way to a local variable.
CompileCall(e, c) ==
  LET name == e.callee.name
      n == Len(e.args)
      args == CompileExprs(e.args, c)
  IN CASE e.callee.k = "Ident" /\ name \in DOMAIN c.structs ->
            IF Len(c.structs[name]) = n
            THEN Emit(args, [op |-> "MakeStruct", arg |-> name, fields |-> c.structs[name]])
            ELSE CompileError(c)
       [] e.callee.k = "Ident" /\ name \notin DOMAIN c.structs /\ ~IsLocal(c, name)
          /\ name \notin SuspendingBuiltins ->
            Emit(args, [op |-> "CallGlobal", arg |-> name, n |-> n])
       [] OTHER -> Emit(CompileExprs(e.args, CompileTree(e.callee, c)), Instr1("Call", n))

CompileField(e, c) ==
  LET name == e.object.name
  IN IF e.object.k = "Ident" /\ ~IsLocal(c, name) /\ name \in DOMAIN c.enums
     THEN IF e.field \in ToSet(c.enums[name])
          THEN Emit(c, [op |-> "PushEnum", arg |-> name, variant |-> e.field])
          ELSE CompileError(c)
     ELSE Emit(CompileTree(e.object, c), Instr1("LoadField", e.field))

\* The check of a pattern: it leaves the address of the jump to patch, if any.
CompilePattern(p, c) ==
  LET Check(instr) == EmitAll(c, <<Instr("Dup"), instr, Instr1("JumpIfFalse", 0)>>)
      bound == AllocLocal(Check(Instr1("MatchVariant", p.name)), p.bind)
  IN CASE p.k = "Wildcard" -> EmitAll(c, <<Instr("Dup"), Instr("Pop")>>)
       [] p.k = "Literal" -> Check(Instr1("MatchLit", p))
       [] p.k = "Variant" -> Check(Instr1("MatchVariant", p.name))
       [] p.k = "Ctor" -> Emit(bound, Instr1("UnwrapVariantInto", Len(bound.locals)))

CompileArm(acc, arm) ==
  LET pattern == CompilePattern(arm.pattern, acc.c)
      end == Emit(CompileTree(arm.body, pattern), Instr1("Jump", 0))
      skip == Len(acc.c.code) + 3
  IN [ends |-> acc.ends \cup {Len(end.code)},
      c |-> IF arm.pattern.k = "Wildcard" THEN end ELSE PatchJump(end, skip)]

CompileMatch(e, c) ==
  LET arms == FoldLeft(CompileArm, [c |-> CompileTree(e.scrutinee, c), ends |-> {}], e.arms)
      none == Emit(arms.c, Instr("PushNil"))
      ends == FoldSet(LAMBDA at, acc : PatchJump(acc, at), none, arms.ends)
  IN EmitAll(ends, <<Instr("Swap"), Instr("Pop")>>)

CompileExpr(e, c) ==
  CASE e.k = "Number" -> Emit(c, Instr1("PushNum", e.sign * e.n))
    [] e.k = "String" -> Emit(c, Instr1("PushStr", e.s))
    [] e.k = "Bool" -> Emit(c, Instr1("PushBool", e.b))
    [] e.k = "Ident" -> LoadName(c, e.name)
    [] e.k = "Result" -> Emit(CompileTree(e.value, c), Instr1("MakeResult", e.variant))
    [] e.k = "BinOp" -> Emit(CompileTree(e.right, CompileTree(e.left, c)), Instr1("Binary", e.op))
    [] e.k = "Unary" -> Emit(CompileTree(e.expr, c), Instr1("Unary", e.op))
    [] e.k = "Try" -> Emit(CompileTree(e.expr, c), Instr("TryUnwrap"))
    [] e.k = "Lambda" -> CompileLambda(e, c)
    [] e.k = "Field" -> CompileField(e, c)
    [] e.k = "Index" -> Emit(CompileTree(e.index, CompileTree(e.object, c)), Instr("LoadIndex"))
    [] e.k = "Call" -> CompileCall(e, c)
    [] e.k = "MethodCall" -> Emit(CompileExprs(e.args, CompileTree(e.object, c)),
                                  [op |-> "CallMethod", arg |-> e.method, n |-> Len(e.args)])
    [] e.k = "Match" -> CompileMatch(e, c)
    [] e.k = "Spawn" -> Emit(CompileExprs(e.args, c),
                             [op |-> "Spawn", arg |-> e.name, n |-> Len(e.args)])
    [] e.k = "List" -> Emit(CompileExprs(e.elems, c), Instr1("MakeList", Len(e.elems)))
    [] e.k = "Map" -> Emit(CompileExprs(Children(e), c), Instr1("MakeMap", Len(e.entries)))

\* A statement or an expression.
CompileTree(t, c) == IF t.k \in StmtKinds THEN CompileStmt(t, c) ELSE CompileExpr(t, c)

----------------------------------------------------------------------------
\* Functions and programs.
FnName(f) == IF f.method = <<>> THEN f.name ELSE f.name \o <<".">> \o f.method[1]

\* Mutant: a body is not followed by the return of nil.
CompileFnOpen(f, c) == EndFn(FnName(f), CompileStmts(f.body, StartFn(f, c)))

CompileFn(f, c) ==
  EndFn(FnName(f), EmitAll(CompileStmts(f.body, StartFn(f, c)),
                           <<Instr("PushNil"), Instr("Return")>>))

Kept(items, kind) == SelectSeq(items, LAMBDA item : item.k = kind)
Names(parts) == [j \in DOMAIN parts |-> parts[j].name]

\* A table by name, the last declaration of a name winning.
Table(decls, Row(_)) ==
  [name \in ToSet(Names(decls)) |->
     Row(decls[SelectLastInSeq(decls, LAMBDA d : d.name = name)])]

CompileProgram(items) ==
  LET tables == [code |-> <<>>, locals |-> <<>>, fns |-> <<>>, lambdas |-> 0, ok |-> TRUE,
                 structs |-> Table(Kept(items, "Struct"), LAMBDA s : Names(s.fields)),
                 enums |-> Table(Kept(items, "Enum"), LAMBDA e : Names(e.variants))]
  IN Restrict(FoldLeft(LAMBDA acc, f : CompileFn(f, acc), tables, Kept(items, "Fn")), {"ok", "fns"})

\* find_fn_index: the first function with a name, or 0.
FindFn(module, name) == SelectInSeq(module.fns, LAMBDA f : f.name = name)
============================================================================
