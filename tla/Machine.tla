------------------------------- MODULE Machine -----------------------------
(***************************************************************************)
(* The instruction loop of the virtual machine (vm/mod.rs) for one task.   *)
(* A state is the explicit stack of frames and the heap; Step executes one *)
(* instruction.  A frame of code has its function, the address of its next *)
(* instruction, its operand stack and its locals; base marks the first     *)
(* frame of a call made by call_fn, the boundary where an error on its way *)
(* up becomes a value.  A frame of kind "loop" is a higher-order built-in  *)
(* that waits for the function it called.  Scheduling, spawn and the       *)
(* network belong to the module Scheduler.                                 *)
(***************************************************************************)
EXTENDS Compiler, Values

CONSTANT MAX_EXPLICIT_CALL_DEPTH

\* take_args: the last n values of a stack in order, nil for the missing ones.
TakeArgs(stack, n) ==
  [j \in 1..n |-> IF Len(stack) - n + j > 0 THEN stack[Len(stack) - n + j] ELSE Nil]
Without(stack, n) == SubSeq(stack, 1, Len(stack) - n)

\* The locals of a new frame: the arguments, then nil.
Locals(fn, args) == [j \in 1..Max({fn.locals, Len(args)}) |-> ArgAt(args, j)]

CodeFrame(module, index, args, base) ==
  [k |-> "code", fn |-> index, ip |-> 1, stack |-> <<>>, base |-> base,
   locals |-> Locals(module.fns[index], args)]

Start(module, name) ==
  IF FindFn(module, name) = 0 THEN [status |-> "failed", frames |-> <<>>, heap |-> <<>>]
  ELSE [status |-> "running", heap |-> <<>>,
        frames |-> <<CodeFrame(module, FindFn(module, name), <<>>, TRUE)>>]

----------------------------------------------------------------------------
\* A machine after an instruction of its top frame, which is f.
Fail(m) == [m EXCEPT !.status = "failed", !.frames = <<>>]
Halt(m, x) == [m EXCEPT !.status = "done", !.frames = <<>>] @@ [result |-> x]
With(m, f) == [m EXCEPT !.frames[Len(m.frames)] = f]
PushFrame(m, f) == [m EXCEPT !.frames = Append(@, f)]
Pushed(f, x) == [f EXCEPT !.stack = Append(@, x)]
Popped(f, n) == [f EXCEPT !.stack = Without(@, n)]
Top(f, n) == f.stack[Len(f.stack) - n + 1]

\* The top n operands of f give way to what a computation returned.
Replace(m, f, n, r) ==
  IF r.ok THEN [With(m, Pushed(Popped(f, n), r.value)) EXCEPT !.heap = r.heap] ELSE Fail(m)

\* A higher-order built-in takes the answer x of the function it called.
Consume(loop, x) ==
  CASE loop.op \in {"map", "sortBy"} -> [loop EXCEPT !.out = Append(@, x)]
    [] loop.op = "filter" -> IF IsTruthy(x) THEN [loop EXCEPT !.out = Append(@, loop.elem)] ELSE loop
    [] loop.op = "reduce" -> [loop EXCEPT !.out = x]
    [] loop.op = "each" -> loop
    [] loop.op = "any" /\ IsTruthy(x) -> [loop EXCEPT !.todo = <<>>, !.out = Bool(TRUE)]
    [] loop.op = "all" /\ ~IsTruthy(x) -> [loop EXCEPT !.todo = <<>>, !.out = Bool(FALSE)]
    [] loop.op = "find" /\ IsTruthy(x) -> [loop EXCEPT !.todo = <<>>, !.out = loop.elem]
    [] OTHER -> loop

\* A value returned to the frames below.
Deliver(m, x) ==
  LET top == Last(m.frames)
  IN IF m.frames = <<>> THEN Halt(m, x)
     ELSE IF top.k = "loop" THEN With(m, Consume(top, x)) ELSE With(m, Pushed(top, x))

Return(m, x) == Deliver([m EXCEPT !.frames = Front(@)], x)

\* PropagateErr unwinds every frame up to the last call of call_fn, which returns Err.
Propagate(m, x) ==
  LET base == Max({j \in DOMAIN m.frames : m.frames[j].k = "code" /\ m.frames[j].base})
  IN Deliver([m EXCEPT !.frames = SubSeq(@, 1, base - 1)], Result("Err", x))

----------------------------------------------------------------------------
\* Calls.  An ordinary call pushes a frame on the explicit stack.
Depth(m) == Len(m.frames) + 1 - Max({j \in DOMAIN m.frames : m.frames[j].k = "code" /\ m.frames[j].base})

CallFrame(module, m, f, index, args) ==
  IF Depth(m) >= MAX_EXPLICIT_CALL_DEPTH THEN Fail(m)
  ELSE PushFrame(With(m, f), CodeFrame(module, index, args, FALSE))

\* call_higher_order: f is the frame after the operands were popped.
StartLoop(m, f, name, args) ==
  LET list == ArgAt(args, 1)
      loop == [k |-> "loop", op |-> name, f |-> ArgAt(args, 2), elem |-> Nil, items |-> <<>>,
               todo |-> Elems(list, m.heap),
               out |-> CASE name = "any" -> Bool(FALSE)
                         [] name = "all" -> Bool(TRUE)
                         [] name \in {"each", "find"} -> Nil
                         [] name = "reduce" -> ArgAt(args, 3)
                         [] OTHER -> <<>>]
      first == [loop EXCEPT !.out = Head(loop.todo), !.todo = Tail(loop.todo)]
  IN CASE list.v # "List" \/ ~Callable(ArgAt(args, 2)) -> Fail(m)
       [] list.v = "List" /\ Callable(ArgAt(args, 2)) ->
            IF name # "reduce" \/ Len(args) > 2
            THEN PushFrame(With(m, f), [loop EXCEPT !.items = loop.todo])
            ELSE IF loop.todo = <<>> THEN Fail(m) ELSE PushFrame(With(m, f), first)

\* A built-in function, for a caller whose operands were popped.
CallNative(m, f, name, args) ==
  IF name[1] \in HigherOrder THEN StartLoop(m, f, name[1], args)
  ELSE Replace(m, f, 0, CallBuiltin(name[1], args, m.heap))

\* Mutant: the captured values come after the arguments.
FullArgsCapturedLast(callee, args) ==
  IF callee.v = "Closure" THEN args \o callee.captured ELSE args

FullArgs(callee, args) == IF callee.v = "Closure" THEN callee.captured \o args ELSE args

\* call_value: a function of the program starts a task of its own.
CallValue(module, m, f, callee, args) ==
  LET index == FindFn(module, callee.name)
  IN IF callee.v = "Builtin" THEN CallNative(m, f, callee.name, args)
     ELSE PushFrame(With(m, f), CodeFrame(module, index, FullArgs(callee, args), TRUE))

\* A higher-order built-in asks for the next element or returns.
RunLoop(module, m) ==
  LET loop == Last(m.frames)
      elem == Head(loop.todo)
      args == IF loop.op = "reduce" THEN <<loop.out, elem>> ELSE <<elem>>
      next == [loop EXCEPT !.todo = Tail(@), !.elem = elem]
      below == [m EXCEPT !.frames = Front(@)]
      builtin == CallBuiltin(loop.f.name[1], args, m.heap)
      result == CASE loop.op \in {"map", "filter"} -> NewList(loop.out, m.heap)
                  [] loop.op = "sortBy" -> IF Comparable(loop.out)
                                           THEN NewList(SortByKeys(loop.items, loop.out), m.heap)
                                           ELSE Failed
                  [] OTHER -> Returned(loop.out, m.heap)
  IN IF loop.todo = <<>>
     THEN IF result.ok THEN Deliver([below EXCEPT !.heap = result.heap], result.value) ELSE Fail(m)
     ELSE IF loop.f.v # "Builtin" THEN CallValue(module, m, next, loop.f, args)
     ELSE IF builtin.ok THEN [With(m, Consume(next, builtin.value)) EXCEPT !.heap = builtin.heap]
     ELSE Fail(m)

Call(module, m, f, n) ==
  LET args == TakeArgs(f.stack, n)
      callee == Top(f, n + 1)
      rest == Popped(f, n + 1)
  IN CASE Len(f.stack) <= n -> Fail(m)
       [] Len(f.stack) > n /\ callee.v \in {"Fn", "Closure"} ->
            CallFrame(module, m, rest, FindFn(module, callee.name), FullArgs(callee, args))
       [] Len(f.stack) > n /\ callee.v = "Builtin" -> CallNative(m, rest, callee.name, args)
       [] OTHER -> Fail(m)

\* A function of the program goes before a built-in of the same name.
CallGlobal(module, m, f, name, n) ==
  LET args == TakeArgs(f.stack, n)
      rest == Popped(f, Min({n, Len(f.stack)}))
  IN CASE FindFn(module, name) # 0 -> CallFrame(module, m, rest, FindFn(module, name), args)
       [] FindFn(module, name) = 0 /\ IsBuiltin(name) -> CallNative(m, rest, name, args)
       [] OTHER -> Fail(m)

\* A method of a struct is a function of the program, a map may hold functions.
CallMethod(module, m, f, name, n) ==
  LET args == TakeArgs(f.stack, n)
      receiver == Top(f, n + 1)
      rest == Popped(f, n + 1)
      method == m.heap[receiver.at].type \o <<".">> \o name
      held == LookUp(Entries(receiver, m.heap), Str(name), Nil)
  IN CASE Len(f.stack) <= n -> Fail(m)
       [] Len(f.stack) > n /\ receiver.v = "Struct" ->
            IF FindFn(module, method) = 0 THEN Fail(m)
            ELSE CallFrame(module, m, rest, FindFn(module, method), <<receiver>> \o args)
       [] Len(f.stack) > n /\ receiver.v = "Map" /\ name[1] \notin MapMethods ->
            IF Callable(held) THEN CallValue(module, m, rest, held, args) ELSE Fail(m)
       [] OTHER -> Replace(m, rest, 0, NativeMethod(receiver, name[1], args, m.heap))

----------------------------------------------------------------------------
\* Patterns look at the top of the stack and leave it there.
Matches(instr, x) ==
  CASE instr.op = "MatchVariant" -> \/ x.v \in {"Ok", "Err"} /\ <<x.v>> = instr.arg
                                    \/ x.v = "Enum" /\ x.variant = instr.arg
    [] instr.op = "MatchLit" ->
         CASE "n" \in DOMAIN instr.arg -> x = Num(instr.arg.sign * instr.arg.n)
           [] "s" \in DOMAIN instr.arg -> x = Str(instr.arg.s)
           [] "b" \in DOMAIN instr.arg -> x = Bool(instr.arg.b)

\* How many operands an instruction pops before it looks at them.
Operands(instr) ==
  CASE instr.op \in {"Binary", "Swap", "LoadIndex", "StoreField"} -> 2
    [] instr.op = "StoreIndex" -> 3
    [] instr.op \in {"Unary", "MakeResult", "TryUnwrap", "StoreLocal", "LoadField", "Return",
                     "JumpIfFalse", "MatchVariant", "MatchLit", "UnwrapVariantInto",
                     "Dup", "Pop"} -> 1
    [] OTHER -> 0

\* A list, map, struct or closure from the values on the stack.
Make(instr, stack, h) ==
  LET Values(n) == TakeArgs(stack, n)
      flat == Values(2 * instr.arg)
      Put(entries, j) == Insert(entries, flat[2 * j - 1], flat[2 * j])
      fields == instr.fields
  IN CASE instr.op = "MakeList" -> NewList(Values(instr.arg), h)
       [] instr.op = "MakeMap" ->
            IF \A j \in 1..instr.arg : IsKey(flat[2 * j - 1])
            THEN Allocated("Map", MapObject(FoldLeft(Put, <<>>, [j \in 1..instr.arg |-> j])), h)
            ELSE Failed
       [] instr.op = "MakeStruct" ->
            Allocated("Struct", StructObject(instr.arg, [field \in ToSet(fields) |->
                        Values(Len(fields))[SelectLastInSeq(fields, LAMBDA g : g = field)]]), h)
       [] instr.op = "MakeClosure" -> Returned(Closure(instr.arg, Values(instr.n)), h)
MadeOf(instr) == CASE instr.op = "MakeList" -> instr.arg
                   [] instr.op = "MakeMap" -> 2 * instr.arg
                   [] instr.op = "MakeStruct" -> Len(instr.fields)
                   [] instr.op = "MakeClosure" -> instr.n

LoadGlobal(module, m, f, name) ==
  CASE FindFn(module, name) # 0 -> With(m, Pushed(f, Fn(name)))
    [] FindFn(module, name) = 0 /\ IsBuiltin(name) -> With(m, Pushed(f, Builtin(name)))
    [] OTHER -> Fail(m)

Constant(instr) == CASE instr.op = "PushNum" -> Num(instr.arg)
                     [] instr.op = "PushStr" -> Str(instr.arg)
                     [] instr.op = "PushBool" -> Bool(instr.arg)
                     [] instr.op = "PushNil" -> Nil
                     [] instr.op = "PushEnum" -> EnumVal(instr.arg, instr.variant)

\* One instruction; f is the frame that has moved past it, x the top of its stack.
Execute(module, m, f, instr) ==
  LET x == Top(f, 1)
      y == Top(f, 2)
      h == m.heap
      rest == Popped(f, 1)
      Stored(g, slot, v) == [g EXCEPT !.locals[slot] = v]
  IN CASE instr.op \in {"PushNum", "PushStr", "PushBool", "PushNil", "PushEnum"} ->
            With(m, Pushed(f, Constant(instr)))
       [] instr.op = "LoadLocal" -> With(m, Pushed(f, f.locals[instr.arg]))
       [] instr.op = "StoreLocal" -> With(m, Stored(rest, instr.arg, x))
       [] instr.op = "LoadGlobal" -> LoadGlobal(module, m, f, instr.arg)
       [] instr.op = "LoadField" -> Replace(m, f, 1, GetField(x, instr.arg, h))
       [] instr.op = "StoreField" ->
            LET r == SetField(y, instr.arg, x, h)
            IN IF r.ok THEN [With(m, Popped(f, 2)) EXCEPT !.heap = r.heap] ELSE Fail(m)
       [] instr.op = "LoadIndex" -> Replace(m, f, 2, GetIndex(y, x, h))
       [] instr.op = "StoreIndex" ->
            LET r == SetIndex(Top(f, 3), y, x, h)
            IN IF r.ok THEN [With(m, Popped(f, 3)) EXCEPT !.heap = r.heap] ELSE Fail(m)
       [] instr.op = "Binary" -> Replace(m, f, 2, BinaryOp(instr.arg, y, x, h))
       [] instr.op = "Unary" -> Replace(m, f, 1, UnaryOp(instr.arg, x, h))
       [] instr.op = "MakeResult" -> Replace(m, f, 1, Returned(Result(instr.arg, x), h))
       [] instr.op = "TryUnwrap" ->
            (CASE x.v = "Ok" -> With(m, Pushed(rest, x.of))
               [] x.v = "Err" -> Propagate(With(m, rest), x.of)
               [] OTHER -> With(m, f))
       [] instr.op \in {"MakeList", "MakeMap", "MakeStruct", "MakeClosure"} ->
            Replace(m, f, Min({MadeOf(instr), Len(f.stack)}), Make(instr, f.stack, h))
       [] instr.op = "Call" -> Call(module, m, f, instr.arg)
       [] instr.op = "CallGlobal" -> CallGlobal(module, m, f, instr.arg, instr.n)
       [] instr.op = "CallMethod" -> CallMethod(module, m, f, instr.arg, instr.n)
       [] instr.op = "Return" -> Return(m, x)
       [] instr.op = "Jump" -> With(m, [f EXCEPT !.ip = instr.arg])
       [] instr.op = "JumpIfFalse" ->
            With(m, IF IsTruthy(x) THEN rest ELSE [rest EXCEPT !.ip = instr.arg])
       [] instr.op \in {"MatchVariant", "MatchLit"} ->
            With(m, Pushed(f, Bool(Matches(instr, x))))
       [] instr.op = "UnwrapVariantInto" ->
            With(m, Stored(rest, instr.arg, IF x.v \in {"Ok", "Err"} THEN x.of ELSE x))
       [] instr.op = "Dup" -> With(m, Pushed(f, x))
       [] instr.op = "Pop" -> With(m, rest)
       [] instr.op = "Swap" -> With(m, Pushed(Pushed(Popped(f, 2), x), y))

\* The next step of a running machine.
Step(module, m) ==
  LET top == Last(m.frames)
      instr == module.fns[top.fn].code[top.ip]
  IN CASE top.k = "loop" -> RunLoop(module, m)
       [] top.k = "code" /\ Len(top.stack) < Operands(instr) -> Fail(m)
       [] OTHER -> Execute(module, m, [top EXCEPT !.ip = @ + 1], instr)
============================================================================
