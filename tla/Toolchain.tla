------------------------------ MODULE Toolchain -----------------------------
(***************************************************************************)
(* The command line of Oberih on one source file (main.rs,                 *)
(* test_runner.rs): run, check, test and fmt take the file through the     *)
(* lexer, the parser, the typechecker, the compiler and the virtual        *)
(* machine, and fmt writes it back.  A user gives up to MaxCommands        *)
(* commands, one after the other.  The program imports nothing: imports    *)
(* and packages belong to the module Packages.                             *)
(***************************************************************************)
EXTENDS Typechecker, Formatter, Machine, Meaning

CONSTANTS Sources,      \* the texts the file may start with
          Commands,     \* the commands the user gives, a part of AllCommands
          MaxCommands   \* bound: how many commands the user gives

AllCommands == {"run", "check", "test", "fmt"}

ASSUME CommandsAssumption == Commands \subseteq AllCommands /\ MaxCommands \in Nat

VARIABLES file,      \* the text of the file
          given,     \* the number of commands given
          command,   \* the command at work
          stage,     \* what it does next, "shell" between two commands
          tokens,    \* what the lexer made of the file: tokens and comments
          program,   \* the items the parser made of the tokens
          module,    \* what the compiler made of the items
          queue,     \* the names of the functions still to call
          machine,   \* the virtual machine of the call at work
          results,   \* the outcome of each call of the command, in order
          code       \* the exit code of the last command

vars == <<file, given, command, stage, tokens, program, module, queue, machine, results, code>>

\* A stage of a command leaves everything alone but what it makes.
NoModule == [ok |-> FALSE, fns |-> <<>>]
NoMachine == [status |-> "none", frames |-> <<>>, heap |-> <<>>]
NoTokens == [toks |-> <<>>, comments |-> <<>>]

Init ==
  /\ file \in Sources
  /\ given = 0 /\ command = "none" /\ stage = "shell" /\ code = 0
  /\ tokens = NoTokens /\ program = <<>> /\ module = NoModule
  /\ queue = <<>> /\ machine = NoMachine /\ results = <<>>

\* The process ends with an exit code; nothing of it is left but the file.
Exit(c) ==
  /\ stage' = "shell" /\ code' = c
  /\ tokens' = NoTokens /\ module' = NoModule /\ queue' = <<>> /\ machine' = NoMachine
  /\ UNCHANGED <<file, given, command, program, results>>

Invoke ==
  /\ stage = "shell" /\ given < MaxCommands
  /\ \E c \in Commands : command' = c
  /\ given' = given + 1 /\ stage' = "lex" /\ program' = <<>> /\ results' = <<>>
  /\ UNCHANGED <<file, tokens, module, queue, machine, code>>

Lex ==
  /\ stage = "lex"
  /\ \E r \in {Tokenize(file)} :
       IF r.ok
       THEN /\ stage' = "parse" /\ tokens' = [toks |-> r.toks, comments |-> r.comments]
            /\ UNCHANGED <<file, given, command, program, module, queue, machine, results, code>>
       ELSE Exit(1)

\* A test program is not type-checked, and neither is one that is formatted.
AfterParse == [run |-> "check", check |-> "check", test |-> "compile", fmt |-> "format"]

Parse ==
  /\ stage = "parse"
  /\ \E r \in {ParseProgram(tokens.toks)} :
       IF r.ok
       THEN /\ stage' = AfterParse[command] /\ program' = r.v
            /\ UNCHANGED <<file, given, command, tokens, module, queue, machine, results, code>>
       ELSE Exit(1)

\* run goes on in spite of an error about the field of a number.
Critical(errors) == SelectSeq(errors, LAMBDA what : what # "field of a number")

Fatal(errors) == IF command = "run" THEN Critical(errors) ELSE errors

Check ==
  /\ stage = "check"
  /\ \E fatal \in {Fatal(TypeErrors(program))} :
       IF fatal = <<>> /\ command = "run"
       THEN /\ stage' = "compile"
            /\ UNCHANGED <<file, given, command, tokens, program, module, queue, machine,
                           results, code>>
       ELSE Exit(IF fatal = <<>> THEN 0 ELSE 1)

\* The tests of a program are its functions without parameters named test...
IsTest(f) == f.params = <<>> /\ FnName(f)[1] \in {"test", "testA", "testB"}
TestNames(items) ==
  LET tests == SelectSeq(Kept(items, "Fn"), IsTest)
  IN [j \in DOMAIN tests |-> FnName(tests[j])]

\* Where there is nothing to call nothing is compiled.
Compile ==
  LET calls == IF command = "run" THEN <<<<"main">>>> ELSE TestNames(program)
  IN /\ stage = "compile"
     /\ \E compiled \in {CompileProgram(program)} :
          IF compiled.ok \/ calls = <<>>
          THEN /\ module' = compiled /\ queue' = calls /\ stage' = "call"
               /\ UNCHANGED <<file, given, command, tokens, program, machine, results, code>>
          ELSE Exit(1)

\* Every call has a virtual machine of its own.
StartCall ==
  /\ stage = "call" /\ queue # <<>>
  /\ machine' = Start(module, Head(queue)) /\ stage' = "execute"
  /\ UNCHANGED <<file, given, command, tokens, program, module, queue, results, code>>

RunStep ==
  /\ stage = "execute" /\ machine.status = "running"
  /\ machine' = Step(module, machine)
  /\ UNCHANGED <<file, given, command, stage, tokens, program, module, queue, results, code>>

\* What a call gave, without the places of the heap.
Outcome(m) == IF m.status # "done" THEN [status |-> "failed"]
              ELSE [status |-> "done", result |-> Shown(m.result, m.heap)]

EndCall ==
  /\ stage = "execute" /\ machine.status # "running"
  /\ results' = Append(results, Outcome(machine))
  /\ queue' = Tail(queue) /\ machine' = NoMachine /\ stage' = "call"
  /\ UNCHANGED <<file, given, command, tokens, program, module, code>>

\* A test passes with true, nil or 0; run succeeds with any value of main, an Err too.
Passed(outcome) == outcome.status = "done" /\ outcome.result \in {Bool(TRUE), Nil, Num(0)}
Succeeded(outcome) == IF command = "run" THEN outcome.status = "done" ELSE Passed(outcome)

EndCalls ==
  /\ stage = "call" /\ queue = <<>>
  /\ Exit(IF \A j \in DOMAIN results : Succeeded(results[j]) THEN 0 ELSE 1)

Format ==
  /\ stage = "format"
  /\ file' = FormatProgram(program, tokens.comments)
  /\ stage' = "shell" /\ code' = 0 /\ tokens' = NoTokens
  /\ UNCHANGED <<given, command, program, module, queue, machine, results>>

Done == stage = "shell" /\ given = MaxCommands /\ UNCHANGED vars

Next ==
  \/ Invoke \/ Lex \/ Parse \/ Check \/ Compile \/ StartCall \/ RunStep \/ EndCall \/ EndCalls
  \/ Format \/ Done

Spec == Init /\ [][Next]_vars

----------------------------------------------------------------------------
\* A code frame is at an instruction of its function and its locals have a slot for
\* every name of the function.
FrameOK(frame) ==
  frame.k = "code" => /\ frame.fn \in DOMAIN module.fns
                      /\ frame.ip \in DOMAIN module.fns[frame.fn].code
                      /\ Len(frame.locals) >= module.fns[frame.fn].locals

\* Type correctness: a running machine has frames, all at instructions of the module.
TypeOK ==
  /\ given \in 0..MaxCommands /\ command \in Commands \cup {"none"} /\ code \in {0, 1}
  /\ stage \in {"shell", "lex", "parse", "check", "compile", "call", "execute", "format"}
  /\ machine.status \in {"none", "running", "done", "failed"}
  /\ machine.status = "running" <=> machine.frames # <<>>
  /\ \A j \in DOMAIN machine.frames : FrameOK(machine.frames[j])

\* The parts of a tree that are evaluated while an operand of the tree already waits.
LaterOperands(t) ==
  CASE t.k \in {"BinOp", "Index", "List", "Map", "Call", "MethodCall"} -> Tail(Children(t) \o <<>>)
    [] t.k = "Assign" /\ t.target.k # "Ident" -> Append(Tail(Children(t.target)), t.value)
    [] OTHER -> <<>>
Mentions(ts, kind) == \E node \in Nodes(ts) : node.k = kind

MatchAmongOperands(items) ==
  \E f \in ToSet(Kept(items, "Fn")) : \E t \in Nodes(f.body) :
    Children(t) # <<>> /\ Mentions(LaterOperands(t), "Match")

\* A ? in a function or a lambda that another function calls.
TryInCallee(items) ==
  \E f \in ToSet(Kept(items, "Fn")) :
    \/ FnName(f) \notin {<<"main">>} \cup ToSet(TestNames(items)) /\ Mentions(f.body, "Try")
    \/ \E t \in Nodes(f.body) : t.k = "Lambda" /\ Mentions(LambdaParts(t.body), "Try")

\* The names bound at a node, and in a tree, once for each place that binds them.
BoundAt(t) ==
  CASE t.k = "Let" -> <<t.name>>
    [] t.k = "For" -> <<t.var>>
    [] t.k = "Lambda" -> Names(t.params)
    [] t.k = "Match" -> FlattenSeq([j \in DOMAIN t.arms |->
                          IF t.arms[j].pattern.k = "Ctor" THEN <<t.arms[j].pattern.bind>> ELSE <<>>])
    [] OTHER -> <<>>
RECURSIVE Binders(_)
Binders(t) == BoundAt(t) \o FlattenSeq([j \in DOMAIN Children(t) |-> Binders(Children(t)[j])])

RebindsNames(items) ==
  \E f \in ToSet(Kept(items, "Fn")) :
    LET names == Names(f.params) \o FlattenSeq([j \in DOMAIN f.body |-> Binders(f.body[j])])
    IN ~IsInjective(names)

\* What the calls of the last command gave, and what they should have given.
Called == IF command = "run" THEN <<<<"main">>>> ELSE TestNames(program)
AreMeant(meanings) ==
  \A j \in DOMAIN results : meanings[j].status # "unbound" => results[j] = meanings[j]
Meanings == [j \in DOMAIN Called |-> MeaningOf(program, Called[j])]
Finished == stage = "shell" /\ results # <<>>

\* Compiler correctness: main and every test give what the program means, whenever every
\* name they reach is bound, no name is bound twice in a function, no match stands after
\* an operand that waits for it and no called function has a ?.
CallsAsMeant ==
  Finished /\ ~MatchAmongOperands(program) /\ ~TryInCallee(program) /\ ~RebindsNames(program) =>
    AreMeant(Meanings)

\* A match leaves its value on the stack of its function and nothing below it, wherever it
\* stands: a call gives what the program means (the comments of compile_match).
MatchLeavesItsValue ==
  Finished /\ ~TryInCallee(program) /\ ~RebindsNames(program) =>
    AreMeant(Meanings)

\* A ? on an Err makes the function that holds it return the Err to its caller (the
\* comment of test_try_propagate).
TryReturnsFromItsFunction ==
  Finished /\ ~MatchAmongOperands(program) /\ ~RebindsNames(program) =>
    AreMeant(Meanings)

\* The core of the language: numbers and booleans, variables, branches, loops and calls
\* of the functions of the program, each of which ends in a return.
CoreKinds == {"Let", "Return", "Assign", "If", "While", "Expr", "Number", "Bool", "Ident",
              "BinOp", "Unary", "Call"}
IsCore(items) ==
  LET fns == ToSet(Kept(items, "Fn"))
      names == {FnName(f) : f \in fns}
      CoreNode(t) == /\ t.k \in CoreKinds
                     /\ t.k = "BinOp" => t.op \notin {"/", "<<", ">>"}
                     /\ t.k = "Call" => t.callee.k = "Ident" /\ t.callee.name \in names
      CoreFn(f) == /\ f.body # <<>> /\ Last(f.body).k = "Return" /\ f.generics = <<>>
                   /\ TyFromAst(f.ret) \in {NumberTy, BoolTy}
                   /\ \A j \in DOMAIN f.params : TyFromAst(f.params[j].ty) \in {NumberTy, BoolTy}
                   /\ \A t \in Nodes(f.body) : CoreNode(t)
                   /\ \A j \in DOMAIN f.body : names \cap ToSet(Binders(f.body[j])) = {}
  IN /\ \A f \in fns : CoreFn(f)
     /\ Cardinality(names) = Len(Kept(items, "Fn")) /\ ~RebindsNames(items)

\* Type soundness of the core: a program that is accepted and run does not fail, unless it
\* reaches a name that nothing binds.
AcceptedCoreProgramsSucceed ==
  Finished /\ command = "run" /\ IsCore(program) /\ Meanings[1].status # "unbound" =>
    code = 0 /\ results[1].status = "done"

\* A variable that an earlier function made by the constructor of a generic struct is,
\* in a later one, a parameter or bound in another way than by such a constructor.
SharesGenericVariable(items) ==
  LET g == Signatures(items)
      fns == Kept(items, "Fn")
      Otherwise(f) == ToSet(Names(f.params))
                      \cup UNION {ToSet(BoundAt(t)) : t \in {s \in Nodes(f.body) : ~IsConstruction(s, g)}}
      After1(f) == DOMAIN CheckFn(f, g).vars
  IN \E i, j \in DOMAIN fns : i < j /\ After1(fns[i]) \cap Otherwise(fns[j]) # {}

\* The verdict on a function does not depend on the functions checked before it: what
\* they leave in var_generic_map of a variable is replaced when the variable is made
\* once more, and reaches no variable of another name.
FunctionsAreCheckedAlone ==
  stage = "check" /\ ~SharesGenericVariable(program) =>
    LET g == Signatures(program)
        Alone(f) == CheckFn(f, g).errors
        fns == Kept(program, "Fn")
    IN SelectSeq(TypeErrors(program), LAMBDA what : what # "deadline")
         = FlattenSeq([j \in DOMAIN fns |-> Alone(fns[j])])

\* What a program is, apart from the lines and the layout of its text.
ModifierMeaning(m) ==
  LET context == [code |-> <<>>, locals |-> <<>>, fns |-> <<>>, lambdas |-> 0, ok |-> TRUE,
                  structs |-> <<>>, enums |-> <<>>]
  IN [field \in DOMAIN m |-> IF field = "value" THEN CompileTree(m.value, context).code
                             ELSE m[field]]
ProgramOf(items) ==
  [code |-> CompileProgram(items), types |-> Signatures(items),
   modifiers |-> [j \in DOMAIN Kept(items, "Fn") |->
     LET f == Kept(items, "Fn")[j] IN [k \in DOMAIN f.modifiers |-> ModifierMeaning(f.modifiers[k])]]]

\* What the formatter cannot print: it makes -(5) the literal -5, it escapes no pattern
\* and no path of an import, and a body of an arm or a lambda that begins with a map is
\* read back as a block.
Unprintable(t) ==
  LET Raw(s) == s # <<>> /\ ToSet(s) \cap {"\\", "\""} # {}
      OpensBrace(e) == Head(FmtExpr(e)) = "{"
  IN CASE t.k = "Unary" -> t.op = "-" /\ t.expr.k = "Number"
       [] t.k = "Match" -> \E arm \in ToSet(t.arms) :
                             \/ OpensBrace(arm.body)
                             \/ arm.pattern.k = "Literal" /\ "s" \in DOMAIN arm.pattern
                                /\ Raw(arm.pattern.s)
       [] OTHER -> FALSE
Printable(items) ==
  \A j \in DOMAIN items :
    CASE items[j].k = "Fn" ->
           LET values == SelectSeq(items[j].modifiers, LAMBDA m : "value" \in DOMAIN m)
               trees == items[j].body \o [k \in DOMAIN values |-> values[k].value]
           IN \A t \in Nodes(trees) : ~Unprintable(t)
      [] items[j].k = "Import" -> ToSet(items[j].path) \cap {"\\", "\""} = {}
      [] OTHER -> TRUE

\* A comment ends the first line of a statement whose text has several lines although it
\* is no block: it holds a match or a lambda with a block.
CommentInsideAStatement(items, comments) ==
  \E c \in ToSet(comments), f \in ToSet(Kept(items, "Fn")) : \E s \in Nodes(f.body) :
    /\ s.k \in {"Let", "Return", "Assign", "Expr", "If", "While", "For"}
    /\ c.trailing /\ c.line = s.line
    /\ LET head == IF s.k \in {"If", "While"} THEN s.cond ELSE IF s.k = "For" THEN s.iter
                   ELSE s.value
       IN "\n" \in ToSet(FmtExpr(head))

Reread(text) == ParseProgram(Tokenize(text).toks)
Texts(comments) == [j \in DOMAIN comments |-> comments[j].text]
Formatted(text) ==
  LET read == Tokenize(text) IN FormatProgram(ParseProgram(read.toks).v, read.comments)

\* The file after fmt.
JustFormatted == stage = "shell" /\ command = "fmt" /\ code = 0 /\ Printable(program)

IsTheProgram(read) == read.ok /\ ProgramOf(read.v) = ProgramOf(program)
IsFormatted(text) == Formatted(text) = text

\* Formatting changes the layout only: the new text is a program again, with the same
\* types and modifiers, and it compiles to the same code (fmt_prec and its parentheses).
FormatKeepsTheProgram == JustFormatted => IsTheProgram(Reread(file))

\* A formatted file is left as it is when it is formatted again, comments included: the
\* lines the parser counts in the new text put every comment back in its place.
FormatIsIdempotent ==
  /\ stage = "format" /\ Printable(program)
  /\ ~CommentInsideAStatement(program, tokens.comments)
  => IsFormatted(FormatProgram(program, tokens.comments))

\* No step that writes the file loses, doubles or reorders a comment, whatever stage it
\* reached (the emitter of comments in format_program).
FormatKeepsTheComments ==
  [][file' # file /\ Printable(program) =>
       Texts(Tokenize(file').comments) = Texts(tokens.comments)]_vars
============================================================================
