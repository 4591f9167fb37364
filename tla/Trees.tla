-------------------------------- MODULE Trees ------------------------------
(***************************************************************************)
(* Walks over the trees of the parser: the parts of a node in the order    *)
(* the walks of module_loader.rs visit them, the names a tree refers to,   *)
(* and all nodes below a node.                                             *)
(***************************************************************************)
EXTENDS Parser

StmtKinds == {"Let", "Return", "Assign", "If", "While", "For", "Expr"}

LambdaParts(body) == IF body.k = "Value" THEN <<body.value>> ELSE body.stmts

Children(t) ==
  CASE t.k \in {"Let", "Return", "Expr", "Result"} -> <<t.value>>
    [] t.k = "Assign" -> <<t.target, t.value>>
    [] t.k = "If" -> <<t.cond>> \o t.then
                     \o (IF t.otherwise = <<>> THEN <<>> ELSE t.otherwise[1].body)
    [] t.k = "While" -> <<t.cond>> \o t.body
    [] t.k = "For" -> <<t.iter>> \o t.body
    [] t.k = "BinOp" -> <<t.left, t.right>>
    [] t.k \in {"Unary", "Try"} -> <<t.expr>>
    [] t.k = "Call" -> <<t.callee>> \o t.args
    [] t.k = "MethodCall" -> <<t.object>> \o t.args
    [] t.k = "Field" -> <<t.object>>
    [] t.k = "Index" -> <<t.object, t.index>>
    [] t.k = "Match" -> <<t.scrutinee>> \o [j \in DOMAIN t.arms |-> t.arms[j].body]
    [] t.k = "Spawn" -> t.args
    [] t.k = "List" -> t.elems
    [] t.k = "Map" -> FlattenSeq([j \in DOMAIN t.entries |->
                                    <<t.entries[j].key, t.entries[j].value>>])
    [] t.k = "Lambda" -> LambdaParts(t.body)
    [] t.k \in {"Number", "String", "Bool", "Ident"} -> <<>>

\* The names an expression or a statement mentions, whatever they are bound to, in
\* the order of the source.
RECURSIVE CollectRefs(_)
CollectRefs(t) ==
  (IF t.k \in {"Ident", "Spawn"} THEN <<t.name>> ELSE <<>>)
  \o FlattenSeq([j \in DOMAIN Children(t) |-> CollectRefs(Children(t)[j])])

CollectAllRefs(ts) == FlattenSeq([j \in DOMAIN ts |-> CollectRefs(ts[j])])
NamesIn(ts) == ToSet(CollectAllRefs(ts))

\* A text as a program, as the module loader reads each file.
ParseText(text) ==
  LET Parsed(read) == IF read.ok THEN ParseProgram(read.toks) ELSE Bad(1)
  IN Parsed(Tokenize(text))

RECURSIVE Subtrees(_)
Subtrees(t) == {t} \cup UNION {Subtrees(c) : c \in ToSet(Children(t))}

Nodes(stmts) == UNION {Subtrees(s) : s \in ToSet(stmts)}
============================================================================
