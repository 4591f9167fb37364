------------------------------- MODULE Values ------------------------------
(***************************************************************************)
(* The values of the virtual machine (vm/mod.rs, gc.rs) and the built-in   *)
(* functions that compute with them (stdlib.rs, stdlib_ext.rs).  Lists,    *)
(* maps and structs live in a heap, a sequence of objects, and a value     *)
(* refers to one by its place.  Numbers are integers.  A built-in gives    *)
(* the value it returns and the heap it leaves, or fails.                  *)
(***************************************************************************)
EXTENDS Integers, SequencesExt

Nil == [v |-> "Nil"]
Num(n) == [v |-> "Num", n |-> n]
Str(s) == [v |-> "Str", s |-> s]
Bool(b) == [v |-> "Bool", b |-> b]
Result(variant, x) == [v |-> variant, of |-> x]
EnumVal(type, variant) == [v |-> "Enum", type |-> type, variant |-> variant]
Fn(name) == [v |-> "Fn", name |-> name]
Builtin(name) == [v |-> "Builtin", name |-> name]
Closure(name, captured) == [v |-> "Closure", name |-> name, captured |-> captured]

Callable(x) == x.v \in {"Fn", "Builtin", "Closure"}

IsTruthy(x) == CASE x.v = "Bool" -> x.b
                 [] x.v = "Nil" -> FALSE
                 [] x.v = "Num" -> x.n # 0
                 [] OTHER -> TRUE

----------------------------------------------------------------------------
\* The heap.
ListObject(elems) == [elems |-> elems]
MapObject(entries) == [entries |-> entries]
StructObject(type, fields) == [type |-> type, fields |-> fields]

Returned(x, h) == [ok |-> TRUE, value |-> x, heap |-> h]
Failed == [ok |-> FALSE]
Allocated(kind, object, h) == Returned([v |-> kind, at |-> Len(h) + 1], Append(h, object))
NewList(elems, h) == Allocated("List", ListObject(elems), h)

Elems(x, h) == h[x.at].elems
Entries(x, h) == h[x.at].entries

\* A map keeps its keys in the order of their first insertion.
MapKeys(entries) == [j \in DOMAIN entries |-> entries[j][1]]
KeyIndex(entries, key) == SelectInSeq(entries, LAMBDA entry : entry[1] = key)
Insert(entries, key, x) ==
  LET at == KeyIndex(entries, key)
  IN IF at = 0 THEN Append(entries, <<key, x>>) ELSE [entries EXCEPT ![at] = <<key, x>>]
LookUp(entries, key, default) ==
  LET at == KeyIndex(entries, key) IN IF at = 0 THEN default ELSE entries[at][2]
IsKey(x) == x.v \in {"Str", "Bool", "Num"}

\* Structs and functions are equal to nothing, not even to themselves.
RECURSIVE Equal(_, _, _)
Equal(a, b, h) ==
  /\ a.v = b.v
  /\ CASE a.v \in {"Ok", "Err"} -> Equal(a.of, b.of, h)
       [] a.v = "List" -> LET l == Elems(a, h)
                              r == Elems(b, h)
                          IN Len(l) = Len(r) /\ \A j \in DOMAIN l : Equal(l[j], r[j], h)
       [] a.v = "Map" -> LET l == Entries(a, h)
                             r == Entries(b, h)
                         IN /\ Len(l) = Len(r)
                            /\ \A j \in DOMAIN l : LET at == KeyIndex(r, l[j][1])
                                                   IN at # 0 /\ Equal(l[j][2], r[at][2], h)
       [] a.v = "Closure" -> /\ a.name = b.name /\ Len(a.captured) = Len(b.captured)
                             /\ \A j \in DOMAIN a.captured :
                                  Equal(a.captured[j], b.captured[j], h)
       [] a.v \in {"Struct", "Fn", "Builtin"} -> FALSE
       [] OTHER -> a = b

----------------------------------------------------------------------------
\* Operators.
RECURSIVE DecimalText(_)
DecimalText(n) == CASE n < 0 -> <<"-">> \o DecimalText(-n)
                    [] n \in 0..9 -> <<ToString(n)>>
                    [] OTHER -> DecimalText(n \div 10) \o <<ToString(n % 10)>>

\* The bits of integers in two's complement.
RECURSIVE BitAnd(_, _)
BitAnd(a, b) == CASE a = 0 \/ b = 0 -> 0
                  [] a = -1 /\ b # 0 -> b
                  [] b = -1 /\ a \notin {0, -1} -> a
                  [] OTHER -> (a % 2) * (b % 2) + 2 * BitAnd(a \div 2, b \div 2)

Arithmetic(op, a, b) ==
  CASE op = "+" -> a + b
    [] op = "-" -> a - b
    [] op = "*" -> a * b
    [] op = "/" -> a \div b
    [] op = "&" -> BitAnd(a, b)
    [] op = "|" -> a + b - BitAnd(a, b)
    [] op = "^" -> a + b - 2 * BitAnd(a, b)
    [] op = "<<" -> a * 2^b
    [] op = ">>" -> a \div 2^b

Compared(op, a, b) == CASE op = "<" -> a < b
                        [] op = ">" -> a > b
                        [] op = "<=" -> a <= b
                        [] op = ">=" -> a >= b

\* Both operands are values by now: && and || leave nothing out.
BinaryOp(op, l, r, h) ==
  LET numbers == l.v = "Num" /\ r.v = "Num"
      Text(x) == IF x.v = "Num" THEN DecimalText(x.n) ELSE x.s
  IN CASE op = "==" -> Returned(Bool(Equal(l, r, h)), h)
       [] op = "!=" -> Returned(Bool(~Equal(l, r, h)), h)
       [] op = "&&" -> Returned(Bool(IsTruthy(l) /\ IsTruthy(r)), h)
       [] op = "||" -> Returned(Bool(IsTruthy(l) \/ IsTruthy(r)), h)
       [] op \in {"<", ">", "<=", ">="} ->
            IF numbers THEN Returned(Bool(Compared(op, l.n, r.n)), h) ELSE Failed
       [] op = "+" /\ ~numbers ->
            IF {l.v, r.v} \in {{"Str"}, {"Str", "Num"}} THEN Returned(Str(Text(l) \o Text(r)), h)
            ELSE Failed
       [] OTHER -> IF \/ ~numbers
                      \/ op = "/" /\ r.n = 0
                      \/ op \in {"<<", ">>"} /\ r.n \notin 0..63
                   THEN Failed
                   ELSE Returned(Num(Arithmetic(op, l.n, r.n)), h)

UnaryOp(op, x, h) == CASE op = "!" -> Returned(Bool(~IsTruthy(x)), h)
                     [] op = "-" /\ x.v = "Num" -> Returned(Num(-x.n), h)
                     [] op = "~" /\ x.v = "Num" -> Returned(Num(-x.n - 1), h)
                     [] OTHER -> Failed

----------------------------------------------------------------------------
\* Fields and elements.
GetField(object, field, h) ==
  CASE object.v = "Struct" ->
         LET fields == h[object.at].fields
         IN IF field \in DOMAIN fields THEN Returned(fields[field], h) ELSE Failed
    [] object.v = "Map" -> Returned(LookUp(Entries(object, h), Str(field), Nil), h)
    [] OTHER -> Failed

SetField(object, field, x, h) ==
  CASE object.v = "Struct" ->
         IF field \in DOMAIN h[object.at].fields
         THEN Returned(Nil, [h EXCEPT ![object.at].fields[field] = x]) ELSE Failed
    [] object.v = "Map" -> Returned(Nil, [h EXCEPT ![object.at].entries =
                                                      Insert(@, Str(field), x)])
    [] OTHER -> Failed

IsIndex(x) == x.v = "Num" /\ x.n >= 0

\* A list gives nil beyond its end but takes nothing there.
GetIndex(object, index, h) ==
  CASE object.v = "List" /\ IsIndex(index) ->
         LET elems == Elems(object, h)
         IN Returned(IF index.n < Len(elems) THEN elems[index.n + 1] ELSE Nil, h)
    [] object.v = "Map" /\ IsKey(index) -> Returned(LookUp(Entries(object, h), index, Nil), h)
    [] OTHER -> Failed

SetIndex(object, index, x, h) ==
  CASE object.v = "List" /\ IsIndex(index) ->
         IF index.n < Len(Elems(object, h))
         THEN Returned(Nil, [h EXCEPT ![object.at].elems[index.n + 1] = x]) ELSE Failed
    [] object.v = "Map" /\ IsKey(index) ->
         Returned(Nil, [h EXCEPT ![object.at].entries = Insert(@, index, x)])
    [] OTHER -> Failed

----------------------------------------------------------------------------
\* Built-in functions.
ArgAt(args, j) == IF j <= Len(args) THEN args[j] ELSE Nil

MapMethods == {"len", "keys", "values", "entries", "has", "get", "set", "delete", "merge"}

MapOp(m, method, args, h) ==
  LET entries == Entries(m, h)
      key == ArgAt(args, 1)
      needed == CASE method \in {"has", "get", "delete", "merge"} -> 1
                  [] method = "set" -> 2
                  [] OTHER -> 0
      values == [j \in DOMAIN entries |-> entries[j][2]]
      pairs == [j \in DOMAIN entries |-> ListObject(entries[j])]
      refs == [j \in DOMAIN entries |-> [v |-> "List", at |-> Len(h) + j]]
  IN CASE Len(args) < needed -> Failed
       [] Len(args) >= needed /\ method \in {"has", "get", "set", "delete"} /\ ~IsKey(key) -> Failed
       [] method = "len" -> Returned(Num(Len(entries)), h)
       [] method = "keys" -> NewList(MapKeys(entries), h)
       [] method = "values" -> NewList(values, h)
       [] method = "entries" -> NewList(refs, h \o pairs)
       [] method = "has" /\ Len(args) >= needed /\ IsKey(key) ->
            Returned(Bool(KeyIndex(entries, key) # 0), h)
       [] method = "get" /\ Len(args) >= needed /\ IsKey(key) ->
            Returned(LookUp(entries, key, ArgAt(args, 2)), h)
       [] method = "set" /\ Len(args) >= needed /\ IsKey(key) ->
            Returned(m, [h EXCEPT ![m.at].entries = Insert(@, key, args[2])])
       [] method = "delete" /\ Len(args) >= needed /\ IsKey(key) ->
            Returned(LookUp(entries, key, Nil),
                     [h EXCEPT ![m.at].entries = SelectSeq(@, LAMBDA entry : entry[1] # key)])
       [] method = "merge" /\ Len(args) >= needed ->
            IF key.v # "Map" THEN Failed
            ELSE Allocated("Map", MapObject(FoldLeft(LAMBDA all, entry :
                                                       Insert(all, entry[1], entry[2]),
                                                     entries, Entries(key, h))), h)
       [] OTHER -> Failed

\* sort_by_keys: stable, and only for keys of one kind; strings are left out.
Comparable(keys) == \/ Len(keys) < 2
                    \/ \A j \in DOMAIN keys : keys[j].v = "Num"
                    \/ \A j \in DOMAIN keys : keys[j].v = "Bool"
KeyLess(a, b) == IF a.v = "Num" THEN a.n < b.n ELSE ~a.b /\ b.b
SortByKeys(items, keys) ==
  LET Precedes(i, j) == KeyLess(keys[i], keys[j]) \/ (~KeyLess(keys[j], keys[i]) /\ i < j)
      Place(j) == Cardinality({i \in DOMAIN items : Precedes(i, j)}) + 1
  IN [p \in DOMAIN items |-> items[CHOOSE j \in DOMAIN items : Place(j) = p]]

\* The functions of lists, by name; the first argument is the list.
ListFunctions == {"push", "pop", "first", "last", "reverse", "contains", "append", "slice",
                  "concat", "indexOf", "sort", "sum"}

ListFunction(name, args, h) ==
  LET list == args[1]
      elems == Elems(list, h)
      x == ArgAt(args, 2)
      y == ArgAt(args, 3)
      place == SelectInSeq(elems, LAMBDA elem : Equal(elem, x, h))
  IN CASE name = "push" -> NewList(Append(elems, x), h)
       [] name = "append" -> Returned(list, [h EXCEPT ![list.at].elems = Append(@, x)])
       [] name = "pop" -> IF elems = <<>> THEN Returned(Nil, h)
                          ELSE Returned(Last(elems), [h EXCEPT ![list.at].elems = Front(@)])
       [] name = "first" -> Returned(IF elems = <<>> THEN Nil ELSE Head(elems), h)
       [] name = "last" -> Returned(IF elems = <<>> THEN Nil ELSE Last(elems), h)
       [] name = "reverse" -> NewList(Reverse(elems), h)
       [] name = "contains" -> Returned(Bool(place # 0), h)
       [] name = "indexOf" -> Returned(Num(place - 1), h)
       [] name = "concat" -> IF x.v = "List" THEN NewList(elems \o Elems(x, h), h) ELSE Failed
       [] name = "slice" -> IF ~IsIndex(x) \/ ~(Len(args) < 3 \/ IsIndex(y)) THEN Failed
                            ELSE NewList(SubSeq(elems, x.n + 1,
                                                IF Len(args) < 3 THEN Len(elems)
                                                ELSE Min({y.n, Len(elems)})), h)
       [] name = "sort" -> IF Comparable(elems) THEN NewList(SortByKeys(elems, elems), h)
                           ELSE Failed
       [] name = "sum" -> IF \A j \in DOMAIN elems : elems[j].v = "Num"
                          THEN Returned(Num(FoldLeft(LAMBDA n, elem : n + elem.n, 0, elems)), h)
                          ELSE Failed

\* What a for walks: a list itself, the keys of a map, the characters of a string.
Iterable(x, h) == CASE x.v = "List" -> Returned(x, h)
                    [] x.v = "Map" -> NewList(MapKeys(Entries(x, h)), h)
                    [] x.v = "Str" -> NewList([j \in DOMAIN x.s |-> Str(<<x.s[j]>>)], h)
                    [] OTHER -> Failed

LenOf(x, h) == CASE x.v = "List" -> Returned(Num(Len(Elems(x, h))), h)
                 [] x.v = "Map" -> Returned(Num(Len(Entries(x, h))), h)
                 [] x.v = "Str" -> Returned(Num(Len(x.s)), h)
                 [] OTHER -> Failed

HigherOrder == {"map", "filter", "reduce", "each", "any", "all", "find", "sortBy"}
MapFunctions == [keys |-> "keys", values |-> "values", entries |-> "entries", mapHas |-> "has",
                 mapGet |-> "get", mapSet |-> "set", mapDelete |-> "delete", mapMerge |-> "merge"]
IsBuiltin(name) ==
  name \in {<<b>> : b \in ListFunctions \cup HigherOrder \cup DOMAIN MapFunctions
                          \cup {"len", "range", "__iterable", "assert"}}

CallBuiltin(name, args, h) ==
  LET x == ArgAt(args, 1)
      y == ArgAt(args, 2)
  IN CASE name = "len" -> LenOf(x, h)
       [] name = "__iterable" -> Iterable(x, h)
       [] name = "assert" -> IF IsTruthy(x) THEN Returned(Nil, h) ELSE Failed
       [] name = "range" -> IF {x.v, y.v} = {"Num"}
                            THEN NewList([j \in 1..(y.n - x.n) |-> Num(x.n + j - 1)], h) ELSE Failed
       [] name \in ListFunctions -> IF x.v = "List" THEN ListFunction(name, args, h) ELSE Failed
       [] name \in DOMAIN MapFunctions ->
            IF x.v = "Map" THEN MapOp(x, MapFunctions[name], Tail(args), h) ELSE Failed

\* The methods of lists, strings and maps that are no functions of the program.
ListMethod(list, method, args, h) ==
  LET elems == Elems(list, h)
  IN CASE method = "len" -> LenOf(list, h)
       [] method = "push" ->
            Returned(list, IF args = <<>> THEN h ELSE [h EXCEPT ![list.at].elems = Append(@, args[1])])
       [] method \in {"pop", "first", "last", "reverse", "contains"} ->
            ListFunction(method, <<list>> \o args, h)
       [] OTHER -> Failed

StrMethod(s, method, args, h) ==
  CASE method = "len" -> LenOf(s, h)
    [] method \in {"contains", "startsWith"} ->
         LET part == ArgAt(args, 1).s
             starts == IF method = "contains" THEN 0..(Len(s.s) - Len(part)) ELSE {0}
         IN IF ArgAt(args, 1).v # "Str" THEN Failed
            ELSE Returned(Bool(\E at \in starts : SubSeq(s.s, at + 1, at + Len(part)) = part), h)
    [] OTHER -> Failed

NativeMethod(receiver, method, args, h) ==
  CASE receiver.v = "List" -> ListMethod(receiver, method, args, h)
    [] receiver.v = "Map" -> MapOp(receiver, method, args, h)
    [] receiver.v = "Str" -> StrMethod(receiver, method, args, h)
    [] OTHER -> Failed
============================================================================
