---------------------------- MODULE ModuleLoader ---------------------------
(***************************************************************************)
(* The module loader of Oberih (module_loader.rs): the imports of a file   *)
(* are replaced, depth first, by the declarations of the files they name,  *)
(* each file at most once, and then no file may mention a private function *)
(* or struct of another one.  Files are a function from paths, sequences   *)
(* of names, to texts; packages a function from names to their roots.  An  *)
(* item is its place: its file and its number there.                       *)
(***************************************************************************)
EXTENDS Paths, FiniteSets

CONSTANTS ReadProgram(_),  \* the lexer and the parser: a text to [ok, v], v the list of its items
          RefsIn(_)        \* the names that the statements of a body mention

\* An absolute path is taken as it is, the first name of a path may be a package, and any
\* other path starts at the directory of the file that imports it.
ResolvePath(dir, path, packages) ==
  LET names == Components(path)
      package == Head(names)
  IN CASE path # <<>> /\ Head(path) = "/" -> Canonical(names)
       [] path # <<>> /\ Head(path) # "/" /\ Len(names) > 1 /\ package \in DOMAIN packages ->
            Canonical(packages[package] \o Tail(names))
       [] OTHER -> Canonical(dir \o names)

ReadFiles(files) == [p \in DOMAIN files |-> ReadProgram(files[p])]
ItemAt(read, place) == read[place[1]].v[place[2]]
IsImport(item) == item.k = "Import"
IsMain(item) == item.k = "Fn" /\ item.method = <<>> /\ item.name = <<"main">>
Imported(read, packages, place) ==
  ResolvePath(Front(place[1]), ItemAt(read, place).path, packages)

\* What the items of some places define and mention.
IsDef(item) == (item.k = "Fn" /\ item.method = <<>>) \/ item.k = "Struct"
Defs(read, places) ==
  {[name |-> ItemAt(read, x).name, file |-> x[1], private |-> ItemAt(read, x).isPrivate] :
     x \in {y \in places : IsDef(ItemAt(read, y))}}
Refs(read, places) ==
  UNION {{[file |-> x[1], name |-> n] : n \in RefsIn(ItemAt(read, x).body)} :
           x \in {y \in places : ItemAt(read, y).k = "Fn"}}

\* Visibility::check: a name that another file alone defines, and keeps private.
Hidden(ref, defs) ==
  LET same == {d \in defs : d.name = ref.name}
  IN same # {} /\ \A d \in same : d.file # ref.file /\ d.private
Visible(refs, defs) == \A ref \in refs : ~Hidden(ref, defs)

----------------------------------------------------------------------------
\* The loader: the items so far, the files visited, and the items whose names Visibility holds.
Loading(visited) == [ok |-> TRUE, items |-> <<>>, visited |-> visited, noted |-> {}]

WithoutMain(read, items) ==
  LET kept[n \in 0..Len(items)] ==
        IF n = 0 THEN <<>>
        ELSE IF IsMain(ItemAt(read, items[n])) THEN kept[n - 1] ELSE Append(kept[n - 1], items[n])
  IN kept[Len(items)]

Joined(read, st, inner, visited) ==
  [ok |-> inner.ok, items |-> st.items \o WithoutMain(read, inner.items),
   visited |-> visited, noted |-> st.noted \cup inner.noted]

\* Mutant: what an import has visited is forgotten after it.
MergeForgetful(read, st, inner) == Joined(read, st, inner, st.visited)

\* The items of an import, without a main, after the items before it.
Merge(read, st, inner) == Joined(read, st, inner, inner.visited)

Keep(st, place) ==
  [ok |-> st.ok, items |-> Append(st.items, place), visited |-> st.visited,
   noted |-> st.noted \cup {place}]
Broken(st) == [st EXCEPT !.ok = FALSE]

\* An item of a file, after those before it: an import adds the items of its file, which inner
\* gives, once; any other item is kept.
ResolveItem(read, packages, st, place, inner) ==
  LET target == Imported(read, packages, place)
      started == st.visited \cup {target}
  IN CASE ~st.ok -> st
       [] st.ok /\ ~IsImport(ItemAt(read, place)) -> Keep(st, place)
       [] st.ok /\ IsImport(ItemAt(read, place)) /\ target \in st.visited -> st
       [] st.ok /\ IsImport(ItemAt(read, place)) /\ target \notin st.visited ->
            IF target \in DOMAIN read /\ read[target].ok
            THEN Merge(read, st, inner[target][started]) ELSE Broken(st)

\* The items of a file, one after the other.
ResolveItems(read, packages, p, visited, inner) ==
  LET walk[j \in 0..Len(read[p].v)] ==
        IF j = 0 THEN Loading(visited)
        ELSE ResolveItem(read, packages, walk[j - 1], <<p, j>>, inner)
  IN walk[Len(read[p].v)]

\* A file with all it imports, depth files deep at most.
Readable(read) == {p \in DOMAIN read : read[p].ok}
ResolveRecursive(read, packages, depth) ==
  LET load[n \in 0..depth] ==
        [p \in Readable(read) |-> [visited \in SUBSET DOMAIN read |->
           IF n = 0 THEN Broken(Loading(visited))
           ELSE ResolveItems(read, packages, p, visited, load[n - 1])]]
  IN load[depth]

\* resolve_imports_with_packages, from the file at path.  A file is entered once, so that
\* imports are never deeper than there are files.
ResolveImports(path, packages, files) ==
  LET read == ReadFiles(files)
      end == ResolveRecursive(read, packages, Cardinality(DOMAIN files))[path][{path}]
  IN IF end.ok /\ Visible(Refs(read, end.noted), Defs(read, end.noted))
     THEN [ok |-> TRUE, v |-> end.items] ELSE [ok |-> FALSE]

----------------------------------------------------------------------------
\* What the loader promises, without its walk: the files a file reaches are those in every set
\* that holds it and with a file the imports of this file.
PlacesOf(read, p) == {<<p, j>> : j \in DOMAIN read[p].v}
ImportsOf(read, packages, p) ==
  IF p \in Readable(read)
  THEN {Imported(read, packages, x) : x \in {y \in PlacesOf(read, p) : IsImport(ItemAt(read, y))}}
  ELSE {}
IsClosed(S, read, packages) == \A p \in S : ImportsOf(read, packages, p) \subseteq S
Reached(path, read, packages) ==
  LET all == {path} \cup DOMAIN read \cup UNION {ImportsOf(read, packages, p) : p \in DOMAIN read}
      Holding == {S \in SUBSET all : path \in S /\ IsClosed(S, read, packages)}
  IN {p \in all : \A S \in Holding : p \in S}

Declared(read, p, isTarget) ==
  {x \in PlacesOf(read, p) : ~IsImport(ItemAt(read, x)) /\ (isTarget \/ ~IsMain(ItemAt(read, x)))}

\* A name a function of a file mentions, that only other files define, all of them as private.
Trespasses(read, p, reached) ==
  LET Items(q) == {ItemAt(read, x) : x \in PlacesOf(read, q)}
      Mentioned == UNION {RefsIn(i.body) : i \in {e \in Items(p) : e.k = "Fn"}}
      Owners(n) == {q \in reached : \E i \in Items(q) : IsDef(i) /\ i.name = n}
  IN \E n \in Mentioned :
       Owners(n) # {} /\ \A q \in Owners(n) : \A i \in Items(q) :
                            IsDef(i) /\ i.name = n => q # p /\ i.isPrivate

InOrder(items) ==
  \A i, j \in DOMAIN items : i < j /\ items[i][1] = items[j][1] => items[i][2] < items[j][2]

\* Loading gives every declaration of every reachable file exactly once, those of a file in
\* their order, and no main but that of the file itself; it succeeds just when all of the
\* files can be read and none trespasses.
IsComplete(result, path, packages, files) ==
  LET read == ReadFiles(files)
      reached == Reached(path, read, packages)
  IN /\ result.ok <=> /\ reached \subseteq Readable(read)
                      /\ \A p \in reached : ~Trespasses(read, p, reached)
     /\ result.ok => /\ InOrder(result.v)
                     /\ ToSet(result.v) = UNION {Declared(read, p, p = path) : p \in reached}
============================================================================
