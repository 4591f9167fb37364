------------------------------ MODULE Manifest -----------------------------
(***************************************************************************)
(* The manifest of a project, oberih.toml (manifest.rs): its text, a       *)
(* sequence of characters, is parsed into the package and its dependencies *)
(* and written back by init and add.  An Option is a sequence of at most   *)
(* one element; a parse gives [ok, v].                                     *)
(***************************************************************************)
EXTENDS Integers, SequencesExt

CONSTANT Characters   \* those of a text; a run of letters counts as one

ASSUME CharactersAssumption ==
  {"\n", " ", "#", "\"", "\\", "=", ",", "{", "}", "[", "]", "package", "dependencies",
   "name", "version", "entry", "path", "git", "branch", "tag", "rev"} \subseteq Characters

CharSeq == Seq(Characters)
Options == {o \in Seq(CharSeq) : Len(o) <= 1}

Ok(v) == [ok |-> TRUE, v |-> v]
Fail == [ok |-> FALSE]

PathSource(p) == [k |-> "Path", path |-> p]
GitSource(url, branch, tag, rev) ==
  [k |-> "Git", url |-> url, branch |-> branch, tag |-> tag, rev |-> rev]
Dependency(name, source) == [name |-> name, source |-> source]
DepSources == [k : {"Path"}, path : CharSeq]
              \cup [k : {"Git"}, url : CharSeq, branch : Options, tag : Options, rev : Options]
Dependencies == [name : CharSeq, source : DepSources]

\* What a loop makes of a sequence, whose step is a function of the state and an element.
Scan(step, start, s) ==
  LET state[n \in 0..Len(s)] == IF n = 0 THEN start ELSE step[state[n - 1]][s[n]]
  IN state[Len(s)]

----------------------------------------------------------------------------
\* Texts: str::trim, str::split_once and str::lines.
IsSpace(c) == c \in {" ", "\t", "\n"}
Trim(s) ==
  LET solid == {i \in DOMAIN s : ~IsSpace(s[i])}
  IN IF solid = {} THEN <<>> ELSE SubSeq(s, Min(solid), Max(solid))

\* Texts without spaces at their ends, and the names that a line of the manifest holds as they
\* are: write_dependency writes any name, and a line is read up to its first # and =.
Solid(s) == s # <<>> /\ ~IsSpace(s[1]) /\ ~IsSpace(s[Len(s)])
PlainName(n) == n \in CharSeq /\ Solid(n) /\ \A i \in DOMAIN n : n[i] \notin {"#", "\n", "="}

Index(s, c) == SelectInSeq(s, LAMBDA x : x = c)
Before(s, i) == SubSeq(s, 1, i - 1)
Behind(s, i) == SubSeq(s, i + 1, Len(s))

\* One character of a text that is split at the commas outside of quotes.
SplitState(parts, part, quoted, escaped) ==
  [parts |-> parts, part |-> part, quoted |-> quoted, escaped |-> escaped]
SplitStates == [parts : Seq(CharSeq), part : CharSeq, quoted : BOOLEAN, escaped : BOOLEAN]
ReadPart ==
  [st \in SplitStates |-> [c \in Characters |->
     LET Push(quoted, escaped) == SplitState(st.parts, Append(st.part, c), quoted, escaped)
     IN CASE st.escaped -> Push(st.quoted, FALSE)
          [] ~st.escaped /\ c = "\"" -> Push(~st.quoted, FALSE)
          [] ~st.escaped /\ st.quoted /\ c = "\\" -> Push(TRUE, TRUE)
          [] ~st.escaped /\ ~st.quoted /\ c = "," ->
               SplitState(Append(st.parts, st.part), <<>>, FALSE, FALSE)
          [] OTHER -> Push(st.quoted, FALSE)]]

\* Its parts; the last one only when something is left of it.
SplitTopLevel(s) ==
  LET end == Scan(ReadPart, SplitState(<<>>, <<>>, FALSE, FALSE), s)
  IN IF Trim(end.part) = <<>> THEN end.parts ELSE Append(end.parts, end.part)

LineState(done, line) == [done |-> done, line |-> line]
LineStates == [done : Seq(CharSeq), line : CharSeq]
BreakLine ==
  [st \in LineStates |-> [c \in Characters |->
     IF c = "\n" THEN LineState(Append(st.done, st.line), <<>>)
     ELSE LineState(st.done, Append(st.line, c))]]
Lines(text) ==
  LET end == Scan(BreakLine, LineState(<<>>, <<>>), text)
  IN IF end.line = <<>> THEN end.done ELSE Append(end.done, end.line)

\* A line up to its first #, in quotes or not.
CutComment(line) == IF Index(line, "#") = 0 THEN line ELSE Before(line, Index(line, "#"))

----------------------------------------------------------------------------
\* One character between two quotes, an escape undone.
EscapeState(out, escaped, ok) == [out |-> out, escaped |-> escaped, ok |-> ok]
EscapeStates == [out : CharSeq, escaped : BOOLEAN, ok : BOOLEAN]
ReadEscape ==
  [st \in EscapeStates |-> [c \in Characters |->
     CASE st.escaped /\ c \in {"\"", "\\"} -> EscapeState(Append(st.out, c), FALSE, st.ok)
       [] st.escaped /\ c = "n" -> EscapeState(Append(st.out, "\n"), FALSE, st.ok)
       [] st.escaped /\ c \notin {"\"", "\\", "n"} -> EscapeState(st.out, FALSE, FALSE)
       [] ~st.escaped /\ c = "\\" -> EscapeState(st.out, TRUE, st.ok)
       [] OTHER -> EscapeState(Append(st.out, c), FALSE, st.ok)]]
Unescape(inner) ==
  LET end == Scan(ReadEscape, EscapeState(<<>>, FALSE, TRUE), inner)
  IN IF end.ok /\ ~end.escaped THEN Ok(end.out) ELSE Fail

Enclosed(s, open, close) == Len(s) >= 2 /\ Head(s) = open /\ Last(s) = close
Inner(s) == SubSeq(s, 2, Len(s) - 1)

ParseQuoted(s) ==
  LET t == Trim(s) IN IF Enclosed(t, "\"", "\"") THEN Unescape(Inner(t)) ELSE Fail

\* A pair of a key and a quoted value.
ParsePair(field) ==
  LET eq == Index(field, "=")
      Pair(value) == IF eq # 0 /\ value.ok THEN Ok([key |-> Trim(Before(field, eq)), value |-> value.v])
                     ELSE Fail
  IN Pair(ParseQuoted(Behind(field, eq)))

\* A field of a table, when there is something in it.
FieldPairs == [key : CharSeq, value : CharSeq]
Tables == {Fail} \cup [ok : {TRUE}, v : Seq(FieldPairs)]
ReadField ==
  [table \in Tables |-> [part \in CharSeq |->
     LET field == Trim(part)
         pair == ParsePair(field)
     IN CASE ~table.ok \/ field = <<>> -> table
          [] table.ok /\ field # <<>> /\ pair.ok -> Ok(Append(table.v, pair.v))
          [] OTHER -> Fail]]

\* A value: a string, or a table of pairs between braces.
ParseValue(raw) ==
  LET t == Trim(raw)
      Value(kind, parsed) == IF parsed.ok THEN Ok([k |-> kind, v |-> parsed.v]) ELSE Fail
  IN IF Enclosed(t, "{", "}") THEN Value("Table", Scan(ReadField, Ok(<<>>), SplitTopLevel(Inner(t))))
     ELSE Value("Str", ParseQuoted(t))

\* The first value of a key.
TableGet(pairs, key) ==
  LET i == SelectInSeq(pairs, LAMBDA p : p.key = <<key>>)
  IN IF i = 0 THEN <<>> ELSE <<pairs[i].value>>

\* A dependency has a path or a git repository, and not both.
DepFromTable(name, t) ==
  LET path == TableGet(t, "path")
      git == TableGet(t, "git")
  IN CASE path # <<>> /\ git = <<>> -> Ok(Dependency(name, PathSource(path[1])))
       [] path = <<>> /\ git # <<>> ->
            Ok(Dependency(name, GitSource(git[1], TableGet(t, "branch"), TableGet(t, "tag"),
                                          TableGet(t, "rev"))))
       [] OTHER -> Fail

----------------------------------------------------------------------------
Sections == {"package", "dependencies"}

\* One line, read in the section that the lines before it opened.
ReadSection(st, line) ==
  LET name == Trim(Inner(line))
  IN IF name \in {<<s>> : s \in Sections} THEN [st EXCEPT !.section = name[1]]
     ELSE [st EXCEPT !.ok = FALSE]

AddDep(st, dep) ==
  IF dep.ok THEN [st EXCEPT !.deps = Append(@, dep.v)] ELSE [st EXCEPT !.ok = FALSE]

AddPair(st, key, value) ==
  CASE value.ok /\ st.section = "package" /\ value.v.k = "Str" ->
         [st EXCEPT !.package = Append(@, [key |-> key, value |-> value.v.v])]
    [] value.ok /\ st.section = "dependencies" /\ value.v.k = "Table" ->
         AddDep(st, DepFromTable(key, value.v.v))
    [] OTHER -> [st EXCEPT !.ok = FALSE]

ReadPair(st, line) ==
  LET eq == Index(line, "=")
  IN IF eq = 0 THEN [st EXCEPT !.ok = FALSE]
     ELSE AddPair(st, Trim(Before(line, eq)), ParseValue(Behind(line, eq)))

ParseStates == [ok : BOOLEAN, section : {""} \cup Sections, package : Seq(FieldPairs),
                deps : Seq(Dependencies)]
ReadTrimmed(st, line) ==
  CASE ~st.ok \/ line = <<>> -> st
    [] st.ok /\ line # <<>> /\ Enclosed(line, "[", "]") -> ReadSection(st, line)
    [] OTHER -> ReadPair(st, line)
ReadLine == [st \in ParseStates |-> [raw \in CharSeq |-> ReadTrimmed(st, Trim(CutComment(raw)))]]

\* parse_str: the manifest needs a name; version and entry have defaults.
DefaultVersion == <<"0", ".", "1", ".", "0">>
DefaultEntry == <<"src", "/", "main", ".", "obh">>
ManifestOf(end) ==
  LET name == TableGet(end.package, "name")
      Default(value, default) == IF value = <<>> THEN default ELSE value[1]
  IN IF end.ok /\ name # <<>>
     THEN Ok([name |-> name[1],
              version |-> Default(TableGet(end.package, "version"), DefaultVersion),
              entry |-> Default(TableGet(end.package, "entry"), DefaultEntry),
              dependencies |-> end.deps])
     ELSE Fail
FirstState == [ok |-> TRUE, section |-> "", package |-> <<>>, deps |-> <<>>]
ParseManifest(text) == ManifestOf(Scan(ReadLine, FirstState, Lines(text)))

----------------------------------------------------------------------------
\* Writing.
EscapeOne ==
  [out \in CharSeq |-> [c \in Characters |->
     out \o (IF c \in {"\\", "\""} THEN <<"\\", c>> ELSE <<c>>)]]
Esc(s) == Scan(EscapeOne, <<>>, s)

Quote(s) == <<"\"">> \o Esc(s) \o <<"\"">>
Field(f) == <<f.key, " ", "=", " ">> \o Quote(f.value)

\* The fields of a dependency, those of a git one that are there.
KeyValue(key, value) == [key |-> key, value |-> value]
FieldsOf(source) ==
  LET Optional(key, value) == [j \in DOMAIN value |-> KeyValue(key, value[j])]
  IN IF source.k = "Path" THEN <<KeyValue("path", source.path)>>
     ELSE <<KeyValue("git", source.url)>> \o Optional("branch", source.branch)
          \o Optional("tag", source.tag) \o Optional("rev", source.rev)

\* The fields, separated by commas.
Fields == [key : Characters, value : CharSeq]
JoinField ==
  [out \in CharSeq |-> [f \in Fields |->
     IF out = <<>> THEN Field(f) ELSE out \o <<",", " ">> \o Field(f)]]
DependencyLine(d) ==
  d.name \o <<" ", "=", " ", "{", " ">> \o Scan(JoinField, <<>>, FieldsOf(d.source)) \o <<" ", "}">>
WriteDependency ==
  [out \in CharSeq |-> [d \in Dependencies |-> out \o DependencyLine(d) \o <<"\n">>]]

ToToml(m) ==
  LET Entry(key, value) == Field(KeyValue(key, value)) \o <<"\n">>
      package == <<"[", "package", "]", "\n">> \o Entry("name", m.name) \o Entry("version", m.version)
                 \o Entry("entry", m.entry) \o <<"\n", "[", "dependencies", "]", "\n">>
  IN Scan(WriteDependency, package, m.dependencies)

\* The dependencies without the one of a name.
Without(ds, name) ==
  LET kept[n \in 0..Len(ds)] ==
        IF n = 0 THEN <<>>
        ELSE IF ds[n].name = name THEN kept[n - 1] ELSE Append(kept[n - 1], ds[n])
  IN kept[Len(ds)]

\* Mutant: the one of its name stays.
WithDependencyTwice(m, dep) == [m EXCEPT !.dependencies = Append(@, dep)]

\* A new dependency takes the place of the one of its name, at the end.
WithDependency(m, dep) == [m EXCEPT !.dependencies = Append(Without(@, dep.name), dep)]

\* find_manifest: the nearest of the directories from start upwards, a sequence of
\* names, that holds the manifest; a relative start that is empty is no directory.
FindManifest(start, relative, Holds(_)) ==
  LET found == {n \in 0..Len(start) : Holds(SubSeq(start, 1, n))}
  IN IF found = {} \/ (relative /\ start = <<>>) THEN <<>> ELSE <<SubSeq(start, 1, Max(found))>>
============================================================================
