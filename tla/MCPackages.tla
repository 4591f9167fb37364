----------------------------- MODULE MCPackages ----------------------------
(***************************************************************************)
(* Small instances of Packages: a project with git dependencies, one with  *)
(* local ones, and projects whose imports form chains, diamonds and cycles.*)
(***************************************************************************)
EXTENDS PackagesInvariant, Trees, Texts

At2(a, b) == <<<<a>>, <<b, ".", "obh">>>>
App(file) == <<<<"app">>, <<"src">>, <<file, ".", "obh">>>>
Text(path, s) == path :> Chars(s)
WithManifest == ManifestPath :> Chars("# app\n[package]\nname = \"app\"\n\n[dependencies]\n")

\* Repositories, and a name that changes its source.
Named1(name, source) == Dependency(<<name>>, source)
Git1(url, branch, tag, rev) == Named1("web", GitSource(<<url>>, branch, tag, rev))
Tip1(url) == Git1(url, <<>>, <<>>, <<>>)
Rev(c) == Git1("u", <<>>, <<>>, <<<<c>>>>)
MainOfWeb == WithManifest @@ Text(App("main"), "import \"web/lib.obh\" fn main() { f() }")
GitProjects ==
  {[adds |-> a, files |-> MainOfWeb] :
     a \in {{Tip1("u"), Git1("u", <<<<"dev">>>>, <<>>, <<>>)}, {Tip1("u"), Tip1("w")},
            {Rev("1"), Rev("9"), Tip1("u")}, {Git1("u", <<>>, <<<<"v">>>>, <<>>), Rev("2")}}}
Library(url, c) == Chars("fn f() -> Number { return ") \o <<ToString(c)>> \o Chars(" }")
TagV == <<"v">> :> 1
RevV == <<"1">> :> 1 @@ <<"2">> :> 2

\* Local packages: a plain one, names that need quoting, one that the manifest cannot hold,
\* one that is not there.
Local(path) == Named1("math", PathSource(Chars(path)))
Both == Named1("tools", PathSource(Chars("../lib")))
LocalProject ==
  [adds |-> {Local("../lib"), Local("../q\"\\n"), Local("../h#"), Local("../none"), Both},
   files |-> Text(App("main"), "import \"math/a.obh\" import \"tools/a.obh\" fn main() -> T { return f() }")
             @@ Text(At2("lib", "a"), "fn f() -> Number { return 1 }")
             @@ Text(<<<<"q", "\"", "\\", "n">>, <<"a", ".", "obh">>>>, "fn f() -> Number { return 2 }")
             @@ Text(<<<<"h", "#">>, <<"a", ".", "obh">>>>, "fn f() -> Number { return 3 }")]

\* Imports: what the three files of a project import.
Imports(names) == FlattenSeq([j \in DOMAIN names |-> Chars("import \"" \o names[j] \o "\" ")])
MainImports == {<<"a.obh">>, <<"b.obh", "a.obh">>, <<"../lib/a.obh", "a.obh">>}
AImports == {<<>>, <<"main.obh", "./../src/b.obh">>, <<"c.obh">>}
BImports == {<<>>, <<"a.obh", "b.obh">>}
MainBody == Chars("fn main() -> T { return fa() + fb() }")
ABody == Chars("fn fa() -> T { return 1 } fn main() -> T { return 2 }")
BBodies == {Chars("fn fb() -> T { return fa() }"), Chars("private fn fb() -> T { return 3 }")}
ImportProject(m, a, b, body) ==
  [adds |-> {}, files |-> (App("main") :> (Imports(m) \o MainBody))
                          @@ (App("a") :> (Imports(a) \o ABody)) @@ (App("b") :> (Imports(b) \o body))]
ImportProjects == {ImportProject(m, a, b, body) : m \in MainImports, a \in AImports,
                                                  b \in BImports, body \in BBodies}

AllLayouts == GitProjects \cup {LocalProject} \cup ImportProjects
AllCharacters == STRING
MCUrls == {<<"u">>, <<"w">>}
MCBranches == {<<"main">>, <<"dev">>}
============================================================================
