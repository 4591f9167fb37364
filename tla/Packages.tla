------------------------------ MODULE Packages -----------------------------
(***************************************************************************)
(* A project with dependencies (main.rs: init, add, run; deps.rs;          *)
(* manifest.rs; module_loader.rs).  A user gives commands in the project,  *)
(* one after the other; a command resolves the dependencies of the         *)
(* manifest, git ones into the cache .oberih/deps, and run then loads the  *)
(* imports of its file.  Meanwhile others push commits to the remote       *)
(* repositories, git may fail, and a command may be killed at any step.    *)
(* The language is a parameter: the lexer and the parser, and the names a  *)
(* body mentions.                                                          *)
(***************************************************************************)
EXTENDS Manifest, ModuleLoader

CONSTANTS Layouts,            \* the projects: their files and the dependencies they add
          Urls, Branches,     \* the remote repositories and their branches
          Tags,               \* the tags of every repository: the commit each one names
          Revs,               \* its revisions: the commit each one names
          LibraryText(_, _),  \* the text of lib.obh in a repository at a commit
          MaxCommits,         \* bound: commits of a repository
          MaxCommands,        \* bound: commands of the user
          MaxCrashes          \* bound: commands that are killed

ASSUME BoundsAssumption == MaxCommits \in Nat \ {0} /\ MaxCommands \in Nat /\ MaxCrashes \in Nat
ASSUME RemotesAssumption ==
  /\ <<"main">> \in Branches
  /\ \A t \in DOMAIN Tags : Tags[t] \in 1..MaxCommits
  /\ \A c \in DOMAIN Revs : Revs[c] \in 1..MaxCommits

VARIABLES project,   \* its layout: its first files and the dependencies the user may add
          files,     \* the files of the project: path |-> text
          remote,    \* by repository: its last commit and the tip of each branch
          cache,     \* by name: the clone in the cache, if its directory exists
          command,   \* the command at work, or the last one
          stage,     \* what it does next, "shell" between two commands
          man,       \* the manifest it works with, if any
          todo,      \* the dependencies it has still to resolve
          packages,  \* the roots of those it has resolved
          writes,    \* the files it has still to write
          program,   \* the items run has loaded
          code,      \* the exit code of the last command
          given, crashes,
          seen,      \* history: the remote when the command began
          used,      \* history: by name, the commit the last good run used, 0 for none
          recorded   \* history: the dependencies that were added

vars == <<project, files, remote, cache, command, stage, man, todo, packages, writes, program,
          code, given, crashes, seen, used, recorded>>

----------------------------------------------------------------------------
\* Paths.
Root == <<<<"app">>>>
ManifestFile == <<"oberih", ".", "toml">>
ManifestPath == Append(Root, ManifestFile)
CacheDir(name) == Root \o <<<<".", "oberih">>, <<"deps">>, name>>
LibFile == <<"lib", ".", "obh">>
EntryOf(m) == Canonical(Root \o Components(m.entry))
adds == project.adds

IsDir(dir) == \E p \in DOMAIN files : IsStrictPrefix(dir, p)

\* What is on the disk: the files of the project and of the clones that are checked out.
Clones == {n \in DOMAIN cache : cache[n] # <<>> /\ cache[n][1].head # 0}
LibOf(name) == Append(CacheDir(name), LibFile)
Disk == [p \in DOMAIN files \cup {LibOf(n) : n \in Clones} |->
           IF p \in DOMAIN files THEN files[p]
           ELSE LET n == CHOOSE m \in Clones : p = LibOf(m)
                IN LibraryText(cache[n][1].url, cache[n][1].head)]

IsGit(dep) == dep.source.k = "Git"

\* External: the commit a revision names, 0 for one that git does not know.
RevCommit(rev) == IF rev \in DOMAIN Revs THEN Revs[rev] ELSE 0
KnownRev(url, rev) == RevCommit(rev) \in 1..remote[url].latest
BranchOf(source) == IF source.branch = <<>> THEN <<"main">> ELSE source.branch[1]
Tip(source) == remote[source.url].tips[BranchOf(source)]

\* Mutant: only a tag pins a dependency.
PinnedByTag(source) == source.tag # <<>>

Pinned(source) == source.tag # <<>> \/ source.rev # <<>>

----------------------------------------------------------------------------
NoManifest == [name |-> <<>>, version |-> <<>>, entry |-> <<>>, dependencies |-> <<>>]
NoCommand == [k |-> "none"]

Init ==
  /\ project \in Layouts /\ files = project.files
  /\ remote = [u \in Urls |-> [latest |-> 1, tips |-> [b \in Branches |-> 1]]]
  /\ cache = [n \in {d.name : d \in adds} |-> <<>>]
  /\ command = NoCommand /\ stage = "shell" /\ man = NoManifest /\ todo = <<>>
  /\ packages = <<>> /\ writes = <<>> /\ program = <<>> /\ code = 0
  /\ given = 0 /\ crashes = 0 /\ seen = remote
  /\ used = [n \in DOMAIN cache |-> 0] /\ recorded = {}

\* run is given no file, or a file by its path from the directory the user is in.
RunIn(dir, path) == [k |-> "run", dir |-> dir, path |-> path]
MainFile == <<"main", ".", "obh">>
Commands == {[k |-> "init"]} \cup {[k |-> "add", dep |-> d] : d \in adds}
            \cup {RunIn(Root, <<>>), RunIn(Root, <<<<"src">>, MainFile>>),
                  RunIn(Append(Root, <<"src">>), <<MainFile>>)}

Invoke ==
  /\ stage = "shell" /\ given < MaxCommands
  /\ \E c \in Commands : command' = c
  /\ stage' = "start" /\ given' = given + 1 /\ seen' = remote
  /\ man' = NoManifest /\ todo' = <<>> /\ packages' = <<>> /\ writes' = <<>> /\ program' = <<>>
  /\ UNCHANGED <<project, files, remote, cache, code, crashes, used, recorded>>

Exit(c) == stage' = "shell" /\ code' = c
World == <<project, remote, given, crashes, seen>>
History == <<used, recorded>>

----------------------------------------------------------------------------
\* init writes the manifest and a first program; the files of the user are left alone.
FirstProgram == <<"fn", " ", "main", "(", ")", " ", "-", ">", " ", "Number", " ", "{", "return",
                  " ", "0", "}">>
NewManifest == [name |-> <<"app">>, version |-> DefaultVersion, entry |-> DefaultEntry,
                dependencies |-> <<>>]
FirstFile == Root \o <<<<"src">>, MainFile>>

\* The manifests a project starts with: its own, or that of init.
ManifestWith(m, ds) == [name |-> m.name, version |-> m.version, entry |-> m.entry, dependencies |-> ds]
FirstManifests(l) ==
  {NewManifest} \cup (IF ManifestPath \in DOMAIN l.files
                      THEN {m.v : m \in {n \in {ParseManifest(l.files[ManifestPath])} : n.ok}} ELSE {})
DistinctNames(ds) == \A i, j \in DOMAIN ds : ds[i].name = ds[j].name => i = j

\* What a project starts with.  Its dependencies have names that a line of the manifest can
\* hold, which the code does not check, and the manifest it brings has none yet.
ASSUME ProjectsAssumption == \A l \in Layouts :
  /\ IsFiniteSet(DOMAIN l.files)
  /\ \A d \in l.adds : d \in Dependencies /\ PlainName(d.name)
  /\ \A d \in l.adds : IsGit(d) => d.source.url \in Urls /\ BranchOf(d.source) \in Branches
  /\ \A m \in FirstManifests(l) :
       m = ManifestWith(m, <<>>) /\ {m.name, m.version, m.entry} \subseteq CharSeq

Write(path, text) == [path |-> path, text |-> text]
NewFiles == <<Write(ManifestPath, ToToml(NewManifest)), Write(FirstFile, FirstProgram)>>

StartInit ==
  /\ stage = "start" /\ command.k = "init"
  /\ IF ManifestPath \in DOMAIN files
     THEN Exit(1) /\ UNCHANGED writes
     ELSE /\ stage' = "truncate" /\ UNCHANGED code
          /\ writes' = IF FirstFile \in DOMAIN files THEN <<NewFiles[1]>> ELSE NewFiles
  /\ UNCHANGED <<World, History, files, cache, command, man, todo, packages, program>>

\* The manifest of a directory above, and what the one of the project says.
FoundFrom(start, relative, cwd) ==
  LET Holds(dir) == (IF relative THEN cwd ELSE <<>>) \o dir \o <<ManifestFile>> \in DOMAIN files
  IN FindManifest(start, relative, Holds) # <<>>
NoFile == [ok |-> FALSE]
Loaded == IF ManifestPath \in DOMAIN files THEN ParseManifest(files[ManifestPath]) ELSE NoFile

\* Work with a manifest: its dependencies are resolved in their order.
Resolve(m) == man' = m /\ todo' = m.dependencies /\ stage' = "resolve" /\ UNCHANGED code

\* Mutant: add saves the manifest before it has resolved the dependencies.
AddToSaving(m) ==
  man' = m /\ stage' = "truncate" /\ writes' = <<Write(ManifestPath, ToToml(m))>>
  /\ UNCHANGED <<todo, code>>

AddTo(m) == Resolve(m) /\ UNCHANGED writes

StartAdd ==
  /\ stage = "start" /\ command.k = "add"
  /\ \E m \in {Loaded} :
       IF FoundFrom(Root, FALSE, <<>>) /\ m.ok
       THEN /\ AddTo(WithDependency(m.v, command.dep))
            /\ used' = [used EXCEPT ![command.dep.name] = 0]
       ELSE Exit(1) /\ UNCHANGED <<man, todo, writes, used>>
  /\ UNCHANGED <<World, recorded, files, cache, command, packages, program>>

\* The file run reads: the entry of the manifest above, or the path it is given.
TargetOf(m) == IF command.path # <<>> THEN command.dir \o command.path ELSE EntryOf(m)
Target == TargetOf(Loaded.v)

\* load_and_parse: the file first, then the manifest of its directory.
StartRun ==
  /\ stage = "start" /\ command.k = "run"
  /\ \E m \in {Loaded} :
       LET target == TargetOf(m.v)
           named == command.path # <<>> \/ (FoundFrom(command.dir, FALSE, <<>>) /\ m.ok)
           readable == named /\ target \in DOMAIN files /\ ReadProgram(files[target]).ok
           inProject == IF command.path = <<>> THEN FoundFrom(Front(target), FALSE, <<>>)
                        ELSE FoundFrom(Front(command.path), TRUE, command.dir)
       IN IF readable
          THEN IF ~inProject THEN stage' = "imports" /\ UNCHANGED <<man, todo, code>>
               ELSE IF m.ok THEN Resolve(m.v) ELSE Exit(1) /\ UNCHANGED <<man, todo>>
          ELSE Exit(1) /\ UNCHANGED <<man, todo>>
  /\ UNCHANGED <<World, History, files, cache, command, packages, writes, program>>

----------------------------------------------------------------------------
\* The dependency at work, and its clone.
Dep == Head(todo)
Source == Dep.source
Clone == cache[Dep.name]
WithPackage(name, root) == (name :> root) @@ packages
Found(root) == packages' = WithPackage(Dep.name, root) /\ todo' = Tail(todo) /\ stage' = "resolve"
Fails == Exit(1) /\ UNCHANGED <<todo, packages>>
Resolving(s, kind) == stage = s /\ todo # <<>> /\ Source.k = kind
UnchangedInResolving ==
  UNCHANGED <<World, History, files, command, man, writes, program>>

ResolvePathDep ==
  LET dir == Canonical(Root \o Components(Source.path))
  IN /\ Resolving("resolve", "Path")
     /\ IF IsDir(dir) THEN Found(dir) /\ UNCHANGED code ELSE Fails
     /\ UNCHANGED cache /\ UnchangedInResolving

\* A clone of a pinned dependency is taken as it is.
UsePinned ==
  /\ Resolving("resolve", "Git") /\ Clone # <<>> /\ Pinned(Source)
  /\ Found(CacheDir(Dep.name))
  /\ UNCHANGED <<cache, code>> /\ UnchangedInResolving

\* Mutant: the fetch forgets the branch.
FetchedMain(clone) == [clone EXCEPT !.fetched = remote[clone.url].tips[<<"main">>]]

\* Any other clone is fetched from where it came from, and reset.
Fetched(clone) == [clone EXCEPT !.fetched = remote[clone.url].tips[BranchOf(Source)]]
Fetch ==
  /\ Resolving("resolve", "Git") /\ Clone # <<>> /\ ~Pinned(Source)
  /\ cache' = [cache EXCEPT ![Dep.name] = <<Fetched(@[1])>>]
  /\ stage' = "reset" /\ UNCHANGED <<todo, packages, code>> /\ UnchangedInResolving

\* Mutant: the tree is reset to where it was.
ResetTreeToHead(clone) == [clone EXCEPT !.made = Source]
ResetTree(clone) == [clone EXCEPT !.head = clone.fetched, !.made = Source]

Reset ==
  /\ Resolving("reset", "Git")
  /\ cache' = [cache EXCEPT ![Dep.name] = <<ResetTree(@[1])>>]
  /\ Found(CacheDir(Dep.name)) /\ UNCHANGED code /\ UnchangedInResolving

\* git clone: the directory is there from the start, the tree at the end.
NotMade == GitSource(<<>>, <<>>, <<>>, <<>>)
NewClone(url) == [url |-> url, head |-> 0, fetched |-> 0, made |-> NotMade]
StartClone ==
  /\ Resolving("resolve", "Git") /\ Clone = <<>>
  /\ cache' = [cache EXCEPT ![Dep.name] = <<NewClone(Source.url)>>]
  /\ stage' = "clone" /\ UNCHANGED <<todo, packages, code>> /\ UnchangedInResolving

AtTip(clone) == [clone EXCEPT !.head = Tip(Source)]
FullClone(clone) == IF Source.rev = <<>> THEN [AtTip(clone) EXCEPT !.made = Source] ELSE AtTip(clone)

EndClone ==
  /\ Resolving("clone", "Git")
  /\ cache' = [cache EXCEPT ![Dep.name] = <<FullClone(@[1])>>]
  /\ IF Source.rev = <<>> THEN Found(CacheDir(Dep.name))
     ELSE stage' = "checkout" /\ UNCHANGED <<todo, packages>>
  /\ UNCHANGED code /\ UnchangedInResolving

\* Mutant: the tree stays at the tip of the branch.
CheckOutNothing(clone) == [clone EXCEPT !.made = Source]
CheckOut(clone) == [clone EXCEPT !.head = RevCommit(Source.rev[1]), !.made = Source]

\* An unknown revision is an error, and the clone stays.
Checkout ==
  /\ Resolving("checkout", "Git")
  /\ IF KnownRev(Clone[1].url, Source.rev[1])
     THEN /\ cache' = [cache EXCEPT ![Dep.name] = <<CheckOut(@[1])>>]
          /\ Found(CacheDir(Dep.name)) /\ UNCHANGED code
     ELSE Fails /\ UNCHANGED cache
  /\ UnchangedInResolving

\* git fails: it removes the directory of a clone, and leaves any other one alone.
GitFails ==
  /\ todo # <<>> /\ Source.k = "Git" /\ Fails
  /\ \/ stage = "clone" /\ cache' = [cache EXCEPT ![Dep.name] = <<>>]
     \/ stage = "resolve" /\ Clone # <<>> /\ ~Pinned(Source) /\ UNCHANGED cache
  /\ UnchangedInResolving

\* All dependencies are resolved: add writes the manifest, run goes on with its imports.
EndResolve ==
  /\ stage = "resolve" /\ todo = <<>>
  /\ IF command.k = "add"
     THEN stage' = "truncate" /\ writes' = <<Write(ManifestPath, ToToml(man))>>
     ELSE stage' = "imports" /\ UNCHANGED writes
  /\ UNCHANGED <<World, History, files, cache, command, man, todo, packages, program, code>>

----------------------------------------------------------------------------
\* fs::write empties the file and then fills it.
Truncate ==
  /\ stage = "truncate"
  /\ files' = [p \in DOMAIN files \cup {writes[1].path} |->
                IF p = writes[1].path THEN <<>> ELSE files[p]]
  /\ stage' = "write"
  /\ UNCHANGED <<World, History, cache, command, man, todo, packages, writes, program, code>>

\* Mutant: one write too many.
MoreWritesOffByOne == Len(writes) > 0
MoreWrites == Len(writes) > 1

Recorded(dep) == {d \in recorded : d.name # dep.name} \cup {dep}

WriteFile ==
  /\ stage = "write"
  /\ files' = [files EXCEPT ![writes[1].path] = writes[1].text] /\ writes' = Tail(writes)
  /\ IF MoreWrites THEN stage' = "truncate" /\ UNCHANGED code ELSE Exit(0)
  /\ IF command.k = "add"
     THEN recorded' = Recorded(command.dep) ELSE UNCHANGED recorded
  /\ UNCHANGED <<World, used, cache, command, man, todo, packages, program>>

Import(target) == ResolveImports(target, packages, Disk)

GitDeps == {d \in ToSet(man.dependencies) : IsGit(d)}

LoadImports ==
  LET names == {d.name : d \in GitDeps}
  IN /\ stage = "imports"
     /\ \E r \in {Import(Target)} :
          IF r.ok THEN /\ Exit(0) /\ program' = r.v
                       /\ used' = [n \in DOMAIN used |-> IF n \in names THEN cache[n][1].head
                                                        ELSE used[n]]
          ELSE Exit(1) /\ UNCHANGED <<program, used>>
     /\ UNCHANGED <<World, recorded, files, cache, command, man, todo, packages, writes>>

----------------------------------------------------------------------------
\* A command is killed.  The clone it was making stays unfinished, is removed by git,
\* or is finished by the git process that outlives it.
Crash ==
  /\ stage # "shell" /\ crashes < MaxCrashes
  /\ crashes' = crashes + 1 /\ Exit(1)
  /\ \/ UNCHANGED cache
     \/ stage = "clone" /\ cache' = [cache EXCEPT ![Dep.name] = <<>>]
     \/ stage = "clone" /\ cache' = [cache EXCEPT ![Dep.name] = <<AtTip(@[1])>>]
  /\ UNCHANGED <<project, files, remote, command, man, todo, packages, writes, program, given,
                 seen, used, recorded>>

\* Others push a commit to a branch that a dependency of the project may follow.
Push ==
  /\ \E d \in {a \in adds : IsGit(a)} :
       LET u == d.source.url
           c == remote[u].latest + 1
       IN /\ c <= MaxCommits
          /\ remote' = [remote EXCEPT ![u] =
                          [latest |-> c, tips |-> [@.tips EXCEPT ![BranchOf(d.source)] = c]]]
  /\ UNCHANGED <<project, files, cache, command, stage, man, todo, packages, writes, program,
                 code, given, crashes, seen, used, recorded>>

Done == stage = "shell" /\ given = MaxCommands /\ UNCHANGED vars

Next ==
  \/ Invoke \/ StartInit \/ StartAdd \/ StartRun \/ ResolvePathDep \/ UsePinned \/ Fetch \/ Reset
  \/ StartClone \/ EndClone \/ Checkout \/ GitFails \/ EndResolve \/ Truncate \/ WriteFile
  \/ LoadImports \/ Crash \/ Push \/ Done

Spec == Init /\ [][Next]_vars

----------------------------------------------------------------------------
\* Type correctness: a command that resolves works on a dependency of its manifest, and one
\* that is in the middle of a clone has its directory.
TypeOK ==
  /\ stage \in {"shell", "start", "resolve", "reset", "clone", "checkout", "truncate", "write",
                "imports"}
  /\ code \in {0, 1} /\ given \in 0..MaxCommands /\ crashes \in 0..MaxCrashes
  /\ \A u \in Urls, b \in Branches : remote[u].tips[b] \in 1..remote[u].latest
  /\ \A n \in DOMAIN cache : cache[n] # <<>> => cache[n][1].head \in 0..MaxCommits
  /\ ToSet(todo) \subseteq ToSet(man.dependencies)
  /\ stage \in {"clone", "reset", "checkout"} => Clone # <<>>
  /\ stage \in {"truncate", "write"} => writes # <<>>

\* Every dependency of the manifest on the disk has been resolved once: its directory is
\* there at every moment, whatever fails or is killed (cmd_add resolves before it saves, and
\* git removes only a clone it is making).
RecordedDependenciesResolve ==
  LET Resolved(d) == IF IsGit(d) THEN cache[d.name] # <<>>
                     ELSE IsDir(Canonical(Root \o Components(d.source.path)))
      AllResolved(m) == m.ok => \A d \in ToSet(m.v.dependencies) : Resolved(d)
  IN AllResolved(Loaded)

\* The manifest, written and parsed again by every add, holds exactly the dependencies that
\* were added, the last one of each name, with their fields as they were given, whenever it
\* can be parsed at all.
ManifestKeepsWhatWasAdded ==
  LET HoldsAll(m) == m.ok => ToSet(m.v.dependencies) = recorded IN HoldsAll(Loaded)

RanWell == stage = "shell" /\ command.k = "run" /\ code = 0

\* A run uses, of every dependency without a tag or a revision, a commit of its branch that
\* is no older than the tip when the run began, if its clone is one of its repository.
UnpinnedIsUpToDate ==
  RanWell => \A d \in GitDeps :
    ~Pinned(d.source) /\ cache[d.name][1].url = d.source.url =>
      used[d.name] >= seen[d.source.url].tips[BranchOf(d.source)]

\* The commit a run uses of a dependency with a revision is that revision, if the tree of
\* the clone was last set for this entry of the manifest.
RevisionIsExact ==
  RanWell => \A d \in GitDeps :
    d.source.rev # <<>> /\ cache[d.name][1].made = d.source =>
      used[d.name] = RevCommit(d.source.rev[1])

\* Two runs use the same commit of a pinned dependency until somebody tries to add another
\* dependency of that name, whatever is pushed, fails or is killed between them.
PinnedStaysPut ==
  [][\A d \in GitDeps :
       (d.source.tag # <<>> \/ d.source.rev # <<>>) /\ used[d.name] # 0 /\ used'[d.name] # 0 =>
         used'[d.name] = used[d.name]]_vars

\* What a run loads of its file and of all that this imports, in cycles and diamonds too: see
\* IsComplete (resolve_imports_with_packages).
ImportsAreComplete == stage = "imports" => IsComplete(Import(Target), Target, packages, Disk)

\* What a run uses of a dependency with a tag or a revision is the commit it names
\* (README.md, package manager: a tag or a rev fixes the version forever).
PinNamesTheVersion ==
  RanWell => \A d \in GitDeps : Pinned(d.source) =>
    used[d.name] = (IF d.source.tag # <<>> THEN Tags[d.source.tag[1]]
                    ELSE RevCommit(d.source.rev[1]))
============================================================================
