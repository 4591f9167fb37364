------------------------- MODULE PackagesInvariant -------------------------
(* The inductive invariant of Packages, in named parts.  The run `packages`   *)
(* checks it, PackagesTheorems proves that it is inductive.                   *)
EXTENDS Packages

Names == {d.name : d \in adds}
Sources == {NotMade} \cup {d.source : d \in {a \in adds : IsGit(a)}}
CloneType == [url : Urls, head : 0..MaxCommits, fetched : 0..MaxCommits, made : Sources]
RemoteType == [Urls -> [latest : 1..MaxCommits, tips : [Branches -> 1..MaxCommits]]]

\* A manifest that the project can have.
IsManifest(m) ==
  /\ m.dependencies \in Seq(adds) /\ DistinctNames(m.dependencies)
  /\ \E first \in FirstManifests(project) : m = ManifestWith(first, m.dependencies)

NamesDistinct(deps) == \A d, e \in deps : d.name = e.name => d = e
Deps == ToSet(man.dependencies)

\* The dependencies the command has resolved.
Settled == Deps \ ToSet(todo)

WorldOK ==
  /\ project \in Layouts /\ command \in Commands \cup {NoCommand}
  /\ remote \in RemoteType /\ seen \in RemoteType
  /\ \A u \in Urls, b \in Branches : /\ remote[u].tips[b] <= remote[u].latest
                                     /\ seen[u].tips[b] <= remote[u].tips[b]
  /\ cache \in [Names -> {<<>>} \cup {<<c>> : c \in CloneType}]
  /\ used \in [Names -> 0..MaxCommits] /\ recorded \subseteq adds
  /\ code \in {0, 1} /\ given \in 0..MaxCommands /\ crashes \in 0..MaxCrashes

\* What is left to resolve belongs to the manifest at work; each stage belongs to a command.
WorkOK ==
  /\ man = NoManifest \/ IsManifest(man)
  /\ todo \in Seq(adds) /\ DistinctNames(todo) /\ ToSet(todo) \subseteq Deps
  /\ stage \in {"shell", "start", "resolve", "reset", "clone", "checkout", "truncate", "write",
                "imports"}
  /\ stage # "shell" => command \in Commands
  /\ stage = "start" => man = NoManifest
  /\ stage \in {"resolve", "reset", "clone", "checkout"} =>
       command.k \in {"add", "run"} /\ IsManifest(man)
  /\ stage \in {"reset", "clone", "checkout"} => todo # <<>> /\ IsGit(Dep) /\ Clone # <<>>
  /\ stage = "imports" => command.k = "run" /\ todo = <<>>
  /\ RanWell => todo = <<>>

\* What is written: the manifest at work, or the two files of init.
WritesOK ==
  stage \in {"truncate", "write"} =>
    /\ command.k \in {"add", "init"}
    /\ command.k = "add" => /\ writes = <<Write(ManifestPath, ToToml(man))>>
                            /\ todo = <<>> /\ IsManifest(man)
    /\ command.k = "init" =>
         /\ writes \in {NewFiles, <<NewFiles[1]>>, <<NewFiles[2]>>}
         /\ writes[1].path = ManifestPath => recorded = {}
    /\ stage = "write" => writes[1].path \in DOMAIN files

\* The manifest on the disk, if it can be read, holds what was added.
DiskOK ==
  /\ \A m \in {Loaded} : m.ok => IsManifest(m.v) /\ ToSet(m.v.dependencies) = recorded
  /\ ManifestPath \notin DOMAIN files => recorded = {}

\* What add works on becomes what is recorded, what run works on is what is recorded.
RecordedOK ==
  /\ NamesDistinct(recorded)
  /\ command.k = "add" /\ stage \notin {"shell", "start"} =>
       Deps = Recorded(command.dep) /\ used[command.dep.name] = 0
  /\ command.k = "run" /\ man # NoManifest => Deps = recorded

Resolved(d) == IF IsGit(d) THEN cache[d.name] # <<>>
               ELSE IsDir(Canonical(Root \o Components(d.source.path)))

\* Whatever is recorded or settled is there; a clone in the making is of neither.
ResolvedOK ==
  /\ \A d \in recorded \cup Settled : Resolved(d)
  /\ stage \in {"clone", "checkout"} => \A d \in recorded : IsGit(d) => d.name # Dep.name

SeenTip(source) == seen[source.url].tips[BranchOf(source)]

\* A settled dependency that is not pinned is at what the command could see, or later.
FreshOK ==
  /\ \A d \in Settled :
       IsGit(d) /\ ~Pinned(d.source) /\ cache[d.name][1].url = d.source.url =>
         cache[d.name][1].head >= SeenTip(d.source)
  /\ stage = "checkout" => Pinned(Source)
  /\ stage = "reset" => /\ ~Pinned(Source)
                        /\ Clone[1].url = Source.url => Clone[1].fetched >= SeenTip(Source)

\* A tree set for a revision is at that revision, and a good run used what is checked out.
ExactOK ==
  /\ \A n \in Names : cache[n] # <<>> /\ cache[n][1].made.rev # <<>> =>
       cache[n][1].head = RevCommit(cache[n][1].made.rev[1])
  /\ stage = "clone" => Clone[1].made = NotMade
  /\ RanWell => \A d \in GitDeps : used[d.name] = cache[d.name][1].head

\* What a run has used of a pinned dependency is what is checked out since.
PinnedOK ==
  \A d \in recorded : IsGit(d) /\ Pinned(d.source) /\ used[d.name] # 0 =>
    cache[d.name][1].head = used[d.name]

\* The file of a run can be read; there are finitely many files, in the project and in clones.
LoadOK ==
  /\ IsFiniteSet(DOMAIN files) /\ IsFiniteSet({n \in Names : cache[n] # <<>>})
  /\ command.k = "run" /\ stage \notin {"shell", "start"} =>
       Target \in DOMAIN files /\ ReadProgram(files[Target]).ok

IInv ==
  /\ WorldOK /\ WorkOK /\ WritesOK /\ DiskOK /\ RecordedOK
  /\ ResolvedOK /\ FreshOK /\ ExactOK /\ PinnedOK /\ LoadOK
============================================================================
