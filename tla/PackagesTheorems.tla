-------------------------- MODULE PackagesTheorems --------------------------
(* The inductive invariant of Packages is one, and what follows from it: the  *)
(* properties of the run `packages` about the manifest, the cache and what a  *)
(* run uses, for every project, every history of the remotes and any number   *)
(* of commands and crashes.                                                   *)
EXTENDS PackagesInvariant, ManifestTheorems, LoaderTheorems

\* The equation of the recursive function in Without.
Keeps(k, ds, name) ==
  k = [n \in 0..Len(ds) |->
         IF n = 0 THEN <<>>
         ELSE IF ds[n].name = name THEN k[n - 1] ELSE Append(k[n - 1], ds[n])]

\* The recursive function in Without is well defined.
LEMMA WithoutFunction ==
  ASSUME NEW S, NEW ds \in Seq(S), NEW name
  PROVE  \E k : Keeps(k, ds, name) /\ Without(ds, name) = k[Len(ds)]
<1> DEFINE m == Len(ds)
           F == [n \in 1..m |-> [v \in Seq(S) |-> IF ds[n].name = name THEN v ELSE Append(v, ds[n])]]
           V == Seq(S)
           a == <<>>
           Step(k, n) == IF n = 0 THEN <<>>
                         ELSE IF ds[n].name = name THEN k[n - 1] ELSE Append(k[n - 1], ds[n])
           K == CHOOSE k : k = [n \in 0..Len(ds) |-> Step(k, n)]
<1>1. a \in V /\ m \in Nat /\ F \in StepsOver(V, m)
  <2>1. ASSUME NEW n \in 1..m, NEW v \in Seq(S) PROVE Append(v, ds[n]) \in Seq(S)
    OBVIOUS
  <2>2. QED BY <2>1 DEF StepsOver
<1>2. PICK k : k \in StepResults(V, a, m, F)
  <2> HIDE DEF F, V, a, m
  <2>1. QED BY <1>1, Recursion
<1>3. \A n \in 0..m : k[n] = Step(k, n)
  <2>1. ASSUME NEW n \in 0..m PROVE k[n] = Step(k, n)
    <3>1. n = 0 \/ (n \in 1..m /\ n # 0 /\ n - 1 \in 0..m /\ k[n - 1] \in Seq(S))
      BY <1>2 DEF StepResults
    <3>2. QED BY <1>2, <3>1 DEF StepResults
  <2>2. QED BY <2>1
<1>4. k = [n \in 0..m |-> Step(k, n)]
  <2> HIDE DEF Step, m
  <2>1. QED BY <1>2, <1>3 DEF StepResults
<1>5. K = [n \in 0..Len(ds) |-> Step(K, n)]
  BY <1>4
<1>6. Keeps(K, ds, name)
  BY <1>5 DEF Keeps
<1>7. Without(ds, name) = K[Len(ds)]
  BY Zenon DEF Without
<1>8. QED BY <1>6, <1>7

\* Without keeps the dependencies of the other names, and nothing else.
LEMMA WithoutType ==
  ASSUME NEW S, NEW ds \in Seq(S), NEW name, DistinctNames(ds)
  PROVE  /\ Without(ds, name) \in Seq(S)
         /\ ToSet(Without(ds, name)) = {d \in ToSet(ds) : d.name # name}
         /\ DistinctNames(Without(ds, name))
<1> DEFINE m == Len(ds)
<1>1. m \in Nat /\ \A n \in 1..m : ds[n] \in S
  OBVIOUS
<1>2. PICK K : Keeps(K, ds, name) /\ Without(ds, name) = K[m]
  BY WithoutFunction
<1>3. \A n \in 0..m : K[n] = IF n = 0 THEN <<>> ELSE IF ds[n].name = name THEN K[n - 1]
                            ELSE Append(K[n - 1], ds[n])
  <2> HIDE DEF m
  <2>1. QED BY <1>2 DEF Keeps, m
<1> DEFINE Kept(n) == {ds[i] : i \in {j \in 1..n : ds[j].name # name}}
           T == {n \in 0..m : /\ K[n] \in Seq(S) /\ ToSet(K[n]) = Kept(n)
                              /\ DistinctNames(K[n])}
<1>4. 0 \in T
  <2>1. K[0] = <<>>
    BY <1>1, <1>3
  <2>2. ToSet(<<>>) = {} /\ Kept(0) = {} /\ DistinctNames(<<>>)
    BY DEF ToSet, DistinctNames
  <2>3. <<>> \in Seq(S) /\ 0 \in 0..m
    BY <1>1
  <2> HIDE DEF m, Kept
  <2>4. QED BY <2>1, <2>2, <2>3
<1>5. ASSUME NEW n \in 1..m, n - 1 \in T PROVE n \in T
  <2>1. K[n - 1] \in Seq(S) /\ ToSet(K[n - 1]) = Kept(n - 1) /\ DistinctNames(K[n - 1])
    BY <1>5
  <2>2. K[n] = IF ds[n].name = name THEN K[n - 1] ELSE Append(K[n - 1], ds[n])
    BY <1>3
  <2>3. Kept(n) = Kept(n - 1) \cup (IF ds[n].name # name THEN {ds[n]} ELSE {})
    <3>1. 1..n = 1..(n - 1) \cup {n}
      OBVIOUS
    <3>2. QED BY Zenon, <3>1
  <2>4. CASE ds[n].name = name
    BY <2>1, <2>2, <2>3, <2>4
  <2>5. CASE ds[n].name # name
    <3>1. K[n] = Append(K[n - 1], ds[n]) /\ ds[n] \in S
      BY <1>1, <2>2, <2>5
    <3> DEFINE q == K[n - 1]
               e == ds[n]
    <3>2. /\ K[n] \in Seq(S) /\ K[n][Len(q) + 1] = e
          /\ \A i \in DOMAIN q : K[n][i] = q[i]
          /\ DOMAIN K[n] = DOMAIN q \cup {Len(q) + 1}
      <4> HIDE DEF q, e
      <4>1. q \in Seq(S) /\ e \in S /\ K[n] = Append(q, e)
        BY <2>1, <3>1 DEF q, e
      <4>2. QED BY <4>1, AppendType
    <3>3. ToSet(K[n]) = ToSet(q) \cup {e}
      <4> HIDE DEF q, e
      <4>1. QED BY <3>2 DEF ToSet
    <3>4. \A i \in DOMAIN q : q[i].name # e.name
      <4>1. ASSUME NEW i \in DOMAIN q PROVE q[i].name # e.name
        <5>1. q[i] \in Kept(n - 1)
          BY <2>1 DEF ToSet
        <5>2. PICK j \in 1..(n - 1) : q[i] = ds[j]
          BY <5>1
        <5>3. j # n /\ j \in DOMAIN ds /\ n \in DOMAIN ds
          OBVIOUS
        <5>4. QED BY <5>2, <5>3 DEF DistinctNames
      <4>2. QED BY <4>1
    <3>5. DistinctNames(K[n])
      <4>1. DistinctNames(q)
        BY <2>1
      <4> HIDE DEF q, e
      <4>2. QED BY <3>2, <3>4, <4>1 DEF DistinctNames
    <3>6. QED BY <2>1, <2>3, <2>5, <3>2, <3>3, <3>5
  <2>6. QED BY <2>4, <2>5
<1>6. m \in T
  <2>1. \A n \in 1..m : n - 1 \in T => n \in T
    BY <1>5
  <2> HIDE DEF T, m
  <2>2. \A n \in 0..m : n \in T
    BY <1>1, <1>4, <2>1, UpTo
  <2>3. QED BY <1>1, <2>2
<1>7. Kept(m) = {d \in ToSet(ds) : d.name # name}
  BY DEF ToSet
<1>8. QED BY <1>2, <1>6, <1>7

----------------------------------------------------------------------------
\* Manifests.

\* Different dependencies of a list have different names.
LEMMA DistinctSet ==
  ASSUME NEW S, NEW ds \in Seq(S), DistinctNames(ds)
  PROVE  NamesDistinct(ToSet(ds)) /\ ToSet(ds) \subseteq S
  BY DEF DistinctNames, NamesDistinct, ToSet

\* The first of a list without its tail: what resolving a dependency takes off the list.
LEMMA TailOfDistinct ==
  ASSUME NEW S, NEW q \in Seq(S), q # <<>>, DistinctNames(q)
  PROVE  /\ Head(q) \in S /\ Head(q) \in ToSet(q)
         /\ Tail(q) \in Seq(S) /\ DistinctNames(Tail(q))
         /\ ToSet(Tail(q)) = ToSet(q) \ {Head(q)}
<1> DEFINE t == Tail(q)
<1>1. /\ Head(q) \in S /\ t \in Seq(S)
      /\ Head(q) = q[1] /\ 1 \in DOMAIN q
      /\ \A i \in DOMAIN t : i + 1 \in DOMAIN q /\ t[i] = q[i + 1]
      /\ \A i \in DOMAIN q : i = 1 \/ (i - 1 \in DOMAIN t /\ t[i - 1] = q[i])
  BY TailType
<1>2. \A i \in DOMAIN t : i \in Nat \ {0}
  BY <1>1
<1> HIDE DEF t
<1>3. DistinctNames(t)
  BY <1>1, <1>2 DEF DistinctNames
<1>4. ASSUME NEW i \in DOMAIN t PROVE t[i] \in ToSet(q) /\ t[i] # q[1]
  <2>1. i + 1 \in DOMAIN q /\ t[i] = q[i + 1] /\ i + 1 # 1
    BY <1>1, <1>2
  <2>2. QED BY <1>1, <2>1 DEF DistinctNames, ToSet
<1>5. ASSUME NEW i \in DOMAIN q, q[i] # q[1] PROVE q[i] \in ToSet(t)
  BY <1>1, <1>5 DEF ToSet
<1>6. ToSet(t) = ToSet(q) \ {q[1]}
  BY <1>4, <1>5 DEF ToSet
<1>7. QED BY <1>1, <1>3, <1>6 DEF t, ToSet

\* A manifest of the project is one that can be read back.
LEMMA IsPlain ==
  ASSUME project \in Layouts, NEW m, IsManifest(m)
  PROVE  m \in PlainManifests
<1> DEFINE ds == m.dependencies
<1>1. PICK first \in FirstManifests(project) : m = ManifestWith(first, ds)
  BY DEF IsManifest
<1>2. {first.name, first.version, first.entry} \subseteq CharSeq
  BY ProjectsAssumption
<1>3. adds \subseteq NamedDependencies
  BY ProjectsAssumption DEF adds, NamedDependencies
<1>4. ds \in Seq(adds)
  BY DEF IsManifest
<1> HIDE DEF ds
<1>5. ds \in Seq(NamedDependencies)
  BY <1>3, <1>4
<1>6. QED BY <1>1, <1>2, <1>5 DEF ManifestWith, PlainManifests

\* What is written of a manifest of the project is read as it was, if it is read.
LEMMA ReadBack ==
  ASSUME project \in Layouts, NEW m, IsManifest(m), ParseManifest(ToToml(m)).ok
  PROVE  ParseManifest(ToToml(m)).v = m
<1>1. m \in PlainManifests
  BY IsPlain
<1>2. ParseManifest(ToToml(m)) = IF CleanManifest(m) THEN Ok(m) ELSE Fail
  BY <1>1, ReadBackExactly
<1>3. QED BY <1>2 DEF Ok, Fail

\* A manifest with a new dependency is one too, and holds it in place of the one of its name.
LEMMA WithDependencyType ==
  ASSUME NEW m, IsManifest(m), NEW dep \in adds
  PROVE  /\ IsManifest(WithDependency(m, dep))
         /\ ToSet(WithDependency(m, dep).dependencies)
              = {d \in ToSet(m.dependencies) : d.name # dep.name} \cup {dep}
<1> DEFINE ds == m.dependencies
           q == Without(ds, dep.name)
           e == Append(q, dep)
<1>1. ds \in Seq(adds) /\ DistinctNames(ds)
  BY DEF IsManifest
<1>2. PICK first \in FirstManifests(project) : m = ManifestWith(first, ds)
  BY DEF IsManifest
<1>3. /\ q \in Seq(adds) /\ ToSet(q) = {d \in ToSet(ds) : d.name # dep.name}
      /\ DistinctNames(q)
  BY <1>1, WithoutType
<1>4. WithDependency(m, dep) = ManifestWith(first, e)
  <2> HIDE DEF ds
  <2>1. QED BY <1>2 DEF WithDependency, ManifestWith, ds
<1> HIDE DEF q
<1>5. /\ e \in Seq(adds) /\ e[Len(q) + 1] = dep
      /\ \A i \in DOMAIN q : e[i] = q[i]
      /\ DOMAIN e = DOMAIN q \cup {Len(q) + 1}
  BY <1>3, AppendType
<1>6. \A i \in DOMAIN q : q[i].name # dep.name
  BY <1>3 DEF ToSet
<1> HIDE DEF e
<1>7. DistinctNames(e)
  BY <1>3, <1>5, <1>6 DEF DistinctNames
<1>8. ToSet(e) = ToSet(q) \cup {dep}
  BY <1>5 DEF ToSet
<1>9. WithDependency(m, dep).dependencies = e
  BY <1>4 DEF ManifestWith
<1>10. QED BY <1>2, <1>3, <1>4, <1>5, <1>7, <1>8, <1>9 DEF IsManifest, ManifestWith

\* The first manifests of a project are manifests of it, and hold no dependency.
LEMMA FirstManifestType ==
  ASSUME project \in Layouts, NEW m \in FirstManifests(project)
  PROVE  IsManifest(m) /\ ToSet(m.dependencies) = {}
<1>1. m = ManifestWith(m, <<>>)
  BY ProjectsAssumption
<1>2. m.dependencies = <<>>
  BY <1>1 DEF ManifestWith
<1>3. <<>> \in Seq(adds) /\ DistinctNames(<<>>) /\ ToSet(<<>>) = {}
  BY DEF DistinctNames, ToSet
<1>4. QED BY <1>1, <1>2, <1>3 DEF IsManifest

----------------------------------------------------------------------------
\* The beginning.

\* Every project starts with an empty cache, and nothing used or recorded.
LEMMA InitWorld == Init => WorldOK
<1> SUFFICES ASSUME Init PROVE WorldOK
  OBVIOUS
<1>1. /\ project \in Layouts /\ command = NoCommand
      /\ remote = [u \in Urls |-> [latest |-> 1, tips |-> [b \in Branches |-> 1]]] /\ seen = remote
      /\ cache = [n \in Names |-> <<>>] /\ used = [n \in DOMAIN cache |-> 0] /\ recorded = {}
      /\ code = 0 /\ given = 0 /\ crashes = 0
  BY DEF Init, Names
<1>2. 1 \in 1..MaxCommits /\ 0 \in 0..MaxCommits /\ 0 \in 0..MaxCommands /\ 0 \in 0..MaxCrashes
  BY BoundsAssumption
<1>3. remote \in RemoteType
  BY <1>1, <1>2 DEF RemoteType
<1>4. \A u \in Urls, b \in Branches : remote[u].tips[b] = 1 /\ remote[u].latest = 1
  BY <1>1
<1>5. cache \in [Names -> {<<>>} \cup {<<c>> : c \in CloneType}]
  BY <1>1
<1>6. used \in [Names -> 0..MaxCommits]
  BY <1>1, <1>2
<1>7. QED BY <1>1, <1>2, <1>3, <1>4, <1>5, <1>6 DEF WorldOK

\* What a command starts with: no manifest and nothing to resolve.
LEMMA NoDependencies == NoManifest.dependencies = <<>> /\ ToSet(<<>>) = {}
  BY DEF NoManifest, ToSet

\* The manifest a project comes with, if any, has no dependencies.
LEMMA InitDisk == Init => DiskOK
<1> SUFFICES ASSUME Init PROVE DiskOK
  OBVIOUS
<1>1. project \in Layouts /\ files = project.files /\ recorded = {}
  BY DEF Init
<1>2. ASSUME Loaded.ok PROVE IsManifest(Loaded.v) /\ ToSet(Loaded.v.dependencies) = recorded
  <2>1. ManifestPath \in DOMAIN files /\ Loaded = ParseManifest(project.files[ManifestPath])
    BY <1>1, <1>2 DEF Loaded, NoFile
  <2>2. Loaded.v \in FirstManifests(project)
    BY <1>1, <1>2, <2>1 DEF FirstManifests
  <2>3. QED BY <1>1, <2>2, FirstManifestType
<1>3. QED BY <1>1, <1>2 DEF DiskOK

\* There are finitely many files, and no clone.
LEMMA InitLoad == Init => LoadOK
<1> SUFFICES ASSUME Init PROVE LoadOK
  OBVIOUS
<1>1. project \in Layouts /\ files = project.files /\ stage = "shell"
  BY DEF Init
<1>2. IsFiniteSet(DOMAIN files)
  BY <1>1, ProjectsAssumption
<1>3. {n \in Names : cache[n] # <<>>} = {}
  BY DEF Init, Names
<1>4. IsFiniteSet({n \in Names : cache[n] # <<>>})
  BY <1>3, FS_EmptySet
<1>5. QED BY <1>1, <1>2, <1>4 DEF LoadOK

\* The first state satisfies the invariant.
LEMMA InitOK == Init => IInv
<1> SUFFICES ASSUME Init PROVE IInv
  OBVIOUS
<1>1. /\ stage = "shell" /\ command = NoCommand /\ man = NoManifest /\ todo = <<>>
      /\ cache = [n \in Names |-> <<>>] /\ recorded = {}
  BY DEF Init, Names
<1>2. Deps = {} /\ Settled = {} /\ ToSet(todo) = {}
  BY <1>1, NoDependencies DEF Deps, Settled
<1>3. WorldOK /\ DiskOK /\ LoadOK
  BY InitWorld, InitDisk, InitLoad
<1>4. command.k = "none"
  BY <1>1 DEF NoCommand
<1>5. WorkOK
  BY <1>1, <1>2, <1>4 DEF WorkOK, RanWell, DistinctNames
<1>6. WritesOK /\ RecordedOK /\ ResolvedOK /\ PinnedOK
  BY <1>1, <1>2, <1>4 DEF WritesOK, RecordedOK, NamesDistinct, ResolvedOK, PinnedOK
<1>7. FreshOK
  BY <1>1, <1>2 DEF FreshOK
<1>8. ExactOK
  BY <1>1, <1>4 DEF ExactOK, RanWell
<1>9. QED BY <1>3, <1>5, <1>6, <1>7, <1>8 DEF IInv

----------------------------------------------------------------------------
\* What a step finds.

\* What a project determines stays as it is while the project does.
LEMMA SameProject ==
  ASSUME project' = project
  PROVE  /\ adds' = adds /\ Names' = Names /\ CloneType' = CloneType /\ Commands' = Commands
         /\ \A m : IsManifest(m)' <=> IsManifest(m)
<1>1. adds' = adds
  BY DEF adds
<1>2. Names' = Names /\ Sources' = Sources /\ Commands' = Commands
  BY <1>1 DEF Names, Sources, Commands
<1>3. CloneType' = CloneType
  BY <1>2 DEF CloneType
<1>4. ASSUME NEW m PROVE IsManifest(m)' <=> IsManifest(m)
  BY <1>1 DEF IsManifest
<1>5. QED BY <1>1, <1>2, <1>3, <1>4

\* A clone that is there is a sequence of one record.
LEMMA CloneTyped ==
  ASSUME WorldOK, NEW n \in Names, cache[n] # <<>>
  PROVE  cache[n] = <<cache[n][1]>> /\ cache[n][1] \in CloneType
<1>1. cache[n] \in {<<c>> : c \in CloneType}
  BY DEF WorldOK
<1>2. QED BY <1>1

\* The dependencies of the manifest at work.
LEMMA DepsDistinct ==
  ASSUME WorkOK PROVE NamesDistinct(Deps) /\ Deps \subseteq adds
<1>1. CASE man = NoManifest
  BY <1>1, NoDependencies DEF Deps, NamesDistinct
<1>2. CASE IsManifest(man)
  BY <1>2, DistinctSet DEF Deps, IsManifest
<1>3. QED BY <1>1, <1>2 DEF WorkOK

\* The dependency at work.
LEMMA DepTyped ==
  ASSUME WorldOK, WorkOK, todo # <<>>
  PROVE  /\ Dep \in adds /\ Dep \in ToSet(todo) /\ Dep \in Deps /\ Dep.name \in Names
         /\ IsGit(Dep) => Source \in Sources /\ Source.url \in Urls /\ BranchOf(Source) \in Branches
<1>1. todo \in Seq(adds) /\ DistinctNames(todo) /\ ToSet(todo) \subseteq Deps /\ project \in Layouts
  BY DEF WorldOK, WorkOK
<1>2. Dep \in adds /\ Dep \in ToSet(todo)
  BY <1>1, TailOfDistinct DEF Dep
<1>3. Dep.name \in Names
  BY <1>2 DEF Names
<1>4. ASSUME IsGit(Dep)
      PROVE  Source \in Sources /\ Source.url \in Urls /\ BranchOf(Source) \in Branches
  BY <1>1, <1>2, <1>4, ProjectsAssumption DEF Source, Sources, adds
<1>5. QED BY <1>1, <1>2, <1>3, <1>4

\* Once it is resolved it is settled, and nothing else is.
LEMMA Settles ==
  ASSUME WorldOK, WorkOK, todo # <<>>, todo' = Tail(todo), man' = man, project' = project
  PROVE  /\ todo' \in Seq(adds) /\ DistinctNames(todo')
         /\ ToSet(todo') = ToSet(todo) \ {Dep} /\ Deps' = Deps
         /\ Settled' = Settled \cup {Dep}
<1>1. /\ todo' \in Seq(adds) /\ DistinctNames(todo')
      /\ ToSet(todo') = ToSet(todo) \ {Dep}
  BY TailOfDistinct DEF WorkOK, Dep
<1>2. Deps' = Deps
  BY DEF Deps
<1>3. Dep \in Deps
  BY DepTyped
<1>4. QED BY <1>1, <1>2, <1>3 DEF Settled

\* A revision names a commit, or none.
LEMMA RevCommitType == \A rev : RevCommit(rev) \in 0..MaxCommits
  BY RemotesAssumption, BoundsAssumption DEF RevCommit

\* What git makes of a clone is a clone.
LEMMA CloneSteps ==
  ASSUME WorldOK, WorkOK, todo # <<>>, IsGit(Dep)
  PROVE  /\ NewClone(Source.url) \in CloneType
         /\ \A c \in CloneType : /\ Fetched(c) \in CloneType /\ ResetTree(c) \in CloneType
                                 /\ AtTip(c) \in CloneType /\ FullClone(c) \in CloneType
                                 /\ CheckOut(c) \in CloneType
<1>1. Source \in Sources /\ Source.url \in Urls /\ BranchOf(Source) \in Branches
  BY DepTyped
<1>2. \A u \in Urls : remote[u].tips[BranchOf(Source)] \in 0..MaxCommits
  BY <1>1 DEF WorldOK, RemoteType
<1>3. Tip(Source) \in 0..MaxCommits /\ NotMade \in Sources /\ 0 \in 0..MaxCommits
  BY <1>1, <1>2, BoundsAssumption DEF Tip, Sources
<1>4. NewClone(Source.url) \in CloneType
  BY <1>1, <1>3 DEF NewClone, CloneType
<1>5. ASSUME NEW c \in CloneType
      PROVE  /\ Fetched(c) \in CloneType /\ ResetTree(c) \in CloneType
             /\ AtTip(c) \in CloneType /\ FullClone(c) \in CloneType /\ CheckOut(c) \in CloneType
  <2>1. Fetched(c) \in CloneType
    BY <1>2 DEF Fetched, CloneType
  <2>2. ResetTree(c) \in CloneType
    BY <1>1 DEF ResetTree, CloneType
  <2>3. AtTip(c) \in CloneType
    BY <1>3 DEF AtTip, CloneType
  <2>4. FullClone(c) \in CloneType
    BY <1>1, <2>3 DEF FullClone, CloneType
  <2>5. RevCommit(Source.rev[1]) \in 0..MaxCommits
    BY RevCommitType
  <2>6. CheckOut(c) \in CloneType
    BY <1>1, <2>5 DEF CheckOut, CloneType
  <2>7. QED BY <2>1, <2>2, <2>3, <2>4, <2>6
<1>6. QED BY <1>4, <1>5

----------------------------------------------------------------------------
\* The steps.

Resolves == \/ ResolvePathDep \/ UsePinned \/ Fetch \/ Reset \/ StartClone \/ EndClone
            \/ Checkout \/ GitFails

\* The actions, those that resolve a dependency taken together.
LEMMA NextCases ==
  ASSUME [Next]_vars
  PROVE  \/ Resolves \/ Invoke \/ StartInit \/ StartAdd \/ StartRun \/ EndResolve \/ Truncate
         \/ WriteFile \/ LoadImports \/ Crash \/ Push \/ UNCHANGED vars
  BY DEF Next, Resolves, Done

\* A step that resolves: what it leaves alone, and how it ends.
LEMMA ResolveMoves ==
  ASSUME WorldOK, WorkOK, Resolves
  PROVE  /\ UNCHANGED <<project, remote, given, crashes, seen, used, recorded, files, command, man,
                        writes, program>>
         /\ stage \in {"resolve", "reset", "clone", "checkout"} /\ todo # <<>>
         /\ \/ stage' = "shell" /\ code' = 1 /\ todo' = todo
            \/ stage' = "resolve" /\ code' = code /\ todo' = Tail(todo)
            \/ /\ stage' \in {"reset", "clone", "checkout"} /\ code' = code /\ todo' = todo
               /\ IsGit(Dep)
<1>1. CASE ResolvePathDep
  BY <1>1 DEF ResolvePathDep, Resolving, Found, Fails, Exit, UnchangedInResolving, World, History
<1>2. CASE UsePinned
  BY <1>2 DEF UsePinned, Resolving, Found, UnchangedInResolving, World, History
<1>3. CASE Fetch
  BY <1>3 DEF Fetch, Resolving, UnchangedInResolving, World, History, IsGit, Source
<1>4. CASE Reset
  BY <1>4 DEF Reset, Resolving, Found, UnchangedInResolving, World, History
<1>5. CASE StartClone
  BY <1>5 DEF StartClone, Resolving, UnchangedInResolving, World, History, IsGit, Source
<1>6. CASE EndClone
  BY <1>6 DEF EndClone, Resolving, Found, UnchangedInResolving, World, History, IsGit, Source
<1>7. CASE Checkout
  BY <1>7 DEF Checkout, Resolving, Found, Fails, Exit, UnchangedInResolving, World, History
<1>8. CASE GitFails
  BY <1>8 DEF GitFails, Resolving, Found, Fails, Exit, UnchangedInResolving, World, History
<1>9. QED BY <1>1, <1>2, <1>3, <1>4, <1>5, <1>6, <1>7, <1>8 DEF Resolves

\* What such a step, or a crash, makes of the cache: the clone of the dependency at work
\* may be another one, the others stay.
Made(n) == cache'[n] \in {<<>>} \cup {<<c>> : c \in CloneType}
CacheMoves ==
  \/ cache' = cache
  \/ /\ todo # <<>> /\ IsGit(Dep) /\ Made(Dep.name)
     /\ cache' = [n \in Names |-> IF n = Dep.name THEN cache'[Dep.name] ELSE cache[n]]

\* A write to the clone at work leaves the others alone.
LEMMA OneClone ==
  ASSUME WorldOK, WorkOK, todo # <<>>, IsGit(Dep),
         NEW v \in {<<>>} \cup {<<c>> : c \in CloneType}, cache' = [cache EXCEPT ![Dep.name] = v]
  PROVE  CacheMoves /\ cache'[Dep.name] = v
<1>1. Dep.name \in Names /\ DOMAIN cache = Names
  BY DepTyped DEF WorldOK
<1>2. cache'[Dep.name] = v /\ cache' = [n \in Names |-> IF n = Dep.name THEN v ELSE cache[n]]
  BY <1>1
<1>3. QED BY <1>2 DEF CacheMoves, Made

\* Whoever resolves, or is killed, changes the clone at work at most.
LEMMA ResolveCache ==
  ASSUME WorldOK, WorkOK, Resolves \/ Crash
  PROVE  CacheMoves
<1> DEFINE V == {<<>>} \cup {<<c>> : c \in CloneType}
<1>1. ASSUME todo # <<>>, IsGit(Dep), Clone # <<>>
      PROVE  /\ cache[Dep.name][1] \in CloneType
             /\ <<Fetched(cache[Dep.name][1])>> \in V /\ <<ResetTree(cache[Dep.name][1])>> \in V
             /\ <<AtTip(cache[Dep.name][1])>> \in V /\ <<FullClone(cache[Dep.name][1])>> \in V
             /\ <<CheckOut(cache[Dep.name][1])>> \in V
  <2>1. cache[Dep.name][1] \in CloneType
    BY <1>1, DepTyped, CloneTyped DEF Clone
  <2>2. QED BY <1>1, <2>1, CloneSteps
<1>2. CASE cache' = cache
  BY <1>2 DEF CacheMoves
<1>3. CASE Fetch
  BY <1>1, <1>3, OneClone DEF Fetch, Resolving, IsGit, Source
<1>4. CASE Reset
  BY <1>1, <1>4, OneClone DEF Reset, Resolving, IsGit, Source, WorkOK
<1>5. CASE StartClone
  <2>1. <<NewClone(Source.url)>> \in V
    BY <1>5, CloneSteps DEF StartClone, Resolving, IsGit, Source
  <2>2. QED BY <1>5, <2>1, OneClone DEF StartClone, Resolving, IsGit, Source
<1>6. CASE EndClone
  BY <1>1, <1>6, OneClone DEF EndClone, Resolving, IsGit, Source, WorkOK
<1>7. CASE Checkout
  BY <1>1, <1>2, <1>7, OneClone DEF Checkout, Resolving, IsGit, Source, WorkOK
<1>8. CASE GitFails
  BY <1>2, <1>8, OneClone DEF GitFails, IsGit, Source
<1>9. CASE Crash
  BY <1>1, <1>2, <1>9, OneClone DEF Crash, WorkOK
<1>10. CASE ResolvePathDep \/ UsePinned
  BY <1>2, <1>10 DEF ResolvePathDep, UsePinned
<1>11. QED BY <1>3, <1>4, <1>5, <1>6, <1>7, <1>8, <1>9, <1>10 DEF Resolves

\* The exit code, the counters, the command and the history.
LEMMA StartAddMoves ==
  ASSUME StartAdd
  PROVE  /\ UNCHANGED <<project, remote, given, crashes, seen, recorded, files, cache, command, program>>
         /\ stage = "start" /\ command.k = "add"
         /\ \/ stage' = "shell" /\ code' = 1 /\ UNCHANGED <<man, todo, writes, used>>
            \/ /\ stage' = "resolve" /\ Loaded.ok /\ man' = WithDependency(Loaded.v, command.dep)
               /\ todo' = man'.dependencies /\ UNCHANGED <<code, writes>>
               /\ used' = [used EXCEPT ![command.dep.name] = 0]
  BY DEF StartAdd, World, AddTo, Resolve, Exit

\* What run does first.
LEMMA StartRunMoves ==
  ASSUME StartRun
  PROVE  /\ UNCHANGED <<project, remote, given, crashes, seen, used, recorded, files, cache, command,
                        writes, program>>
         /\ stage = "start" /\ command.k = "run"
         /\ \/ stage' = "shell" /\ code' = 1 /\ UNCHANGED <<man, todo>>
            \/ stage' = "imports" /\ UNCHANGED <<code, man, todo>>
            \/ /\ stage' = "resolve" /\ Loaded.ok /\ man' = Loaded.v
               /\ todo' = man'.dependencies /\ UNCHANGED code
  BY DEF StartRun, World, History, Resolve, Exit

\* What the loading of the imports changes.
LEMMA LoadImportsMoves ==
  ASSUME LoadImports
  PROVE  /\ UNCHANGED <<project, remote, given, crashes, seen, recorded, files, cache, command, man,
                        todo, writes>>
         /\ stage = "imports" /\ stage' = "shell"
         /\ \/ code' = 1 /\ used' = used
            \/ /\ code' = 0
               /\ used' = [n \in DOMAIN used |-> IF n \in {d.name : d \in GitDeps} THEN cache[n][1].head
                                                ELSE used[n]]
  BY DEF LoadImports, World, Exit

\* What the filling of a file changes.
LEMMA WriteFileMoves ==
  ASSUME WriteFile
  PROVE  /\ UNCHANGED <<project, remote, given, crashes, seen, used, cache, command, man, todo, program>>
         /\ stage = "write" /\ files' = [files EXCEPT ![writes[1].path] = writes[1].text]
         /\ writes' = Tail(writes)
         /\ \/ stage' = "truncate" /\ Len(writes) > 1 /\ code' = code
            \/ stage' = "shell" /\ ~(Len(writes) > 1) /\ code' = 0
         /\ IF command.k = "add" THEN recorded' = Recorded(command.dep) ELSE recorded' = recorded
  BY DEF WriteFile, World, Exit, MoreWrites

\* What is left of a command that is killed.
LEMMA CrashMoves ==
  ASSUME Crash
  PROVE  /\ UNCHANGED <<project, files, remote, command, man, todo, packages, writes, program, given,
                        seen, used, recorded>>
         /\ stage # "shell" /\ stage' = "shell" /\ code' = 1
         /\ crashes < MaxCrashes /\ crashes' = crashes + 1
  BY DEF Crash, Exit

\* What a push changes: a branch goes forward.
LEMMA PushMoves ==
  ASSUME WorldOK, Push
  PROVE  /\ UNCHANGED <<project, files, cache, command, stage, man, todo, packages, writes, program,
                        code, given, crashes, seen, used, recorded>>
         /\ remote' \in RemoteType
         /\ \A u \in Urls, b \in Branches : /\ remote'[u].tips[b] <= remote'[u].latest
                                            /\ remote[u].tips[b] <= remote'[u].tips[b]
<1>1. PICK d \in adds :
        /\ IsGit(d) /\ remote[d.source.url].latest + 1 <= MaxCommits
        /\ remote' = [remote EXCEPT ![d.source.url] =
                        [latest |-> remote[d.source.url].latest + 1,
                         tips |-> [@.tips EXCEPT ![BranchOf(d.source)] = remote[d.source.url].latest + 1]]]
  BY DEF Push
<1> DEFINE u == d.source.url
           b == BranchOf(d.source)
           c == remote[u].latest + 1
<1>2. u \in Urls /\ b \in Branches
  BY <1>1, ProjectsAssumption DEF WorldOK, adds
<1>3. remote \in RemoteType /\ \A v \in Urls, a \in Branches : remote[v].tips[a] <= remote[v].latest
  BY DEF WorldOK
<1>4. c \in 1..MaxCommits
  BY <1>1, <1>2, <1>3, BoundsAssumption DEF RemoteType
<1> DEFINE tips == [remote[u].tips EXCEPT ![b] = c]
<1>5. tips \in [Branches -> 1..MaxCommits]
  BY <1>2, <1>3, <1>4 DEF RemoteType
<1>6. \A a \in Branches : tips[a] <= c /\ remote[u].tips[a] <= tips[a]
  <2>1. ASSUME NEW a \in Branches PROVE tips[a] <= c /\ remote[u].tips[a] <= tips[a]
    <3>1. /\ remote[u].tips[a] <= remote[u].latest /\ remote[u].tips[a] \in Nat
          /\ remote[u].latest \in Nat /\ tips[a] = IF a = b THEN c ELSE remote[u].tips[a]
      BY <1>2, <1>3 DEF RemoteType
    <3>2. QED BY <3>1
  <2>2. QED BY <2>1
<1>7. remote' = [remote EXCEPT ![u] = [latest |-> c, tips |-> tips]]
  BY <1>1
<1> HIDE DEF tips, c, u, b
<1>8. remote' \in RemoteType
  BY <1>2, <1>3, <1>4, <1>5, <1>7 DEF RemoteType
<1>9. /\ remote'[u].tips = tips /\ remote'[u].latest = c
      /\ \A v \in Urls : v # u => remote'[v] = remote[v]
  BY <1>2, <1>3, <1>7 DEF RemoteType
<1>10. \A v \in Urls, a \in Branches : /\ remote'[v].tips[a] <= remote'[v].latest
                                       /\ remote[v].tips[a] <= remote'[v].tips[a]
  <2>1. ASSUME NEW v \in Urls, NEW a \in Branches
        PROVE  remote'[v].tips[a] <= remote'[v].latest /\ remote[v].tips[a] <= remote'[v].tips[a]
    <3>1. CASE v = u
      BY <1>6, <1>9, <3>1
    <3>2. CASE v # u
      <4>1. remote[v].tips[a] \in Nat
        BY <1>3 DEF RemoteType
      <4>2. QED BY <1>3, <1>9, <3>2, <4>1
    <3>3. QED BY <3>1, <3>2
  <2>2. QED BY <2>1
<1>11. QED BY <1>8, <1>10 DEF Push

\* What a new command changes.
LEMMA InvokeMoves ==
  ASSUME Invoke
  PROVE  /\ UNCHANGED <<project, files, remote, cache, code, crashes, used, recorded>>
         /\ stage = "shell" /\ stage' = "start" /\ command' \in Commands /\ seen' = remote
         /\ given < MaxCommands /\ given' = given + 1
         /\ man' = NoManifest /\ todo' = <<>> /\ writes' = <<>>
  BY DEF Invoke

\* What init does first.
LEMMA StartInitMoves ==
  ASSUME StartInit
  PROVE  /\ UNCHANGED <<project, remote, given, crashes, seen, used, recorded, files, cache, command,
                        man, todo>>
         /\ stage = "start" /\ command.k = "init"
         /\ \/ stage' = "shell" /\ code' = 1 /\ writes' = writes
            \/ /\ stage' = "truncate" /\ code' = code /\ ManifestPath \notin DOMAIN files
               /\ writes' = IF FirstFile \in DOMAIN files THEN <<NewFiles[1]>> ELSE NewFiles
  BY DEF StartInit, World, History, Exit

\* What follows once everything is resolved.
LEMMA EndResolveMoves ==
  ASSUME EndResolve
  PROVE  /\ UNCHANGED <<project, remote, given, crashes, seen, used, recorded, files, cache, command,
                        man, todo, code>>
         /\ stage = "resolve" /\ todo = <<>>
         /\ IF command.k = "add"
            THEN stage' = "truncate" /\ writes' = <<Write(ManifestPath, ToToml(man))>>
            ELSE stage' = "imports" /\ UNCHANGED writes
  BY DEF EndResolve, World, History

\* What the emptying of a file changes.
LEMMA TruncateMoves ==
  ASSUME Truncate
  PROVE  /\ UNCHANGED <<project, remote, given, crashes, seen, used, recorded, cache, command, man,
                        todo, writes, code>>
         /\ stage = "truncate" /\ stage' = "write"
         /\ files' = [p \in DOMAIN files \cup {writes[1].path} |->
                        IF p = writes[1].path THEN <<>> ELSE files[p]]
  BY DEF Truncate, World, History

----------------------------------------------------------------------------
\* Each part of the invariant is kept.  The world: what a command, git and the others change
\* is of its type.
CacheType == cache \in [Names -> {<<>>} \cup {<<c>> : c \in CloneType}]

\* The cache keeps its type.
LEMMA CacheTyped ==
  ASSUME WorldOK, project' = project, CacheMoves
  PROVE  CacheType'
<1>1. Names' = Names /\ CloneType' = CloneType
  BY SameProject
<1>2. cache \in [Names -> {<<>>} \cup {<<c>> : c \in CloneType}]
  BY DEF WorldOK
<1>3. CASE cache' = cache
  BY <1>1, <1>2, <1>3 DEF CacheType
<1>4. CASE cache' # cache
  <2>1. PICK v \in {<<>>} \cup {<<c>> : c \in CloneType} :
          cache' = [n \in Names |-> IF n = Dep.name THEN v ELSE cache[n]]
    BY <1>4 DEF CacheMoves, Made
  <2>2. cache' \in [Names -> {<<>>} \cup {<<c>> : c \in CloneType}]
    BY <1>2, <2>1
  <2>3. QED BY <1>1, <2>2 DEF CacheType
<1>5. QED BY <1>3, <1>4

\* What preserves the types of the world.
LEMMA WorldKept ==
  ASSUME WorldOK, project' = project, command' \in Commands \cup {NoCommand},
         remote' = remote, seen' \in {seen, remote}, CacheMoves \/ cache' = cache,
         used' \in [Names -> 0..MaxCommits], recorded' \subseteq adds,
         code' \in {0, 1}, given' \in 0..MaxCommands, crashes' \in 0..MaxCrashes
  PROVE  WorldOK'
<1>1. adds' = adds /\ Names' = Names /\ Commands' = Commands /\ RemoteType' = RemoteType
  BY SameProject DEF RemoteType
<1>2. CacheType'
  BY CacheTyped DEF CacheMoves
<1>3. /\ seen' \in RemoteType
      /\ \A u \in Urls, b \in Branches : /\ remote[u].tips[b] <= remote[u].latest
                                         /\ seen'[u].tips[b] <= remote[u].tips[b]
  <2>1. CASE seen' = seen
    BY <2>1 DEF WorldOK
  <2>2. CASE seen' = remote
    <3>1. \A u \in Urls, b \in Branches : remote[u].tips[b] \in Nat
      BY DEF WorldOK, RemoteType
    <3>2. QED BY <2>2, <3>1 DEF WorldOK
  <2>3. QED BY <2>1, <2>2
<1>4. project \in Layouts /\ remote \in RemoteType
  BY DEF WorldOK
<1>5. QED BY <1>1, <1>2, <1>3, <1>4 DEF WorldOK, CacheType

\* Every step preserves the types of the world.
LEMMA WorldStep == ASSUME IInv, [Next]_vars PROVE WorldOK'
<1>1. WorldOK /\ WorkOK
  BY DEF IInv
<1>2. /\ command \in Commands \cup {NoCommand} /\ used \in [Names -> 0..MaxCommits]
      /\ recorded \subseteq adds /\ code \in {0, 1} /\ given \in 0..MaxCommands
      /\ crashes \in 0..MaxCrashes /\ 0 \in 0..MaxCommits
  BY <1>1, BoundsAssumption DEF WorldOK
<1>3. CASE Resolves
  BY <1>1, <1>2, <1>3, ResolveMoves, ResolveCache, WorldKept
<1>4. CASE Invoke
  <2>1. given' \in 0..MaxCommands
    BY <1>2, <1>4, InvokeMoves, BoundsAssumption
  <2>2. QED BY <1>1, <1>2, <1>4, <2>1, InvokeMoves, WorldKept
<1>5. CASE StartInit
  BY <1>1, <1>2, <1>5, StartInitMoves, WorldKept
<1>6. CASE StartAdd
  <2>1. used' \in [Names -> 0..MaxCommits] /\ code' \in {0, 1}
    BY <1>2, <1>6, StartAddMoves
  <2>2. QED BY <1>1, <1>2, <1>6, <2>1, StartAddMoves, WorldKept
<1>7. CASE StartRun
  BY <1>1, <1>2, <1>7, StartRunMoves, WorldKept
<1>8. CASE EndResolve
  BY <1>1, <1>2, <1>8, EndResolveMoves, WorldKept
<1>9. CASE Truncate
  BY <1>1, <1>2, <1>9, TruncateMoves, WorldKept
<1>10. CASE WriteFile
  <2>1. ASSUME command.k = "add" PROVE command.dep \in adds
    BY <1>2, <2>1 DEF Commands, NoCommand, RunIn
  <2>2. recorded' \subseteq adds
    BY <1>2, <1>10, <2>1, WriteFileMoves DEF Recorded
  <2>3. QED BY <1>1, <1>2, <1>10, <2>2, WriteFileMoves, WorldKept
<1>11. CASE LoadImports
  <2>1. used' \in [Names -> 0..MaxCommits]
    <3>1. CASE used' = used
      BY <1>2, <3>1
    <3>2. CASE used' = [n \in DOMAIN used |-> IF n \in {d.name : d \in GitDeps} THEN cache[n][1].head
                                              ELSE used[n]]
      <4>1. ASSUME NEW d \in GitDeps PROVE d.name \in Names /\ cache[d.name][1].head \in 0..MaxCommits
        <5>1. d \in Deps /\ IsGit(d) /\ todo = <<>>
          BY <1>1, <1>11, LoadImportsMoves DEF GitDeps, Deps, WorkOK
        <5>2. d \in Settled /\ d \in adds
          BY <1>1, <5>1, DepsDistinct, NoDependencies DEF Settled
        <5>3. d.name \in Names /\ cache[d.name] # <<>>
          BY <5>1, <5>2 DEF IInv, ResolvedOK, Resolved, Names
        <5>4. cache[d.name][1] \in CloneType
          BY <1>1, <5>3, CloneTyped
        <5>5. QED BY <5>3, <5>4 DEF CloneType
      <4>2. QED BY <1>2, <3>2, <4>1
    <3>3. QED BY <1>11, <3>1, <3>2, LoadImportsMoves
  <2>2. QED BY <1>1, <1>2, <1>11, <2>1, LoadImportsMoves, WorldKept
<1>12. CASE Crash
  <2>1. crashes' \in 0..MaxCrashes
    BY <1>2, <1>12, CrashMoves, BoundsAssumption
  <2>2. QED BY <1>1, <1>2, <1>12, <2>1, CrashMoves, ResolveCache, WorldKept
<1>13. CASE Push
  <2>1. /\ UNCHANGED <<project, cache, command, code, given, crashes, seen, used, recorded>>
        /\ remote' \in RemoteType
        /\ \A u \in Urls, b \in Branches : /\ remote'[u].tips[b] <= remote'[u].latest
                                           /\ remote[u].tips[b] <= remote'[u].tips[b]
    BY <1>1, <1>13, PushMoves
  <2>2. \A u \in Urls, b \in Branches : seen'[u].tips[b] <= remote'[u].tips[b]
    <3>1. ASSUME NEW u \in Urls, NEW b \in Branches PROVE seen'[u].tips[b] <= remote'[u].tips[b]
      <4>1. /\ seen[u].tips[b] \in Nat /\ remote[u].tips[b] \in Nat /\ remote'[u].tips[b] \in Nat
            /\ seen[u].tips[b] <= remote[u].tips[b]
        BY <1>1, <2>1 DEF WorldOK, RemoteType
      <4>2. QED BY <2>1, <4>1
    <3>2. QED BY <3>1
  <2>3. adds' = adds /\ Names' = Names /\ Commands' = Commands /\ CloneType' = CloneType
        /\ RemoteType' = RemoteType
    BY <2>1, SameProject DEF RemoteType
  <2>4. QED BY <1>1, <2>1, <2>2, <2>3 DEF WorldOK
<1>14. CASE UNCHANGED vars
  BY <1>1, <1>2, <1>14, WorldKept DEF vars
<1>15. QED BY <1>3, <1>4, <1>5, <1>6, <1>7, <1>8, <1>9, <1>10, <1>11, <1>12, <1>13, <1>14, NextCases

\* The work: a command that resolves keeps to its manifest.
LEMMA NothingToDo ==
  ASSUME WorkOK, man = NoManifest PROVE todo = <<>> /\ Deps = {}
<1>1. Deps = {}
  BY NoDependencies DEF Deps
<1>2. todo \in Seq(adds) /\ DistinctNames(todo) /\ ToSet(todo) = {}
  BY <1>1 DEF WorkOK
<1>3. todo # <<>> => Head(todo) \in ToSet(todo)
  BY <1>2, TailOfDistinct
<1>4. QED BY <1>1, <1>2, <1>3

\* While a clone is made, fetched or checked out, its directory is there.
LEMMA ResolveClone ==
  ASSUME WorldOK, WorkOK, Resolves, stage' \in {"reset", "clone", "checkout"}
  PROVE  Dep' = Dep /\ Clone' # <<>>
<1>1. todo' = todo /\ Dep' = Dep /\ IsGit(Dep)
  BY ResolveMoves DEF Dep
<1>2. Dep.name \in DOMAIN cache
  BY DepTyped, ResolveMoves DEF WorldOK
<1>3. CASE Fetch
  BY <1>1, <1>2, <1>3 DEF Fetch, Clone
<1>4. CASE StartClone
  BY <1>1, <1>2, <1>4 DEF StartClone, Clone
<1>5. CASE EndClone
  BY <1>1, <1>2, <1>5 DEF EndClone, Clone
<1>6. CASE ResolvePathDep \/ UsePinned \/ Reset \/ Checkout \/ GitFails
  BY <1>6 DEF ResolvePathDep, UsePinned, Reset, Checkout, GitFails, Found, Fails, Exit
<1>7. QED BY <1>1, <1>3, <1>4, <1>5, <1>6 DEF Resolves

\* A manifest whose dependencies are all to be resolved.
LEMMA FreshManifest ==
  ASSUME project' = project, NEW m, IsManifest(m), man' = m, todo' = m.dependencies
  PROVE  /\ IsManifest(man)' /\ todo' \in Seq(adds) /\ DistinctNames(todo')
         /\ Deps' = ToSet(m.dependencies) /\ ToSet(todo') = Deps' /\ Settled' = {}
<1>1. IsManifest(man)'
  BY SameProject
<1>2. m.dependencies \in Seq(adds) /\ DistinctNames(m.dependencies)
  BY DEF IsManifest
<1>3. Deps' = ToSet(m.dependencies)
  BY DEF Deps
<1>4. QED BY <1>1, <1>2, <1>3 DEF Settled

\* A step to a later stage of the same work.
LEMMA WorkKept ==
  ASSUME WorkOK, project' = project, man' = man, todo' = todo,
         stage' \in {"shell", "truncate", "write", "imports"},
         stage' # "shell" => command' \in Commands,
         stage' = "imports" => command'.k = "run" /\ todo = <<>>,
         RanWell' => todo = <<>>
  PROVE  WorkOK'
<1>1. Commands' = Commands /\ adds' = adds /\ (IsManifest(man)' <=> IsManifest(man))
  BY SameProject DEF IsManifest
<1>2. Deps' = Deps
  BY DEF Deps
<1>3. QED BY <1>1, <1>2 DEF WorkOK

\* Every step preserves the shape of the work.
LEMMA WorkStep == ASSUME IInv, [Next]_vars PROVE WorkOK'
<1>1. WorldOK /\ WorkOK /\ WritesOK /\ DiskOK
  BY DEF IInv
<1>2. CASE Resolves
  <2>1. /\ project' = project /\ man' = man /\ command' = command
        /\ stage \in {"resolve", "reset", "clone", "checkout"} /\ todo # <<>>
        /\ stage' = "shell" => code' = 1
        /\ stage' \in {"shell", "resolve", "reset", "clone", "checkout"}
        /\ todo' = todo \/ (todo' = Tail(todo) /\ stage' = "resolve")
        /\ stage' \in {"reset", "clone", "checkout"} => todo' = todo /\ IsGit(Dep)
    BY <1>1, <1>2, ResolveMoves
  <2>2. adds' = adds /\ Commands' = Commands /\ (IsManifest(man)' <=> IsManifest(man))
    BY <2>1, SameProject DEF IsManifest
  <2>3. Deps' = Deps
    BY <2>1 DEF Deps
  <2>4. todo' \in Seq(adds) /\ DistinctNames(todo') /\ ToSet(todo') \subseteq Deps
    <3>1. CASE todo' = todo
      BY <1>1, <3>1 DEF WorkOK
    <3>2. CASE todo' = Tail(todo)
      BY <1>1, <2>1, <3>2, Settles DEF WorkOK
    <3>3. QED BY <2>1, <3>1, <3>2
  <2>5. stage' \in {"reset", "clone", "checkout"} => todo' # <<>> /\ IsGit(Dep)' /\ Clone' # <<>>
    BY <1>1, <1>2, <2>1, ResolveClone DEF IsGit
  <2>6. ~RanWell'
    BY <2>1 DEF RanWell
  <2>7. QED BY <1>1, <2>1, <2>2, <2>3, <2>4, <2>5, <2>6 DEF WorkOK
<1>3. CASE Invoke
  <2>1. Commands' = Commands /\ adds' = adds
    BY <1>3, InvokeMoves, SameProject
  <2>2. Deps' = {} /\ DistinctNames(<<>>) /\ ToSet(<<>>) = {} /\ <<>> \in Seq(adds)
    BY <1>3, InvokeMoves, NoDependencies DEF Deps, DistinctNames
  <2>3. QED BY <1>3, <2>1, <2>2, InvokeMoves DEF WorkOK, RanWell
<1>4. CASE StartInit
  <2>1. ~RanWell'
    BY <1>4, StartInitMoves DEF RanWell
  <2>2. QED BY <1>1, <1>4, <2>1, StartInitMoves, WorkKept DEF WorkOK
<1>5. CASE StartAdd
  <2>1. CASE stage' = "shell"
    BY <1>1, <1>5, <2>1, StartAddMoves, WorkKept DEF RanWell
  <2>2. CASE stage' = "resolve"
    <3>1. command.dep \in adds /\ command \in Commands
      BY <1>1, <1>5, StartAddMoves DEF WorldOK, Commands, NoCommand, RunIn
    <3>2. IsManifest(Loaded.v) /\ project' = project /\ command' = command /\ command.k = "add"
      BY <1>1, <1>5, <2>2, StartAddMoves DEF DiskOK
    <3>3. IsManifest(WithDependency(Loaded.v, command.dep))
      BY <3>1, <3>2, WithDependencyType
    <3>4. /\ IsManifest(man)' /\ todo' \in Seq(adds) /\ DistinctNames(todo') /\ ToSet(todo') = Deps'
      BY <1>5, <2>2, <3>2, <3>3, StartAddMoves, FreshManifest
    <3>5. Commands' = Commands /\ adds' = adds
      BY <3>2, SameProject
    <3>6. QED BY <2>2, <3>1, <3>2, <3>4, <3>5 DEF WorkOK, RanWell
  <2>3. QED BY <1>5, <2>1, <2>2, StartAddMoves
<1>6. CASE StartRun
  <2>1. command' = command /\ command \in Commands /\ command.k = "run" /\ man = NoManifest
        /\ project' = project
    BY <1>1, <1>6, StartRunMoves DEF WorkOK
  <2>2. CASE stage' # "resolve"
    BY <1>1, <1>6, <2>1, <2>2, StartRunMoves, NothingToDo, WorkKept DEF RanWell
  <2>3. CASE stage' = "resolve"
    <3>1. IsManifest(Loaded.v)
      BY <1>1, <1>6, <2>3, StartRunMoves DEF DiskOK
    <3>2. /\ IsManifest(man)' /\ todo' \in Seq(adds) /\ DistinctNames(todo') /\ ToSet(todo') = Deps'
      BY <1>6, <2>1, <2>3, <3>1, StartRunMoves, FreshManifest
    <3>3. Commands' = Commands /\ adds' = adds
      BY <2>1, SameProject
    <3>4. QED BY <2>1, <2>3, <3>2, <3>3 DEF WorkOK, RanWell
  <2>4. QED BY <2>2, <2>3
<1>7. CASE EndResolve
  <2>1. command.k \in {"add", "run"} /\ command \in Commands
    BY <1>1, <1>7, EndResolveMoves DEF WorkOK
  <2>2. stage' \in {"truncate", "imports"} /\ (stage' = "imports" => command.k = "run")
    BY <1>7, <2>1, EndResolveMoves
  <2>3. QED BY <1>1, <1>7, <2>1, <2>2, EndResolveMoves, WorkKept DEF RanWell
<1>8. CASE Truncate
  BY <1>1, <1>8, TruncateMoves, WorkKept DEF WorkOK, RanWell
<1>9. CASE WriteFile
  <2>1. command.k # "run" /\ command \in Commands
    BY <1>1, <1>9, WriteFileMoves DEF WritesOK, WorkOK
  <2>2. QED BY <1>1, <1>9, <2>1, WriteFileMoves, WorkKept DEF RanWell
<1>10. CASE LoadImports
  BY <1>1, <1>10, LoadImportsMoves, WorkKept DEF WorkOK, RanWell
<1>11. CASE Crash
  BY <1>1, <1>11, CrashMoves, WorkKept DEF RanWell
<1>12. CASE UNCHANGED <<project, cache, command, stage, man, todo, code>>
  <2>1. Commands' = Commands /\ adds' = adds /\ (IsManifest(man)' <=> IsManifest(man))
    BY <1>12, SameProject DEF IsManifest
  <2>2. Deps' = Deps /\ Dep' = Dep /\ Clone' = Clone /\ (IsGit(Dep)' <=> IsGit(Dep)) /\ (RanWell' <=> RanWell)
    BY <1>12 DEF Deps, Dep, Clone, IsGit, RanWell
  <2>3. QED BY <1>1, <1>12, <2>1, <2>2 DEF WorkOK
<1>13. Push \/ UNCHANGED vars => UNCHANGED <<project, cache, command, stage, man, todo, code>>
  BY <1>1, PushMoves DEF vars
<1>14. QED BY <1>2, <1>3, <1>4, <1>5, <1>6, <1>7, <1>8, <1>9, <1>10, <1>11, <1>12, <1>13, NextCases

\* The files: what is written next, and where.
LEMMA PathsDiffer == FirstFile # ManifestPath
<1>1. Len(FirstFile) = 3 /\ Len(ManifestPath) = 2
  BY DEF FirstFile, ManifestPath, Root
<1>2. QED BY <1>1

\* The two files of init.
LEMMA FirstWrites ==
  /\ NewFiles[1] = Write(ManifestPath, ToToml(NewManifest))
  /\ NewFiles[2] = Write(FirstFile, FirstProgram)
  /\ Tail(NewFiles) = <<NewFiles[2]>> /\ Len(NewFiles) = 2
  /\ \A w : Len(<<w>>) = 1 /\ <<w>>[1] = w
  /\ \A path, text : Write(path, text).path = path /\ Write(path, text).text = text
  BY DEF NewFiles, Write

\* The write at hand is that of the manifest, or that of the first program.
LEMMA WriteAtHand ==
  ASSUME WritesOK, stage \in {"truncate", "write"}
  PROVE  \/ /\ command.k = "add" /\ IsManifest(man) /\ Len(writes) = 1
            /\ writes[1].path = ManifestPath /\ writes[1].text = ToToml(man)
         \/ /\ command.k = "init" /\ writes[1].path = ManifestPath
            /\ writes[1].text = ToToml(NewManifest) /\ recorded = {}
         \/ command.k = "init" /\ writes[1].path = FirstFile
<1>1. CASE command.k = "add"
  BY <1>1, FirstWrites DEF WritesOK
<1>2. CASE command.k = "init"
  <2>1. writes \in {NewFiles, <<NewFiles[1]>>, <<NewFiles[2]>>}
    BY <1>2 DEF WritesOK
  <2>2. writes[1] = NewFiles[1] \/ writes[1] = NewFiles[2]
    BY <2>1, FirstWrites
  <2>3. QED BY <1>2, <2>2, FirstWrites DEF WritesOK
<1>3. QED BY <1>1, <1>2 DEF WritesOK

\* Every step preserves what is known of the files to write.
LEMMA WritesStep == ASSUME IInv, [Next]_vars PROVE WritesOK'
<1>1. WritesOK /\ WorkOK /\ DiskOK /\ WorldOK
  BY DEF IInv
<1>2. CASE Resolves \/ Invoke \/ StartAdd \/ StartRun \/ LoadImports \/ Crash
  <2>1. stage' \notin {"truncate", "write"}
    BY <1>1, <1>2, ResolveMoves, InvokeMoves, StartAddMoves, StartRunMoves, LoadImportsMoves, CrashMoves
  <2>2. QED BY <2>1 DEF WritesOK
<1>3. CASE StartInit
  <2>1. CASE stage' = "shell"
    BY <2>1 DEF WritesOK
  <2>2. CASE stage' = "truncate"
    <3>1. command' = command /\ command.k = "init" /\ recorded' = {}
      BY <1>1, <1>3, <2>2, StartInitMoves DEF DiskOK
    <3>2. writes' \in {NewFiles, <<NewFiles[1]>>}
      BY <1>3, <2>2, StartInitMoves
    <3>3. NewFiles' = NewFiles
      BY DEF NewFiles
    <3>4. QED BY <2>2, <3>1, <3>2, <3>3 DEF WritesOK
  <2>3. QED BY <1>3, <2>1, <2>2, StartInitMoves
<1>4. CASE EndResolve
  <2>1. CASE command.k = "add"
    <3>1. /\ stage' = "truncate" /\ command' = command /\ todo' = <<>> /\ man' = man
          /\ writes' = <<Write(ManifestPath, ToToml(man))>> /\ IsManifest(man)'
      BY <1>1, <1>4, <2>1, EndResolveMoves, SameProject DEF WorkOK
    <3>2. QED BY <2>1, <3>1 DEF WritesOK
  <2>2. CASE command.k # "add"
    BY <1>4, <2>2, EndResolveMoves DEF WritesOK
  <2>3. QED BY <2>1, <2>2
<1>5. CASE Truncate
  <2>1. /\ UNCHANGED <<project, recorded, command, man, todo, writes>>
        /\ stage = "truncate" /\ stage' = "write" /\ writes[1].path \in DOMAIN files'
        /\ (IsManifest(man)' <=> IsManifest(man))
    BY <1>5, TruncateMoves, SameProject DEF IsManifest
  <2>2. NewFiles' = NewFiles
    BY DEF NewFiles
  <2>3. QED BY <1>1, <2>1, <2>2 DEF WritesOK
<1>6. CASE WriteFile
  <2>1. CASE stage' = "shell"
    BY <2>1 DEF WritesOK
  <2>2. CASE stage' = "truncate"
    <3>1. /\ writes' = Tail(writes) /\ Len(writes) > 1 /\ command' = command /\ stage = "write"
      BY <1>6, <2>2, WriteFileMoves
    <3>2. command.k = "init" /\ writes = NewFiles
      <4>1. command.k # "add"
        BY <1>1, <3>1, FirstWrites DEF WritesOK
      <4>2. writes \in {NewFiles, <<NewFiles[1]>>, <<NewFiles[2]>>} /\ command.k = "init"
        BY <1>1, <3>1, <4>1 DEF WritesOK
      <4>3. QED BY <3>1, <4>2, FirstWrites
    <3>3. writes' = <<NewFiles[2]>> /\ writes'[1].path = FirstFile
      BY <3>1, <3>2, FirstWrites
    <3>4. NewFiles' = NewFiles
      BY DEF NewFiles
    <3>5. QED BY <2>2, <3>1, <3>2, <3>3, <3>4, PathsDiffer DEF WritesOK
  <2>3. QED BY <1>6, <2>1, <2>2, WriteFileMoves
<1>7. CASE UNCHANGED <<project, files, recorded, command, stage, man, todo, writes>>
  <2>1. NewFiles' = NewFiles /\ (IsManifest(man)' <=> IsManifest(man))
    BY <1>7, SameProject DEF NewFiles, IsManifest
  <2>2. QED BY <1>1, <1>7, <2>1 DEF WritesOK
<1>8. Push \/ UNCHANGED vars => UNCHANGED <<project, files, recorded, command, stage, man, todo, writes>>
  BY <1>1, PushMoves DEF vars
<1>9. QED BY <1>2, <1>3, <1>4, <1>5, <1>6, <1>7, <1>8, NextCases

\* The disk: whatever can be read of the manifest is what was added.
LEMMA NewManifestType ==
  ASSUME WorldOK PROVE IsManifest(NewManifest) /\ ToSet(NewManifest.dependencies) = {}
<1>1. NewManifest \in FirstManifests(project) /\ project \in Layouts
  BY DEF FirstManifests, WorldOK
<1>2. QED BY <1>1, FirstManifestType

\* Every step preserves that the manifest on the disk holds what was added.
LEMMA DiskStep == ASSUME IInv, [Next]_vars PROVE DiskOK'
<1>1. WritesOK /\ WorkOK /\ DiskOK /\ WorldOK /\ RecordedOK
  BY DEF IInv
<1>2. CASE UNCHANGED <<project, files, recorded>>
  <2>1. Loaded' = Loaded /\ (IsManifest(Loaded.v)' <=> IsManifest(Loaded.v))
    BY <1>2, SameProject DEF Loaded, IsManifest
  <2>2. QED BY <1>1, <1>2, <2>1 DEF DiskOK
<1>3. CASE Truncate
  <2>1. /\ UNCHANGED <<project, recorded>> /\ stage = "truncate"
        /\ files' = [p \in DOMAIN files \cup {writes[1].path} |->
                       IF p = writes[1].path THEN <<>> ELSE files[p]]
    BY <1>3, TruncateMoves
  <2>2. CASE writes[1].path = ManifestPath
    <3>1. ManifestPath \in DOMAIN files' /\ files'[ManifestPath] = <<>>
      BY <2>1, <2>2
    <3>2. ~Loaded'.ok
      BY <3>1, EmptyIsRefused DEF Loaded, Fail
    <3>3. QED BY <3>1, <3>2 DEF DiskOK
  <2>3. CASE writes[1].path = FirstFile
    <3>1. /\ ManifestPath \in DOMAIN files' <=> ManifestPath \in DOMAIN files
          /\ ManifestPath \in DOMAIN files => files'[ManifestPath] = files[ManifestPath]
      BY <2>1, <2>3, PathsDiffer
    <3>2. Loaded' = Loaded
      BY <3>1 DEF Loaded
    <3>3. IsManifest(Loaded.v)' <=> IsManifest(Loaded.v)
      BY <2>1, <3>2, SameProject DEF IsManifest
    <3>4. QED BY <1>1, <2>1, <3>1, <3>2, <3>3 DEF DiskOK
  <2>4. QED BY <1>1, <2>1, <2>2, <2>3, WriteAtHand
<1>4. CASE WriteFile
  <2>1. /\ project' = project /\ stage = "write" /\ man' = man
        /\ files' = [files EXCEPT ![writes[1].path] = writes[1].text]
        /\ IF command.k = "add" THEN recorded' = Recorded(command.dep) ELSE recorded' = recorded
    BY <1>4, WriteFileMoves
  <2>2. writes[1].path \in DOMAIN files /\ DOMAIN files' = DOMAIN files
    BY <1>1, <2>1 DEF WritesOK
  <2>3. ASSUME NEW m, IsManifest(m), writes[1].path = ManifestPath, writes[1].text = ToToml(m),
               ToSet(m.dependencies) = recorded'
        PROVE  DiskOK'
    <3>1. ManifestPath \in DOMAIN files' /\ files'[ManifestPath] = ToToml(m)
      BY <2>1, <2>2, <2>3
    <3>2. Loaded' = ParseManifest(ToToml(m))
      BY <3>1 DEF Loaded
    <3>3. Loaded'.ok => Loaded'.v = m
      BY <1>1, <2>3, <3>2, ReadBack DEF WorldOK
    <3>4. IsManifest(m)'
      BY <2>1, <2>3, SameProject
    <3>5. Loaded'.ok => IsManifest(Loaded.v)'
      BY <3>3, <3>4 DEF IsManifest
    <3>6. QED BY <2>3, <3>1, <3>3, <3>5 DEF DiskOK
  <2>4. CASE command.k = "add"
    <3>1. /\ IsManifest(man) /\ writes[1].path = ManifestPath /\ writes[1].text = ToToml(man)
      BY <1>1, <2>1, <2>4, WriteAtHand
    <3>2. ToSet(man.dependencies) = recorded'
      BY <1>1, <2>1, <2>4 DEF RecordedOK, Deps
    <3>3. QED BY <2>3, <3>1, <3>2
  <2>5. CASE command.k # "add" /\ writes[1].path = ManifestPath
    <3>1. writes[1].text = ToToml(NewManifest) /\ recorded' = {}
      BY <1>1, <2>1, <2>5, WriteAtHand, PathsDiffer
    <3>2. IsManifest(NewManifest) /\ ToSet(NewManifest.dependencies) = {}
      BY <1>1, NewManifestType
    <3>3. QED BY <2>3, <2>5, <3>1, <3>2
  <2>6. CASE command.k # "add" /\ writes[1].path = FirstFile
    <3>1. /\ recorded' = recorded
          /\ ManifestPath \in DOMAIN files => files'[ManifestPath] = files[ManifestPath]
      BY <2>1, <2>6, PathsDiffer
    <3>2. Loaded' = Loaded
      BY <2>2, <3>1 DEF Loaded
    <3>3. IsManifest(Loaded.v)' <=> IsManifest(Loaded.v)
      BY <2>1, <3>2, SameProject DEF IsManifest
    <3>4. QED BY <1>1, <2>2, <3>1, <3>2, <3>3 DEF DiskOK
  <2>7. QED BY <1>1, <2>1, <2>4, <2>5, <2>6, WriteAtHand
<1>5. Resolves \/ Invoke \/ StartInit \/ StartAdd \/ StartRun \/ EndResolve \/ LoadImports \/ Crash
        \/ Push \/ UNCHANGED vars => UNCHANGED <<project, files, recorded>>
  BY <1>1, ResolveMoves, InvokeMoves, StartInitMoves, StartAddMoves, StartRunMoves,
     EndResolveMoves, LoadImportsMoves, CrashMoves, PushMoves DEF vars
<1>6. QED BY <1>2, <1>3, <1>4, <1>5, NextCases

\* What add works on becomes what is recorded; what run works on is what is recorded.
LEMMA AllSettled ==
  ASSUME todo = <<>> PROVE Settled = Deps
  BY NoDependencies DEF Settled

\* Every step preserves how the work and what is recorded agree.
LEMMA RecordedStep == ASSUME IInv, [Next]_vars PROVE RecordedOK'
<1>1. WritesOK /\ WorkOK /\ DiskOK /\ WorldOK /\ RecordedOK
  BY DEF IInv
<1>2. CASE /\ UNCHANGED <<command, man, recorded, used>>
           /\ stage \in {"shell", "start"} /\ stage' \notin {"shell", "start"} => command.k # "add"
  <2>1. Deps' = Deps /\ Recorded(command.dep)' = Recorded(command.dep)
    BY <1>2 DEF Deps, Recorded
  <2>2. QED BY <1>1, <1>2, <2>1 DEF RecordedOK
<1>3. CASE Invoke
  BY <1>1, <1>3, InvokeMoves DEF RecordedOK
<1>4. CASE StartAdd
  <2>1. CASE stage' = "shell"
    BY <1>1, <1>4, <2>1, StartAddMoves DEF RecordedOK
  <2>2. CASE stage' # "shell"
    <3>1. /\ Loaded.ok /\ man' = WithDependency(Loaded.v, command.dep) /\ command' = command
          /\ recorded' = recorded /\ used' = [used EXCEPT ![command.dep.name] = 0]
          /\ command.k = "add"
      BY <1>4, <2>2, StartAddMoves
    <3>2. command.dep \in adds
      BY <1>1, <3>1 DEF WorldOK, Commands, NoCommand, RunIn
    <3>3. Deps' = Recorded(command.dep)
      BY <1>1, <3>1, <3>2, WithDependencyType DEF DiskOK, Deps, Recorded
    <3>4. command.dep.name \in DOMAIN used
      BY <1>1, <3>2 DEF WorldOK, Names
    <3>5. Recorded(command.dep)' = Recorded(command.dep) /\ used'[command.dep.name] = 0
      BY <3>1, <3>4 DEF Recorded
    <3>6. QED BY <1>1, <3>1, <3>3, <3>5 DEF RecordedOK
  <2>3. QED BY <2>1, <2>2
<1>5. CASE StartRun
  <2>1. CASE stage' # "resolve"
    BY <1>1, <1>2, <1>5, <2>1, StartRunMoves
  <2>2. CASE stage' = "resolve"
    <3>1. Deps' = recorded /\ recorded' = recorded /\ command' = command /\ command.k = "run"
      BY <1>1, <1>5, <2>2, StartRunMoves DEF DiskOK, Deps
    <3>2. QED BY <1>1, <3>1 DEF RecordedOK
  <2>3. QED BY <2>1, <2>2
<1>6. CASE WriteFile
  <2>1. command' = command /\ man' = man /\ used' = used /\ stage = "write" /\ command.k \in {"add", "init"}
    BY <1>1, <1>6, WriteFileMoves DEF WritesOK
  <2>2. Deps' = Deps
    BY <2>1 DEF Deps
  <2>3. CASE command.k = "add"
    <3>1. recorded' = Deps /\ stage' = "shell"
      <4>1. Deps = Recorded(command.dep)
        BY <1>1, <2>1, <2>3 DEF RecordedOK
      <4>2. Len(writes) = 1
        BY <1>1, <2>1, <2>3, WriteAtHand
      <4>3. QED BY <1>6, <2>3, <4>1, <4>2, WriteFileMoves
    <3>2. NamesDistinct(Deps)
      BY <1>1, DepsDistinct
    <3>3. QED BY <2>1, <2>3, <3>1, <3>2 DEF RecordedOK
  <2>4. CASE command.k = "init"
    BY <1>1, <1>6, <2>1, <2>4, WriteFileMoves DEF RecordedOK
  <2>5. QED BY <2>1, <2>3, <2>4
<1>7. CASE LoadImports
  <2>1. /\ UNCHANGED <<command, man, recorded>> /\ command.k = "run"
    BY <1>1, <1>7, LoadImportsMoves DEF WorkOK
  <2>2. Deps' = Deps
    BY <2>1 DEF Deps
  <2>3. QED BY <1>1, <2>1, <2>2 DEF RecordedOK
<1>8. CASE Resolves \/ StartInit \/ EndResolve \/ Truncate \/ Crash \/ Push \/ UNCHANGED vars
  BY <1>1, <1>2, <1>8, ResolveMoves, StartInitMoves, EndResolveMoves, TruncateMoves, CrashMoves, PushMoves
     DEF vars
<1>9. QED BY <1>3, <1>4, <1>5, <1>6, <1>7, <1>8, NextCases

----------------------------------------------------------------------------
\* Directories: files are never removed, and a clone only by the git that was making it.

\* No command removes a file.
LEMMA FilesGrow ==
  ASSUME IInv, [Next]_vars PROVE DOMAIN files \subseteq DOMAIN files'
<1>1. WorldOK /\ WorkOK
  BY DEF IInv
<1>2. CASE Truncate
  BY <1>2, TruncateMoves
<1>3. CASE WriteFile
  BY <1>3, WriteFileMoves
<1>4. CASE ~(Truncate \/ WriteFile)
  BY <1>1, <1>4, NextCases, ResolveMoves, InvokeMoves, StartInitMoves, StartAddMoves, StartRunMoves,
     EndResolveMoves, LoadImportsMoves, CrashMoves, PushMoves DEF vars
<1>5. QED BY <1>2, <1>3, <1>4

\* A directory stays while files and clones do.
LEMMA ResolvedStays ==
  ASSUME DOMAIN files \subseteq DOMAIN files', NEW d, Resolved(d),
         IsGit(d) => cache'[d.name] # <<>>
  PROVE  Resolved(d)'
<1>1. \A dir : IsDir(dir) => IsDir(dir)'
  BY DEF IsDir
<1>2. IsGit(d)' <=> IsGit(d)
  BY DEF IsGit
<1>3. QED BY <1>1, <1>2 DEF Resolved

\* A clone is removed only while it is made.
LEMMA Emptied ==
  ASSUME WorldOK, WorkOK, Resolves \/ Crash, cache' # cache, cache'[Dep.name] = <<>>
  PROVE  stage = "clone"
<1>1. todo # <<>> => Dep.name \in DOMAIN cache
  BY DepTyped DEF WorldOK
<1>2. \A v : <<v>> # <<>>
  OBVIOUS
<1>3. CASE Fetch
  BY <1>1, <1>2, <1>3 DEF Fetch, Resolving
<1>4. CASE Reset
  BY <1>1, <1>2, <1>4 DEF Reset, Resolving
<1>5. CASE StartClone
  BY <1>1, <1>2, <1>5 DEF StartClone, Resolving
<1>6. CASE EndClone
  BY <1>6 DEF EndClone, Resolving
<1>7. CASE Checkout
  BY <1>1, <1>2, <1>7 DEF Checkout, Resolving
<1>8. CASE ResolvePathDep \/ UsePinned \/ GitFails \/ Crash
  BY <1>8 DEF ResolvePathDep, UsePinned, GitFails, Crash
<1>9. QED BY <1>3, <1>4, <1>5, <1>6, <1>7, <1>8 DEF Resolves

\* Settled dependencies are not of the clone at work.
LEMMA SettledElsewhere ==
  ASSUME WorldOK, WorkOK, todo # <<>>, NEW d \in Settled
  PROVE  d.name # Dep.name
<1>1. d \in Deps /\ d \notin ToSet(todo) /\ Dep \in Deps /\ Dep \in ToSet(todo)
  BY DepTyped DEF Settled
<1>2. QED BY <1>1, DepsDistinct DEF NamesDistinct

\* What is recorded or settled stays resolved while another dependency is resolved.
LEMMA ResolvedKept ==
  ASSUME WorldOK, WorkOK, ResolvedOK, Resolves \/ Crash, files' = files,
         NEW d \in recorded \cup Settled
  PROVE  Resolved(d)'
<1>1. Resolved(d) /\ (IsGit(d) => cache[d.name] # <<>> /\ d.name \in Names)
  BY DepsDistinct DEF ResolvedOK, Resolved, WorldOK, Settled, Names
<1>2. IsGit(d) => cache'[d.name] # <<>>
  <2>1. CASE cache' = cache
    BY <1>1, <2>1
  <2>2. CASE cache' # cache /\ IsGit(d) /\ d.name = Dep.name
    <3>1. todo # <<>>
      BY <2>2, ResolveCache DEF CacheMoves
    <3>2. d \in recorded
      BY <2>2, <3>1, SettledElsewhere
    <3>3. stage # "clone"
      BY <2>2, <3>2 DEF ResolvedOK
    <3>4. QED BY <2>2, <3>3, Emptied
  <2>3. CASE cache' # cache /\ IsGit(d) /\ d.name # Dep.name
    BY <1>1, <2>3, ResolveCache DEF CacheMoves
  <2>4. QED BY <2>1, <2>2, <2>3
<1>3. QED BY <1>1, <1>2, ResolvedStays

\* What a step has just settled is there.
LEMMA SettledNow ==
  ASSUME WorldOK, WorkOK, Resolves, stage' = "resolve", NEW d, d = Dep
  PROVE  Resolved(d)'
<1>1. d.name \in DOMAIN cache /\ files' = files
  BY ResolveMoves, DepTyped DEF WorldOK
<1>2. \A v : <<v>> # <<>>
  OBVIOUS
<1>3. CASE ResolvePathDep
  <2>1. IsDir(Canonical(Root \o Components(Source.path))) /\ Source.k = "Path"
    BY <1>3 DEF ResolvePathDep, Fails, Exit, Resolving
  <2>2. ~IsGit(d)
    BY <2>1 DEF IsGit, Source
  <2>3. Resolved(d)
    BY <2>1, <2>2 DEF Resolved, Source
  <2>4. QED BY <1>1, <2>2, <2>3, ResolvedStays
<1>4. CASE ~ResolvePathDep
  <2>1. IsGit(d) /\ cache'[d.name] # <<>>
    <3>1. CASE UsePinned
      BY <3>1 DEF UsePinned, Resolving, Clone, IsGit, Source
    <3>2. CASE Fetch
      BY <3>2 DEF Fetch
    <3>3. CASE Reset
      BY <1>1, <1>2, <3>3 DEF Reset, Resolving, IsGit, Source
    <3>4. CASE StartClone
      BY <3>4 DEF StartClone
    <3>5. CASE EndClone
      BY <1>1, <1>2, <3>5 DEF EndClone, Resolving, IsGit, Source
    <3>6. CASE Checkout
      BY <1>1, <1>2, <3>6 DEF Checkout, Resolving, IsGit, Source, Fails, Exit
    <3>7. CASE GitFails
      BY <3>7 DEF GitFails, Fails, Exit
    <3>8. QED BY <1>4, <3>1, <3>2, <3>3, <3>4, <3>5, <3>6, <3>7 DEF Resolves
  <2>2. QED BY <2>1 DEF Resolved, IsGit
<1>5. QED BY <1>3, <1>4

\* A step that leaves the work and the cache alone, or begins a new work.
LEMMA SettledSame ==
  ASSUME IInv, [Next]_vars, ~Resolves, ~WriteFile
  PROVE  Settled' \subseteq Settled /\ (cache' = cache \/ Crash)
<1>1. WorldOK /\ WorkOK /\ DiskOK
  BY DEF IInv
<1>2. CASE Invoke
  <2>1. Deps' = {}
    BY <1>2, InvokeMoves, NoDependencies DEF Deps
  <2>2. QED BY <1>2, <2>1, InvokeMoves DEF Settled
<1>3. CASE man' = man /\ todo' = todo
  <2>1. Settled' = Settled
    BY <1>3 DEF Settled, Deps
  <2>2. QED BY <1>1, <2>1, NextCases, InvokeMoves, StartInitMoves, StartAddMoves, StartRunMoves,
               EndResolveMoves, TruncateMoves, LoadImportsMoves, PushMoves DEF vars
<1>4. CASE StartAdd /\ stage' # "shell"
  <2>1. IsManifest(Loaded.v) /\ command.dep \in adds /\ project' = project
    BY <1>1, <1>4, StartAddMoves DEF DiskOK, WorldOK, Commands, NoCommand, RunIn
  <2>2. IsManifest(WithDependency(Loaded.v, command.dep))
    BY <2>1, WithDependencyType
  <2>3. Settled' = {}
    BY <1>4, <2>1, <2>2, StartAddMoves, FreshManifest
  <2>4. QED BY <1>4, <2>3, StartAddMoves
<1>5. CASE StartRun /\ stage' = "resolve"
  <2>1. IsManifest(Loaded.v) /\ project' = project
    BY <1>1, <1>5, StartRunMoves DEF DiskOK
  <2>2. Settled' = {}
    BY <1>5, <2>1, StartRunMoves, FreshManifest
  <2>3. QED BY <1>5, <2>2, StartRunMoves
<1>6. QED BY <1>1, <1>2, <1>3, <1>4, <1>5, NextCases, StartInitMoves, StartAddMoves, StartRunMoves,
             EndResolveMoves, TruncateMoves, LoadImportsMoves, CrashMoves, PushMoves DEF vars

\* Every step preserves that what is recorded or settled has its directory.
LEMMA ResolvedStep == ASSUME IInv, [Next]_vars PROVE ResolvedOK'
<1>1. WritesOK /\ WorkOK /\ WorldOK /\ RecordedOK /\ ResolvedOK
  BY DEF IInv
<1>2. DOMAIN files \subseteq DOMAIN files'
  BY FilesGrow
<1>3. ASSUME NEW d \in recorded \cup Settled, cache' = cache PROVE Resolved(d)'
  <2>1. Resolved(d)
    BY <1>1 DEF ResolvedOK
  <2>2. QED BY <1>2, <1>3, <2>1, ResolvedStays DEF Resolved
<1>4. CASE Resolves
  <2>1. /\ files' = files /\ recorded' = recorded /\ todo # <<>> /\ man' = man /\ project' = project
        /\ stage' = "resolve" => todo' = Tail(todo)
        /\ stage' # "resolve" => todo' = todo
    BY <1>1, <1>4, ResolveMoves
  <2>2. \A d \in recorded \cup Settled : Resolved(d)'
    BY <1>1, <1>4, <2>1, ResolvedKept
  <2>3. ASSUME NEW d \in Settled' PROVE Resolved(d)'
    <3>1. CASE stage' = "resolve"
      <4>1. d \in Settled \/ d = Dep
        BY <1>1, <2>1, <2>3, <3>1, Settles
      <4>2. QED BY <1>1, <1>4, <2>2, <3>1, <4>1, SettledNow
    <3>2. CASE stage' # "resolve"
      BY <2>1, <2>2, <2>3, <3>2 DEF Settled, Deps
    <3>3. QED BY <3>1, <3>2
  <2>4. ASSUME stage' \in {"clone", "checkout"}, NEW d \in recorded, IsGit(d) PROVE d.name # Dep'.name
    <3>1. Dep' = Dep
      BY <1>1, <1>4, <2>4, ResolveClone
    <3>2. CASE StartClone
      BY <1>1, <2>4, <3>1, <3>2 DEF StartClone, Clone, ResolvedOK, Resolved
    <3>3. CASE EndClone
      BY <1>1, <2>4, <3>1, <3>3 DEF EndClone, Resolving, ResolvedOK
    <3>4. QED BY <1>4, <2>4, <3>2, <3>3 DEF Resolves, ResolvePathDep, UsePinned, Fetch, Reset,
                 Checkout, GitFails, Found, Fails, Exit
  <2>5. QED BY <2>1, <2>2, <2>3, <2>4 DEF ResolvedOK, IsGit
<1>5. CASE Crash
  <2>1. /\ UNCHANGED <<files, recorded, man, todo>> /\ stage' = "shell"
    BY <1>5, CrashMoves
  <2>2. \A d \in recorded \cup Settled : Resolved(d)'
    BY <1>1, <1>5, <2>1, ResolvedKept
  <2>3. Settled' = Settled
    BY <2>1 DEF Settled, Deps
  <2>4. QED BY <2>1, <2>2, <2>3 DEF ResolvedOK
<1>6. CASE WriteFile
  <2>1. /\ UNCHANGED <<cache, man, todo, command>> /\ stage = "write" /\ stage' \in {"shell", "truncate"}
        /\ IF command.k = "add" THEN recorded' = Recorded(command.dep) ELSE recorded' = recorded
    BY <1>6, WriteFileMoves
  <2>2. Settled' = Settled
    BY <2>1 DEF Settled, Deps
  <2>3. recorded' \subseteq recorded \cup Settled
    <3>1. command.k = "add" => Recorded(command.dep) = Settled
      BY <1>1, <2>1, AllSettled DEF RecordedOK, WritesOK
    <3>2. QED BY <2>1, <3>1
  <2>4. QED BY <1>3, <2>1, <2>2, <2>3 DEF ResolvedOK
<1>7. CASE ~Resolves /\ ~Crash /\ ~WriteFile
  <2>1. Settled' \subseteq Settled /\ cache' = cache
    BY <1>7, SettledSame
  <2>2. recorded' = recorded
    BY <1>1, <1>7, NextCases, InvokeMoves, StartInitMoves, StartAddMoves, StartRunMoves,
       EndResolveMoves, TruncateMoves, LoadImportsMoves, PushMoves DEF vars
  <2>3. stage' \in {"clone", "checkout"} => stage' = stage /\ Dep' = Dep
    BY <1>1, <1>7, NextCases, InvokeMoves, StartInitMoves, StartAddMoves, StartRunMoves,
       EndResolveMoves, TruncateMoves, LoadImportsMoves, PushMoves DEF vars, Dep
  <2>4. QED BY <1>1, <1>3, <2>1, <2>2, <2>3 DEF ResolvedOK, IsGit
<1>8. QED BY <1>4, <1>5, <1>6, <1>7

----------------------------------------------------------------------------
\* What a step does to the clone at work.

NewHead == cache'[Dep.name][1].head
NewUrl == cache'[Dep.name][1].url
NewMade == cache'[Dep.name][1].made
NewFetched == cache'[Dep.name][1].fetched

\* The fields of a clone after each command of git.
LEMMA CloneFields ==
  ASSUME NEW c \in CloneType
  PROVE  /\ Fetched(c).head = c.head /\ Fetched(c).url = c.url /\ Fetched(c).made = c.made
         /\ Fetched(c).fetched = remote[c.url].tips[BranchOf(Source)]
         /\ ResetTree(c).head = c.fetched /\ ResetTree(c).url = c.url /\ ResetTree(c).made = Source
         /\ AtTip(c).head = Tip(Source) /\ AtTip(c).url = c.url /\ AtTip(c).made = c.made
         /\ FullClone(c).head = Tip(Source) /\ FullClone(c).url = c.url
         /\ FullClone(c).made = IF Source.rev = <<>> THEN Source ELSE c.made
         /\ CheckOut(c).head = RevCommit(Source.rev[1]) /\ CheckOut(c).url = c.url
         /\ CheckOut(c).made = Source
BY DEF CloneType, Fetched, ResetTree, AtTip, FullClone, CheckOut

Fetching ==
  /\ stage = "resolve" /\ stage' = "reset" /\ Clone # <<>> /\ ~Pinned(Source)
  /\ NewHead = Clone[1].head /\ NewUrl = Clone[1].url /\ NewMade = Clone[1].made
  /\ NewFetched = remote[Clone[1].url].tips[BranchOf(Source)]
Resetting ==
  /\ stage = "reset" /\ stage' = "resolve"
  /\ NewHead = Clone[1].fetched /\ NewUrl = Clone[1].url /\ NewMade = Source
Cloning ==
  /\ stage = "resolve" /\ stage' = "clone" /\ Clone = <<>>
  /\ NewUrl = Source.url /\ NewMade = NotMade
Cloned ==
  /\ stage = "clone" /\ NewHead = Tip(Source) /\ NewUrl = Clone[1].url
  /\ \/ stage' = "resolve" /\ Source.rev = <<>> /\ NewMade = Source
     \/ stage' \in {"checkout", "shell"} /\ NewMade = Clone[1].made
  /\ stage' = "checkout" => Source.rev # <<>>
CheckingOut ==
  /\ stage = "checkout" /\ stage' = "resolve"
  /\ NewHead = RevCommit(Source.rev[1]) /\ NewMade = Source

\* No other action writes the cache, and without one only these settle a dependency.
LEMMA CloneMoves ==
  ASSUME WorldOK, WorkOK, Resolves \/ Crash
  PROVE  \/ /\ cache' = cache /\ stage' \in {"shell", "resolve"}
            /\ stage' = "resolve" => ~IsGit(Dep) \/ Pinned(Source)
         \/ cache'[Dep.name] = <<>> /\ stage = "clone" /\ stage' = "shell"
         \/ Fetching \/ Resetting \/ Cloning \/ Cloned \/ CheckingOut
<1> USE DEF NewHead, NewUrl, NewMade, NewFetched
<1> DEFINE new == cache'[Dep.name]
<1>1. ASSUME todo # <<>>, IsGit(Dep), Clone # <<>>
      PROVE  Clone[1] \in CloneType /\ Clone = cache[Dep.name]
  BY <1>1, DepTyped, CloneTyped DEF Clone
<1>2. todo # <<>> => Dep.name \in DOMAIN cache
  BY DepTyped DEF WorldOK
<1>3. CASE ResolvePathDep \/ UsePinned
  BY <1>3 DEF ResolvePathDep, UsePinned, Resolving, IsGit, Source, Found, Fails, Exit
<1>4. CASE Fetch
  <2>1. new = <<Fetched(Clone[1])>> /\ Clone[1] \in CloneType
    BY <1>1, <1>2, <1>4 DEF Fetch, Resolving, IsGit, Source
  <2>2. QED BY <1>4, <2>1, CloneFields DEF Fetch, Fetching, Resolving
<1>5. CASE Reset
  <2>1. new = <<ResetTree(Clone[1])>> /\ Clone[1] \in CloneType
    BY <1>1, <1>2, <1>5 DEF Reset, Resolving, IsGit, Source, WorkOK
  <2>2. QED BY <1>5, <2>1, CloneFields DEF Reset, Resetting, Resolving, Found
<1>6. CASE StartClone
  <2>1. new = <<NewClone(Source.url)>>
    BY <1>2, <1>6 DEF StartClone, Resolving
  <2>2. QED BY <1>6, <2>1 DEF StartClone, Cloning, Resolving, NewClone
<1>7. CASE EndClone
  <2>1. new = <<FullClone(Clone[1])>> /\ Clone[1] \in CloneType
    BY <1>1, <1>2, <1>7 DEF EndClone, Resolving, IsGit, Source, WorkOK
  <2>2. QED BY <1>7, <2>1, CloneFields DEF EndClone, Cloned, Resolving, Found
<1>8. CASE Checkout
  <2>1. CASE KnownRev(Clone[1].url, Source.rev[1])
    <3>1. new = <<CheckOut(Clone[1])>> /\ Clone[1] \in CloneType
      BY <1>1, <1>2, <1>8, <2>1 DEF Checkout, Resolving, IsGit, Source, WorkOK
    <3>2. QED BY <1>8, <2>1, <3>1, CloneFields DEF Checkout, CheckingOut, Resolving, Found
  <2>2. CASE ~KnownRev(Clone[1].url, Source.rev[1])
    BY <1>8, <2>2 DEF Checkout, Fails, Exit
  <2>3. QED BY <2>1, <2>2
<1>9. CASE GitFails
  BY <1>2, <1>9 DEF GitFails, Fails, Exit
<1>10. CASE Crash
  <2>1. stage = "clone" => todo # <<>> /\ IsGit(Dep) /\ Clone # <<>>
    BY DEF WorkOK
  <2>2. CASE stage = "clone" /\ cache' = [cache EXCEPT ![Dep.name] = <<AtTip(@[1])>>]
    <3>1. new = <<AtTip(Clone[1])>> /\ Clone[1] \in CloneType
      BY <1>1, <1>2, <2>1, <2>2
    <3>2. QED BY <1>10, <2>2, <3>1, CrashMoves, CloneFields DEF Cloned
  <2>3. CASE ~(stage = "clone" /\ cache' = [cache EXCEPT ![Dep.name] = <<AtTip(@[1])>>])
    BY <1>2, <1>10, <2>1, <2>3, CrashMoves DEF Crash
  <2>4. QED BY <2>2, <2>3
<1>11. QED BY <1>3, <1>4, <1>5, <1>6, <1>7, <1>8, <1>9, <1>10 DEF Resolves

\* A settled dependency keeps its clone.
LEMMA SettledCloneStays ==
  ASSUME WorldOK, WorkOK, Resolves \/ Crash, NEW d \in Settled
  PROVE  cache'[d.name] = cache[d.name]
<1>1. d.name \in Names
  BY DepsDistinct DEF Settled, Names
<1>2. QED BY <1>1, ResolveCache, SettledElsewhere DEF CacheMoves

\* What a step of resolving, or a crash, does to the work.
LEMMA ResolvesOrCrashMoves ==
  ASSUME WorldOK, WorkOK, Resolves \/ Crash
  PROVE  /\ UNCHANGED <<project, remote, given, seen, used, recorded, files, command, man, writes,
                        program>>
         /\ stage \in {"resolve", "reset", "clone", "checkout"} \/ stage' = "shell"
         /\ \/ stage' # "resolve" /\ Settled' = Settled
            \/ /\ stage' = "resolve" /\ Settled' = Settled \cup {Dep} /\ todo # <<>>
               /\ Resolves
         /\ stage' \in {"reset", "clone", "checkout"} =>
              Dep' = Dep /\ Clone' = cache'[Dep.name] /\ todo # <<>> /\ IsGit(Dep)
<1>1. CASE Crash
  BY <1>1, CrashMoves DEF Settled, Deps
<1>2. CASE Resolves
  <2>1. CASE stage' = "resolve"
    BY <1>2, <2>1, ResolveMoves, Settles
  <2>2. CASE stage' # "resolve"
    BY <1>2, <2>2, ResolveMoves, ResolveClone DEF Settled, Deps, Clone
  <2>3. QED BY <2>1, <2>2
<1>3. QED BY <1>1, <1>2

\* The tip of a branch is no older than what the command has seen of it.
LEMMA TipSeen ==
  ASSUME WorldOK, WorkOK, todo # <<>>, IsGit(Dep)
  PROVE  /\ Tip(Source) \in Nat /\ SeenTip(Source) \in Nat /\ Tip(Source) >= SeenTip(Source)
<1>1. Source.url \in Urls /\ BranchOf(Source) \in Branches
  BY DepTyped
<1>2. QED BY <1>1 DEF WorldOK, RemoteType, Tip, SeenTip

\* Every step preserves that settled dependencies are fresh.
LEMMA FreshStep == ASSUME IInv, [Next]_vars PROVE FreshOK'
<1>1. WorldOK /\ WorkOK /\ FreshOK
  BY DEF IInv
<1>2. ASSUME NEW d \in Settled, cache'[d.name] = cache[d.name], seen' = seen,
             IsGit(d), ~Pinned(d.source), cache'[d.name][1].url = d.source.url
      PROVE  cache'[d.name][1].head >= SeenTip(d.source)'
  BY <1>1, <1>2 DEF FreshOK, SeenTip
<1>3. CASE Resolves \/ Crash
  <2>1. seen' = seen /\ remote' = remote
    BY <1>1, <1>3, ResolvesOrCrashMoves
  <2>2. ASSUME NEW d, d = Dep, stage' = "resolve", IsGit(d), ~Pinned(d.source),
               cache'[d.name][1].url = d.source.url
        PROVE  cache'[d.name][1].head >= SeenTip(d.source)'
    <3>1. todo # <<>> /\ IsGit(Dep) /\ Source = d.source /\ SeenTip(d.source)' = SeenTip(Source)
      BY <1>1, <1>3, <2>1, <2>2, ResolvesOrCrashMoves DEF Source, SeenTip
    <3>2. CASE Resetting
      BY <1>1, <2>2, <3>1, <3>2 DEF Resetting, NewHead, NewUrl, FreshOK
    <3>3. CASE Cloned
      BY <1>1, <2>2, <3>1, <3>3, TipSeen DEF Cloned, NewHead
    <3>4. CASE CheckingOut
      BY <1>1, <2>2, <3>1, <3>4 DEF CheckingOut, FreshOK
    <3>5. QED BY <1>1, <1>3, <2>2, <3>1, <3>2, <3>3, <3>4, CloneMoves DEF Fetching, Cloning
  <2>3. ASSUME NEW d \in Settled', IsGit(d), ~Pinned(d.source), cache'[d.name][1].url = d.source.url
        PROVE  cache'[d.name][1].head >= SeenTip(d.source)'
    BY <1>1, <1>2, <1>3, <2>1, <2>2, <2>3, SettledCloneStays, ResolvesOrCrashMoves
  <2>4. stage' = "checkout" => Pinned(Source)'
    <3>1. stage' = "checkout" => Dep' = Dep /\ Pinned(Source)
      BY <1>1, <1>3, ResolvesOrCrashMoves, CloneMoves
         DEF Fetching, Resetting, Cloning, Cloned, CheckingOut, Pinned
    <3>2. QED BY <3>1 DEF Pinned, Source
  <2>5. ASSUME stage' = "reset"
        PROVE  /\ ~Pinned(Source)'
               /\ Clone'[1].url = Source'.url => Clone'[1].fetched >= SeenTip(Source)'
    <3>1. /\ Fetching /\ Dep' = Dep /\ Clone' = cache'[Dep.name] /\ todo # <<>> /\ IsGit(Dep)
          /\ Source' = Source
      BY <1>1, <1>3, <2>5, ResolvesOrCrashMoves, CloneMoves
         DEF Resetting, Cloning, Cloned, CheckingOut, Source
    <3>2. ~Pinned(Source)'
      BY <3>1 DEF Fetching, Pinned
    <3>3. Clone'[1].url = Source.url => Clone'[1].fetched = Tip(Source)
      BY <3>1 DEF Fetching, NewUrl, NewFetched, Tip
    <3>4. SeenTip(Source)' = SeenTip(Source)
      BY <2>1, <3>1 DEF SeenTip
    <3>5. QED BY <1>1, <3>1, <3>2, <3>3, <3>4, TipSeen
  <2>6. QED BY <2>3, <2>4, <2>5 DEF FreshOK, IsGit, Pinned
<1>4. CASE Invoke
  <2>1. Settled' = {} /\ stage' = "start"
    BY <1>4, InvokeMoves, NoDependencies DEF Settled, Deps
  <2>2. QED BY <2>1 DEF FreshOK
<1>5. CASE ~Resolves /\ ~Crash /\ ~Invoke
  <2>1. Settled' \subseteq Settled /\ cache' = cache /\ seen' = seen
    <3>1. CASE WriteFile
      BY <3>1, WriteFileMoves DEF Settled, Deps
    <3>2. CASE ~WriteFile
      BY <1>1, <1>5, <3>2, SettledSame, NextCases, StartInitMoves, StartAddMoves, StartRunMoves,
         EndResolveMoves, TruncateMoves, LoadImportsMoves, PushMoves DEF vars
    <3>3. QED BY <3>1, <3>2
  <2>2. stage' \in {"checkout", "reset"} => stage' = stage /\ Dep' = Dep
    BY <1>1, <1>5, NextCases, StartInitMoves, StartAddMoves, StartRunMoves, WriteFileMoves,
       EndResolveMoves, TruncateMoves, LoadImportsMoves, PushMoves DEF vars, Dep
  <2>3. stage' \in {"checkout", "reset"} =>
          Source' = Source /\ Clone' = Clone /\ SeenTip(Source)' = SeenTip(Source)
    BY <2>1, <2>2 DEF Source, Clone, SeenTip
  <2>4. QED BY <1>1, <1>2, <2>1, <2>2, <2>3 DEF FreshOK, IsGit, Pinned
<1>6. QED BY <1>3, <1>4, <1>5

\* Every step preserves that a tree set for a revision is at it.
LEMMA ExactStep == ASSUME IInv, [Next]_vars PROVE ExactOK'
<1>1. WorldOK /\ WorkOK /\ ExactOK /\ ResolvedOK
  BY DEF IInv
<1> DEFINE Exact(c) == c[1].made.rev # <<>> => c[1].head = RevCommit(c[1].made.rev[1])
<1>2. NotMade.rev = <<>>
  BY DEF NotMade, GitSource
<1>3. CASE Resolves \/ Crash
  <2>1. ASSUME NEW n \in Names, cache'[n] # <<>> PROVE Exact(cache'[n])
    <3>1. CASE cache'[n] = cache[n]
      BY <1>1, <2>1, <3>1 DEF ExactOK
    <3>2. CASE cache'[n] # cache[n]
      <4>1. n = Dep.name /\ todo # <<>> /\ IsGit(Dep)
        BY <1>1, <1>3, <2>1, <3>2, ResolveCache DEF CacheMoves
      <4>2. Clone # <<>> => Exact(cache[Dep.name])
        BY <1>1, <2>1, <4>1 DEF ExactOK, Clone
      <4>3. CASE Fetching
        BY <4>1, <4>2, <4>3 DEF Fetching, NewHead, NewMade, Clone
      <4>4. CASE Resetting
        <5>1. ~Pinned(Source)
          BY <4>4, IInv DEF IInv, FreshOK, Resetting
        <5>2. QED BY <4>1, <4>4, <5>1 DEF Resetting, NewMade, Pinned
      <4>5. CASE Cloning
        BY <1>2, <4>1, <4>5 DEF Cloning, NewMade
      <4>6. CASE Cloned
        <5>1. Clone[1].made = NotMade
          BY <1>1, <4>6 DEF Cloned, ExactOK
        <5>2. QED BY <1>2, <4>1, <4>6, <5>1 DEF Cloned, NewMade
      <4>7. CASE CheckingOut
        BY <4>1, <4>7 DEF CheckingOut, NewHead, NewMade
      <4>8. QED BY <1>1, <1>3, <2>1, <3>2, <4>1, <4>3, <4>4, <4>5, <4>6, <4>7, CloneMoves
    <3>3. QED BY <3>1, <3>2
  <2>2. stage' = "clone" => Clone'[1].made = NotMade
    <3>1. stage' = "clone" => Cloning /\ Clone' = cache'[Dep.name]
      BY <1>1, <1>3, ResolvesOrCrashMoves, CloneMoves
         DEF Fetching, Resetting, Cloning, Cloned, CheckingOut
    <3>2. QED BY <3>1 DEF Cloning, NewMade
  <2>3. ~RanWell'
    BY <1>1, <1>3, ResolveMoves, CrashMoves DEF RanWell
  <2>4. Names' = Names
    BY <1>1, <1>3, ResolvesOrCrashMoves, SameProject
  <2>5. QED BY <2>1, <2>2, <2>3, <2>4 DEF ExactOK, RevCommit
<1>4. CASE ~Resolves /\ ~Crash
  <2>1. cache' = cache /\ Names' = Names
    BY <1>1, <1>4, WriteFileMoves, SettledSame, SameProject, NextCases, InvokeMoves, StartInitMoves,
       StartAddMoves, StartRunMoves, EndResolveMoves, TruncateMoves, LoadImportsMoves, PushMoves DEF vars
  <2>2. stage' = "clone" => stage = "clone" /\ Clone' = Clone
    BY <1>1, <1>4, NextCases, InvokeMoves, StartInitMoves, StartAddMoves, StartRunMoves, WriteFileMoves,
       EndResolveMoves, TruncateMoves, LoadImportsMoves, PushMoves DEF vars, Dep, Clone
  <2>3. ASSUME RanWell' PROVE \A d \in GitDeps' : used'[d.name] = cache'[d.name][1].head
    <3>1. CASE LoadImports
      <4>1. GitDeps' = GitDeps /\ \A d \in GitDeps : d.name \in DOMAIN used
        BY <1>1, <3>1, LoadImportsMoves, DepsDistinct DEF GitDeps, IsGit, Deps, WorldOK, Names
      <4>2. used' = [n \in DOMAIN used |-> IF n \in {d.name : d \in GitDeps} THEN cache[n][1].head
                                           ELSE used[n]]
        BY <2>3, <3>1, LoadImportsMoves DEF RanWell
      <4>3. QED BY <2>1, <4>1, <4>2
    <3>2. CASE ~LoadImports
      <4>1. RanWell /\ UNCHANGED <<man, used>>
        BY <1>1, <1>4, <2>3, <3>2, NextCases, InvokeMoves, StartInitMoves, StartAddMoves, StartRunMoves,
           WriteFileMoves, EndResolveMoves, TruncateMoves, PushMoves DEF vars, RanWell, WritesOK, IInv
      <4>2. GitDeps' = GitDeps
        BY <4>1 DEF GitDeps, IsGit
      <4>3. QED BY <1>1, <2>1, <4>1, <4>2 DEF ExactOK
    <3>3. QED BY <3>1, <3>2
  <2>4. QED BY <1>1, <2>1, <2>2, <2>3 DEF ExactOK, RevCommit
<1>5. QED BY <1>3, <1>4

\* A clone that is reset is of no pinned dependency that a run has used since: in run, Dep is
\* what is recorded of its name; in add, it is that or the dependency that add resets.
LEMMA PinnedIsNotReset ==
  ASSUME IInv, stage = "reset", NEW d \in recorded, d.name = Dep.name, Pinned(d.source)
  PROVE  used[d.name] = 0
<1>1. todo # <<>> /\ Dep \in Deps /\ command.k \in {"add", "run"} /\ man # NoManifest
  BY DepTyped, NothingToDo DEF IInv, WorkOK
<1>2. d # Dep
  BY DEF IInv, FreshOK, Source
<1>3. Dep \notin recorded
  BY <1>2 DEF IInv, RecordedOK, NamesDistinct
<1>4. command.k # "run"
  BY <1>1, <1>3 DEF IInv, RecordedOK
<1>5. Dep = command.dep /\ used[command.dep.name] = 0
  BY <1>1, <1>3, <1>4 DEF IInv, RecordedOK, Recorded
<1>6. QED BY <1>5

\* Every step preserves that a pinned dependency stays where it was used.
LEMMA PinnedStep == ASSUME IInv, [Next]_vars PROVE PinnedOK'
<1>1. WorldOK /\ WorkOK /\ ResolvedOK /\ PinnedOK /\ RecordedOK
  BY DEF IInv
<1> DEFINE Used(d) == IsGit(d) /\ Pinned(d.source) /\ used[d.name] # 0
<1>2. ASSUME NEW d \in recorded, Used(d) PROVE cache[d.name][1].head = used[d.name]
  BY <1>1, <1>2 DEF PinnedOK
<1>3. CASE Resolves \/ Crash
  <2>1. recorded' = recorded /\ used' = used
    BY <1>1, <1>3, ResolvesOrCrashMoves
  <2>2. ASSUME NEW d \in recorded, Used(d) PROVE cache'[d.name][1].head = used[d.name]
    <3>1. CASE cache'[d.name] = cache[d.name]
      BY <1>2, <2>2, <3>1
    <3>2. CASE cache'[d.name] # cache[d.name]
      <4>1. d.name = Dep.name /\ todo # <<>>
        BY <1>1, <1>3, <2>2, <3>2, ResolveCache DEF CacheMoves, WorldOK, Names
      <4>2. Clone # <<>> /\ stage \notin {"clone", "checkout"}
        BY <1>1, <2>2, <4>1 DEF ResolvedOK, Resolved, Clone
      <4>3. stage # "reset"
        BY <2>2, <4>1, PinnedIsNotReset
      <4>4. Fetching
        BY <1>1, <1>3, <3>2, <4>2, <4>3, CloneMoves DEF Resetting, Cloning, Cloned, CheckingOut
      <4>5. QED BY <1>2, <2>2, <4>1, <4>4 DEF Fetching, NewHead, Clone
    <3>3. QED BY <3>1, <3>2
  <2>3. QED BY <2>1, <2>2 DEF PinnedOK, IsGit, Pinned
<1>4. CASE StartAdd
  <2>1. recorded' = recorded /\ cache' = cache
    BY <1>4, StartAddMoves
  <2>2. \A n \in Names : used'[n] \in {0, used[n]}
    BY <1>1, <1>4, StartAddMoves DEF WorldOK
  <2>3. QED BY <1>1, <1>2, <2>1, <2>2 DEF PinnedOK, IsGit, Pinned, WorldOK, Names
<1>5. CASE WriteFile
  <2>1. /\ cache' = cache /\ used' = used
        /\ IF command.k = "add" THEN recorded' = Recorded(command.dep) ELSE recorded' = recorded
        /\ command.k = "add" => used[command.dep.name] = 0
    BY <1>1, <1>5, WriteFileMoves DEF RecordedOK
  <2>2. QED BY <1>2, <2>1 DEF PinnedOK, IsGit, Pinned, Recorded
<1>6. CASE LoadImports
  <2>1. recorded' = recorded /\ cache' = cache
    BY <1>6, LoadImportsMoves
  <2>2. \A n \in Names : used'[n] \in {used[n], cache[n][1].head}
    BY <1>1, <1>6, LoadImportsMoves DEF WorldOK
  <2>3. QED BY <1>1, <1>2, <2>1, <2>2 DEF PinnedOK, IsGit, Pinned, WorldOK, Names
<1>7. CASE Invoke \/ StartInit \/ StartRun \/ EndResolve \/ Truncate \/ Push \/ UNCHANGED vars
  <2>1. UNCHANGED <<recorded, used, cache>>
    BY <1>1, <1>7, InvokeMoves, StartInitMoves, StartRunMoves, EndResolveMoves, TruncateMoves, PushMoves
       DEF vars
  <2>2. QED BY <1>1, <2>1 DEF PinnedOK, IsGit, Pinned
<1>8. QED BY <1>3, <1>4, <1>5, <1>6, <1>7, NextCases

\* Every step preserves that there are finitely many files and clones, and that the file of a
\* run can be read from the moment run has read it.
LEMMA FilesStayFinite == ASSUME IInv, [Next]_vars PROVE IsFiniteSet(DOMAIN files')
<1>1. WritesOK /\ WorkOK /\ WorldOK /\ IsFiniteSet(DOMAIN files)
  BY DEF IInv, LoadOK
<1>2. CASE Truncate
  <2>1. DOMAIN files' = DOMAIN files \cup {writes[1].path}
    BY <1>2, TruncateMoves
  <2>2. IsFiniteSet(DOMAIN files \cup {writes[1].path})
    BY <1>1, FS_AddElement
  <2>3. QED BY <2>1, <2>2
<1>3. CASE WriteFile
  BY <1>1, <1>3, WriteFileMoves
<1>4. Resolves \/ Invoke \/ StartInit \/ StartAdd \/ StartRun \/ EndResolve \/ LoadImports \/ Crash
        \/ Push \/ UNCHANGED vars => files' = files
  BY <1>1, ResolveMoves, InvokeMoves, StartInitMoves, StartAddMoves, StartRunMoves,
     EndResolveMoves, LoadImportsMoves, CrashMoves, PushMoves DEF vars
<1>5. QED BY <1>1, <1>2, <1>3, <1>4, NextCases

LEMMA ClonesStayFinite ==
  ASSUME IInv, [Next]_vars PROVE IsFiniteSet({n \in Names : cache[n] # <<>>}')
<1> DEFINE Held == {n \in Names : cache[n] # <<>>}
           Now == {n \in Names' : cache'[n] # <<>>}
<1>1. WorkOK /\ WorldOK /\ IsFiniteSet(Held)
  BY DEF IInv, LoadOK
<1>2. project' = project /\ Names' = Names
  <2>1. project' = project
    BY <1>1, NextCases, ResolveMoves, InvokeMoves, StartInitMoves, StartAddMoves, StartRunMoves,
       WriteFileMoves, EndResolveMoves, TruncateMoves, LoadImportsMoves, CrashMoves, PushMoves DEF vars
  <2>2. QED BY <2>1, SameProject
<1>3. CASE Resolves \/ Crash
  <2>1. CacheMoves
    BY <1>1, <1>3, ResolveCache
  <2>2. \A n \in Names : n = Dep.name \/ cache'[n] = cache[n]
    BY <2>1 DEF CacheMoves
  <2>3. Now \subseteq Held \cup {Dep.name}
    BY <1>2, <2>2
  <2> HIDE DEF Held, Now
  <2>4. IsFiniteSet(Held \cup {Dep.name})
    BY <1>1, FS_AddElement
  <2>5. IsFiniteSet(Now)
    BY <2>3, <2>4, FS_Subset
  <2>6. QED BY <2>5 DEF Now
<1>4. CASE cache' = cache
  BY <1>1, <1>2, <1>4
<1>5. Invoke \/ StartInit \/ StartAdd \/ StartRun \/ EndResolve \/ Truncate \/ WriteFile
        \/ LoadImports \/ Push \/ UNCHANGED vars => cache' = cache
  BY <1>1, InvokeMoves, StartInitMoves, StartAddMoves, StartRunMoves, EndResolveMoves,
     TruncateMoves, WriteFileMoves, LoadImportsMoves, PushMoves DEF vars
<1>6. QED BY <1>3, <1>4, <1>5, NextCases

LEMMA LoadOKStep == ASSUME IInv, [Next]_vars PROVE LoadOK'
<1> DEFINE Running == command.k = "run" /\ stage \notin {"shell", "start"}
           CanRead == Target \in DOMAIN files /\ ReadProgram(files[Target]).ok
<1>1. WritesOK /\ WorkOK /\ WorldOK /\ (Running => CanRead)
  BY DEF IInv, LoadOK
<1>2. ASSUME files' = files, command' = command PROVE CanRead' <=> CanRead
  <2>1. Target' = Target
    BY <1>2 DEF Target, Loaded, TargetOf
  <2>2. QED BY <1>2, <2>1
<1>3. CASE StartRun
  <2>1. stage' = "shell" \/ CanRead
    BY <1>3 DEF StartRun, Exit, Target
  <2>2. files' = files /\ command' = command
    BY <1>3, StartRunMoves
  <2> HIDE DEF CanRead
  <2>3. Running' => CanRead'
    BY <1>2, <2>1, <2>2
  <2>4. QED BY <2>3, FilesStayFinite, ClonesStayFinite DEF LoadOK, CanRead
<1>4. CASE Truncate \/ WriteFile
  <2>1. command' = command /\ command.k # "run"
    BY <1>1, <1>4, TruncateMoves, WriteFileMoves DEF WritesOK
  <2>2. QED BY <2>1, FilesStayFinite, ClonesStayFinite DEF LoadOK
<1>5. CASE /\ files' = files /\ command' = command
           /\ stage' = "shell" \/ (stage \notin {"shell", "start"}) \/ stage' = stage
  <2> HIDE DEF CanRead
  <2>1. Running' => CanRead'
    BY <1>1, <1>2, <1>5
  <2>2. QED BY <2>1, FilesStayFinite, ClonesStayFinite DEF LoadOK, CanRead
<1>6. CASE Invoke
  <2>1. stage' = "start"
    BY <1>6, InvokeMoves
  <2>2. QED BY <2>1, FilesStayFinite, ClonesStayFinite DEF LoadOK
<1>7. CASE StartInit \/ StartAdd
  <2>1. command' = command /\ command.k # "run"
    BY <1>7, StartInitMoves, StartAddMoves
  <2>2. QED BY <2>1, FilesStayFinite, ClonesStayFinite DEF LoadOK
<1>8. Resolves \/ EndResolve \/ LoadImports \/ Crash \/ Push \/ UNCHANGED vars =>
        /\ files' = files /\ command' = command
        /\ stage' = "shell" \/ (stage \notin {"shell", "start"}) \/ stage' = stage
  BY <1>1, ResolveMoves, EndResolveMoves, LoadImportsMoves, CrashMoves, PushMoves DEF vars
<1>9. QED BY <1>3, <1>4, <1>5, <1>6, <1>7, <1>8, NextCases

----------------------------------------------------------------------------
\* The results.

\* The inductive invariant is preserved by every step.
LEMMA InvariantStep == IInv /\ [Next]_vars => IInv'
BY WorldStep, WorkStep, WritesStep, DiskStep, RecordedStep, ResolvedStep, FreshStep, ExactStep,
   PinnedStep, LoadOKStep DEF IInv

\* The inductive invariant: what is at work, on the disk, in the cache and recorded fit together
\* between any two steps of a command, however it ends (main.rs: init, add, run; deps.rs).
THEOREM InductiveInvariant == Spec => []IInv
<1>1. Init => IInv
  BY InitOK
<1>2. IInv /\ [Next]_vars => IInv'
  BY InvariantStep
<1>3. QED BY <1>1, <1>2, PTL DEF Spec

\* Type correctness: a command that resolves works on a dependency of its manifest, and one
\* in the middle of a clone has its directory (deps.rs, ensure_git_dep).
THEOREM TypeCorrect == Spec => []TypeOK
<1>1. IInv => TypeOK
  <2>1. SUFFICES ASSUME IInv PROVE TypeOK
    OBVIOUS
  <2>2. ASSUME NEW u \in Urls, NEW b \in Branches PROVE remote[u].tips[b] \in 1..remote[u].latest
    <3>1. /\ remote[u].latest \in 1..MaxCommits /\ remote[u].tips[b] \in 1..MaxCommits
          /\ remote[u].tips[b] <= remote[u].latest
      BY <2>1 DEF IInv, WorldOK, RemoteType
    <3>2. QED BY <3>1, BoundsAssumption
  <2>3. ASSUME NEW n \in DOMAIN cache, cache[n] # <<>> PROVE cache[n][1].head \in 0..MaxCommits
    <3>1. n \in Names
      BY <2>1 DEF IInv, WorldOK
    <3>2. QED BY <2>1, <2>3, <3>1, CloneTyped DEF IInv, CloneType
  <2>4. stage \in {"truncate", "write"} => writes # <<>>
    <3>1. \A w : <<w>> # <<>>
      OBVIOUS
    <3>2. NewFiles # <<>>
      BY FirstWrites
    <3>3. QED BY <2>1, <3>1, <3>2, WriteAtHand DEF IInv, WritesOK, WorkOK
  <2>5. QED BY <2>1, <2>2, <2>3, <2>4 DEF TypeOK, IInv, WorldOK, WorkOK, Deps
<1>2. QED BY <1>1, InductiveInvariant, PTL

\* Whatever add or run fails or is killed, every dependency of the manifest on the disk has
\* its directory, for add resolves them all before it saves (main.rs, cmd_add).
THEOREM AddedDependenciesResolve == Spec => []RecordedDependenciesResolve
<1>1. IInv => RecordedDependenciesResolve
  <2>1. SUFFICES ASSUME IInv, Loaded.ok, NEW d \in ToSet(Loaded.v.dependencies) PROVE Resolved(d)
    BY DEF RecordedDependenciesResolve, Resolved
  <2>2. d \in recorded
    BY <2>1 DEF IInv, DiskOK
  <2>3. QED BY <2>1, <2>2 DEF IInv, ResolvedOK
<1>2. QED BY <1>1, InductiveInvariant, PTL

\* The manifest on the disk, if it can be read, holds what was added and nothing else, through
\* every rewriting of it by add and every crash (manifest.rs, to_toml and parse_str).
THEOREM ManifestHoldsWhatWasAdded == Spec => []ManifestKeepsWhatWasAdded
<1>1. IInv => ManifestKeepsWhatWasAdded
  BY DEF IInv, DiskOK, ManifestKeepsWhatWasAdded
<1>2. QED BY <1>1, InductiveInvariant, PTL

\* After a good run every dependency of its manifest is settled, and the run used its clone.
LEMMA RanOnSettled ==
  ASSUME IInv, RanWell, NEW d \in GitDeps
  PROVE  d \in Settled /\ IsGit(d) /\ used[d.name] = cache[d.name][1].head /\ cache[d.name] # <<>>
         /\ d.name \in Names
<1>1. d \in Deps /\ IsGit(d) /\ todo = <<>>
  BY DEF IInv, WorkOK, GitDeps, Deps
<1>2. d \in Settled /\ d.name \in Names
  BY <1>1, AllSettled, DepsDistinct DEF IInv, Names
<1>3. cache[d.name] # <<>>
  BY <1>1, <1>2 DEF IInv, ResolvedOK, Resolved
<1>4. QED BY <1>1, <1>2, <1>3 DEF IInv, ExactOK

\* A good run uses of an unpinned dependency no commit older than the tip of its branch when
\* the run began, whatever is pushed meanwhile (deps.rs, ensure_git_dep: fetch and reset).
THEOREM UnpinnedRunsAreUpToDate == Spec => []UnpinnedIsUpToDate
<1>1. IInv => UnpinnedIsUpToDate
  BY RanOnSettled DEF IInv, FreshOK, UnpinnedIsUpToDate, SeenTip
<1>2. QED BY <1>1, InductiveInvariant, PTL

\* A good run uses of a dependency with a revision exactly that one, if its tree was last set
\* for it (deps.rs, ensure_git_dep: checkout).
THEOREM RevisionRunsAreExact == Spec => []RevisionIsExact
<1>1. IInv => RevisionIsExact
  <2>1. SUFFICES ASSUME IInv, RanWell, NEW d \in GitDeps,
                        d.source.rev # <<>>, cache[d.name][1].made = d.source
                 PROVE  used[d.name] = RevCommit(d.source.rev[1])
    BY DEF RevisionIsExact
  <2>2. QED BY <2>1, RanOnSettled DEF IInv, ExactOK
<1>2. QED BY <1>1, InductiveInvariant, PTL

\* Two good runs use the same commit of a pinned dependency until somebody tries to add another
\* one of its name, whatever is pushed, fails or is killed between them (deps.rs: a clone that
\* is pinned is never touched again).
THEOREM PinnedRunsAgree == Spec => PinnedStaysPut
<1> DEFINE Agree == \A d \in GitDeps :
      (d.source.tag # <<>> \/ d.source.rev # <<>>) /\ used[d.name] # 0 /\ used'[d.name] # 0 =>
        used'[d.name] = used[d.name]
<1>1. IInv /\ [Next]_vars => [Agree]_vars
  <2>1. SUFFICES ASSUME IInv, [Next]_vars, NEW d \in GitDeps, Pinned(d.source),
                        used[d.name] # 0, used'[d.name] # 0
                 PROVE  used'[d.name] = used[d.name]
    BY DEF Pinned
  <2>2. WorldOK /\ WorkOK /\ d \in Deps /\ IsGit(d) /\ d.name \in Names
    BY <2>1, DepsDistinct DEF IInv, GitDeps, Deps, Names
  <2>3. CASE StartAdd
    BY <2>1, <2>2, <2>3, StartAddMoves DEF WorldOK
  <2>4. CASE LoadImports
    <3>1. command.k = "run" /\ stage = "imports" /\ todo = <<>>
      BY <2>2, <2>4, LoadImportsMoves DEF WorkOK
    <3>2. man # NoManifest
      BY <2>2, NothingToDo
    <3>3. d \in recorded
      BY <2>1, <2>2, <3>1, <3>2 DEF IInv, RecordedOK
    <3>4. cache[d.name][1].head = used[d.name]
      BY <2>1, <2>2, <3>3 DEF IInv, PinnedOK
    <3>5. QED BY <2>2, <2>4, <3>4, LoadImportsMoves DEF WorldOK
  <2>5. CASE ~StartAdd /\ ~LoadImports
    BY <2>2, <2>1, <2>5, NextCases, ResolveMoves, InvokeMoves, StartInitMoves, StartRunMoves,
       WriteFileMoves, EndResolveMoves, TruncateMoves, CrashMoves, PushMoves DEF vars
  <2>6. QED BY <2>3, <2>4, <2>5
<1>2. QED BY <1>1, InductiveInvariant, PTL DEF PinnedStaysPut, Spec

\* What the disk holds: the files of the project, and one file of each clone.
LEMMA DiskType ==
  ASSUME IsFiniteSet(DOMAIN files), IsFiniteSet({n \in Names : cache[n] # <<>>}), WorldOK
  PROVE  /\ IsFiniteSet(DOMAIN Disk)
         /\ \A p \in DOMAIN files : p \in DOMAIN Disk /\ Disk[p] = files[p]
<1> DEFINE libs == {LibOf(n) : n \in Clones}
           f == [n \in Clones |-> LibOf(n)]
<1>1. Clones \subseteq {n \in Names : cache[n] # <<>>}
  BY DEF WorldOK, Clones
<1>2. IsFiniteSet(Clones)
  BY <1>1, FS_Subset
<1>3. f \in Surjection(Clones, libs)
  BY DEF Surjection
<1>4. IsFiniteSet(libs)
  <2> HIDE DEF libs, f
  <2>1. QED BY <1>2, <1>3, FS_Surjection
<1>5. IsFiniteSet(DOMAIN files \cup libs)
  <2> HIDE DEF libs
  <2>1. QED BY <1>4, FS_Union
<1>6. DOMAIN Disk = DOMAIN files \cup libs /\ \A p \in DOMAIN files : Disk[p] = files[p]
  BY DEF Disk
<1>7. QED BY <1>5, <1>6

\* The parser gives the items of a program as a list (parser/ast.rs, Program: Vec<Item>).
ProgramsAreLists == \A text : ReadProgram(text).ok => IsList(ReadProgram(text).v)

\* Whatever the files of the project and of its clones import, in cycles and diamonds too, run
\* loads every declaration of every file that is reached, once and in order, and nothing else,
\* if all of them can be read and none trespasses (module_loader.rs, resolve_imports_with_packages).
THEOREM ImportsComplete ==
  ASSUME ProgramsAreLists
  PROVE  Spec => []ImportsAreComplete
<1>1. IInv => ImportsAreComplete
  <2>1. SUFFICES ASSUME IInv, stage = "imports"
                 PROVE  IsComplete(Import(Target), Target, packages, Disk)
    BY DEF ImportsAreComplete
  <2>2. /\ WorldOK /\ IsFiniteSet(DOMAIN files) /\ IsFiniteSet({n \in Names : cache[n] # <<>>})
        /\ Target \in DOMAIN files /\ ReadProgram(files[Target]).ok
    BY <2>1 DEF IInv, WorkOK, LoadOK
  <2>3. IsFiniteSet(DOMAIN Disk) /\ Target \in DOMAIN Disk /\ ReadProgram(Disk[Target]).ok
    BY <2>2, DiskType
  <2>4. AreLists(ReadFiles(Disk))
    BY DEF AreLists, Readable, ReadFiles, ProgramsAreLists
  <2> DEFINE disk == Disk
             target == Target
  <2> HIDE DEF disk, target
  <2>5. IsComplete(ResolveImports(target, packages, disk), target, packages, disk)
    BY <2>3, <2>4, ImportsResolved DEF disk, target
  <2>6. QED BY <2>5 DEF disk, target, Import
<1>2. QED BY <1>1, InductiveInvariant, PTL
=============================================================================
