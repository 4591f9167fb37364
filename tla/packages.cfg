SPECIFICATION Spec
CONSTANTS
  Characters <- AllCharacters
  Layouts <- AllLayouts
  Urls <- MCUrls
  Branches <- MCBranches
  Tags <- TagV
  Revs <- RevV
  LibraryText <- Library
  ReadProgram <- ParseText
  RefsIn <- NamesIn
  MaxCommits = 2
  MaxCommands = 3
  MaxCrashes = 1
INVARIANTS
  TypeOK
  RecordedDependenciesResolve
  ManifestKeepsWhatWasAdded
  UnpinnedIsUpToDate
  RevisionIsExact
  ImportsAreComplete
  IInv
PROPERTY
  PinnedStaysPut
