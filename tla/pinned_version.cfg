SPECIFICATION Spec
CONSTANTS
  Characters <- AllCharacters
  Layouts <- GitProjects
  Urls <- MCUrls
  Branches <- MCBranches
  Tags <- TagV
  Revs <- RevV
  LibraryText <- Library
  ReadProgram <- ParseText
  RefsIn <- NamesIn
  MaxCommits = 2
  MaxCommands = 2
  MaxCrashes = 0
INVARIANT
  PinNamesTheVersion
