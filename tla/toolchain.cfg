SPECIFICATION Spec
CONSTANTS
  Sources <- AllSources
  Commands = {"run", "check", "test", "fmt"}
  MaxCommands = 2
  MAX_EXPLICIT_CALL_DEPTH = 8
INVARIANTS
  TypeOK
  CallsAsMeant
  AcceptedCoreProgramsSucceed
  FunctionsAreCheckedAlone
  FormatKeepsTheProgram
  FormatIsIdempotent
PROPERTY
  FormatKeepsTheComments
