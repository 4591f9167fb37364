SPECIFICATION Spec
CONSTANTS
  Sources <- TrySources
  Commands = {"run"}
  MaxCommands = 1
  MAX_EXPLICIT_CALL_DEPTH = 8
INVARIANT
  TryReturnsFromItsFunction
