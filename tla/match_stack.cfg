SPECIFICATION Spec
CONSTANTS
  Sources <- MatchSources
  Commands = {"run"}
  MaxCommands = 1
  MAX_EXPLICIT_CALL_DEPTH = 8
INVARIANT
  MatchLeavesItsValue
