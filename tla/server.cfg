SPECIFICATION FairSpec
CONSTANTS
  Conns = {c1, c2}
  MaxConnections = 1
  HandlerKinds <- Everybody
  Fuel = 1
INVARIANTS
  TypeOK
  ActiveIsAccounted
  IInv
PROPERTIES
  ImplementsService
  StopCompletes
  StoppingAnswersEverybody
