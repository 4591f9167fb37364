SPECIFICATION Spec
CONSTANTS
  Conns = {c1, c2}
  MaxConnections = 2
  HandlerKinds <- Plain
  Fuel = 2
PROPERTY
  AbortedStaysDone
