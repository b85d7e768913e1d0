CONSTANTS
  Names = {n1}
  Clients = {c1, c2}
  None = None
  Mux = Mux
  Other = Other
  Services = {}
  Failing = {}
  MaxCalls = 3
  MaxMoves = 0
  Sequential = FALSE
SPECIFICATION Spec
INVARIANT OwnersHaveTheName
