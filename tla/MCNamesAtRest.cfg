CONSTANTS
  Names = {n1, n2}
  Clients = {c1, c2, c3}
  None = None
  Mux = Mux
  Other = Other
  Services = {}
  Failing = {"RequestName"}
  MaxCalls = 5
  MaxMoves = 0
  Sequential = TRUE
SPECIFICATION Spec
SYMMETRY Symmetry
INVARIANTS
  BusFollowsQueue
  RoutingFollowsBus
  OwnedCoversQueue
  CredentialsOfOwner
  OnlyConnectedInLine
