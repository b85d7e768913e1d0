CONSTANTS
  Names = {n1, n2}
  Clients = {c1, c2, c3}
  None = None
SPECIFICATION Spec
SYMMETRY Symmetry
INVARIANTS
  OneLinePerName
  RepliesDescribeQueue
  ForwardTracksOwner
  RevertRestores
PROPERTY
  ImplementsOwnership
