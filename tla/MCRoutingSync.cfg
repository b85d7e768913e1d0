CONSTANTS
  p1 = p1
  p2 = p2
  h1 = h1
  NoOwner = NoOwner
  WellKnown = {w}
  Unique <- MCUnique
  Peers <- MCPeers
  InitialPeers <- MCUnique
  MaxInFlight = 2
  QuietStartup = TRUE
SPECIFICATION FairSpec
INVARIANTS
  LastSignalDecides
  ContainerFirst
  RegistryHasNoLeavers
PROPERTY
  RouteCatchesUp
