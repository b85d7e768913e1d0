--------------------------- MODULE MCRoutingSync ---------------------------
(* TLC instance of RoutingSync: two container peers that can take a name     *)
(* from each other and one host peer.                                        *)
EXTENDS RoutingSync

CONSTANTS p1, p2, h1

MCUnique == {p1, p2, h1}
MCPeers == [r \in Route |-> IF r = "Container" THEN {p1, p2} ELSE {h1}]
=============================================================================
