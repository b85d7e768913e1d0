--------------------------- MODULE MCNameService ---------------------------
(* TLC instance of NameService: clients are interchangeable.                 *)
EXTENDS NameService, TLC

Symmetry == Permutations(Clients)
=============================================================================
