------------------------------ MODULE MCRouter ------------------------------
(* TLC instance of Router: clients and handles are interchangeable.          *)
EXTENDS Router, TLC

Symmetry == Permutations(Clients) \cup Permutations(Handles)
=============================================================================
