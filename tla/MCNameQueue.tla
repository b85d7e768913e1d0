---------------------------- MODULE MCNameQueue ----------------------------
(* TLC instance of NameQueue: clients and names are interchangeable.         *)
EXTENDS NameQueue, TLC

\* The closed form of Retain is the filter it stands for, on every line of up to
\* three entries, repeated clients included.
ASSUME RetainIsFilter ==
    \A s \in UNION {[1..k -> QueueEntry] : k \in 0..3}, c \in Clients :
        Retain(s, c) = SelectSeq(s, LAMBDA e : e.client_id # c)

Symmetry == Permutations(Clients) \cup Permutations(Names)
=============================================================================
