--------------------------- MODULE NameOwnership ---------------------------
(***************************************************************************)
(* What the multiplexer promises its clients about well-known names: each  *)
(* name has one line of claims.  The claim at the head owns the name, the  *)
(* others wait in the order they came.  NameQueue.tla, the translation of  *)
(* src/name_queue.rs, is shown to implement this specification.            *)
(***************************************************************************)
EXTENDS Naturals, Sequences

CONSTANTS Names,    \* well-known bus names
          Clients   \* client ids; a reconnecting process gets a new one

VARIABLE line       \* line[n]: the claims on n, owner first

QueueEntry == [client_id : Clients, allow_replacement : BOOLEAN]

Claims(n, c) == {i \in 1..Len(line[n]) : line[n][i].client_id = c}

\* s without its i-th element.
Without(s, i) == [j \in 1..(Len(s) - 1) |-> IF j < i THEN s[j] ELSE s[j + 1]]

Init == line = [n \in Names |-> <<>>]

\* A new claim goes to the end of the line ...
Join(n, e) ==
    /\ Claims(n, e.client_id) = {}
    /\ line' = [line EXCEPT ![n] = Append(@, e)]

\* ... or to its head, which only an owner that allows it has to accept.
Overtake(n, e) ==
    /\ Claims(n, e.client_id) = {}
    /\ line[n] # <<>>
    /\ line[n][1].allow_replacement
    /\ line' = [line EXCEPT ![n] = <<e>> \o @]

\* A claim is withdrawn; everyone behind it moves up by one.
Leave(n, c) ==
    \E i \in Claims(n, c) : line' = [line EXCEPT ![n] = Without(@, i)]

\* A client that disconnects withdraws all its claims at once.
LeaveAll(c) ==
    line' = [n \in Names |->
               IF Claims(n, c) = {} THEN line[n]
               ELSE Without(line[n], CHOOSE i \in Claims(n, c) : TRUE)]

Next ==
    \/ \E n \in Names, e \in QueueEntry : Join(n, e) \/ Overtake(n, e)
    \/ \E n \in Names, c \in Clients : Leave(n, c)
    \/ \E c \in Clients : LeaveAll(c)

Spec == Init /\ [][Next]_line
=============================================================================
