-------------------------- MODULE MCClientHandler --------------------------
(* TLC instance of ClientHandler: a message whose fields need padding and    *)
(* one that is a bare header.                                                *)
EXTENDS ClientHandler

TwoMessages == <<[fields |-> 3, body |-> 8], [fields |-> 0, body |-> 0]>>
=============================================================================
