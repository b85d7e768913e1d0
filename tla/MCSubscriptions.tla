-------------------------- MODULE MCSubscriptions --------------------------
(* TLC instance of Subscriptions.                                            *)
EXTENDS Subscriptions, TLC
=============================================================================
