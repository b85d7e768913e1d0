----------------------------- MODULE MCChannels -----------------------------
(* TLC instance of Channels.  The clients together have at most InCap calls  *)
(* open.                                                                     *)
EXTENDS Channels

ASSUME OpenCallsFit == Window <= InCap
=============================================================================
