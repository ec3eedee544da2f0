------------------------------ MODULE MCPairing ------------------------------
(* One code and channels of one, so that a stalled consumer makes an item be  *)
(* dropped; two goroutines that dispatch the link and one more event.         *)
EXTENDS Pairing

CONSTANTS h1, h2
=============================================================================
