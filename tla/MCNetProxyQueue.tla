-------------------------- MODULE MCNetProxyQueue --------------------------
(* Instance for TLC: rings of two, and enough messages to fill one, wrap   *)
(* its indices and have it refilled while its message is in hand.          *)
EXTENDS NetProxyQueue

CONSTANTS m1, m2, m3, m4
=============================================================================
