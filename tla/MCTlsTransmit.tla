--------------------------- MODULE MCTlsTransmit ---------------------------
(* Instance for TLC: one buffer preallocated for the lowest priority and   *)
(* the rest left to tls_buff_create, so that both branches of acquire are  *)
(* taken, and a created buffer is released into a pool and acquired again. *)
EXTENDS TlsTransmit

CONSTANTS p1, p2, b0, b1

OnePool == [p \in Pri |-> IF p = 0 THEN {b0} ELSE {}]
=============================================================================
