--------------------------- MODULE MCTlsReceive ---------------------------
(* Instance for TLC: one preallocated buffer and more to be created, so    *)
(* that the list can hold several and a buffer is recycled while others    *)
(* wait.                                                                   *)
EXTENDS TlsReceive, TLC

CONSTANTS b1, b2, b3, b4

OneBuffer == {b1}
=============================================================================
