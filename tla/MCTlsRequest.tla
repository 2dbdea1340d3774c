--------------------------- MODULE MCTlsRequest ----------------------------
(* Instance for TLC: two callers whose calls overlap in every way, on      *)
(* commands that are recycled, and a clock that is set back once.          *)
EXTENDS TlsRequest, TLC

CONSTANTS t1, t2, c1, c2
=============================================================================
