-------------------------- MODULE MCFileTransmit --------------------------
(* Instance for TLC: one file of two blocks and one of a single block, so  *)
(* that a file can end while the other begins; two blocks, one of them     *)
(* preallocated, so that memory can run out.                               *)
EXTENDS FileTransmit, TLC

CONSTANTS f1, f2, b1, b2

Counts   == f1 :> 2 @@ f2 :> 1
OneBlock == {b1}
=============================================================================
