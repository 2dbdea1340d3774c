---------------------------- MODULE MCMsgQueue ----------------------------
(***************************************************************************)
(* Instances of MsgQueue: callbacks on two threads and the one worker.     *)
(* The constants are small sets of model values, given in the cfgs.        *)
(***************************************************************************)
EXTENDS MsgQueue, TLC
=============================================================================
