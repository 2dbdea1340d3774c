---------------------------- MODULE MsgChannel ----------------------------
(***************************************************************************)
(* What the message queue of net_proxy_v2 promises the RPC callback and    *)
(* the worker: a bounded channel, first in, first out, that loses nothing  *)
(* until it is closed, and what is in it then.                             *)
(***************************************************************************)
EXTENDS Integers, Sequences

CONSTANTS Message, Capacity

VARIABLES channel, taken, closed

cvars == <<channel, taken, closed>>

ChannelInit == channel = << >> /\ taken = << >> /\ closed = FALSE

Put(m) == /\ ~closed /\ Len(channel) < Capacity
          /\ channel' = Append(channel, m)
          /\ UNCHANGED <<taken, closed>>

Take == /\ ~closed /\ channel # << >>
        /\ taken' = Append(taken, Head(channel))
        /\ channel' = Tail(channel)
        /\ UNCHANGED closed

Close == /\ ~closed
         /\ closed' = TRUE /\ channel' = << >>
         /\ UNCHANGED taken

ChannelNext == (\E m \in Message : Put(m)) \/ Take \/ Close

ChannelSpec == ChannelInit /\ [][ChannelNext]_cvars
=============================================================================
