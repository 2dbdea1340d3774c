--------------------------- MODULE NetProxyRelay ---------------------------
(***************************************************************************)
(* What the network proxy promises the RPC callback, without rings, locks  *)
(* or scans: one bounded FIFO per priority and a relay that holds at most  *)
(* one message.  A held message is sent, unless a higher priority waits:   *)
(* then it goes back to the end of its FIFO, or is dropped when that has   *)
(* filled up meanwhile.  Whatever waits is taken eventually.               *)
(***************************************************************************)
EXTENDS Integers, Sequences

CONSTANTS Msg, NoMsg, MaxPri, Size

Pri == 0 .. MaxPri

VARIABLES waiting,    \* the accepted messages of each priority, oldest first
          held,       \* the message the relay holds, or NoMsg
          level       \* and its priority

vars == <<waiting, held, level>>

Init == /\ waiting = [p \in Pri |-> << >>]
        /\ held = NoMsg /\ level = 0

Accept(m, p) == /\ Len(waiting[p]) < Size
                /\ waiting' = [waiting EXCEPT ![p] = Append(@, m)]
                /\ UNCHANGED <<held, level>>

Take(p) == /\ held = NoMsg /\ waiting[p] # << >>
           /\ held' = Head(waiting[p]) /\ level' = p
           /\ waiting' = [waiting EXCEPT ![p] = Tail(@)]

Send == /\ held # NoMsg
        /\ held' = NoMsg
        /\ UNCHANGED <<waiting, level>>

Preempted == held # NoMsg /\ \E q \in Pri : q > level /\ waiting[q] # << >>

PutBack == /\ Preempted /\ Len(waiting[level]) < Size
           /\ waiting' = [waiting EXCEPT ![level] = Append(@, held)]
           /\ held' = NoMsg
           /\ UNCHANGED level

Drop == /\ Preempted /\ Len(waiting[level]) = Size
        /\ held' = NoMsg
        /\ UNCHANGED <<waiting, level>>

Next == \/ \E m \in Msg, p \in Pri : Accept(m, p)
        \/ \E p \in Pri : Take(p)
        \/ Send \/ PutBack \/ Drop

Spec == Init /\ [][Next]_vars

FairSpec == Spec /\ WF_vars(\E p \in Pri : Take(p))
                 /\ WF_vars(Send \/ PutBack \/ Drop)
=============================================================================
