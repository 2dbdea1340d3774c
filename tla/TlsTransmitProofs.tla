------------------------- MODULE TlsTransmitProofs -------------------------
(***************************************************************************)
(* What holds of the transmit path for every number of producers, buffers  *)
(* and priorities: its types, the two scheduling invariants (PointerCovers *)
(* and NoLostWakeup), the step simulation of TlsOutbox, and that buffers   *)
(* are neither shared nor lost (BuffersKept).                              *)
(***************************************************************************)
EXTENDS TlsTransmit, FiniteSetTheorems, TLAPS

(* The items of a queue after an insertion at the tail... *)
LEMMA AppendItems ==
  ASSUME NEW S, NEW s \in Seq(S), NEW e \in S
  PROVE  /\ Len(Append(s, e)) = Len(s) + 1 /\ Len(s) \in Nat
         /\ \A k \in 1 .. Len(s) : k \in 1 .. Len(Append(s, e)) /\ Append(s, e)[k] = s[k]
         /\ Append(s, e)[Len(s) + 1] = e
         /\ \A k \in 1 .. Len(Append(s, e)) : k \in 1 .. Len(s) \/ k = Len(s) + 1
  OBVIOUS

(* ... and after a removal from the head. *)
LEMMA TailItems ==
  ASSUME NEW S, NEW s \in Seq(S), s # << >>
  PROVE  /\ 1 \in 1 .. Len(s) /\ Head(s) = s[1] /\ Head(s) \in S
         /\ \A k \in 1 .. Len(Tail(s)) :
              k \in Nat /\ k + 1 \in 1 .. Len(s) /\ k + 1 # 1 /\ Tail(s)[k] = s[k + 1]
         /\ \A k \in 1 .. Len(s) : k = 1 \/ (k - 1 \in 1 .. Len(Tail(s)) /\ Tail(s)[k - 1] = s[k])
  OBVIOUS

(* A set whose elements are all the same. *)
LEMMA AtMostOne ==
  ASSUME NEW S, \A o1, o2 \in S : o1 = o2
  PROVE  Cardinality(S) <= 1
<1>1. CASE S = {}
  BY <1>1, FS_EmptySet
<1>2. ASSUME NEW o \in S PROVE Cardinality(S) <= 1
  <2>1. S = {o}
    OBVIOUS
  <2>2. Cardinality({o}) = 1
    BY FS_Singleton
  <2> QED
    BY <2>1, <2>2
<1> QED
  BY <1>1, <1>2

-----------------------------------------------------------------------------
(* The strengthening of PointerCovers and PushWakes.                       *)

(* The thread holds queue_transmit_lock_ from PollLock to PollSettle, and  *)
(* for ever when it was cancelled inside.                                  *)
LockHeld == ptrlock <=> tpc \in {"pop", "send", "release", "settle", "dead"}

(* Inside its critical section the pointer names a queue. *)
PollPtr == tpc \in {"pop", "send", "release", "settle"} => ptr \in Pri

(* Whoever is about to use a buffer has one. *)
HasBuff == /\ \A c \in Producer : pc[c] \in {"check", "insert"} => hand[c] \in Buff
           /\ tpc \in {"send", "release", "dead"} => tbuf \in Buff

(* run_ is cleared by StopTransmit, and the queues are drained only after  *)
(* the thread has gone.                                                    *)
StopOrder == /\ run <=> spc \in {"running", "transmit"}
             /\ spc \in {"drain", "stopped"} => ~ThreadAlive

(* What the thread remembers about the queue it popped from is still true, *)
(* or the producer that made it false has yet to raise the pointer.        *)
EmptyFresh ==
  (tpc \in {"send", "release", "settle"} /\ tres = "empty")
    => queue[ptr] = << >> \/ Posting(ptr) # {}

(* The part about control and types, inductive by itself... *)
Control == /\ TypeOK
           /\ LockHeld
           /\ PollPtr
           /\ HasBuff
           /\ StopOrder

(* ... and the part about scheduling, which needs it. *)
Scheduling == /\ EmptyFresh
              /\ PointerCovers
              /\ PushWakes

IInv == Control /\ Scheduling

-----------------------------------------------------------------------------
LEMMA InitControl == Init => Control
<1> SUFFICES ASSUME Init PROVE Control
  OBVIOUS
<1> USE PriAssumption DEF Init
<1>1. pool \in [Pri -> SUBSET Buff] /\ heap \in SUBSET Buff
  BY PoolAssumption
<1>2. prio \in [Buff -> Pri]
  <2> DEFINE first(b) == IF \E p \in Pri : b \in InitPool[p]
                         THEN CHOOSE p \in Pri : b \in InitPool[p] ELSE 0
  <2>1. ASSUME NEW b \in Buff PROVE first(b) \in Pri
    <3>1. CASE \E p \in Pri : b \in InitPool[p]
      BY <3>1
    <3>2. CASE ~ \E p \in Pri : b \in InitPool[p]
      BY <3>2 DEF Pri
    <3> QED
      BY <3>1, <3>2
  <2>2. prio = [b \in Buff |-> first(b)]
    OBVIOUS
  <2> QED
    BY <2>1, <2>2
<1>3. queue \in [Pri -> Seq(Buff)]
  OBVIOUS
<1>4. 0 \in Pri
  BY DEF Pri
<1>5. /\ pc \in [Producer -> Outside \cup {"check", "insert", "update", "active"}]
      /\ hand \in [Producer -> Buff \cup {NoBuff}]
      /\ lvl \in [Producer -> Pri]
      /\ mode \in [Buff -> {"udp", "vsoa"}]
  BY <1>4 DEF Outside
<1>6. TypeOK
  BY <1>1, <1>2, <1>3, <1>5 DEF TypeOK
<1> QED
  BY <1>6 DEF Control, LockHeld, PollPtr, HasBuff, StopOrder, ThreadAlive

(* Control is preserved by every step. *)
LEMMA NextControl == Control /\ [Next]_vars => Control'
<1> SUFFICES ASSUME Control, [Next]_vars PROVE Control'
  OBVIOUS
<1> USE PriAssumption, BuffAssumption
    DEF Control, TypeOK, LockHeld, PollPtr, HasBuff, StopOrder, ThreadAlive, Pri, NoQueue, Outside
<1>1. ASSUME NEW c \in Producer, Produce(c) PROVE Control'
  <2> PICK p \in Pri, publish \in BOOLEAN : AcquireTransmitBuff(c, p, publish)
    BY <1>1 DEF Produce
  <2> PICK b \in Buff :
         /\ \/ pool' = [pool EXCEPT ![p] = @ \ {b}] /\ UNCHANGED <<heap, prio>>
            \/ heap' = heap \ {b} /\ prio' = [prio EXCEPT ![b] = p] /\ UNCHANGED pool
         /\ mode' = IF publish THEN [mode EXCEPT ![b] = "vsoa"] ELSE mode
         /\ hand' = [hand EXCEPT ![c] = b]
    BY DEF AcquireTransmitBuff
  <2>1. pool' \in [Pri -> SUBSET Buff] /\ heap' \in SUBSET Buff /\ prio' \in [Buff -> Pri]
    <3>1. CASE pool' = [pool EXCEPT ![p] = @ \ {b}] /\ UNCHANGED <<heap, prio>>
      BY <3>1
    <3>2. CASE heap' = heap \ {b} /\ prio' = [prio EXCEPT ![b] = p] /\ UNCHANGED pool
      BY <3>2
    <3> QED
      BY <3>1, <3>2
  <2>2. mode' \in [Buff -> {"udp", "vsoa"}]
    OBVIOUS
  <2>3. /\ pc' = [pc EXCEPT ![c] = "check"]
        /\ UNCHANGED <<lvl, queue, ptr, ptrlock, evt, tpc, tbuf, tres, serving, start, run, spc>>
    BY DEF AcquireTransmitBuff, thrVars, stopVars
  <2>4. TypeOK'
    BY SMTT(30), <2>1, <2>2, <2>3
  <2>5. HasBuff'
    BY <2>3
  <2> QED
    BY <2>3, <2>4, <2>5
<1>2. ASSUME NEW c \in Producer, PushCheckStart(c) PROVE Control'
  <2>1. /\ pc[c] = "check" /\ pc' = [pc EXCEPT ![c] = IF start THEN "insert" ELSE "refused"]
        /\ hand' = IF start THEN hand ELSE [hand EXCEPT ![c] = NoBuff]
        /\ lvl' = IF start THEN [lvl EXCEPT ![c] = prio[hand[c]]] ELSE lvl
        /\ UNCHANGED <<pool, heap, prio, mode, queue, ptr, ptrlock, evt, tpc, tbuf, tres,
                       serving, start, run, spc>>
    BY <1>2 DEF PushCheckStart, buffVars, thrVars, stopVars
  <2>2. CASE start
    BY <2>1, <2>2
  <2>3. CASE ~start
    BY <2>1, <2>3
  <2> QED
    BY <2>2, <2>3
<1>3. ASSUME NEW c \in Producer, PushInsert(c) PROVE Control'
  <2>1. /\ pc[c] = "insert" /\ pc' = [pc EXCEPT ![c] = "update"]
        /\ hand' = [hand EXCEPT ![c] = NoBuff]
        /\ queue' = [queue EXCEPT ![lvl[c]] = Append(@, hand[c])]
        /\ UNCHANGED <<pool, heap, prio, mode, lvl, ptr, ptrlock, evt, tpc, tbuf, tres,
                       serving, start, run, spc>>
    BY <1>3 DEF PushInsert, buffVars, thrVars, stopVars
  <2>2. hand[c] \in Buff
    BY <2>1
  <2>3. queue' \in [Pri -> Seq(Buff)]
    BY <2>1, <2>2
  <2>4. TypeOK'
    BY <2>1, <2>3
  <2>5. HasBuff'
    BY <2>1
  <2> QED
    BY <2>1, <2>4, <2>5
<1>4. ASSUME NEW c \in Producer, UpdateTransmitQueue(c) PROVE Control'
  BY <1>4 DEF UpdateTransmitQueue, Raised, buffVars, thrVars, stopVars
<1>5. ASSUME NEW c \in Producer, TransmitActive(c) PROVE Control'
  BY <1>5 DEF TransmitActive, buffVars, thrVars, stopVars
<1>6. CASE ThreadLoop
  BY <1>6 DEF ThreadLoop, buffVars, prodVars, stopVars
<1>7. CASE ThreadWake
  BY <1>7 DEF ThreadWake, buffVars, prodVars, stopVars
<1>8. CASE PollLock
  BY <1>8 DEF PollLock, FirstQueue, buffVars, prodVars, stopVars
<1>9. CASE HandlePop
  <2>1. /\ tpc = "pop" /\ ptr \in Pri /\ queue[ptr] \in Seq(Buff)
        /\ UNCHANGED <<pool, heap, prio, mode, ptr, ptrlock, evt, pc, hand, lvl,
                       serving, start, run, spc>>
    BY <1>9 DEF HandlePop, buffVars, prodVars, stopVars
  <2>2. CASE queue[ptr] = << >>
    <3>1. tres' = "empty" /\ tpc' = "settle" /\ UNCHANGED <<queue, tbuf>>
      BY <1>9, <2>2 DEF HandlePop
    <3> QED
      BY <2>1, <3>1
  <2>3. CASE queue[ptr] # << >>
    <3>1. Head(queue[ptr]) \in Buff /\ Tail(queue[ptr]) \in Seq(Buff)
      BY <2>1, <2>3
    <3>2. /\ tbuf' = Head(queue[ptr]) /\ queue' = [queue EXCEPT ![ptr] = Tail(@)]
          /\ tres' \in {"empty", "more"} /\ tpc' = "send"
      BY <1>9, <2>3 DEF HandlePop
    <3> QED
      BY <2>1, <3>1, <3>2
  <2> QED
    BY <2>2, <2>3
<1>10. CASE HandleSend
  BY <1>10 DEF HandleSend, buffVars, prodVars, stopVars
<1>11. CASE HandleRelease
  BY <1>11 DEF HandleRelease, PoolOf, prodVars, stopVars
<1>12. CASE PollSettle
  <2>1. /\ tpc = "settle" /\ tpc' = "loop" /\ ptrlock' = FALSE
        /\ evt' = (evt /\ ~LowestEmpty)
        /\ UNCHANGED <<pool, heap, prio, mode, queue, pc, hand, lvl, tbuf, tres,
                       serving, start, run, spc>>
    BY <1>12 DEF PollSettle, buffVars, prodVars, stopVars
  <2>2. ptr' \in Pri
    BY <1>12 DEF PollSettle
  <2>3. evt' \in BOOLEAN
    BY <2>1
  <2> QED
    BY <2>1, <2>2, <2>3
<1>13. CASE StopServer
  BY ZenonT(40), <1>13 DEF StopServer, buffVars, prodVars, thrVars
<1>14. CASE StopTransmit
  BY ZenonT(40), <1>14 DEF StopTransmit, buffVars, prodVars, thrVars
<1>15. CASE StopSignal
  BY <1>15 DEF StopSignal, buffVars, prodVars, thrVars
<1>16. CASE StopJoin
  BY <1>16 DEF StopJoin, buffVars, prodVars
<1>17. CASE StopDrain
  BY <1>17 DEF StopDrain, prodVars, thrVars
<1>18. CASE UNCHANGED vars
  BY <1>18 DEF vars, buffVars, prodVars, thrVars, stopVars
<1>19. QED
  BY <1>1, <1>2, <1>3, <1>4, <1>5, <1>6, <1>7, <1>8, <1>9, <1>10, <1>11, <1>12,
     <1>13, <1>14, <1>15, <1>16, <1>17, <1>18
  DEF Next, Push, Thread, Stop

(* Every variable keeps its type: in particular the queue pointer never    *)
(* leaves the array of queues however pushes, polls and stop interleave.   *)
THEOREM TypeCorrect == Spec => []TypeOK
<1>1. Spec => []Control
  BY InitControl, NextControl, PTL DEF Spec
<1>2. Control => TypeOK
  BY DEF Control
<1>3. QED
  BY <1>1, <1>2, PTL

-----------------------------------------------------------------------------
LEMMA InitScheduling == Init => Scheduling
  BY DEF Init, Scheduling, EmptyFresh, PointerCovers, PushWakes

(* Scheduling is preserved by every step.  The steps that matter: a push   *)
(* inserts before it raises the pointer, so PushInsert leaves a producer   *)
(* posting; the raised pointer covers at least what the posting producer   *)
(* excused; PollSettle descends past an empty queue only, or past one      *)
(* whose producer still waits for the lock that the poll holds.            *)
LEMMA NextScheduling == Control /\ Control' /\ Scheduling /\ [Next]_vars => Scheduling'
<1> SUFFICES ASSUME Control, Control', Scheduling, [Next]_vars PROVE Scheduling'
  OBVIOUS
<1> USE PriAssumption
    DEF Control, TypeOK, LockHeld, PollPtr, StopOrder, ThreadAlive, Pri, NoQueue,
        Scheduling, EmptyFresh, PointerCovers, PushWakes, Posting, Outside
<1>1. ASSUME NEW c \in Producer, Produce(c) PROVE Scheduling'
  <2>1. /\ pc[c] \in Outside /\ pc' = [pc EXCEPT ![c] = "check"]
        /\ UNCHANGED <<lvl, queue, ptr, ptrlock, evt, tpc, tbuf, tres, serving, start, run, spc>>
    BY <1>1 DEF Produce, AcquireTransmitBuff, thrVars, stopVars
  <2>2. \A d \in Producer : /\ pc'[d] = "update" <=> pc[d] = "update"
                            /\ pc'[d] = "active" <=> pc[d] = "active"
    BY <2>1
  <2>3. EmptyFresh'
    BY <2>1, <2>2
  <2>4. PointerCovers'
    BY <2>1, <2>2
  <2>5. PushWakes'
    BY <2>1, <2>2
  <2> QED
    BY <2>3, <2>4, <2>5
<1>2. ASSUME NEW c \in Producer, PushCheckStart(c) PROVE Scheduling'
  <2>1. /\ pc[c] = "check" /\ pc' = [pc EXCEPT ![c] = IF start THEN "insert" ELSE "refused"]
        /\ \A d \in Producer : d # c => lvl'[d] = lvl[d]
        /\ UNCHANGED <<queue, ptr, ptrlock, evt, tpc, tbuf, tres, run>>
    BY <1>2 DEF PushCheckStart, buffVars, thrVars, stopVars
  <2>2. \A d \in Producer : /\ pc'[d] = "update" <=> pc[d] = "update"
                            /\ pc'[d] = "active" <=> pc[d] = "active"
                            /\ pc[d] = "update" => lvl'[d] = lvl[d]
    BY <2>1
  <2>3. EmptyFresh'
    BY <2>1, <2>2
  <2>4. PointerCovers'
    BY <2>1, <2>2
  <2>5. PushWakes'
    BY <2>1, <2>2
  <2> QED
    BY <2>3, <2>4, <2>5
<1>3. ASSUME NEW c \in Producer, PushInsert(c) PROVE Scheduling'
  BY SMTT(30), <1>3 DEF PushInsert, buffVars, thrVars, stopVars
<1>4. ASSUME NEW c \in Producer, UpdateTransmitQueue(c) PROVE Scheduling'
  BY SMTT(30), <1>4 DEF UpdateTransmitQueue, Raised, buffVars, thrVars, stopVars
<1>5. ASSUME NEW c \in Producer, TransmitActive(c) PROVE Scheduling'
  BY <1>5 DEF TransmitActive, buffVars, thrVars, stopVars
<1>6. CASE ThreadLoop
  BY <1>6 DEF ThreadLoop, buffVars, prodVars, stopVars
<1>7. CASE ThreadWake
  BY <1>7 DEF ThreadWake, buffVars, prodVars, stopVars
<1>8. CASE PollLock
  BY <1>8 DEF PollLock, FirstQueue, buffVars, prodVars, stopVars
<1>9. CASE HandlePop
  <2>1. /\ tpc = "pop" /\ ptr \in Pri /\ queue[ptr] \in Seq(Buff)
        /\ UNCHANGED <<ptr, ptrlock, evt, pc, lvl, run, spc>>
    BY <1>9 DEF HandlePop, prodVars, stopVars
  <2>2. CASE queue[ptr] = << >>
    <3>1. tres' = "empty" /\ tpc' = "settle" /\ UNCHANGED <<queue, tbuf>>
      BY <1>9, <2>2 DEF HandlePop
    <3>2. EmptyFresh'
      BY <2>1, <2>2, <3>1
    <3>3. PointerCovers'
      BY <2>1, <3>1
    <3>4. PushWakes'
      BY <2>1, <3>1
    <3> QED
      BY <3>2, <3>3, <3>4
  <2>3. CASE queue[ptr] # << >>
    <3>1. /\ queue' = [queue EXCEPT ![ptr] = Tail(@)] /\ tpc' = "send"
          /\ tres' = IF Tail(queue[ptr]) = << >> THEN "empty" ELSE "more"
      BY <1>9, <2>3 DEF HandlePop
    <3>2. \A q \in Pri : queue'[q] # << >> => queue[q] # << >>
      BY <2>3, <3>1
    <3>3. EmptyFresh'
      BY <2>1, <3>1
    <3>4. PointerCovers'
      BY <2>1, <3>1, <3>2
    <3>5. PushWakes'
      BY <2>1, <3>1, <3>2
    <3> QED
      BY <3>3, <3>4, <3>5
  <2> QED
    BY <2>2, <2>3
<1>10. CASE HandleSend
  BY <1>10 DEF HandleSend, buffVars, prodVars, stopVars
<1>11. CASE HandleRelease
  BY <1>11 DEF HandleRelease, PoolOf, prodVars, stopVars
<1>12. CASE PollSettle
  <2>1. /\ tpc = "settle" /\ tpc' = "loop" /\ ptr \in Pri
        /\ ptr' = IF tres = "empty" /\ ptr > 0 THEN ptr - 1 ELSE ptr
        /\ UNCHANGED <<queue, pc, lvl, run, spc>>
    BY <1>12 DEF PollSettle, prodVars, stopVars
  <2>2. EmptyFresh'
    BY <2>1
  <2>3. \A p \in Pri : queue[p] # << >> => ptr >= p \/ \E c \in Producer : pc[c] = "update" /\ lvl[c] = p
    BY <2>1
  <2>4. tres = "empty" => queue[ptr] = << >> \/ \E c \in Producer : pc[c] = "update" /\ lvl[c] = ptr
    BY <2>1
  <2>5. PointerCovers'
    <3> SUFFICES ASSUME NEW p \in Pri, queue[p] # << >>, ~(ptr' >= p)
                 PROVE  \E c \in Producer : pc[c] = "update" /\ lvl[c] = p
      BY <2>1
    <3>1. CASE ptr >= p
      <4>1. tres = "empty" /\ p = ptr
        BY <2>1, <3>1
      <4> QED
        BY <2>4, <4>1
    <3>2. CASE ~(ptr >= p)
      BY <2>3, <3>2
    <3> QED
      BY <3>1, <3>2
  <2>6. PushWakes'
    <3>1. CASE LowestEmpty
      <4>1. \A p \in Pri : ptr >= p => p = ptr
        BY <3>1 DEF LowestEmpty
      <4>2. tres = "empty"
        BY <3>1 DEF LowestEmpty
      <4> QED
        BY <2>1, <2>3, <2>4, <4>1, <4>2
    <3>2. CASE ~LowestEmpty
      <4>1. evt' = evt
        BY <1>12, <3>2 DEF PollSettle
      <4> QED
        BY <2>1, <4>1
    <3> QED
      BY <3>1, <3>2
  <2> QED
    BY <2>2, <2>5, <2>6
<1>13. CASE StopServer
  BY <1>13 DEF StopServer, buffVars, prodVars, thrVars
<1>14. CASE StopTransmit
  BY <1>14 DEF StopTransmit, buffVars, prodVars, thrVars
<1>15. CASE StopSignal
  BY <1>15 DEF StopSignal, buffVars, prodVars, thrVars
<1>16. CASE StopJoin
  BY <1>16 DEF StopJoin, buffVars, prodVars
<1>17. CASE StopDrain
  BY <1>17 DEF StopDrain, prodVars, thrVars
<1>18. CASE UNCHANGED vars
  BY <1>18 DEF vars, buffVars, prodVars, thrVars, stopVars
<1>19. QED
  BY <1>1, <1>2, <1>3, <1>4, <1>5, <1>6, <1>7, <1>8, <1>9, <1>10, <1>11, <1>12,
     <1>13, <1>14, <1>15, <1>16, <1>17, <1>18
  DEF Next, Push, Thread, Stop

(* The inductive invariant of the transmit path.                           *)
LEMMA Inductive == Spec => []IInv
<1>1. Init => IInv
  BY InitControl, InitScheduling DEF IInv
<1>2. IInv /\ [Next]_vars => IInv'
  BY NextControl, NextScheduling DEF IInv
<1>3. QED
  BY <1>1, <1>2, PTL DEF Spec

(* Nothing ever waits behind the queue pointer: the thread's downward scan *)
(* misses no priority, for any number of priorities and producers.         *)
THEOREM NothingBehindPointer == Spec => []PointerCovers
  BY Inductive, PTL DEF IInv, Scheduling

(* When tls_transmit_stop waits for the thread to end, it is not asleep:   *)
(* no poll that was about to clear the event takes the stop signal away    *)
(* from it, since after run_ is cleared the thread does not go back to     *)
(* sleep.                                                                  *)
LEMMA StopIsSeen == Spec => []StopWakes
<1>1. Init => StopWakes
  BY DEF Init, StopWakes
<1>2. Control /\ StopWakes /\ [Next]_vars => StopWakes'
  <2> SUFFICES ASSUME StopOrder, StopWakes, [Next]_vars PROVE StopWakes'
    BY DEF Control
  <2> USE DEF StopOrder, StopWakes, buffVars, prodVars, thrVars, stopVars
  <2>1. ASSUME NEW c \in Producer, Produce(c) \/ Push(c) PROVE StopWakes'
    BY <2>1 DEF Produce, AcquireTransmitBuff, Push, PushCheckStart, PushInsert, UpdateTransmitQueue,
                TransmitActive
  <2>2. CASE Thread
    BY <2>2 DEF Thread, ThreadLoop, ThreadWake, PollLock, HandlePop, HandleSend, HandleRelease, PollSettle
  <2>3. CASE Stop
    BY <2>3 DEF Stop, StopServer, StopTransmit, StopSignal, StopJoin, StopDrain
  <2>4. CASE UNCHANGED vars
    BY <2>4 DEF vars
  <2> QED
    BY <2>1, <2>2, <2>3, <2>4 DEF Next
<1> QED
  BY <1>1, <1>2, Inductive, PTL DEF Spec, IInv

(* No wakeup is lost: the thread cannot sleep on the cleared event while a *)
(* datagram waits whose push is complete, nor when it is to end.           *)
THEOREM NoWakeupLost == Spec => []NoLostWakeup
<1>1. Spec => []PushWakes
  BY Inductive, PTL DEF IInv, Scheduling
<1> QED
  BY <1>1, StopIsSeen, PTL DEF NoLostWakeup

-----------------------------------------------------------------------------
(* The implementation of TlsOutbox: what a step does to posting.           *)

LEMMA PostingInsert ==
  ASSUME TypeOK, NEW c \in Producer, PushInsert(c)
  PROVE  [p \in Pri |-> Posting(p)]'
           = [[p \in Pri |-> Posting(p)] EXCEPT ![lvl[c]] = @ \cup {c}]
<1>1. /\ pc[c] = "insert" /\ pc' = [pc EXCEPT ![c] = "update"] /\ lvl' = lvl
      /\ lvl[c] \in Pri
  BY DEF TypeOK, PushInsert
<1>2. \A p \in Pri : Posting(p)' = IF p = lvl[c] THEN Posting(p) \cup {c} ELSE Posting(p)
  BY <1>1 DEF TypeOK, Posting
<1> QED
  BY <1>1, <1>2

LEMMA PostingUpdate ==
  ASSUME TypeOK, NEW c \in Producer, UpdateTransmitQueue(c)
  PROVE  [p \in Pri |-> Posting(p)]'
           = [[p \in Pri |-> Posting(p)] EXCEPT ![lvl[c]] = @ \ {c}]
<1>1. /\ pc[c] = "update" /\ pc' = [pc EXCEPT ![c] = "active"] /\ lvl' = lvl
      /\ lvl[c] \in Pri
  BY DEF TypeOK, UpdateTransmitQueue
<1>2. \A p \in Pri : Posting(p)' = IF p = lvl[c] THEN Posting(p) \ {c} ELSE Posting(p)
  BY <1>1 DEF TypeOK, Posting
<1> QED
  BY <1>1, <1>2

(* A step that moves no producer into or out of "update" is a stutter of   *)
(* posting.                                                                *)
LEMMA PostingSame ==
  ASSUME \A c \in Producer : /\ pc'[c] = "update" <=> pc[c] = "update"
                             /\ pc[c] = "update" => lvl'[c] = lvl[c]
  PROVE  [p \in Pri |-> Posting(p)]' = [p \in Pri |-> Posting(p)]
<1>1. \A p \in Pri : Posting(p)' = Posting(p)
  BY DEF Posting
<1> QED
  BY <1>1

LEMMA NextOutbox == IInv /\ [Next]_vars => [Outbox!Next]_(Outbox!vars)
<1> SUFFICES ASSUME IInv, [Next]_vars
             PROVE  Outbox!Next \/ UNCHANGED Outbox!vars
  OBVIOUS
<1> DEFINE posting == [p \in Pri |-> Posting(p)]
<1> USE DEF Outbox!Pri, Pri
<1> Control /\ TypeOK
  BY DEF IInv, Control
<1>1. ASSUME UNCHANGED <<queue, run>>, UNCHANGED posting PROVE UNCHANGED Outbox!vars
  BY <1>1 DEF Outbox!vars
<1>2. ASSUME UNCHANGED <<queue, run, pc, lvl>> PROVE UNCHANGED Outbox!vars
  BY <1>2, <1>1, PostingSame
<1>3. ASSUME NEW c \in Producer, Produce(c) PROVE UNCHANGED Outbox!vars
  <2>1. UNCHANGED <<queue, run, lvl>> /\ pc[c] \in Outside /\ pc' = [pc EXCEPT ![c] = "check"]
    BY <1>3 DEF Produce, AcquireTransmitBuff, stopVars
  <2> QED
    BY <1>1, <2>1, PostingSame DEF TypeOK, Outside
<1>4. ASSUME NEW c \in Producer, PushCheckStart(c) PROVE UNCHANGED Outbox!vars
  <2>1. /\ UNCHANGED <<queue, run>> /\ pc[c] = "check"
        /\ pc' = [pc EXCEPT ![c] = IF start THEN "insert" ELSE "refused"]
        /\ lvl' = IF start THEN [lvl EXCEPT ![c] = prio[hand[c]]] ELSE lvl
    BY <1>4 DEF PushCheckStart, stopVars
  <2>2. \A d \in Producer : /\ pc'[d] = "update" <=> pc[d] = "update"
                            /\ pc[d] = "update" => lvl'[d] = lvl[d]
    BY <2>1 DEF TypeOK
  <2> QED
    BY <1>1, <2>1, <2>2, PostingSame
<1>5. ASSUME NEW c \in Producer, PushInsert(c) PROVE Outbox!Next
  <2>1. /\ pc[c] = "insert" /\ hand[c] \in Buff /\ lvl[c] \in Pri /\ run' = run
        /\ queue' = [queue EXCEPT ![lvl[c]] = Append(@, hand[c])]
    BY <1>5 DEF PushInsert, Control, HasBuff, TypeOK, stopVars
  <2>2. \A q \in Pri : c \notin posting[q]
    BY <2>1 DEF Posting
  <2>3. Outbox!Submit(c, lvl[c], hand[c])
    BY <1>5, <2>1, <2>2, PostingInsert DEF Outbox!Submit
  <2> QED
    BY <2>1, <2>3 DEF Outbox!Next
<1>6. ASSUME NEW c \in Producer, UpdateTransmitQueue(c) PROVE Outbox!Next
  <2>1. pc[c] = "update" /\ lvl[c] \in Pri /\ UNCHANGED <<queue, run>>
    BY <1>6 DEF UpdateTransmitQueue, TypeOK, stopVars
  <2>2. c \in posting[lvl[c]]
    BY <2>1 DEF Posting
  <2>3. Outbox!Post(c, lvl[c])
    BY <1>6, <2>1, <2>2, PostingUpdate DEF Outbox!Post
  <2> QED
    BY <2>1, <2>3 DEF Outbox!Next
<1>7. ASSUME NEW c \in Producer, TransmitActive(c) PROVE UNCHANGED Outbox!vars
  <2>1. /\ UNCHANGED <<queue, run>> /\ pc[c] = "active"
        /\ pc' = [pc EXCEPT ![c] = "idle"] /\ lvl' = [lvl EXCEPT ![c] = 0]
    BY <1>7 DEF TransmitActive, stopVars
  <2>2. \A d \in Producer : /\ pc'[d] = "update" <=> pc[d] = "update"
                            /\ pc[d] = "update" => lvl'[d] = lvl[d]
    BY <2>1 DEF TypeOK
  <2> QED
    BY <1>1, <2>1, <2>2, PostingSame
<1>8. CASE HandlePop
  <2>1. tpc = "pop" /\ ptr \in Pri /\ UNCHANGED <<run, pc, lvl>>
    BY <1>8 DEF HandlePop, Control, PollPtr, prodVars, stopVars
  <2>2. CASE queue[ptr] = << >>
    BY <1>2, <1>8, <2>1, <2>2 DEF HandlePop
  <2>3. CASE queue[ptr] # << >>
    <3>1. queue' = [queue EXCEPT ![ptr] = Tail(@)]
      BY <1>8, <2>3 DEF HandlePop
    <3>2. posting' = posting
      BY <2>1, PostingSame
    <3>3. ASSUME NEW q \in Pri, q > ptr PROVE Outbox!Settled(q)
      <4>1. queue[q] # << >> => Posting(q) # {}
        BY <2>1, <3>3, PriAssumption DEF IInv, Scheduling, PointerCovers, ThreadAlive
      <4> QED
        BY <4>1 DEF Outbox!Settled
    <3>4. Outbox!Deliver(ptr)
      BY <2>1, <2>3, <3>1, <3>2, <3>3 DEF Outbox!Deliver
    <3> QED
      BY <2>1, <3>4 DEF Outbox!Next
  <2> QED
    BY <2>2, <2>3
<1>9. CASE StopTransmit
  <2>1. run /\ run' = FALSE /\ UNCHANGED <<queue, pc, lvl>>
    BY <1>9 DEF StopTransmit, Control, StopOrder, prodVars
  <2>2. Outbox!Close
    BY <2>1, PostingSame DEF Outbox!Close
  <2> QED
    BY <2>2 DEF Outbox!Next
<1>10. CASE StopDrain
  <2>1. ~run /\ queue' = [p \in Pri |-> << >>] /\ UNCHANGED <<run, pc, lvl>>
    BY <1>10 DEF StopDrain, Control, StopOrder, prodVars
  <2>2. Outbox!Discard
    BY <2>1, PostingSame DEF Outbox!Discard
  <2> QED
    BY <2>2 DEF Outbox!Next
<1>11. ASSUME \/ ThreadLoop \/ ThreadWake \/ PollLock \/ HandleSend \/ HandleRelease
              \/ PollSettle \/ StopServer \/ StopSignal \/ StopJoin \/ UNCHANGED vars
       PROVE  UNCHANGED Outbox!vars
  <2>1. UNCHANGED <<queue, run, pc, lvl>>
    BY <1>11 DEF ThreadLoop, ThreadWake, PollLock, HandleSend, HandleRelease, PollSettle,
                 StopServer, StopSignal, StopJoin, vars, buffVars, prodVars, thrVars, stopVars
  <2> QED
    BY <1>2, <2>1
<1>12. QED
  BY <1>3, <1>4, <1>5, <1>6, <1>7, <1>8, <1>9, <1>10, <1>11 DEF Next, Push, Thread, Stop

(* The transmit path implements the mailbox, liveness aside: every step of *)
(* threads, pushes and stop is a Submit, Post, Deliver, Close or Discard   *)
(* of TlsOutbox or changes nothing that the mailbox promises about; in     *)
(* particular FIFO order within a priority and no overtaking of a posted   *)
(* datagram by one of lower priority.                                      *)
THEOREM TransmitIsOutbox == Spec => Outbox!Spec
<1>1. Init => Outbox!Init
  BY DEF Init, Outbox!Init, Posting, Outbox!Pri, Pri
<1>2. QED
  BY <1>1, NextOutbox, Inductive, PTL DEF Spec, Outbox!Spec

-----------------------------------------------------------------------------
(* The buffers.                                                            *)
(*                                                                         *)
(* A buffer is on a free list, with the allocator, in a queue, in a        *)
(* producer's hand or in the thread's.  The invariant says that these      *)
(* exclude each other, that a buffer's priority names the only pool and    *)
(* the only queue it can be in, and that a buffer that is nowhere was in   *)
(* the hand of a push that was refused.                                    *)

(* Of queues q: b is in one, none has anything twice, each has what prior  *)
(* says.                                                                   *)
QueuedIn(q, b)  == \E p \in Pri : \E k \in 1 .. Len(q[p]) : q[p][k] = b
OnceIn(q)       == \A p \in Pri : \A k, l \in 1 .. Len(q[p]) : q[p][k] = q[p][l] => k = l
OwnIn(q, prior) == \A p \in Pri : \A k \in 1 .. Len(q[p]) : prior[q[p][k]] = p

InPool(b) == \E p \in Pri : b \in pool[p]
Queued(b) == QueuedIn(queue, b)
Held(b)   == \E c \in Producer : hand[c] = b

(* No buffer is in two of the five places... *)
Apart == \A b \in Buff :
           /\ InPool(b) => b \notin heap /\ ~Queued(b) /\ ~Held(b) /\ tbuf # b
           /\ b \in heap => ~Queued(b) /\ ~Held(b) /\ tbuf # b
           /\ Queued(b) => ~Held(b) /\ tbuf # b
           /\ Held(b) => tbuf # b

(* ... nor twice in one of them. *)
Once == /\ \A c, d \in Producer : hand[c] = hand[d] /\ hand[c] # NoBuff => c = d
        /\ OnceIn(queue)

(* Hands are empty but between acquire and insert, and between pop and     *)
(* release; a push inserts under the priority of its buffer.               *)
Hands == /\ \A c \in Producer : /\ pc[c] \notin {"check", "insert"} => hand[c] = NoBuff
                                /\ pc[c] = "insert" => lvl[c] = prio[hand[c]]
         /\ tpc \notin {"send", "release", "dead"} => tbuf = NoBuff

(* serving is cleared before start; nobody is refused before that.         *)
Refused == {c \in Producer : pc[c] = "refused"}
Refusal == /\ serving => start
           /\ serving <=> spc = "running"
           /\ start <=> spc \in {"running", "transmit"}
           /\ start => Refused = {}

Placed(b) == InPool(b) \/ b \in heap \/ Queued(b) \/ Held(b) \/ tbuf = b
Lost      == {b \in Buff : ~Placed(b)}

(* A buffer is lost for every refused push at most. *)
Leak == IsFiniteSet(Lost) /\ IsFiniteSet(Refused) /\ Cardinality(Lost) <= Cardinality(Refused)

OwnPools == \A p \in Pri : \A b \in pool[p] : prio[b] = p

Places == Apart /\ Once /\ Hands /\ OwnPools /\ OwnIn(queue, prio) /\ Refusal
Kept   == Places /\ Leak

-----------------------------------------------------------------------------
(* What an insertion and a removal do to the queues.                       *)

LEMMA InsertItems ==
  ASSUME NEW q \in [Pri -> Seq(Buff)], NEW p \in Pri, NEW x \in Buff, ~QueuedIn(q, x),
         NEW prior, OwnIn(q, prior), prior[x] = p, OnceIn(q),
         NEW r, r[p] = Append(q[p], x), \A o \in Pri : o # p => r[o] = q[o]
  PROVE  /\ \A b \in Buff : QueuedIn(r, b) <=> QueuedIn(q, b) \/ b = x
         /\ OnceIn(r) /\ OwnIn(r, prior)
<1>1. r[p] = Append(q[p], x) /\ q[p] \in Seq(Buff) /\ \A o \in Pri : o # p => r[o] = q[o]
  OBVIOUS
<1> DEFINE s == q[p]  t == r[p]
<1>2. /\ Len(t) = Len(s) + 1 /\ Len(s) \in Nat
      /\ \A k \in 1 .. Len(s) : k \in 1 .. Len(t) /\ t[k] = s[k]
      /\ t[Len(s) + 1] = x
      /\ \A k \in 1 .. Len(t) : k \in 1 .. Len(s) \/ k = Len(s) + 1
  BY <1>1, AppendItems
<1>3. \A k \in 1 .. Len(s) : s[k] # x
  BY DEF QueuedIn
<1>4. Len(s) + 1 \in 1 .. Len(t)
  BY <1>2
<1> HIDE DEF s, t
<1>5. ASSUME NEW b \in Buff PROVE QueuedIn(r, b) <=> QueuedIn(q, b) \/ b = x
  <2>1. (\E k \in 1 .. Len(t) : t[k] = b) <=> (\E k \in 1 .. Len(s) : s[k] = b) \/ b = x
    BY <1>2, <1>4
  <2> QED
    BY <1>1, <2>1 DEF QueuedIn, s, t
<1>6. OnceIn(r)
  <2>1. \A k, l \in 1 .. Len(s) : s[k] = s[l] => k = l
    BY DEF OnceIn, s
  <2>2. \A k, l \in 1 .. Len(t) : t[k] = t[l] => k = l
    BY <1>2, <1>3, <2>1
  <2> QED
    BY <1>1, <2>2 DEF OnceIn, t
<1>7. OwnIn(r, prior)
  <2>1. \A k \in 1 .. Len(t) : prior[t[k]] = p
    BY <1>2 DEF OwnIn, s
  <2>2. \A o \in Pri \ {p} : \A k \in 1 .. Len(r[o]) : prior[r[o][k]] = o
    BY <1>1 DEF OwnIn
  <2> QED
    BY <2>1, <2>2 DEF OwnIn, t
<1> QED
  BY <1>5, <1>6, <1>7

LEMMA RemoveItems ==
  ASSUME NEW q \in [Pri -> Seq(Buff)], NEW p \in Pri, q[p] # << >>,
         NEW prior, OwnIn(q, prior), OnceIn(q),
         NEW r, r[p] = Tail(q[p]), \A o \in Pri : o # p => r[o] = q[o]
  PROVE  /\ Head(q[p]) \in Buff /\ QueuedIn(q, Head(q[p]))
         /\ \A b \in Buff : QueuedIn(r, b) <=> QueuedIn(q, b) /\ b # Head(q[p])
         /\ OnceIn(r) /\ OwnIn(r, prior)
<1>1. r[p] = Tail(q[p]) /\ q[p] \in Seq(Buff) /\ \A o \in Pri : o # p => r[o] = q[o]
  OBVIOUS
<1> DEFINE s == q[p]  t == r[p]  x == Head(q[p])
<1>2. /\ 1 \in 1 .. Len(s) /\ x = s[1] /\ x \in Buff
      /\ \A k \in 1 .. Len(t) : k \in Nat /\ k + 1 \in 1 .. Len(s) /\ k + 1 # 1 /\ t[k] = s[k + 1]
      /\ \A k \in 1 .. Len(s) : k = 1 \/ (k - 1 \in 1 .. Len(t) /\ t[k - 1] = s[k])
  BY <1>1, TailItems
<1>3. /\ \A k, l \in 1 .. Len(s) : s[k] = s[l] => k = l
      /\ \A k \in 1 .. Len(s) : prior[s[k]] = p
  BY DEF OnceIn, OwnIn
<1>4. \A o \in Pri : o # p => \A k \in 1 .. Len(q[o]) : q[o][k] # x
  <2>1. prior[x] = p
    BY <1>2, <1>3
  <2> QED
    BY <2>1 DEF OwnIn
<1>5. QueuedIn(q, x)
  BY <1>2 DEF QueuedIn
<1> HIDE DEF s, t, x
<1>6. ASSUME NEW b \in Buff PROVE QueuedIn(r, b) <=> QueuedIn(q, b) /\ b # x
  <2>1. ASSUME NEW k \in 1 .. Len(t), t[k] = b PROVE (\E l \in 1 .. Len(s) : s[l] = b) /\ b # x
    <3>1. k + 1 \in 1 .. Len(s) /\ k + 1 # 1 /\ s[k + 1] = b
      BY <1>2, <2>1
    <3> QED
      BY <1>2, <1>3, <3>1
  <2>2. ASSUME NEW k \in 1 .. Len(s), s[k] = b, b # x PROVE \E l \in 1 .. Len(t) : t[l] = b
    BY <1>2, <2>2
  <2>3. (\E k \in 1 .. Len(t) : t[k] = b) <=> (\E k \in 1 .. Len(s) : s[k] = b) /\ b # x
    BY <2>1, <2>2
  <2> QED
    BY <1>1, <1>4, <2>3 DEF QueuedIn, s, t
<1>7. OnceIn(r)
  <2>1. ASSUME NEW k \in 1 .. Len(t), NEW l \in 1 .. Len(t), t[k] = t[l] PROVE k = l
    <3>0. k + 1 \in 1 .. Len(s) /\ l + 1 \in 1 .. Len(s) /\ s[k + 1] = s[l + 1]
      BY <1>2, <2>1
    <3>1. k + 1 = l + 1
      BY <1>3, <3>0
    <3> QED
      BY <1>2, <3>1
  <2> QED
    BY <1>1, <2>1 DEF OnceIn, t
<1>8. OwnIn(r, prior)
  <2>1. \A k \in 1 .. Len(t) : prior[t[k]] = p
    BY <1>2, <1>3
  <2> QED
    BY <1>1, <2>1 DEF OwnIn, t
<1> QED
  BY <1>2, <1>5, <1>6, <1>7, <1>8 DEF x

-----------------------------------------------------------------------------
LEMMA InitKept == Init => Kept
<1> SUFFICES ASSUME Init PROVE Kept
  OBVIOUS
<1> USE DEF Init
<1>1. \A b \in Buff : ~Queued(b) /\ ~Held(b) /\ tbuf # b
  BY BuffAssumption DEF Queued, QueuedIn, Held
<1>2. \A b \in Buff : b \in heap <=> ~InPool(b)
  BY DEF InPool
<1>3. Apart
  BY <1>1, <1>2 DEF Apart
<1>4. Once /\ Hands /\ Refusal
  BY DEF Once, OnceIn, Hands, Refusal, Refused, Outside
<1>5. OwnPools
  <2> SUFFICES ASSUME NEW p \in Pri, NEW b \in pool[p] PROVE prio[b] = p
    BY DEF OwnPools
  <2>1. b \in Buff /\ b \in InitPool[p]
    BY PoolAssumption
  <2> QED
    BY <2>1, PoolAssumption
<1>8. OwnIn(queue, prio)
  BY DEF OwnIn
<1>6. Lost = {} /\ Refused = {}
  BY <1>2 DEF Lost, Placed, Refused
<1>7. Leak
  BY <1>6, FS_EmptySet DEF Leak
<1> QED
  BY <1>3, <1>4, <1>5, <1>7, <1>8 DEF Kept, Places

(* A step that moves no buffer. *)
LEMMA Still ==
  ASSUME UNCHANGED <<pool, heap, prio, queue, hand, tbuf>>
  PROVE  (Apart => Apart') /\ (Once => Once') /\ (OwnPools => OwnPools')
         /\ (OwnIn(queue, prio) => OwnIn(queue, prio)') /\ Lost' = Lost
  BY DEF Apart, Once, OnceIn, OwnPools, OwnIn, Lost, Placed, InPool, Queued, QueuedIn, Held

LEMMA NextPlaces == Control /\ Control' /\ Places /\ [Next]_vars => Places'
<1> SUFFICES ASSUME Control, Control', Places, [Next]_vars PROVE Places'
  OBVIOUS
<1> USE PriAssumption, BuffAssumption
    DEF Control, TypeOK, HasBuff, Places, Hands, Refusal, Refused, Outside
<1>1. ASSUME NEW c \in Producer, Produce(c) PROVE Places'
  <2> PICK p \in Pri, publish \in BOOLEAN : AcquireTransmitBuff(c, p, publish)
    BY <1>1 DEF Produce
  <2>1. /\ pc[c] \in Outside /\ serving /\ pc' = [pc EXCEPT ![c] = "check"]
        /\ UNCHANGED <<lvl, queue, tpc, tbuf, serving, start, spc>>
    BY DEF AcquireTransmitBuff, thrVars, stopVars
  <2> PICK x \in Buff :
         /\ \/ /\ x \in pool[p] /\ pool' = [pool EXCEPT ![p] = @ \ {x}]
               /\ UNCHANGED <<heap, prio>>
            \/ /\ x \in heap /\ heap' = heap \ {x}
               /\ prio' = [prio EXCEPT ![x] = p] /\ UNCHANGED pool
         /\ hand' = [hand EXCEPT ![c] = x]
    BY DEF AcquireTransmitBuff
  <2>2. InPool(x) \/ x \in heap
    BY DEF InPool
  <2>3. ~Queued(x) /\ ~Held(x) /\ tbuf # x
    BY <2>2 DEF Apart
  <2>4. hand[c] = NoBuff
    BY <2>1
  <2>5. \A b \in Buff : Held(b)' <=> Held(b) \/ b = x
    <3>1. hand'[c] = x /\ \A d \in Producer \ {c} : hand'[d] = hand[d]
      OBVIOUS
    <3> QED
      BY ONLY <2>4, <3>1, BuffAssumption DEF Held
  <2>6. \A b \in Buff : Queued(b)' <=> Queued(b)
    BY <2>1 DEF Queued, QueuedIn
  <2>7. \A b \in Buff : (InPool(b)' => InPool(b) /\ b # x) /\ (b \in heap' => b \in heap /\ b # x)
    <3>1. CASE x \in pool[p] /\ pool' = [pool EXCEPT ![p] = @ \ {x}] /\ UNCHANGED <<heap, prio>>
      <4>1. \A q \in Pri : x \in pool[q] => q = p
        BY <3>1 DEF OwnPools
      <4>2. x \notin heap
        BY <3>1 DEF Apart, InPool
      <4>3. \A q \in Pri : pool'[q] = IF q = p THEN pool[q] \ {x} ELSE pool[q]
        BY <3>1
      <4>4. \A b \in Buff : InPool(b)' => InPool(b) /\ b # x
        BY ONLY <3>1, <4>1, <4>3 DEF InPool
      <4> QED
        BY <3>1, <4>2, <4>4
    <3>2. CASE x \in heap /\ heap' = heap \ {x} /\ prio' = [prio EXCEPT ![x] = p] /\ UNCHANGED pool
      <4>1. ~InPool(x)
        BY <3>2 DEF Apart
      <4> QED
        BY <3>2, <4>1 DEF InPool
    <3> QED
      BY <3>1, <3>2
  <2>8. Apart'
    BY <2>1, <2>3, <2>5, <2>6, <2>7 DEF Apart
  <2>9. Once'
    BY <2>1, <2>3, <2>4 DEF Once, Held
  <2>10. \A b \in Buff : b # x => prio'[b] = prio[b]
    OBVIOUS
  <2>11. Hands'
    BY <2>1, <2>3, <2>10 DEF Held
  <2>12. OwnPools' /\ OwnIn(queue, prio)'
    <3>1. ASSUME NEW q \in Pri, NEW b \in Buff, b \in pool'[q] PROVE prio'[b] = q
      <4>1. b \in pool[q]
        <5>1. CASE pool' = [pool EXCEPT ![p] = @ \ {x}]
          BY <3>1, <5>1
        <5>2. CASE pool' = pool
          BY <3>1, <5>2
        <5> QED
          BY <5>1, <5>2
      <4>2. b # x
        BY <3>1, <2>7 DEF InPool
      <4> QED
        BY <4>1, <4>2, <2>10 DEF OwnPools
    <3>2. ASSUME NEW q \in Pri, NEW k \in 1 .. Len(queue[q]) PROVE prio'[queue[q][k]] = q
      <4>1. queue[q][k] \in Buff
        OBVIOUS
      <4>2. queue[q][k] # x
        BY <2>3 DEF Queued, QueuedIn
      <4> QED
        BY <4>1, <4>2, <2>10 DEF OwnIn
    <3>3. \A q \in Pri : pool'[q] \subseteq Buff
      OBVIOUS
    <3>4. OwnPools'
      BY <3>1, <3>3 DEF OwnPools
    <3> QED
      BY <3>2, <3>4, <2>1 DEF OwnIn
  <2>13. Refusal'
    BY <2>1
  <2> QED
    BY <2>8, <2>9, <2>11, <2>12, <2>13
<1>2. ASSUME NEW c \in Producer, PushCheckStart(c) PROVE Places'
  <2>1. /\ pc[c] = "check" /\ pc' = [pc EXCEPT ![c] = IF start THEN "insert" ELSE "refused"]
        /\ hand' = IF start THEN hand ELSE [hand EXCEPT ![c] = NoBuff]
        /\ lvl' = IF start THEN [lvl EXCEPT ![c] = prio[hand[c]]] ELSE lvl
        /\ UNCHANGED <<pool, heap, prio, queue, tpc, tbuf, serving, start, spc>>
    BY <1>2 DEF PushCheckStart, buffVars, thrVars, stopVars
  <2>2. \A d \in Producer : hand'[d] = hand[d] \/ hand'[d] = NoBuff
    BY <2>1
  <2>3. Apart'
    BY <2>1, <2>2 DEF Apart, InPool, Queued, QueuedIn, Held
  <2>4. Once'
    BY <2>1, <2>2 DEF Once, OnceIn
  <2>5. Hands' /\ Refusal'
    BY <2>1
  <2>6. OwnPools' /\ OwnIn(queue, prio)'
    BY <2>1 DEF OwnPools, OwnIn
  <2> QED
    BY <2>3, <2>4, <2>5, <2>6
<1>3. ASSUME NEW c \in Producer, PushInsert(c) PROVE Places'
  <2> DEFINE x == hand[c]  p == lvl[c]
  <2>1. /\ pc[c] = "insert" /\ pc' = [pc EXCEPT ![c] = "update"]
        /\ hand' = [hand EXCEPT ![c] = NoBuff]
        /\ queue' = [queue EXCEPT ![p] = Append(@, x)]
        /\ UNCHANGED <<pool, heap, prio, mode, lvl, tpc, tbuf, serving, start, spc>>
    BY <1>3 DEF PushInsert, buffVars, thrVars, stopVars
  <2>2. x \in Buff /\ p \in Pri /\ Held(x) /\ p = prio[x] /\ queue \in [Pri -> Seq(Buff)]
    BY <2>1 DEF Held
  <2>3. ~InPool(x) /\ x \notin heap /\ ~Queued(x) /\ tbuf # x
    BY <2>2 DEF Apart
  <2>4. /\ \A b \in Buff : Queued(b)' <=> Queued(b) \/ b = x
        /\ OnceIn(queue') /\ OwnIn(queue', prio)
    <3> HIDE DEF x, p
    <3>1. /\ x \in Buff /\ p \in Pri /\ prio[x] = p /\ queue \in [Pri -> Seq(Buff)]
          /\ ~QueuedIn(queue, x) /\ OnceIn(queue) /\ OwnIn(queue, prio)
      BY <2>2, <2>3 DEF Queued, Once
    <3>2. queue'[p] = Append(queue[p], x) /\ \A o \in Pri : o # p => queue'[o] = queue[o]
      BY <2>1, <2>2
    <3>3. /\ \A b \in Buff : QueuedIn(queue', b) <=> QueuedIn(queue, b) \/ b = x
          /\ OnceIn(queue') /\ OwnIn(queue', prio)
      BY ONLY <3>1, <3>2, InsertItems
    <3> QED
      BY <3>3 DEF Queued
  <2>5. \A b \in Buff : Held(b)' => Held(b) /\ b # x
    BY <2>1, <2>2 DEF Held, Once
  <2>6. Apart'
    BY <2>1, <2>2, <2>3, <2>4, <2>5 DEF Apart, InPool
  <2>7. Once'
    BY <2>1, <2>4 DEF Once
  <2>8. Hands' /\ Refusal'
    BY <2>1
  <2>9. OwnPools' /\ OwnIn(queue, prio)'
    BY <2>1, <2>4 DEF OwnPools
  <2> QED
    BY <2>6, <2>7, <2>8, <2>9
<1>4. ASSUME NEW c \in Producer, UpdateTransmitQueue(c) \/ TransmitActive(c) PROVE Places'
  <2>1. /\ pc[c] \in {"update", "active"} /\ pc' \in {[pc EXCEPT ![c] = "active"], [pc EXCEPT ![c] = "idle"]}
        /\ lvl' \in {lvl, [lvl EXCEPT ![c] = 0]}
        /\ UNCHANGED <<pool, heap, prio, queue, hand, tpc, tbuf, serving, start, spc>>
    BY <1>4 DEF UpdateTransmitQueue, TransmitActive, buffVars, thrVars, stopVars
  <2>2. DOMAIN pc = Producer /\ DOMAIN lvl = Producer
    OBVIOUS
  <2>3. \A d \in Producer : \/ pc'[d] = pc[d] /\ lvl'[d] = lvl[d]
                            \/ d = c /\ pc'[d] \in {"active", "idle"}
    <3>1. \A d \in Producer \ {c} : pc'[d] = pc[d] /\ lvl'[d] = lvl[d]
      BY ONLY <2>1, <2>2
    <3>2. pc'[c] \in {"active", "idle"}
      BY ONLY <2>1, <2>2
    <3> QED
      BY <3>1, <3>2
  <2>4. hand[c] = NoBuff
    BY <2>1
  <2>5. \A d \in Producer : (pc'[d] = "refused" <=> pc[d] = "refused")
    BY ONLY <2>1, <2>3
  <2>6. Refusal'
    BY <2>1, <2>5
  <2>7. Hands'
    BY <2>1, <2>3, <2>4
  <2> QED
    BY <2>1, <2>6, <2>7, Still
<1>5. CASE HandlePop
  <2>1. /\ tpc = "pop" /\ ptr \in Pri /\ queue[ptr] \in Seq(Buff) /\ tbuf = NoBuff
        /\ UNCHANGED <<pool, heap, prio, pc, hand, lvl, serving, start, spc>>
    BY <1>5 DEF HandlePop, PollPtr, buffVars, prodVars, stopVars
  <2>2. CASE queue[ptr] = << >>
    <3>1. tpc' = "settle" /\ UNCHANGED <<queue, tbuf>>
      BY <1>5, <2>2 DEF HandlePop
    <3>2. Hands' /\ Refusal'
      BY <2>1, <3>1
    <3> QED
      BY <2>1, <3>1, <3>2, Still
  <2>3. CASE queue[ptr] # << >>
    <3>1. tbuf' = Head(queue[ptr]) /\ tpc' = "send" /\ queue' = [queue EXCEPT ![ptr] = Tail(@)]
      BY <1>5, <2>1, <2>3 DEF HandlePop
    <3>2. /\ tbuf' \in Buff /\ Queued(tbuf')
          /\ \A b \in Buff : Queued(b)' <=> Queued(b) /\ b # tbuf'
          /\ OnceIn(queue') /\ OwnIn(queue', prio)
      <4>1. OnceIn(queue) /\ OwnIn(queue, prio) /\ queue \in [Pri -> Seq(Buff)]
        BY DEF Once
      <4>2. queue'[ptr] = Tail(queue[ptr]) /\ \A o \in Pri : o # ptr => queue'[o] = queue[o]
        BY <2>1, <3>1
      <4>3. /\ Head(queue[ptr]) \in Buff /\ QueuedIn(queue, Head(queue[ptr]))
            /\ \A b \in Buff : QueuedIn(queue', b) <=> QueuedIn(queue, b) /\ b # Head(queue[ptr])
            /\ OnceIn(queue') /\ OwnIn(queue', prio)
        BY ONLY <2>1, <2>3, <4>1, <4>2, RemoveItems
      <4> QED
        BY <3>1, <4>3 DEF Queued
    <3>3. Apart'
      BY <2>1, <3>2 DEF Apart, InPool, Held
    <3>4. Once'
      BY <2>1, <3>2 DEF Once
    <3>5. Hands' /\ Refusal'
      BY <2>1, <3>1
    <3>6. OwnPools' /\ OwnIn(queue, prio)'
      BY <2>1, <3>2 DEF OwnPools
    <3> QED
      BY <3>3, <3>4, <3>5, <3>6
  <2> QED
    BY <2>2, <2>3
<1>6. CASE HandleRelease
  <2>1. /\ tpc = "release" /\ tpc' = "settle" /\ tbuf \in Buff /\ tbuf' = NoBuff
        /\ UNCHANGED <<heap, prio, queue, pc, hand, lvl, serving, start, spc>>
        /\ pool' = [pool EXCEPT ![PoolOf(tbuf)] = @ \cup {tbuf}]
    BY <1>6 DEF HandleRelease, prodVars, stopVars
  <2>2. prio[tbuf] \in Pri /\ PoolOf(tbuf) = prio[tbuf]
    BY <2>1 DEF PoolOf, Pri
  <2>3. \A b \in Buff : InPool(b)' => InPool(b) \/ b = tbuf
    BY <2>1, <2>2 DEF InPool
  <2>4. ~InPool(tbuf) /\ tbuf \notin heap /\ ~Queued(tbuf) /\ ~Held(tbuf)
    BY <2>1 DEF Apart
  <2>5. Apart'
    BY <2>1, <2>3, <2>4 DEF Apart, Queued, QueuedIn, Held
  <2>6. Once' /\ Hands' /\ Refusal'
    BY <2>1 DEF Once, OnceIn
  <2>7. OwnPools' /\ OwnIn(queue, prio)'
    BY <2>1, <2>2 DEF OwnPools, OwnIn
  <2> QED
    BY <2>5, <2>6, <2>7
<1>7. CASE StopDrain
  <2>1. /\ spc = "drain" /\ spc' = "stopped" /\ queue' = [p \in Pri |-> << >>]
        /\ UNCHANGED <<heap, prio, pc, hand, lvl, tpc, tbuf, serving, start>>
    BY <1>7 DEF StopDrain, prodVars, thrVars
  <2>2. \A p \in Pri, b \in Buff : b \in pool'[p] <=> b \in pool[p] \/ (prio[b] = p /\ Queued(b))
    BY <1>7 DEF StopDrain, Queued, QueuedIn
  <2>3. \A b \in Buff : ~Queued(b)' /\ (InPool(b)' => InPool(b) \/ Queued(b))
    BY <2>1, <2>2 DEF Queued, QueuedIn, InPool
  <2>4. Apart'
    BY <2>1, <2>3 DEF Apart, Held
  <2>5. Once' /\ Hands' /\ Refusal'
    BY <2>1 DEF Once, OnceIn
  <2>6. OwnPools' /\ OwnIn(queue, prio)'
    BY <2>1, <2>2 DEF OwnPools, OwnIn
  <2> QED
    BY <2>4, <2>5, <2>6
<1>8. ASSUME \/ ThreadLoop \/ ThreadWake \/ PollLock \/ HandleSend \/ PollSettle
             \/ StopServer \/ StopTransmit \/ StopSignal \/ StopJoin \/ UNCHANGED vars
      PROVE  Places'
  <2>1. UNCHANGED <<pool, heap, prio, queue, pc, hand, lvl, tbuf>>
    BY <1>8 DEF ThreadLoop, ThreadWake, PollLock, HandleSend, PollSettle, StopServer, StopTransmit,
                StopSignal, StopJoin, vars, buffVars, prodVars, thrVars, stopVars
  <2>2. tpc' \notin {"send", "release", "dead"} => tpc \notin {"send", "release", "dead"}
    BY <1>8 DEF ThreadLoop, ThreadWake, PollLock, HandleSend, PollSettle, StopServer, StopTransmit,
                StopSignal, StopJoin, vars, thrVars
  <2>3. Hands'
    BY <2>1, <2>2
  <2>4. Refusal'
    BY <1>8, <2>1 DEF ThreadLoop, ThreadWake, PollLock, HandleSend, PollSettle, StopServer, StopTransmit,
                      StopSignal, StopJoin, vars, stopVars
  <2> QED
    BY <2>1, <2>3, <2>4, Still
<1>9. QED
  BY <1>1, <1>2, <1>3, <1>4, <1>5, <1>6, <1>7, <1>8 DEF Next, Push, Thread, Stop

-----------------------------------------------------------------------------
(* A step after which whatever was somewhere is somewhere... *)
LEMMA NoneLost ==
  ASSUME Leak, \A b \in Buff : Placed(b) => Placed(b)', Refused' = Refused
  PROVE  Leak'
<1>1. Lost' \subseteq Lost
  BY DEF Lost
<1>2. IsFiniteSet(Lost') /\ Cardinality(Lost') <= Cardinality(Lost)
  BY <1>1, FS_Subset DEF Leak
<1>3. Cardinality(Lost') \in Nat /\ Cardinality(Lost) \in Nat /\ Cardinality(Refused) \in Nat
  BY <1>2, FS_CardinalityType DEF Leak
<1> HIDE DEF Lost, Refused
<1> QED
  BY <1>2, <1>3 DEF Leak

(* ... and the one that refuses a push, and loses what it had. *)
LEMMA OneLost ==
  ASSUME Leak, NEW c \in Producer, c \notin Refused, Refused' = Refused \cup {c},
         NEW x, \A b \in Buff : Placed(b) /\ b # x => Placed(b)'
  PROVE  Leak'
<1> DEFINE more == Lost \cup {x}
<1>1. Lost' \subseteq more
  BY DEF Lost
<1>2. IsFiniteSet(more) /\ Cardinality(more) <= Cardinality(Lost) + 1
  <2>1. IsFiniteSet(Lost) /\ Cardinality(Lost) \in Nat
    BY FS_CardinalityType DEF Leak
  <2> HIDE DEF Lost
  <2>2. /\ IsFiniteSet(more)
        /\ Cardinality(more) = IF x \in Lost THEN Cardinality(Lost) ELSE Cardinality(Lost) + 1
    BY <2>1, FS_AddElement
  <2> HIDE DEF more
  <2> QED
    BY <2>1, <2>2
<1>3. IsFiniteSet(Lost') /\ Cardinality(Lost') <= Cardinality(more)
  BY <1>1, <1>2, FS_Subset
<1>4. IsFiniteSet(Refused') /\ Cardinality(Refused') = Cardinality(Refused) + 1
  BY FS_AddElement DEF Leak
<1>5. /\ Cardinality(Lost') \in Nat /\ Cardinality(more) \in Nat
      /\ Cardinality(Lost) \in Nat /\ Cardinality(Refused) \in Nat
  BY <1>2, <1>3, FS_CardinalityType DEF Leak
<1> HIDE DEF more, Lost, Refused
<1> QED
  BY <1>2, <1>3, <1>4, <1>5 DEF Leak

LEMMA NextLeak == Control /\ Kept /\ [Next]_vars => Leak'
<1> SUFFICES ASSUME Control, Places, Leak, [Next]_vars PROVE Leak'
  BY DEF Kept
<1>0. /\ pool \in [Pri -> SUBSET Buff] /\ queue \in [Pri -> Seq(Buff)] /\ prio \in [Buff -> Pri]
      /\ DOMAIN pc = Producer /\ DOMAIN hand = Producer /\ HasBuff /\ Hands /\ Refusal
      /\ ptr \in Pri \cup {NoQueue} /\ lvl \in [Producer -> Pri]
  BY DEF Control, TypeOK, Places
<1>1. ASSUME NEW c \in Producer, Produce(c) PROVE Leak'
  <2> PICK p \in Pri, publish \in BOOLEAN : AcquireTransmitBuff(c, p, publish)
    BY <1>1 DEF Produce
  <2>1. /\ pc[c] \in Outside /\ serving /\ pc' = [pc EXCEPT ![c] = "check"]
        /\ UNCHANGED <<queue, tbuf>>
    BY DEF AcquireTransmitBuff, thrVars
  <2> PICK x \in Buff :
         /\ \/ /\ x \in pool[p] /\ pool' = [pool EXCEPT ![p] = @ \ {x}]
               /\ UNCHANGED <<heap, prio>>
            \/ /\ x \in heap /\ heap' = heap \ {x}
               /\ prio' = [prio EXCEPT ![x] = p] /\ UNCHANGED pool
         /\ hand' = [hand EXCEPT ![c] = x]
    BY DEF AcquireTransmitBuff
  <2>2. Refused = {} /\ Refused' = {}
    BY <1>0, <2>1 DEF Refusal, Refused
  <2>3. hand[c] = NoBuff
    BY <1>0, <2>1 DEF Hands, Outside
  <2>4. \A b \in Buff : (Held(b) => Held(b)') /\ (b = x => Held(b)')
    BY <1>0, <2>3, BuffAssumption DEF Held
  <2>5. \A b \in Buff : (b # x /\ InPool(b) => InPool(b)') /\ (b # x /\ b \in heap => b \in heap')
    <3>1. \A q \in Pri : pool[q] \ {x} \subseteq pool'[q]
      BY <1>0
    <3> QED
      BY <3>1 DEF InPool
  <2>6. \A b \in Buff : Queued(b)' <=> Queued(b)
    BY <2>1 DEF Queued, QueuedIn
  <2> QED
    BY <2>1, <2>2, <2>4, <2>5, <2>6, NoneLost DEF Placed
<1>2. ASSUME NEW c \in Producer, PushCheckStart(c) PROVE Leak'
  <2>1. /\ pc[c] = "check" /\ pc' = [pc EXCEPT ![c] = IF start THEN "insert" ELSE "refused"]
        /\ hand' = IF start THEN hand ELSE [hand EXCEPT ![c] = NoBuff]
        /\ UNCHANGED <<pool, heap, queue, tbuf>>
    BY <1>2 DEF PushCheckStart, buffVars, thrVars
  <2>2. CASE start
    <3>1. Refused' = Refused
      BY <1>0, <2>1, <2>2 DEF Refused
    <3> QED
      BY <2>1, <2>2, <3>1, NoneLost DEF Placed, InPool, Queued, QueuedIn, Held
  <2>3. CASE ~start
    <3>1. c \notin Refused /\ Refused' = Refused \cup {c}
      BY <1>0, <2>1, <2>3 DEF Refused
    <3>2. \A b \in Buff : Placed(b) /\ b # hand[c] => Placed(b)'
      BY <1>0, <2>1, <2>3 DEF Placed, InPool, Queued, QueuedIn, Held
    <3> QED
      BY <3>1, <3>2, OneLost
  <2> QED
    BY <2>2, <2>3
<1>3. ASSUME NEW c \in Producer, PushInsert(c) PROVE Leak'
  <2>1. /\ pc[c] = "insert" /\ pc' = [pc EXCEPT ![c] = "update"]
        /\ hand' = [hand EXCEPT ![c] = NoBuff]
        /\ queue' = [queue EXCEPT ![lvl[c]] = Append(@, hand[c])]
        /\ UNCHANGED <<pool, heap, tbuf>>
    BY <1>3 DEF PushInsert, buffVars, thrVars
  <2>2. hand[c] \in Buff /\ lvl[c] \in Pri
    BY <1>0, <2>1 DEF HasBuff
  <2>3. Refused' = Refused
    BY <1>0, <2>1 DEF Refused
  <2>4. \A b \in Buff : Queued(b) \/ b = hand[c] => Queued(b)'
    <3> DEFINE s == queue[lvl[c]]
    <3>1. s \in Seq(Buff)
      BY <1>0, <2>2
    <3>2. queue'[lvl[c]] = Append(s, hand[c]) /\ \A p \in Pri : p # lvl[c] => queue'[p] = queue[p]
      BY <1>0, <2>1, <2>2
    <3>3. /\ \A k \in 1 .. Len(s) : k \in 1 .. Len(Append(s, hand[c])) /\ Append(s, hand[c])[k] = s[k]
          /\ Append(s, hand[c])[Len(s) + 1] = hand[c] /\ Len(s) + 1 \in 1 .. Len(Append(s, hand[c]))
      BY <2>2, <3>1, AppendItems
    <3>4. ASSUME NEW b \in Buff, b = hand[c] PROVE Queued(b)'
      BY <2>2, <3>2, <3>3, <3>4 DEF Queued, QueuedIn
    <3>5. ASSUME NEW b \in Buff, Queued(b) PROVE Queued(b)'
      <4> PICK p \in Pri : \E k \in 1 .. Len(queue[p]) : queue[p][k] = b
        BY <3>5 DEF Queued, QueuedIn
      <4>1. CASE p = lvl[c]
        BY <2>2, <3>2, <3>3, <4>1 DEF Queued, QueuedIn
      <4>2. CASE p # lvl[c]
        BY <3>2, <4>2 DEF Queued, QueuedIn
      <4> QED
        BY <4>1, <4>2
    <3> QED
      BY <3>4, <3>5
  <2>5. \A b \in Buff : Held(b) /\ b # hand[c] => Held(b)'
    BY <1>0, <2>1 DEF Held
  <2> QED
    BY <2>1, <2>3, <2>4, <2>5, NoneLost DEF Placed, InPool
<1>4. CASE HandlePop
  <2>1. /\ ptr \in Pri /\ queue[ptr] \in Seq(Buff) /\ tbuf = NoBuff
        /\ UNCHANGED <<pool, heap, pc, hand>>
    BY <1>0, <1>4 DEF HandlePop, PollPtr, buffVars, prodVars, Hands, Control
  <2>2. \A b \in Buff : Queued(b) => Queued(b)' \/ tbuf' = b
    <3>1. CASE queue[ptr] = << >>
      BY <1>4, <3>1 DEF HandlePop, Queued, QueuedIn
    <3>2. CASE queue[ptr] # << >>
      <4>1. tbuf' = Head(queue[ptr]) /\ queue' = [queue EXCEPT ![ptr] = Tail(@)]
        BY <1>4, <2>1, <3>2 DEF HandlePop
      <4>2. queue'[ptr] = Tail(queue[ptr]) /\ \A p \in Pri : p # ptr => queue'[p] = queue[p]
        BY <1>0, <2>1, <4>1
      <4> DEFINE s == queue[ptr]
      <4>3. /\ Head(s) = s[1]
            /\ \A k \in 1 .. Len(s) : k = 1 \/ (k - 1 \in 1 .. Len(Tail(s)) /\ Tail(s)[k - 1] = s[k])
        BY <2>1, <3>2, TailItems
      <4>4. ASSUME NEW b \in Buff, Queued(b), tbuf' # b PROVE Queued(b)'
        <5> PICK p \in Pri : \E k \in 1 .. Len(queue[p]) : queue[p][k] = b
          BY <4>4 DEF Queued, QueuedIn
        <5>1. CASE p = ptr
          <6>1. \E k \in 1 .. Len(Tail(s)) : Tail(s)[k] = b
            BY <4>1, <4>3, <4>4, <5>1
          <6> QED
            BY <2>1, <4>2, <6>1 DEF Queued, QueuedIn
        <5>2. CASE p # ptr
          BY <4>2, <5>2 DEF Queued, QueuedIn
        <5> QED
          BY <5>1, <5>2
      <4> QED
        BY <4>4
    <3> QED
      BY <3>1, <3>2
  <2> QED
    BY <2>1, <2>2, BuffAssumption, NoneLost DEF Placed, InPool, Held, Refused
<1>5. CASE HandleRelease
  <2>1. /\ tbuf \in Buff /\ UNCHANGED <<heap, queue, pc, hand>>
        /\ pool' = [pool EXCEPT ![PoolOf(tbuf)] = @ \cup {tbuf}] /\ PoolOf(tbuf) \in Pri
    BY <1>0, <1>5, PriAssumption DEF HandleRelease, prodVars, stopVars, HasBuff, PoolOf, Pri
  <2>2. \A b \in Buff : InPool(b) \/ b = tbuf => InPool(b)'
    BY <1>0, <2>1 DEF InPool
  <2> QED
    BY <2>1, <2>2, NoneLost DEF Placed, Queued, QueuedIn, Held, Refused
<1>6. CASE StopDrain
  <2>1. UNCHANGED <<heap, pc, hand, tbuf>>
    BY <1>6 DEF StopDrain, prodVars, thrVars
  <2>2. \A p \in Pri, b \in Buff : b \in pool'[p] <=> b \in pool[p] \/ (prio[b] = p /\ Queued(b))
    BY <1>6 DEF StopDrain, Queued, QueuedIn
  <2>3. \A b \in Buff : InPool(b) \/ Queued(b) => InPool(b)'
    BY <1>0, <2>2 DEF InPool
  <2> QED
    BY <2>1, <2>3, NoneLost DEF Placed, Held, Refused
<1>7. ASSUME NEW c \in Producer, UpdateTransmitQueue(c) \/ TransmitActive(c) PROVE Leak'
  <2>1. /\ pc[c] \in {"update", "active"} /\ pc' \in {[pc EXCEPT ![c] = "active"], [pc EXCEPT ![c] = "idle"]}
        /\ UNCHANGED <<pool, heap, prio, queue, hand, tbuf>>
    BY <1>7 DEF UpdateTransmitQueue, TransmitActive, buffVars, thrVars
  <2>2. Refused' = Refused
    BY <1>0, <2>1 DEF Refused
  <2> QED
    BY <2>1, <2>2, NoneLost DEF Placed, InPool, Queued, QueuedIn, Held
<1>8. ASSUME \/ ThreadLoop \/ ThreadWake \/ PollLock \/ HandleSend \/ PollSettle
             \/ StopServer \/ StopTransmit \/ StopSignal \/ StopJoin \/ UNCHANGED vars
      PROVE  Leak'
  <2>1. UNCHANGED <<pool, heap, prio, queue, pc, hand, tbuf>>
    BY <1>8 DEF ThreadLoop, ThreadWake, PollLock, HandleSend, PollSettle, StopServer, StopTransmit,
                StopSignal, StopJoin, vars, buffVars, prodVars, thrVars, stopVars
  <2> QED
    BY <2>1, NoneLost DEF Placed, InPool, Queued, QueuedIn, Held, Refused
<1> QED
  BY <1>1, <1>2, <1>3, <1>4, <1>5, <1>6, <1>7, <1>8 DEF Next, Push, Thread, Stop

-----------------------------------------------------------------------------
(* What the places say of Owners, which counts them.                       *)

LEMMA OwnersPlaced ==
  ASSUME TypeOK, Places, NEW b \in Buff
  PROVE  /\ \A o1, o2 \in Owners(b) : o1 = o2
         /\ Owners(b) = {} <=> ~Placed(b)
<1> DEFINE inPool   == {<<"pool", p, 0>> : p \in {q \in Pri : b \in pool[q]}}
           inHeap   == IF b \in heap THEN {<<"heap", 0, 0>>} ELSE {}
           inQueues == UNION {{<<"queue", p, i>> : i \in {j \in 1 .. Len(queue[p]) : queue[p][j] = b}} : p \in Pri}
           inHand   == {<<"hand", c, 0>> : c \in {d \in Producer : hand[d] = b}}
           inThread == IF tbuf = b THEN {<<"thread", 0, 0>>} ELSE {}
<1>1. Owners(b) = inPool \cup inHeap \cup inQueues \cup inHand \cup inThread
  BY DEF Owners
<1>2. (\A o1, o2 \in inPool : o1 = o2) /\ (inPool = {} <=> ~InPool(b))
  BY DEF Places, OwnPools, InPool
<1>3. (\A o1, o2 \in inHeap : o1 = o2) /\ (inHeap = {} <=> b \notin heap)
  OBVIOUS
<1>4. (\A o1, o2 \in inQueues : o1 = o2) /\ (inQueues = {} <=> ~Queued(b))
  <2>1. \A o : o \in inQueues <=> \E p \in Pri : \E i \in 1 .. Len(queue[p]) : queue[p][i] = b /\ o = <<"queue", p, i>>
    OBVIOUS
  <2>2. \A p \in Pri : \A i \in 1 .. Len(queue[p]) : queue[p][i] = b => p = prio[b]
    BY DEF Places, OwnIn
  <2>3. \A p \in Pri : \A i, j \in 1 .. Len(queue[p]) : queue[p][i] = b /\ queue[p][j] = b => i = j
    BY DEF Places, Once, OnceIn
  <2> HIDE DEF inQueues
  <2>4. \A o1, o2 \in inQueues : o1 = o2
    BY <2>1, <2>2, <2>3
  <2>5. inQueues = {} <=> ~Queued(b)
    BY <2>1 DEF Queued, QueuedIn
  <2> QED
    BY <2>4, <2>5
<1>5. (\A o1, o2 \in inHand : o1 = o2) /\ (inHand = {} <=> ~Held(b))
  <2>1. \A c, d \in Producer : hand[c] = b /\ hand[d] = b => c = d
    BY BuffAssumption DEF Places, Once
  <2> QED
    BY <2>1 DEF Held
<1>6. (\A o1, o2 \in inThread : o1 = o2) /\ (inThread = {} <=> tbuf # b)
  OBVIOUS
<1>7. /\ InPool(b) => b \notin heap /\ ~Queued(b) /\ ~Held(b) /\ tbuf # b
      /\ b \in heap => ~Queued(b) /\ ~Held(b) /\ tbuf # b
      /\ Queued(b) => ~Held(b) /\ tbuf # b
      /\ Held(b) => tbuf # b
  BY DEF Places, Apart
<1> HIDE DEF inPool, inHeap, inQueues, inHand, inThread
<1>8. \A o1, o2 \in Owners(b) : o1 = o2
  BY <1>1, <1>2, <1>3, <1>4, <1>5, <1>6, <1>7
<1>9. Owners(b) = {} <=> ~Placed(b)
  BY <1>1, <1>2, <1>3, <1>4, <1>5, <1>6 DEF Placed
<1> QED
  BY <1>8, <1>9

LEMMA KeptBuffers == TypeOK /\ Kept => BuffersKept
<1> SUFFICES ASSUME TypeOK, Kept PROVE BuffersKept
  OBVIOUS
<1>1. OneOwner
  BY OwnersPlaced, AtMostOne DEF OneOwner, Kept
<1>2. StopLeak
  <2>1. {b \in Buff : Owners(b) = {}} = Lost
    BY OwnersPlaced DEF Kept, Lost
  <2> QED
    BY <2>1 DEF StopLeak, Kept, Leak, Refused
<1>3. OwnPriority
  BY DEF OwnPriority, Kept, Places, OwnPools, OwnIn, TypeOK
<1> QED
  BY <1>1, <1>2, <1>3 DEF BuffersKept

(* However publishers, transmit thread and stop interleave, no buffer is   *)
(* in two places, one is lost for every push that came too late at most,   *)
(* and each waits and is freed under its own priority: the intrusive list  *)
(* of tls_buff_t is never corrupted, whatever the numbers of publishers,   *)
(* buffers and priorities.                                                 *)
THEOREM BuffersAreKept == Spec => []BuffersKept
<1>1. Spec => []Control
  BY InitControl, NextControl, PTL DEF Spec
<1>2. Control /\ Control' /\ Kept /\ [Next]_vars => Kept'
  BY NextPlaces, NextLeak DEF Kept
<1>3. Control /\ Kept => BuffersKept
  BY KeptBuffers DEF Control
<1> QED
  BY InitKept, <1>1, <1>2, <1>3, PTL DEF Spec
=============================================================================
