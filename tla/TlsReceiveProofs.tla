-------------------------- MODULE TlsReceiveProofs -------------------------
(***************************************************************************)
(* The receive path, for every number of receive buffers: BuffersKept and  *)
(* StrandedOnlyLate hold in every state, and every step is one of the      *)
(* mailbox TlsOutbox or leaves it unchanged.                               *)
(*                                                                         *)
(* BuffersKept alone is not inductive: that the pool is complete when the  *)
(* server is down depends on both threads having ended before the drain    *)
(* (Ended).  For StrandedOnlyLate the event has to be followed through the *)
(* worker's loop: it is up from the wakeup to the reset (EventUp), and     *)
(* what is in the list while the worker is about to clear it is late.      *)
(***************************************************************************)
EXTENDS TlsReceive, FiniteSetTheorems, TLAPS

(* The items of a queue after an insertion at the tail... *)
LEMMA AppendItems ==
  ASSUME NEW S, NEW s \in Seq(S), NEW e \in S
  PROVE  /\ Len(Append(s, e)) = Len(s) + 1 /\ Len(s) \in Nat
         /\ \A k \in 1 .. Len(s) : k \in 1 .. Len(Append(s, e)) /\ Append(s, e)[k] = s[k]
         /\ Append(s, e)[Len(s) + 1] = e
         /\ \A k \in 1 .. Len(Append(s, e)) : k \in 1 .. Len(s) \/ k = Len(s) + 1
  OBVIOUS

(* ... and after a removal from the head. *)
LEMMA TailItems ==
  ASSUME NEW S, NEW s \in Seq(S), s # << >>
  PROVE  /\ 1 \in 1 .. Len(s) /\ Head(s) = s[1] /\ Head(s) \in S
         /\ \A k \in 1 .. Len(Tail(s)) :
              k \in Nat /\ k + 1 \in 1 .. Len(s) /\ k + 1 # 1 /\ Tail(s)[k] = s[k + 1]
         /\ \A k \in 1 .. Len(s) : k = 1 \/ (k - 1 \in 1 .. Len(Tail(s)) /\ Tail(s)[k - 1] = s[k])
  OBVIOUS

(* A set whose elements are all the same. *)
LEMMA ExactlyOne ==
  ASSUME NEW S, \A o1, o2 \in S : o1 = o2, S # {}
  PROVE  Cardinality(S) = 1
<1>1. PICK o : o \in S
  OBVIOUS
<1>2. S = {o}
  BY <1>1
<1>3. Cardinality({o}) = 1
  BY FS_Singleton
<1> QED
  BY <1>2, <1>3

In(b) == \E k \in 1 .. Len(queue) : queue[k] = b

(* Every buffer is in one of five places... *)
Somewhere == \A b \in Buff : b \in pool \/ b \in heap \/ In(b) \/ rbuf = b \/ wbuf = b

(* ... not in two of them, and not twice in the list. *)
Apart == \A b \in Buff :
           /\ b \in pool => b \notin heap /\ ~In(b) /\ rbuf # b /\ wbuf # b
           /\ b \in heap => ~In(b) /\ rbuf # b /\ wbuf # b
           /\ In(b) => rbuf # b /\ wbuf # b
           /\ rbuf = b => wbuf # b
Once  == \A k, l \in 1 .. Len(queue) : queue[k] = queue[l] => k = l

(* What the stop sequence has behind it. *)
Ended == /\ spc = "starting" <=> wpc = "off"
         /\ spc \in {"socket", "receive", "joinreceive", "drain", "down"} => wpc \in {"exit", "dead"}
         /\ wpc = "dead" => spc \in {"socket", "receive", "joinreceive", "drain", "down"}
         /\ spc \in {"drain", "down"} => rpc = "exit"
         /\ spc = "down" => queue = << >>
         /\ serving <=> spc \in {"starting", "running"}

Kept == TypeOK /\ Somewhere /\ Apart /\ Once /\ Ended

(* The event is up while the worker handles what it was set for... *)
EventUp == serving /\ wpc \in {"pop", "handle", "release", "deactive", "reset"} => evt

(* ... and a datagram that waits has it set, or is about to, or is late. *)
AllLate   == \A k \in 1 .. Len(queue) : queue[k] \in late
Announced == /\ serving /\ wpc \in {"deactive", "reset"} => AllLate
             /\ serving /\ ~evt /\ rpc \notin {"active", "signal"} /\ wpc \in {"loop", "wait"} => AllLate

IInv == Kept /\ EventUp /\ Announced

-----------------------------------------------------------------------------
LEMMA InitInv == Init => IInv
<1> SUFFICES ASSUME Init PROVE IInv
  OBVIOUS
<1> USE BuffAssumption, PoolAssumption DEF Init
<1>1. TypeOK
  <2>1. << >> \in Seq(Buff) /\ pool \in SUBSET Buff /\ heap \in SUBSET Buff
    OBVIOUS
  <2>2. rbuf = NoBuff /\ wbuf = NoBuff /\ late \in SUBSET Buff
    OBVIOUS
  <2> QED
    BY <2>1, <2>2 DEF TypeOK
<1>2. Somewhere /\ Apart /\ Once /\ Ended
  BY DEF Somewhere, Apart, Once, Ended, In
<1>3. EventUp /\ Announced
  BY DEF EventUp, Announced
<1> QED
  BY <1>1, <1>2, <1>3 DEF IInv, Kept

(* What a push and a pop do to the list. *)
LEMMA PushItems ==
  ASSUME TypeOK, ReceivePush
  PROVE  /\ rbuf \in Buff /\ queue' \in Seq(Buff)
         /\ \A b \in Buff : In(b)' <=> In(b) \/ b = rbuf
         /\ ~In(rbuf) /\ Once => Once'
         /\ AllLate /\ wpc \in {"deactive", "reset"} => AllLate'
<1>1. /\ queue \in Seq(Buff) /\ rbuf \in Buff /\ queue' = Append(queue, rbuf)
      /\ late' = IF wpc \in {"deactive", "reset"} THEN late \cup {rbuf} ELSE late
  BY DEF TypeOK, ReceivePush
<1> DEFINE q == queue'
<1>2. /\ Len(q) = Len(queue) + 1 /\ Len(queue) \in Nat
      /\ \A k \in 1 .. Len(queue) : k \in 1 .. Len(q) /\ q[k] = queue[k]
      /\ q[Len(queue) + 1] = rbuf
      /\ \A k \in 1 .. Len(q) : k \in 1 .. Len(queue) \/ k = Len(queue) + 1
  BY <1>1, AppendItems
<1>3. Len(queue) + 1 \in 1 .. Len(q) /\ q \in Seq(Buff)
  BY <1>1, <1>2
<1> HIDE DEF q
<1>4. \A b \in Buff : (\E k \in 1 .. Len(q) : q[k] = b) <=> (\E k \in 1 .. Len(queue) : queue[k] = b) \/ b = rbuf
  BY <1>2, <1>3
<1>5. ASSUME ~In(rbuf), Once PROVE \A k, l \in 1 .. Len(q) : q[k] = q[l] => k = l
  <2>1. \A k \in 1 .. Len(queue) : queue[k] # rbuf
    BY <1>5 DEF In
  <2> QED
    BY <1>2, <1>5, <2>1 DEF Once
<1>6. ASSUME AllLate, wpc \in {"deactive", "reset"} PROVE \A k \in 1 .. Len(q) : q[k] \in late'
  BY <1>1, <1>2, <1>6 DEF AllLate
<1> QED
  BY <1>1, <1>3, <1>4, <1>5, <1>6 DEF In, Once, AllLate, q

LEMMA PopItems ==
  ASSUME TypeOK, WorkPop, queue # << >>
  PROVE  /\ wbuf' \in Buff /\ In(wbuf') /\ queue' \in Seq(Buff)
         /\ Once => \A b \in Buff : In(b)' <=> In(b) /\ b # wbuf'
         /\ Once => Once'
<1>1. queue \in Seq(Buff) /\ wbuf' = Head(queue) /\ queue' = Tail(queue)
  BY DEF TypeOK, WorkPop, AfterPop
<1> DEFINE q == queue'  x == wbuf'
<1>2. /\ 1 \in 1 .. Len(queue) /\ x = queue[1] /\ x \in Buff
      /\ \A k \in 1 .. Len(q) : k \in Nat /\ k + 1 \in 1 .. Len(queue) /\ k + 1 # 1 /\ q[k] = queue[k + 1]
      /\ \A k \in 1 .. Len(queue) : k = 1 \/ (k - 1 \in 1 .. Len(q) /\ q[k - 1] = queue[k])
  BY <1>1, TailItems
<1>3. q \in Seq(Buff)
  BY <1>1
<1>4. \E k \in 1 .. Len(queue) : queue[k] = x
  BY <1>2
<1> HIDE DEF q, x
<1>5. ASSUME Once, NEW b \in Buff
      PROVE  (\E k \in 1 .. Len(q) : q[k] = b) <=> (\E k \in 1 .. Len(queue) : queue[k] = b) /\ b # x
  <2>1. ASSUME NEW k \in 1 .. Len(q), q[k] = b PROVE (\E l \in 1 .. Len(queue) : queue[l] = b) /\ b # x
    <3>1. k + 1 \in 1 .. Len(queue) /\ k + 1 # 1 /\ queue[k + 1] = b
      BY <1>2, <2>1
    <3> QED
      BY <1>2, <1>5, <3>1 DEF Once
  <2>2. ASSUME NEW k \in 1 .. Len(queue), queue[k] = b, b # x PROVE \E l \in 1 .. Len(q) : q[l] = b
    BY <1>2, <2>2
  <2> QED
    BY <2>1, <2>2
<1>6. ASSUME Once PROVE \A k, l \in 1 .. Len(q) : q[k] = q[l] => k = l
  <2> SUFFICES ASSUME NEW k \in 1 .. Len(q), NEW l \in 1 .. Len(q), q[k] = q[l] PROVE k = l
    OBVIOUS
  <2>1. k + 1 \in 1 .. Len(queue) /\ l + 1 \in 1 .. Len(queue) /\ queue[k + 1] = queue[l + 1]
    BY <1>2
  <2>2. k + 1 = l + 1
    BY <1>6, <2>1 DEF Once
  <2> QED
    BY <1>2, <2>2
<1> QED
  BY <1>2, <1>3, <1>4, <1>5, <1>6 DEF In, Once, q, x

-----------------------------------------------------------------------------
LEMMA NextKept == Kept /\ [Next]_vars => Kept'
<1> SUFFICES ASSUME Kept, [Next]_vars PROVE Kept'
  OBVIOUS
<1> USE BuffAssumption DEF Kept, rxVars, workVars, ctlVars
<1>1. CASE AcquireRecvBuff
  <2>1. TypeOK' /\ Ended'
    BY <1>1 DEF AcquireRecvBuff, TypeOK, Ended, Retry
  <2>2. rbuf = NoBuff /\ UNCHANGED <<queue, wbuf>>
    BY <1>1 DEF AcquireRecvBuff, TypeOK
  <2>3. \A b \in Buff : In(b)' <=> In(b)
    BY <2>2 DEF In
  <2>4. Somewhere' /\ Apart'
    BY <1>1, <2>2, <2>3 DEF AcquireRecvBuff, Somewhere, Apart, TypeOK
  <2> QED
    BY <2>1, <2>2, <2>4 DEF Once
<1>2. CASE ReceiveRelease
  <2>1. TypeOK' /\ Ended'
    BY <1>2 DEF ReceiveRelease, TypeOK, Ended
  <2>2. rbuf \in Buff /\ rbuf' = NoBuff /\ pool' = pool \cup {rbuf} /\ UNCHANGED <<heap, queue, wbuf>>
    BY <1>2 DEF ReceiveRelease, TypeOK
  <2>3. Somewhere' /\ Apart' /\ Once'
    BY <2>2 DEF Somewhere, Apart, Once, In
  <2> QED
    BY <2>1, <2>3
<1>3. CASE ReceivePush
  <2>1. /\ rpc = "push" /\ rpc' = "active" /\ rbuf' = NoBuff
        /\ UNCHANGED <<pool, heap, evt, wpc, wbuf, serving, bound, rrun, wrun, spc>>
    BY <1>3 DEF ReceivePush, SignalsAlways
  <2>2. /\ rbuf \in Buff /\ queue' \in Seq(Buff) /\ \A b \in Buff : In(b)' <=> In(b) \/ b = rbuf
        /\ ~In(rbuf) => Once'
    BY <1>3, PushItems
  <2>3. late' \in SUBSET Buff
    BY <1>3, <2>2 DEF ReceivePush, TypeOK
  <2>4. TypeOK'
    BY <2>1, <2>2, <2>3 DEF TypeOK
  <2>5. Ended'
    BY <2>1 DEF Ended
  <2>6. Somewhere' /\ Apart'
    BY <2>1, <2>2 DEF Somewhere, Apart
  <2>7. Once'
    BY <2>2 DEF Apart
  <2> QED
    BY <2>4, <2>5, <2>6, <2>7
<1>4. CASE WorkPop
  <2>1. CASE queue = << >>
    <3>1. UNCHANGED <<pool, heap, queue, rbuf, wbuf>> /\ TypeOK' /\ Ended'
      BY <1>4, <2>1 DEF WorkPop, TypeOK, Ended
    <3> QED
      BY <3>1 DEF Somewhere, Apart, Once, In
  <2>2. CASE queue # << >>
    <3>1. /\ wpc = "pop" /\ wpc' = "handle"
          /\ UNCHANGED <<pool, heap, evt, rpc, rbuf, serving, bound, rrun, wrun, spc, late>>
      BY <1>4, <2>2 DEF WorkPop
    <3>2. /\ wbuf' \in Buff /\ In(wbuf') /\ queue' \in Seq(Buff)
          /\ \A b \in Buff : In(b)' <=> In(b) /\ b # wbuf'
          /\ Once'
      BY <1>4, <2>2, PopItems
    <3>3. wbuf = NoBuff /\ TypeOK'
      BY <3>1, <3>2 DEF TypeOK
    <3>4. Ended'
      BY <3>1 DEF Ended
    <3>5. Somewhere' /\ Apart'
      BY <3>1, <3>2, <3>3 DEF Somewhere, Apart
    <3> QED
      BY <3>2, <3>3, <3>4, <3>5
  <2> QED
    BY <2>1, <2>2
<1>5. CASE WorkRelease
  <2>1. TypeOK' /\ Ended'
    BY <1>5 DEF WorkRelease, TypeOK, Ended
  <2>2. wbuf \in Buff /\ wbuf' = NoBuff /\ pool' = pool \cup {wbuf} /\ UNCHANGED <<heap, queue, rbuf>>
    BY <1>5 DEF WorkRelease, TypeOK
  <2>3. Somewhere' /\ Apart' /\ Once'
    BY <2>2 DEF Somewhere, Apart, Once, In
  <2> QED
    BY <2>1, <2>3
<1>6. CASE StopDrain
  <2>1. /\ pool' = pool \cup {queue[i] : i \in 1 .. Len(queue)} /\ queue' = << >>
        /\ UNCHANGED <<heap, rbuf, wbuf>>
    BY <1>6 DEF StopDrain, Drained
  <2>2. \A b \in Buff : (b \in pool' <=> b \in pool \/ In(b)) /\ ~In(b)'
    BY <2>1 DEF In
  <2>3. TypeOK'
    BY <1>6, <2>1 DEF StopDrain, TypeOK
  <2>4. Ended'
    BY <1>6 DEF StopDrain, Ended
  <2>5. Somewhere' /\ Apart'
    BY <2>1, <2>2 DEF Somewhere, Apart
  <2>6. Once'
    BY <2>1 DEF Once
  <2> QED
    BY <2>3, <2>4, <2>5, <2>6
<1>7. ASSUME \/ ReceiveLoop \/ SocketReceive \/ ActiveCheck \/ ActiveSet
             \/ WorkLoop \/ WorkWake \/ WorkHandle \/ DeactiveCheck \/ DeactiveReset
             \/ StartWork \/ StopServer \/ StopWork \/ StopWorkSignal \/ StopWorkJoin
             \/ StopSocket \/ StopReceive \/ StopReceiveJoin \/ UNCHANGED vars
      PROVE  Kept'
  <2>1. UNCHANGED <<pool, heap, queue, rbuf, wbuf>>
    BY <1>7 DEF ReceiveLoop, SocketReceive, ActiveCheck, ActiveSet, WorkLoop, WorkWake, WorkHandle, DeactiveCheck,
                DeactiveReset, StartWork, StopServer, StopWork, StopWorkSignal, StopWorkJoin, StopSocket,
                StopReceive, StopReceiveJoin, vars
  <2>2. Somewhere' /\ Apart' /\ Once'
    BY <2>1 DEF Somewhere, Apart, Once, In
  <2>3. CASE ReceiveLoop
    BY <2>2, <2>3 DEF ReceiveLoop, TypeOK, Ended
  <2>4. CASE SocketReceive
    BY <2>2, <2>4 DEF SocketReceive, TypeOK, Ended
  <2>5. CASE ActiveCheck
    BY <2>2, <2>5 DEF ActiveCheck, TypeOK, Ended
  <2>6. CASE ActiveSet
    BY <2>2, <2>6 DEF ActiveSet, TypeOK, Ended
  <2>7. CASE WorkLoop
    BY <2>2, <2>7 DEF WorkLoop, TypeOK, Ended
  <2>8. CASE WorkWake
    BY <2>2, <2>8 DEF WorkWake, TypeOK, Ended
  <2>9. CASE WorkHandle
    BY <2>2, <2>9 DEF WorkHandle, TypeOK, Ended
  <2>10. CASE DeactiveCheck
    BY <2>2, <2>10 DEF DeactiveCheck, TypeOK, Ended
  <2>11. CASE DeactiveReset
    BY <2>2, <2>11 DEF DeactiveReset, TypeOK, Ended
  <2>12. CASE StartWork
    BY <2>2, <2>12 DEF StartWork, TypeOK, Ended
  <2>13. CASE StopServer
    BY <2>2, <2>13 DEF StopServer, TypeOK, Ended
  <2>14. CASE StopWork
    BY <2>2, <2>14 DEF StopWork, TypeOK, Ended
  <2>15. CASE StopWorkSignal
    BY <2>2, <2>15 DEF StopWorkSignal, TypeOK, Ended
  <2>16. CASE StopWorkJoin
    BY <2>2, <2>16 DEF StopWorkJoin, TypeOK, Ended
  <2>17. CASE StopSocket
    BY <2>2, <2>17 DEF StopSocket, TypeOK, Ended
  <2>18. CASE StopReceive
    BY <2>2, <2>18 DEF StopReceive, TypeOK, Ended
  <2>19. CASE StopReceiveJoin
    BY <2>2, <2>19 DEF StopReceiveJoin, TypeOK, Ended
  <2>20. CASE UNCHANGED vars
    BY <2>2, <2>20 DEF vars, TypeOK, Ended
  <2> QED
    BY <1>7, <2>3, <2>4, <2>5, <2>6, <2>7, <2>8, <2>9, <2>10, <2>11, <2>12, <2>13, <2>14, <2>15, <2>16, <2>17, <2>18, <2>19, <2>20
<1> QED
  BY <1>1, <1>2, <1>3, <1>4, <1>5, <1>6, <1>7 DEF Next, Receiver, Worker, Control

(***************************************************************************)
(* The event and the list: only a push and a pop touch the list, only the  *)
(* worker clears the event, and only after it found the list empty.        *)
(***************************************************************************)
LEMMA NextEvent == Kept /\ EventUp /\ Announced /\ [Next]_vars => EventUp' /\ Announced'
<1> SUFFICES ASSUME Kept, EventUp, Announced, [Next]_vars PROVE EventUp' /\ Announced'
  OBVIOUS
<1> USE DEF Kept, rxVars, workVars, ctlVars
<1>1. UNCHANGED <<queue, late>> => (AllLate' <=> AllLate)
  BY DEF AllLate
<1>2. CASE Receiver /\ ~ReceivePush
  <2>1. CASE ReceiveLoop
    BY <1>1, <2>1 DEF ReceiveLoop, EventUp, Announced, Ended, TypeOK
  <2>2. CASE AcquireRecvBuff
    BY <1>1, <2>2 DEF AcquireRecvBuff, Retry, EventUp, Announced, Ended, TypeOK
  <2>3. CASE SocketReceive
    BY <1>1, <2>3 DEF SocketReceive, EventUp, Announced, Ended, TypeOK
  <2>4. CASE ReceiveRelease
    BY <1>1, <2>4 DEF ReceiveRelease, EventUp, Announced, Ended, TypeOK
  <2>5. CASE ActiveCheck
    BY <1>1, <2>5 DEF ActiveCheck, EventUp, Announced, Ended, TypeOK
  <2>6. CASE ActiveSet
    BY <1>1, <2>6 DEF ActiveSet, EventUp, Announced, Ended, TypeOK
  <2> QED
    BY <1>2, <2>1, <2>2, <2>3, <2>4, <2>5, <2>6 DEF Receiver
<1>3. CASE ReceivePush
  <2>1. rpc' = "active" /\ UNCHANGED <<evt, wpc, serving>>
    BY <1>3 DEF ReceivePush, SignalsAlways
  <2>2. AllLate /\ wpc \in {"deactive", "reset"} => AllLate'
    BY <1>3, PushItems
  <2> QED
    BY <2>1, <2>2 DEF EventUp, Announced
<1>4. CASE WorkPop
  <2>1. CASE queue = << >>
    <3>1. wpc = "pop" /\ wpc' = "deactive" /\ queue' = << >> /\ UNCHANGED <<evt, rpc, serving>>
      BY <1>4, <2>1 DEF WorkPop
    <3>2. AllLate'
      BY <3>1 DEF AllLate
    <3> QED
      BY <3>1, <3>2 DEF EventUp, Announced
  <2>2. CASE queue # << >>
    BY <1>4, <2>2 DEF WorkPop, EventUp, Announced
  <2> QED
    BY <2>1, <2>2
<1>5. CASE Worker /\ ~WorkPop
  <2>1. CASE WorkLoop
    BY <1>1, <2>1 DEF WorkLoop, EventUp, Announced, Ended, TypeOK
  <2>2. CASE WorkWake
    BY <1>1, <2>2 DEF WorkWake, EventUp, Announced, Ended, TypeOK
  <2>3. CASE WorkHandle
    BY <1>1, <2>3 DEF WorkHandle, EventUp, Announced, Ended, TypeOK
  <2>4. CASE WorkRelease
    BY <1>1, <2>4 DEF WorkRelease, EventUp, Announced, Ended, TypeOK
  <2>5. CASE DeactiveCheck
    BY <1>1, <2>5 DEF DeactiveCheck, EventUp, Announced, Ended, TypeOK
  <2>6. CASE DeactiveReset
    BY <1>1, <2>6 DEF DeactiveReset, EventUp, Announced, Ended, TypeOK
  <2> QED
    BY <1>5, <2>1, <2>2, <2>3, <2>4, <2>5, <2>6 DEF Worker
<1>6. CASE Control
  <2>1. CASE StartWork
    BY <1>1, <2>1 DEF StartWork, EventUp, Announced, Ended, TypeOK
  <2>2. CASE StopServer
    BY <1>1, <2>2 DEF StopServer, EventUp, Announced, Ended, TypeOK
  <2>3. CASE StopWork
    BY <1>1, <2>3 DEF StopWork, EventUp, Announced, Ended, TypeOK
  <2>4. CASE StopWorkSignal
    BY <1>1, <2>4 DEF StopWorkSignal, EventUp, Announced, Ended, TypeOK
  <2>5. CASE StopWorkJoin
    BY <1>1, <2>5 DEF StopWorkJoin, EventUp, Announced, Ended, TypeOK
  <2>6. CASE StopSocket
    BY <1>1, <2>6 DEF StopSocket, EventUp, Announced, Ended, TypeOK
  <2>7. CASE StopReceive
    BY <1>1, <2>7 DEF StopReceive, EventUp, Announced, Ended, TypeOK
  <2>8. CASE StopReceiveJoin
    BY <1>1, <2>8 DEF StopReceiveJoin, EventUp, Announced, Ended, TypeOK
  <2>9. CASE StopDrain
    BY <1>1, <2>9 DEF StopDrain, EventUp, Announced, Ended, TypeOK
  <2> QED
    BY <1>6, <2>1, <2>2, <2>3, <2>4, <2>5, <2>6, <2>7, <2>8, <2>9 DEF Control
<1>7. CASE UNCHANGED vars
  BY <1>1, <1>7 DEF vars, EventUp, Announced
<1> QED
  BY <1>2, <1>3, <1>4, <1>5, <1>6, <1>7 DEF Next

-----------------------------------------------------------------------------
(* What the invariant says of the places a buffer is in. *)
LEMMA KeptBuffers == Kept => BuffersKept
<1> SUFFICES ASSUME Kept PROVE BuffersKept
  OBVIOUS
<1>1. ASSUME NEW b \in Buff PROVE Cardinality(Owners(b)) = 1
  <2> DEFINE inPool  == IF b \in pool THEN {<<"pool", 0>>} ELSE {}
             inHeap  == IF b \in heap THEN {<<"heap", 0>>} ELSE {}
             inQueue == {<<"queue", i>> : i \in InQueue(b)}
             inRecv  == IF rbuf = b THEN {<<"receiver", 0>>} ELSE {}
             inWork  == IF wbuf = b THEN {<<"worker", 0>>} ELSE {}
  <2>1. Owners(b) = inPool \cup inHeap \cup inQueue \cup inRecv \cup inWork
    BY DEF Owners
  <2>2. (\A o1, o2 \in inPool : o1 = o2) /\ (inPool = {} <=> b \notin pool)
    OBVIOUS
  <2>3. (\A o1, o2 \in inHeap : o1 = o2) /\ (inHeap = {} <=> b \notin heap)
    OBVIOUS
  <2>4. (\A o1, o2 \in inQueue : o1 = o2) /\ (inQueue = {} <=> ~In(b))
    <3>1. \A o : o \in inQueue <=> \E i \in 1 .. Len(queue) : queue[i] = b /\ o = <<"queue", i>>
      BY DEF InQueue
    <3> HIDE DEF inQueue
    <3>2. \A o1, o2 \in inQueue : o1 = o2
      BY <3>1 DEF Kept, Once
    <3>3. inQueue = {} <=> ~In(b)
      BY <3>1 DEF In
    <3> QED
      BY <3>2, <3>3
  <2>5. (\A o1, o2 \in inRecv : o1 = o2) /\ (inRecv = {} <=> rbuf # b)
    OBVIOUS
  <2>6. (\A o1, o2 \in inWork : o1 = o2) /\ (inWork = {} <=> wbuf # b)
    OBVIOUS
  <2>7. /\ b \in pool \/ b \in heap \/ In(b) \/ rbuf = b \/ wbuf = b
        /\ b \in pool => b \notin heap /\ ~In(b) /\ rbuf # b /\ wbuf # b
        /\ b \in heap => ~In(b) /\ rbuf # b /\ wbuf # b
        /\ In(b) => rbuf # b /\ wbuf # b
        /\ rbuf = b => wbuf # b
    BY DEF Kept, Somewhere, Apart
  <2> HIDE DEF inPool, inHeap, inQueue, inRecv, inWork
  <2>8. \A o1, o2 \in Owners(b) : o1 = o2
    BY <2>1, <2>2, <2>3, <2>4, <2>5, <2>6, <2>7
  <2>9. Owners(b) # {}
    BY <2>1, <2>2, <2>3, <2>4, <2>5, <2>6, <2>7
  <2> QED
    BY <2>8, <2>9, ExactlyOne
<1>2. AllReturned
  <2> SUFFICES ASSUME spc = "down", NEW b \in Buff \ (pool \cup heap) PROVE wpc = "dead" /\ wbuf = b
    BY DEF AllReturned
  <2>1. rbuf = NoBuff /\ b # NoBuff /\ queue = << >>
    BY BuffAssumption DEF Kept, TypeOK, Ended
  <2>2. wbuf = b
    BY <2>1 DEF Kept, Somewhere, In
  <2> QED
    BY <2>1, <2>2 DEF Kept, TypeOK, Ended
<1> QED
  BY <1>1, <1>2 DEF BuffersKept, OneOwner, Kept

LEMMA AnnouncedWakes ==
  Announced /\ serving /\ Asleep /\ rpc \notin {"active", "signal"} => \A b \in Buff : InQueue(b) # {} => b \in late
  BY DEF Announced, AllLate, Asleep, InQueue

LEMMA Invariant == Spec => []IInv
<1>1. IInv /\ [Next]_vars => IInv'
  BY NextKept, NextEvent DEF IInv
<1> QED
  BY InitInv, <1>1, PTL DEF Spec

(* Whatever the receive thread, the worker and the stop sequence do, every *)
(* receive buffer is in exactly one place, and once the server is down all *)
(* are free again but the one a cancelled worker held: for every number of *)
(* buffers, preallocated or not.                                           *)
THEOREM ReceiveBuffersKept == Spec => []BuffersKept
<1>1. IInv => BuffersKept
  BY KeptBuffers DEF IInv
<1> QED
  BY Invariant, <1>1, PTL

(* The worker's end.  Once work_run_ is cleared nobody goes back to sleep, *)
(* so the token that tls_server_stop leaves in the event is for the one    *)
(* who sleeps, and only a worker on its way out can clear it.              *)
RunCleared == spc \in {"signal", "joinwork"} => ~wrun
Signalled  == spc = "joinwork" /\ wpc = "wait" => evt

LEMMA NextSignalled == RunCleared /\ Signalled /\ [Next]_vars => RunCleared' /\ Signalled'
<1> SUFFICES ASSUME RunCleared, Signalled, [Next]_vars PROVE RunCleared' /\ Signalled'
  OBVIOUS
<1> USE DEF rxVars, workVars, ctlVars, RunCleared, Signalled
<1>1. CASE Receiver
  BY <1>1 DEF Receiver, ReceiveLoop, AcquireRecvBuff, SocketReceive, ReceiveRelease, ReceivePush,
              ActiveCheck, ActiveSet
<1>2. CASE Worker
  BY <1>2 DEF Worker, WorkLoop, WorkWake, WorkPop, WorkHandle, WorkRelease, DeactiveCheck, DeactiveReset
<1>3. CASE Control
  BY <1>3 DEF Control, StartWork, StopServer, StopWork, StopWorkSignal, StopWorkJoin, StopSocket,
              StopReceive, StopReceiveJoin, StopDrain
<1>4. CASE UNCHANGED vars
  BY <1>4 DEF vars
<1> QED
  BY <1>1, <1>2, <1>3, <1>4 DEF Next

(* A worker asleep on evt_work_loop_ while the server runs leaves behind   *)
(* only datagrams that slipped in between its last look at the list and    *)
(* the reset of the event; and when tls_server_stop waits for it to end,   *)
(* it is not asleep.                                                       *)
THEOREM OnlyLateStranded == Spec => []StrandedOnlyLate
<1>1. Init => RunCleared /\ Signalled
  BY DEF Init, RunCleared, Signalled
<1>2. IInv /\ RunCleared /\ Signalled => StrandedOnlyLate
  BY AnnouncedWakes DEF IInv, Signalled, StrandedOnlyLate, Asleep
<1> QED
  BY Invariant, <1>1, <1>2, NextSignalled, PTL DEF Spec

-----------------------------------------------------------------------------
(* The receive list as a mailbox: what a step does to the one FIFO.        *)
Fifo(q)    == [p \in 0 .. 0 |-> q]
Posting(x) == [p \in 0 .. 0 |-> IF x \in {"active", "signal"} THEN Receiving ELSE {}]

LEMMA InboxVars == Inbox!vars = <<Fifo(queue), Posting(rpc), serving>>
  BY DEF Inbox!vars, Fifo, Posting

LEMMA NextInbox == Kept /\ [Next]_vars => [Inbox!Next]_(Inbox!vars)
<1> SUFFICES ASSUME Kept, [Next]_vars PROVE Inbox!Next \/ UNCHANGED Inbox!vars
  OBVIOUS
<1> USE DEF rxVars, workVars, ctlVars
<1>0. Inbox!Pri = {0} /\ 0 .. 0 = {0} /\ Receiving = {"receiver"}
  BY DEF Inbox!Pri, Receiving
<1>1. ASSUME UNCHANGED <<queue, serving>>,
             rpc \in {"active", "signal"} <=> rpc' \in {"active", "signal"}
      PROVE  UNCHANGED Inbox!vars
  BY <1>1, InboxVars DEF Inbox!vars
<1>2. CASE ReceivePush
  <2>1. /\ rpc = "push" /\ rpc' = "active" /\ rbuf \in Buff
        /\ queue' = Append(queue, rbuf) /\ UNCHANGED serving
    BY <1>2 DEF ReceivePush, SignalsAlways, Kept, TypeOK
  <2>2. Inbox!Submit("receiver", 0, rbuf)
    BY <1>0, <2>1 DEF Inbox!Submit
  <2> QED
    BY <1>0, <2>1, <2>2 DEF Inbox!Next
<1>3. ASSUME rpc \in {"active", "signal"}, rpc' = "loop", UNCHANGED <<queue, serving>>
      PROVE  Inbox!Next
  <2>1. Inbox!Post("receiver", 0)
    BY <1>0, <1>3 DEF Inbox!Post
  <2> QED
    BY <1>0, <2>1 DEF Inbox!Next
<1>4. CASE ActiveCheck
  BY <1>1, <1>3, <1>4 DEF ActiveCheck
<1>5. CASE ActiveSet
  BY <1>3, <1>5 DEF ActiveSet
<1>6. CASE WorkPop
  <2>1. UNCHANGED <<rpc, serving>>
    BY <1>6 DEF WorkPop
  <2>2. CASE queue = << >>
    BY <1>1, <1>6, <2>1, <2>2 DEF WorkPop
  <2>3. CASE queue # << >>
    <3>1. queue' = Tail(queue)
      BY <1>6, <2>3 DEF WorkPop, AfterPop
    <3>2. Inbox!Deliver(0)
      BY <1>0, <2>1, <2>3, <3>1 DEF Inbox!Deliver
    <3> QED
      BY <1>0, <3>2 DEF Inbox!Next
  <2> QED
    BY <2>2, <2>3
<1>7. CASE StopServer
  <2>1. serving /\ serving' = FALSE /\ UNCHANGED <<queue, rpc>>
    BY <1>7 DEF StopServer, Kept, Ended
  <2>2. Inbox!Close
    BY <2>1 DEF Inbox!Close
  <2> QED
    BY <2>2 DEF Inbox!Next
<1>8. CASE StopDrain
  <2>1. ~serving /\ queue' = << >> /\ UNCHANGED <<serving, rpc>>
    BY <1>8 DEF StopDrain, Kept, Ended
  <2>2. Inbox!Discard
    BY <1>0, <2>1 DEF Inbox!Discard
  <2> QED
    BY <2>2 DEF Inbox!Next
<1>9. ASSUME \/ ReceiveLoop \/ AcquireRecvBuff \/ SocketReceive \/ ReceiveRelease
             \/ WorkLoop \/ WorkWake \/ WorkHandle \/ WorkRelease \/ DeactiveCheck
             \/ DeactiveReset \/ StartWork \/ StopWork \/ StopWorkSignal \/ StopWorkJoin
             \/ StopSocket \/ StopReceive \/ StopReceiveJoin \/ UNCHANGED vars
      PROVE  UNCHANGED Inbox!vars
  BY <1>1, <1>9
     DEF ReceiveLoop, AcquireRecvBuff, SocketReceive, ReceiveRelease, Retry, WorkLoop, WorkWake,
         WorkHandle, WorkRelease, DeactiveCheck, DeactiveReset, StartWork, StopWork, StopWorkSignal,
         StopWorkJoin, StopSocket, StopReceive, StopReceiveJoin, vars
<1> QED
  BY <1>2, <1>4, <1>5, <1>6, <1>7, <1>8, <1>9 DEF Next, Receiver, Worker, Control

(* The receive path implements the mailbox of the transmit path for one    *)
(* producer and one priority, liveness aside: datagrams leave the list one *)
(* at a time and in the order in which the socket gave them, and it is     *)
(* emptied at once only after the server was told to stop.                 *)
THEOREM ReceiveIsOutbox == Spec => Inbox!Spec
<1>1. Init => Inbox!Init
  BY DEF Init, Inbox!Init, Inbox!Pri
<1>2. IInv /\ [Next]_vars => [Inbox!Next]_(Inbox!vars)
  BY NextInbox DEF IInv
<1> QED
  BY <1>1, <1>2, Invariant, PTL DEF Spec, Inbox!Spec
=============================================================================
