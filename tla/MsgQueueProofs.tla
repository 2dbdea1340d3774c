--------------------------- MODULE MsgQueueProofs ---------------------------
(***************************************************************************)
(* The message queue of net_proxy_v2, for every number of callbacks and    *)
(* workers, every capacity and every number of calls and failures: no      *)
(* wakeup is lost (NoLostWakeup), every payload is freed once              *)
(* (PayloadFreedOnce), the queue is the bounded channel of MsgChannel, and *)
(* the messages of a callback are taken in the order of its calls          *)
(* (InCallOrder).                                                          *)
(*                                                                         *)
(* Control relates the counter to the list, which the destruction breaks   *)
(* on purpose: it empties the list and leaves the counter.  NoLostWakeup   *)
(* is then inductive.  PayloadFreedOnce is not: Owned adds that a message  *)
(* is in one place only, and in none before its call.                      *)
(***************************************************************************)
EXTENDS MsgQueue, FiniteSetTheorems, TLAPS

(* The items of a queue after an insertion at the tail... *)
LEMMA AppendItems ==
  ASSUME NEW S, NEW s \in Seq(S), NEW e \in S
  PROVE  /\ Len(Append(s, e)) = Len(s) + 1 /\ Len(s) \in Nat
         /\ \A k \in 1 .. Len(s) : k \in 1 .. Len(Append(s, e)) /\ Append(s, e)[k] = s[k]
         /\ Append(s, e)[Len(s) + 1] = e
         /\ \A k \in 1 .. Len(Append(s, e)) : k \in 1 .. Len(s) \/ k = Len(s) + 1
  OBVIOUS

(* ... and after a removal from the head. *)
LEMMA TailItems ==
  ASSUME NEW S, NEW s \in Seq(S), s # << >>
  PROVE  /\ 1 \in 1 .. Len(s) /\ Head(s) = s[1] /\ Head(s) \in S
         /\ \A k \in 1 .. Len(Tail(s)) :
              k \in Nat /\ k + 1 \in 1 .. Len(s) /\ k + 1 # 1 /\ Tail(s)[k] = s[k + 1]
         /\ \A k \in 1 .. Len(s) : k = 1 \/ (k - 1 \in 1 .. Len(Tail(s)) /\ Tail(s)[k - 1] = s[k])
  OBVIOUS

PState == {"idle", "push", "wait", "woken"}
WState == {"pop", "wait", "woken", "expired", "send"}

(* What the counter and the flags say. *)
Control ==
  /\ TypeOK
  /\ wmsg \in [Worker -> Message \cup {NoMsg}]
  /\ IF shutdown THEN list = << >> ELSE count = Len(list)
  /\ shutdown <=> spc # "up"
  /\ \A p \in Producer : ppc[p] # "idle" => calls[p] > 0

(* The places of a message, and what has become of it. *)
Issued(m) == m[2] <= calls[m[1]]
Listed(m) == \E k \in 1 .. Len(list) : list[k] = m
Held(m)   == \E w \in Worker : wmsg[w] = m
Pushed(m) == ppc[m[1]] # "idle" /\ calls[m[1]] = m[2]
Gone(m)   == freed[m] # 0 \/ m \in lost

(* A message that was issued is in one place, or gone. *)
Owned ==
  /\ \A m \in Message :
       /\ freed[m] <= 1
       /\ Issued(m) <=> Listed(m) \/ Held(m) \/ Pushed(m) \/ Gone(m)
       /\ Listed(m) => ~Held(m) /\ ~Pushed(m)
       /\ Held(m) => ~Pushed(m)
       /\ Gone(m) => ~Listed(m) /\ ~Held(m) /\ ~Pushed(m)
  /\ \A k, l \in 1 .. Len(list) : list[k] = list[l] => k = l
  /\ \A v, w \in Worker : wmsg[v] = wmsg[w] /\ wmsg[v] # NoMsg => v = w

IInv == Control /\ NoLostWakeup /\ Owned

-----------------------------------------------------------------------------
(* One thread changes its state... *)
LEMMA OneMoves ==
  ASSUME NEW T, IsFiniteSet(T), NEW S, NEW pc \in [T -> S], NEW t \in T, NEW v
  PROVE  LET pc2 == [pc EXCEPT ![t] = v] IN
         /\ Cardinality(Woken(pc, T)) \in Nat /\ Cardinality(Woken(pc2, T)) \in Nat
         /\ pc[t] # "woken" => Cardinality(Woken(pc2, T)) >= Cardinality(Woken(pc, T))
         /\ Cardinality(Woken(pc2, T)) >= Cardinality(Woken(pc, T)) - 1
         /\ v = "woken" /\ pc[t] # "woken" => Cardinality(Woken(pc2, T)) = Cardinality(Woken(pc, T)) + 1
         /\ v # "wait" => Waiting(pc2, T) \subseteq Waiting(pc, T)
<1> DEFINE pc2 == [pc EXCEPT ![t] = v]  A == Woken(pc, T)  B == Woken(pc2, T)
<1>1. IsFiniteSet(A) /\ Cardinality(A) \in Nat /\ A \subseteq T
  <2>1. A \subseteq T
    BY DEF Woken
  <2> QED
    BY <2>1, FS_Subset, FS_CardinalityType
<1>2. v # "woken" => B = A \ {t}
  BY DEF Woken
<1>3. v = "woken" => B = A \cup {t}
  BY DEF Woken
<1>4. pc[t] = "woken" <=> t \in A
  BY DEF Woken
<1>5. v # "wait" => Waiting(pc2, T) \subseteq Waiting(pc, T)
  BY DEF Waiting
<1> HIDE DEF A, B
<1>6. /\ IsFiniteSet(A \ {t}) /\ Cardinality(A \ {t}) = IF t \in A THEN Cardinality(A) - 1 ELSE Cardinality(A)
      /\ Cardinality(A \ {t}) \in Nat
  BY <1>1, FS_RemoveElement, FS_CardinalityType
<1>7. /\ Cardinality(A \cup {t}) = IF t \in A THEN Cardinality(A) ELSE Cardinality(A) + 1
      /\ Cardinality(A \cup {t}) \in Nat
  BY <1>1, FS_AddElement, FS_CardinalityType
<1>8. /\ Cardinality(B) \in Nat
      /\ pc[t] # "woken" => Cardinality(B) >= Cardinality(A)
      /\ Cardinality(B) >= Cardinality(A) - 1
      /\ v = "woken" /\ pc[t] # "woken" => Cardinality(B) = Cardinality(A) + 1
  <2>1. CASE v = "woken"
    <3>1. B = A \cup {t}
      BY <2>1, <1>3
    <3>2. Cardinality(B) \in Nat /\ Cardinality(B) = IF t \in A THEN Cardinality(A) ELSE Cardinality(A) + 1
      BY <3>1, <1>7
    <3> QED
      BY <3>2, <1>1, <1>4
  <2>2. CASE v # "woken"
    BY <2>2, <1>1, <1>2, <1>4, <1>6
  <2> QED
    BY <2>1, <2>2
<1> QED
  BY <1>1, <1>5, <1>8 DEF A, B

(* ... and one is signalled, if any waits. *)
LEMMA OneSignalled ==
  ASSUME NEW T, IsFiniteSet(T), NEW S, "woken" \in S, NEW pc \in [T -> S], NEW pc2, Signal(pc, pc2, T)
  PROVE  /\ pc2 \in [T -> S]
         /\ Cardinality(Woken(pc, T)) \in Nat /\ Cardinality(Woken(pc2, T)) \in Nat
         /\ Cardinality(Woken(pc2, T)) >= Cardinality(Woken(pc, T))
         /\ Waiting(pc2, T) # {} => Cardinality(Woken(pc2, T)) = Cardinality(Woken(pc, T)) + 1
         /\ \A t \in T : pc2[t] = pc[t] \/ (pc[t] = "wait" /\ pc2[t] = "woken")
<1>1. CASE \E t \in T : pc[t] = "wait"
  <2>1. PICK t \in T : pc[t] = "wait" /\ pc2 = [pc EXCEPT ![t] = "woken"]
    BY <1>1 DEF Signal
  <2>2. Cardinality(Woken(pc2, T)) = Cardinality(Woken(pc, T)) + 1 /\ Cardinality(Woken(pc, T)) \in Nat
    BY <2>1, OneMoves
  <2> QED
    BY <2>1, <2>2
<1>2. CASE ~ \E t \in T : pc[t] = "wait"
  <2>1. pc2 = pc
    BY <1>2 DEF Signal
  <2>2. Waiting(pc, T) = {}
    BY <1>2 DEF Waiting
  <2>3. Woken(pc, T) \subseteq T
    BY DEF Woken
  <2>4. Cardinality(Woken(pc, T)) \in Nat
    BY <2>3, FS_Subset, FS_CardinalityType
  <2> QED
    BY <2>1, <2>2, <2>4
<1> QED
  BY <1>1, <1>2

-----------------------------------------------------------------------------
(* Every message a callback works on is one. *)
LEMMA CurrentMessage ==
  ASSUME Control, NEW p \in Producer, ppc[p] # "idle"
  PROVE  Current(p) \in Message
  BY BoundAssumption DEF Control, TypeOK, Current, Message

LEMMA InitControl == Init => Control
<1> SUFFICES ASSUME Init PROVE Control
  OBVIOUS
<1>1. /\ list \in Seq(Message) /\ taken \in Seq(Message) /\ Len(list) = 0
      /\ 0 \in 0 .. Capacity /\ 0 \in 0 .. MaxCalls /\ 0 \in 0 .. MaxNoMem
  BY CapacityAssumption, BoundAssumption DEF Init
<1>2. TypeOK
  BY <1>1 DEF Init, TypeOK
<1> QED
  BY <1>1, <1>2 DEF Init, Control

LEMMA NextControl == Control /\ [Next]_vars => Control'
<1> SUFFICES ASSUME Control, [Next]_vars PROVE Control'
  OBVIOUS
<1> USE CapacityAssumption, BoundAssumption DEF queueVars, prodVars, workVars, memVars
<1>1. ASSUME NEW p \in Producer, Receive(p) PROVE Control'
  BY <1>1 DEF Receive, Control, TypeOK
<1>2. ASSUME NEW p \in Producer, PushWait(p) PROVE Control'
  BY <1>2 DEF PushWait, Control, TypeOK
<1>3. ASSUME NEW p \in Producer, PushInsert(p) PROVE Control'
  <2>1. /\ ~shutdown /\ count < Capacity /\ count = Len(list) /\ list \in Seq(Message)
        /\ list' = Append(list, Current(p)) /\ count' = count + 1
        /\ UNCHANGED <<shutdown, calls, wmsg, spc, noMem, freed, lost, sent, taken>>
    BY <1>3 DEF PushInsert, Full, Added, Counted, Control, TypeOK
  <2>2. Current(p) \in Message
    BY <1>3, CurrentMessage DEF PushInsert
  <2>3. list' \in Seq(Message) /\ Len(list') = Len(list) + 1 /\ count' \in 0 .. Capacity
    BY <2>1, <2>2 DEF Control, TypeOK
  <2>4. wpc \in [Worker -> WState] /\ "woken" \in WState /\ Signal(wpc, wpc', Worker)
    BY <1>3 DEF PushInsert, Control, TypeOK, WState
  <2>5. wpc' \in [Worker -> WState]
        /\ \A w \in Worker : wpc'[w] = wpc[w] \/ (wpc[w] = "wait" /\ wpc'[w] = "woken")
    BY <2>4, OneSignalled, FiniteAssumption
  <2>6. \A w \in Worker : wmsg'[w] \in IF wpc'[w] = "send" THEN Message ELSE {NoMsg}
    BY <2>1, <2>5 DEF Control, TypeOK
  <2>7. ppc' \in [Producer -> PState] /\ \A q \in Producer : ppc'[q] # "idle" => ppc[q] # "idle"
    BY <1>3 DEF PushInsert, Control, TypeOK, PState
  <2>8. TypeOK'
    BY <2>1, <2>3, <2>5, <2>6, <2>7 DEF Control, TypeOK, WState, PState
  <2> QED
    BY <2>1, <2>3, <2>7, <2>8 DEF Control
<1>4. ASSUME NEW p \in Producer, PushFail(p) PROVE Control'
  BY <1>4, CurrentMessage DEF PushFail, Free, Control, TypeOK
<1>5. ASSUME NEW w \in Worker, PopWait(w) PROVE Control'
  BY <1>5 DEF PopWait, Control, TypeOK
<1>6. ASSUME NEW w \in Worker, Expire(w) PROVE Control'
  BY <1>6 DEF Expire, Control, TypeOK
<1>7. ASSUME NEW w \in Worker, PopNothing(w) PROVE Control'
  BY <1>7 DEF PopNothing, Control, TypeOK
<1>8. ASSUME NEW w \in Worker, PopTake(w) PROVE Control'
  <2>1. /\ ~shutdown /\ list # << >> /\ count = Len(list) /\ list \in Seq(Message) /\ taken \in Seq(Message)
        /\ list' = Tail(list) /\ count' = count - 1 /\ taken' = Append(taken, Head(list))
        /\ UNCHANGED <<shutdown, calls, spc, freed, sent>>
    BY <1>8 DEF PopTake, Control, TypeOK
  <2>2. /\ list' \in Seq(Message) /\ Len(list') = Len(list) - 1 /\ Len(list) > 0
        /\ Head(list) \in Message /\ taken' \in Seq(Message)
    BY <2>1
  <2>3. count' \in 0 .. Capacity
    BY <2>1, <2>2 DEF Control, TypeOK
  <2>4. ppc \in [Producer -> PState] /\ "woken" \in PState /\ Signal(ppc, ppc', Producer)
    BY <1>8 DEF PopTake, SignalFull, Control, TypeOK, PState
  <2>5. /\ ppc' \in [Producer -> PState]
        /\ \A p \in Producer : ppc'[p] = ppc[p] \/ (ppc[p] = "wait" /\ ppc'[p] = "woken")
    BY <2>4, OneSignalled, FiniteAssumption
  <2>6. /\ wpc' \in [Worker -> WState] /\ wmsg' \in [Worker -> Message \cup {NoMsg}]
        /\ \A v \in Worker : wmsg'[v] \in IF wpc'[v] = "send" THEN Message ELSE {NoMsg}
        /\ noMem' \in 0 .. MaxNoMem /\ lost' \subseteq Message
    <3>1. CASE /\ wpc' = [wpc EXCEPT ![w] = "send"] /\ wmsg' = [wmsg EXCEPT ![w] = Head(list)]
               /\ UNCHANGED <<noMem, lost>>
      BY <3>1, <2>2 DEF Control, TypeOK, WState
    <3>2. CASE /\ noMem < MaxNoMem /\ noMem' = noMem + 1 /\ lost' = lost \cup {Head(list)}
               /\ wpc' = [wpc EXCEPT ![w] = "pop"] /\ UNCHANGED wmsg
      <4>1. wpc[w] # "send"
        BY <1>8 DEF PopTake
      <4> QED
        BY <4>1, <3>2, <2>2 DEF Control, TypeOK, WState
    <3> QED
      BY <1>8, <3>1, <3>2 DEF PopTake
  <2>7. TypeOK'
    BY <2>1, <2>2, <2>3, <2>5, <2>6 DEF Control, TypeOK, WState, PState
  <2> QED
    BY <2>1, <2>2, <2>5, <2>6, <2>7 DEF Control
<1>9. ASSUME NEW w \in Worker, Forward(w) PROVE Control'
  <2>1. wmsg[w] \in Message
    BY <1>9 DEF Forward, Control, TypeOK
  <2>2. freed' \in [Message -> Nat] /\ sent' \subseteq Message
    BY <1>9, <2>1 DEF Forward, Free, Control, TypeOK
  <2> QED
    BY <1>9, <2>2 DEF Forward, Control, TypeOK
<1>10. CASE Spurious
  BY <1>10 DEF Spurious, Control, TypeOK
<1>11. CASE DestroyList
  <2>1. list' = << >> /\ list' \in Seq(Message)
    BY <1>11 DEF DestroyList
  <2>2. freed' \in [Message -> Nat]
    BY <1>11 DEF DestroyList, Control, TypeOK
  <2> QED
    BY <1>11, <2>1, <2>2 DEF DestroyList, Control, TypeOK
<1>12. CASE DestroyNotEmpty \/ DestroyNotFull
  BY <1>12 DEF DestroyNotEmpty, DestroyNotFull, Control, TypeOK
<1>13. CASE UNCHANGED vars
  BY <1>13 DEF vars, Control, TypeOK
<1> QED
  BY <1>1, <1>2, <1>3, <1>4, <1>5, <1>6, <1>7, <1>8, <1>9, <1>10, <1>11, <1>12, <1>13
     DEF Next, Callback, Work, Destroy

-----------------------------------------------------------------------------
(* The wakeups of the two conditions: each half of NoLostWakeup. *)
PutWakeup == ~shutdown /\ Waiting(ppc, Producer) # {} =>
               Capacity - count <= Cardinality(Woken(ppc, Producer)) + noMem
GetWakeup == ~shutdown /\ Waiting(wpc, Worker) # {} => count <= Cardinality(Woken(wpc, Worker))

(* The producers' half: a place that becomes free comes with a signal, and *)
(* a woken callback that does not wait again has filled one or failed.     *)
LEMMA NextPutWakeup == Control /\ Control' /\ PutWakeup /\ [Next]_vars => PutWakeup'
<1> SUFFICES ASSUME Control, Control', PutWakeup, [Next]_vars, ~shutdown', Waiting(ppc, Producer)' # {}
             PROVE  Capacity - count' <= Cardinality(Woken(ppc', Producer)) + noMem'
  BY DEF PutWakeup, Woken
<1> DEFINE n == Cardinality(Woken(ppc, Producer))  n2 == Cardinality(Woken(ppc', Producer))
<1>0. count \in Nat /\ count' \in Nat /\ Capacity \in Nat /\ noMem \in Nat /\ noMem' \in Nat
  BY CapacityAssumption, BoundAssumption DEF Control, TypeOK
<1>1. ppc \in [Producer -> PState] /\ IsFiniteSet(Producer)
  BY FiniteAssumption DEF Control, TypeOK, PState
<1>2. n \in Nat
  <2>1. Woken(ppc, Producer) \subseteq Producer
    BY DEF Woken
  <2> QED
    BY <2>1, <1>1, FS_Subset, FS_CardinalityType
<1>3. Waiting(ppc, Producer) # {} /\ ~shutdown => Capacity - count <= n + noMem
  BY DEF PutWakeup
<1> HIDE DEF n, n2
<1>4. ASSUME UNCHANGED <<ppc, count>>, noMem' = noMem \/ noMem' = noMem + 1 PROVE Capacity - count' <= n2 + noMem'
  <2>1. n2 = n /\ Waiting(ppc, Producer) # {} /\ ~shutdown
    BY <1>4 DEF n, n2, Waiting, Woken, Next, vars, queueVars, Callback, Work, Destroy, Receive, PushWait, PushInsert,
                PushFail, PopWait, Expire, PopNothing, PopTake, Forward, Spurious, DestroyList, DestroyNotEmpty,
                DestroyNotFull
  <2> QED
    <3>1. Capacity - count <= n2 + noMem /\ Capacity - count <= n2 + (noMem + 1)
      BY <2>1, <1>0, <1>2, <1>3
    <3> QED
      BY <1>4, <3>1
<1>5. ASSUME NEW p \in Producer, NEW v \in PState, v # "wait", ppc' = [ppc EXCEPT ![p] = v]
      PROVE  /\ Waiting(ppc, Producer) # {} /\ n2 \in Nat /\ n2 >= n - 1
             /\ ppc[p] # "woken" => n2 >= n
             /\ v = "woken" /\ ppc[p] # "woken" => n2 = n + 1
  <2>1. Waiting(ppc', Producer) = Waiting(ppc, Producer)'
    BY DEF Waiting
  <2> QED
    BY <1>1, <1>5, <2>1, OneMoves DEF n, n2
<1>6. ASSUME NEW p \in Producer, Receive(p) PROVE Capacity - count' <= n2 + noMem'
  <2>1. ppc' = [ppc EXCEPT ![p] = "push"] /\ ppc[p] = "idle" /\ UNCHANGED <<count, shutdown, noMem>>
    BY <1>6 DEF Receive, queueVars, memVars
  <2>2. Waiting(ppc, Producer) # {} /\ n2 \in Nat /\ n2 >= n
    BY <2>1, <1>5 DEF PState
  <2> QED
    BY <2>1, <2>2, <1>0, <1>2, <1>3
<1>7. ASSUME NEW p \in Producer, PushWait(p) PROVE Capacity - count' <= n2 + noMem'
  <2>1. count >= Capacity /\ UNCHANGED <<count, noMem>> /\ ppc' = [ppc EXCEPT ![p] = "wait"]
    BY <1>7 DEF PushWait, Full, queueVars, memVars
  <2>2. n2 \in Nat
    BY <2>1, <1>1, OneMoves DEF n2
  <2>3. Capacity - count <= n2 + noMem
    BY <2>1, <2>2, <1>0
  <2> QED
    BY <2>1, <2>3
<1>8. ASSUME NEW p \in Producer, PushInsert(p) PROVE Capacity - count' <= n2 + noMem'
  <2>1. ppc' = [ppc EXCEPT ![p] = "idle"] /\ ~shutdown /\ count' = count + 1 /\ UNCHANGED noMem
    BY <1>8 DEF PushInsert, Counted, memVars
  <2>2. Waiting(ppc, Producer) # {} /\ n2 \in Nat /\ n2 >= n - 1
    BY <2>1, <1>5 DEF PState
  <2> QED
    BY <2>1, <2>2, <1>0, <1>2, <1>3
<1>9. ASSUME NEW p \in Producer, PushFail(p) PROVE Capacity - count' <= n2 + noMem'
  <2>1. ppc' = [ppc EXCEPT ![p] = "idle"] /\ ~shutdown /\ UNCHANGED count /\ noMem' = noMem + 1
    BY <1>9 DEF PushFail, queueVars
  <2>2. Waiting(ppc, Producer) # {} /\ n2 \in Nat /\ n2 >= n - 1
    BY <2>1, <1>5 DEF PState
  <2> QED
    BY <2>1, <2>2, <1>0, <1>2, <1>3
<1>10. ASSUME NEW w \in Worker, PopTake(w) PROVE Capacity - count' <= n2 + noMem'
  <2>1. Signal(ppc, ppc', Producer) /\ ~shutdown /\ count' = count - 1 /\ (noMem' = noMem \/ noMem' = noMem + 1)
    BY <1>10 DEF PopTake, SignalFull
  <2>2. Waiting(ppc', Producer) # {}
    BY DEF Waiting
  <2>3. n2 = n + 1 /\ \A p \in Producer : ppc'[p] = "wait" => ppc[p] = "wait"
    <3>1. "woken" \in PState
      BY DEF PState
    <3> QED
      BY <3>1, <2>1, <2>2, <1>1, OneSignalled DEF n, n2
  <2>4. Waiting(ppc, Producer) # {}
    BY <2>2, <2>3 DEF Waiting
  <2> QED
    <3>1. Capacity - (count - 1) <= n2 + noMem /\ Capacity - (count - 1) <= n2 + (noMem + 1)
      BY <2>1, <2>3, <2>4, <1>0, <1>2, <1>3
    <3> QED
      BY <2>1, <3>1
<1>11. CASE Spurious
  <2>1. CASE UNCHANGED ppc
    <3>1. UNCHANGED <<ppc, count, noMem>>
      BY <1>11, <2>1 DEF Spurious, queueVars, memVars
    <3> QED
      BY <3>1, <1>0, <1>4 DEF n2
  <2>2. ASSUME NEW p \in Producer, ppc[p] = "wait", ppc' = [ppc EXCEPT ![p] = "woken"]
        PROVE  Capacity - count' <= n2 + noMem'
    <3>1. UNCHANGED <<count, shutdown, noMem>>
      BY <1>11 DEF Spurious, queueVars, memVars
    <3>2. Waiting(ppc, Producer) # {} /\ n2 = n + 1
      BY <2>2, <1>5 DEF PState
    <3> QED
      BY <3>1, <3>2, <1>0, <1>2, <1>3
  <2> QED
    BY <1>11, <2>1, <2>2 DEF Spurious, n2
<1>12. ASSUME NEW w \in Worker, PopWait(w) \/ Expire(w) \/ PopNothing(w) \/ Forward(w)
       PROVE  Capacity - count' <= n2 + noMem'
  BY <1>12, <1>0, <1>4 DEF PopWait, Expire, PopNothing, Forward, queueVars, prodVars, memVars
<1>13. CASE Destroy \/ UNCHANGED vars
  <2>1. UNCHANGED <<ppc, count, noMem>>
    BY <1>13 DEF Destroy, DestroyList, DestroyNotEmpty, DestroyNotFull, vars, queueVars, prodVars, memVars
  <2> QED
    BY <2>1, <1>0, <1>4 DEF n2
<1> QED
  BY <1>6, <1>7, <1>8, <1>9, <1>10, <1>11, <1>12, <1>13 DEF Next, Callback, Work, n2

(* The worker's half: a message comes with a signal, and a woken worker    *)
(* leaves the wait with one, or finds the list empty.                      *)
LEMMA NextGetWakeup == Control /\ Control' /\ GetWakeup /\ [Next]_vars => GetWakeup'
<1> SUFFICES ASSUME Control, Control', GetWakeup, [Next]_vars, ~shutdown', Waiting(wpc, Worker)' # {}
             PROVE  count' <= Cardinality(Woken(wpc', Worker))
  BY DEF GetWakeup, Woken
<1> DEFINE n == Cardinality(Woken(wpc, Worker))  n2 == Cardinality(Woken(wpc', Worker))
<1>1. /\ count \in Nat /\ count' \in Nat /\ wpc \in [Worker -> WState] /\ IsFiniteSet(Worker)
  BY CapacityAssumption, FiniteAssumption DEF Control, TypeOK, WState
<1>2. n \in Nat
  <2>1. Woken(wpc, Worker) \subseteq Worker
    BY DEF Woken
  <2> QED
    BY <2>1, <1>1, FS_Subset, FS_CardinalityType
<1>3. Waiting(wpc, Worker) # {} /\ ~shutdown => count <= n
  BY DEF GetWakeup
<1> HIDE DEF n, n2
<1>4. ~shutdown
  BY DEF Next, vars, queueVars, Callback, Work, Destroy, Receive, PushWait, PushInsert, PushFail, PopWait, Expire,
         PopNothing, PopTake, Forward, Spurious, DestroyList, DestroyNotEmpty, DestroyNotFull
<1>5. ASSUME UNCHANGED <<wpc, count>> PROVE count' <= n2
  <2>1. n2 = n /\ Waiting(wpc, Worker) # {}
    BY <1>5 DEF n, n2, Waiting
  <2> QED
    BY <2>1, <1>1, <1>2, <1>3, <1>4, <1>5
<1>6. ASSUME NEW w \in Worker, NEW v \in WState, v # "wait", wpc' = [wpc EXCEPT ![w] = v]
      PROVE  /\ Waiting(wpc, Worker) # {} /\ n2 \in Nat /\ n2 >= n - 1
             /\ wpc[w] # "woken" => n2 >= n
             /\ v = "woken" /\ wpc[w] # "woken" => n2 = n + 1
  <2>1. Waiting(wpc', Worker) = Waiting(wpc, Worker)'
    BY DEF Waiting
  <2> QED
    BY <1>1, <1>6, <2>1, OneMoves DEF n, n2
<1>7. ASSUME NEW p \in Producer, Receive(p) \/ PushWait(p) \/ PushFail(p) PROVE count' <= n2
  BY <1>7, <1>5 DEF Receive, PushWait, PushFail, queueVars, workVars
<1>8. ASSUME NEW p \in Producer, PushInsert(p) PROVE count' <= n2
  <2>1. Signal(wpc, wpc', Worker) /\ count' = count + 1
    BY <1>8 DEF PushInsert, Counted
  <2>2. Waiting(wpc', Worker) # {}
    BY DEF Waiting
  <2>3. n2 = n + 1 /\ \A w \in Worker : wpc'[w] = "wait" => wpc[w] = "wait"
    <3>1. "woken" \in WState
      BY DEF WState
    <3> QED
      BY <3>1, <2>1, <2>2, <1>1, OneSignalled DEF n, n2
  <2>4. Waiting(wpc, Worker) # {}
    BY <2>2, <2>3 DEF Waiting
  <2> QED
    BY <2>1, <2>3, <2>4, <1>1, <1>2, <1>3, <1>4
<1>9. ASSUME NEW w \in Worker, PopWait(w) PROVE count' <= n2
  <2>1. count = 0 /\ UNCHANGED count /\ wpc' = [wpc EXCEPT ![w] = "wait"]
    BY <1>9 DEF PopWait, queueVars
  <2>2. n2 \in Nat
    BY <2>1, <1>1, OneMoves DEF n2
  <2> QED
    BY <2>1, <2>2
<1>10. ASSUME NEW w \in Worker, Expire(w) \/ Forward(w) PROVE count' <= n2
  <2>1. /\ wpc' = [wpc EXCEPT ![w] = "expired"] \/ wpc' = [wpc EXCEPT ![w] = "pop"]
        /\ wpc[w] # "woken" /\ UNCHANGED count
    BY <1>10 DEF Expire, Forward, queueVars
  <2>2. Waiting(wpc, Worker) # {} /\ n2 \in Nat /\ n2 >= n
    BY <2>1, <1>6 DEF WState
  <2> QED
    BY <2>1, <2>2, <1>1, <1>2, <1>3, <1>4
<1>11. ASSUME NEW w \in Worker, PopNothing(w) PROVE count' <= n2
  <2>1. wpc' = [wpc EXCEPT ![w] = "pop"] /\ UNCHANGED count /\ (wpc[w] = "woken" => list = << >>)
    BY <1>11 DEF PopNothing, queueVars
  <2>2. Waiting(wpc, Worker) # {} /\ n2 \in Nat /\ (wpc[w] # "woken" => n2 >= n)
    BY <2>1, <1>6 DEF WState
  <2>3. wpc[w] = "woken" => count = 0
    BY <2>1, <1>4 DEF Control
  <2> QED
    BY <2>1, <2>2, <2>3, <1>1, <1>2, <1>3, <1>4
<1>12. ASSUME NEW w \in Worker, PopTake(w) PROVE count' <= n2
  <2>1. /\ wpc' = [wpc EXCEPT ![w] = "send"] \/ wpc' = [wpc EXCEPT ![w] = "pop"]
        /\ count' = count - 1
    BY <1>12 DEF PopTake
  <2>2. Waiting(wpc, Worker) # {} /\ n2 \in Nat /\ n2 >= n - 1
    BY <2>1, <1>6 DEF WState
  <2> QED
    BY <2>1, <2>2, <1>1, <1>2, <1>3, <1>4
<1>13. CASE Spurious
  <2>1. CASE UNCHANGED wpc
    BY <1>13, <2>1, <1>5 DEF Spurious, queueVars, n2
  <2>2. ASSUME NEW w \in Worker, wpc[w] = "wait", wpc' = [wpc EXCEPT ![w] = "woken"] PROVE count' <= n2
    <3>1. UNCHANGED count
      BY <1>13 DEF Spurious, queueVars
    <3>2. Waiting(wpc, Worker) # {} /\ n2 = n + 1
      BY <2>2, <1>6 DEF WState
    <3> QED
      BY <3>1, <3>2, <1>1, <1>2, <1>3, <1>4
  <2> QED
    BY <1>13, <2>1, <2>2 DEF Spurious, n2
<1>14. CASE Destroy \/ UNCHANGED vars
  BY <1>14, <1>5 DEF Destroy, DestroyList, DestroyNotEmpty, DestroyNotFull, vars, queueVars, workVars, n2
<1> QED
  BY <1>7, <1>8, <1>9, <1>10, <1>11, <1>12, <1>13, <1>14 DEF Next, Callback, Work, n2

LEMMA WakeupHalves == NoLostWakeup <=> PutWakeup /\ GetWakeup
  BY DEF NoLostWakeup, PutWakeup, GetWakeup

-----------------------------------------------------------------------------
(* Where a message is depends on few variables. *)
LEMMA SamePlaces ==
  ASSUME NEW m \in Message
  PROVE  /\ UNCHANGED calls => (Issued(m)' <=> Issued(m))
         /\ UNCHANGED list => (Listed(m)' <=> Listed(m))
         /\ UNCHANGED wmsg => (Held(m)' <=> Held(m))
         /\ UNCHANGED <<calls, ppc>> => (Pushed(m)' <=> Pushed(m))
         /\ UNCHANGED <<freed, lost>> => (Gone(m)' <=> Gone(m))
  BY DEF Issued, Listed, Held, Pushed, Gone

(* Idle or not is all that matters of a callback's state. *)
LEMMA SamePushed ==
  ASSUME UNCHANGED calls, \A p \in Producer : ppc'[p] # "idle" <=> ppc[p] # "idle", NEW m \in Message
  PROVE  Pushed(m)' <=> Pushed(m)
  BY DEF Pushed, Message

(* A callback becomes idle: its message is pushed no more. *)
LEMMA PushedNoMore ==
  ASSUME Control, NEW p \in Producer, ppc[p] # "idle", ppc' = [ppc EXCEPT ![p] = "idle"], UNCHANGED calls
  PROVE  /\ Pushed(Current(p))
         /\ \A m \in Message : Pushed(m)' <=> Pushed(m) /\ m # Current(p)
<1>1. ppc \in [Producer -> PState] /\ Current(p) = <<p, calls[p]>> /\ Current(p) \in Message
  BY CurrentMessage DEF Control, TypeOK, PState, Current
<1>2. Pushed(Current(p))
  BY <1>1 DEF Pushed
<1>3. ASSUME NEW m \in Message PROVE Pushed(m)' <=> Pushed(m) /\ m # Current(p)
  <2>1. m[1] \in Producer /\ m = <<m[1], m[2]>>
    BY DEF Message
  <2>2. CASE m[1] # p
    BY <1>1, <2>1, <2>2 DEF Pushed
  <2>3. CASE m[1] = p
    <3>1. ~Pushed(m)'
      BY <1>1, <2>1, <2>3 DEF Pushed
    <3>2. Pushed(m) => m = Current(p)
      BY <1>1, <2>1, <2>3 DEF Pushed
    <3> QED
      BY <3>1, <3>2
  <2> QED
    BY <2>2, <2>3
<1> QED
  BY <1>2, <1>3

(* The steps that move no message. *)
LEMMA NothingMoves ==
  ASSUME Owned, UNCHANGED <<list, calls, wmsg, freed, lost>>,
         \A p \in Producer : ppc'[p] # "idle" <=> ppc[p] # "idle"
  PROVE  Owned'
  BY SamePlaces, SamePushed DEF Owned

LEMMA InitOwned == Init => Owned
<1> SUFFICES ASSUME Init PROVE Owned
  OBVIOUS
<1>1. ASSUME NEW m \in Message PROVE ~Issued(m) /\ freed[m] = 0 /\ ~Listed(m) /\ ~Held(m) /\ ~Pushed(m) /\ ~Gone(m)
  BY NoMsgAssumption, BoundAssumption DEF Init, Issued, Listed, Held, Pushed, Gone, Message
<1>2. /\ \A k, l \in 1 .. Len(list) : list[k] = list[l] => k = l
      /\ \A v, w \in Worker : wmsg[v] = wmsg[w] /\ wmsg[v] # NoMsg => v = w
  BY DEF Init
<1> QED
  BY <1>1, <1>2 DEF Owned

LEMMA NextOwned == Control /\ Control' /\ Owned /\ [Next]_vars => Owned'
<1> SUFFICES ASSUME Control, Control', Owned, [Next]_vars PROVE Owned'
  OBVIOUS
<1> USE DEF queueVars, prodVars, workVars, memVars
<1>1. /\ ppc \in [Producer -> PState] /\ calls \in [Producer -> 0 .. MaxCalls] /\ freed \in [Message -> Nat]
      /\ wmsg \in [Worker -> Message \cup {NoMsg}] /\ list \in Seq(Message)
  BY DEF Control, TypeOK, PState
<1>2. ASSUME NEW p \in Producer, Receive(p) PROVE Owned'
  <2> DEFINE x == <<p, calls[p] + 1>>
  <2>1. /\ ppc[p] = "idle" /\ ppc' = [ppc EXCEPT ![p] = "push"] /\ calls' = [calls EXCEPT ![p] = @ + 1]
        /\ UNCHANGED <<list, wmsg, freed, lost>> /\ calls[p] \in Nat
    BY <1>1, <1>2 DEF Receive
  <2>2. ASSUME NEW m \in Message
        PROVE  /\ Issued(m)' <=> Issued(m) \/ m = x
               /\ Pushed(m)' <=> Pushed(m) \/ m = x
               /\ m = x => ~Issued(m)
    <3>1. m[1] \in Producer /\ m[2] \in Nat /\ m = <<m[1], m[2]>>
      BY BoundAssumption DEF Message
    <3>2. CASE m[1] # p
      <4>1. m # x /\ calls'[m[1]] = calls[m[1]] /\ ppc'[m[1]] = ppc[m[1]]
        BY <1>1, <2>1, <3>1, <3>2
      <4> QED
        BY <4>1 DEF Issued, Pushed
    <3>3. CASE m[1] = p
      <4>1. calls'[m[1]] = calls[p] + 1 /\ ppc'[m[1]] = "push" /\ ppc[m[1]] = "idle" /\ calls[m[1]] = calls[p]
        BY <1>1, <2>1, <3>3
      <4>2. m = x <=> m[2] = calls[p] + 1
        BY <3>1, <3>3
      <4>3. m[2] <= calls[p] + 1 <=> m[2] <= calls[p] \/ m[2] = calls[p] + 1
        BY <2>1, <3>1
      <4>4. m[2] = calls[p] + 1 => ~(m[2] <= calls[p])
        BY <2>1, <3>1
      <4> QED
        BY <4>1, <4>2, <4>3, <4>4 DEF Issued, Pushed
    <3> QED
      BY <3>2, <3>3
  <2>3. \A m \in Message : (Listed(m)' <=> Listed(m)) /\ (Held(m)' <=> Held(m)) /\ (Gone(m)' <=> Gone(m))
    BY <2>1, SamePlaces
  <2> QED
    BY <2>1, <2>2, <2>3 DEF Owned
<1>3. ASSUME NEW p \in Producer, PushWait(p) PROVE Owned'
  <2>1. \A q \in Producer : ppc'[q] # "idle" <=> ppc[q] # "idle"
    BY <1>1, <1>3 DEF PushWait
  <2> QED
    BY <1>3, <2>1, NothingMoves DEF PushWait
<1>4. ASSUME NEW p \in Producer, PushInsert(p) PROVE Owned'
  <2> DEFINE x == Current(p)
  <2>1. /\ ppc[p] # "idle" /\ ppc' = [ppc EXCEPT ![p] = "idle"] /\ list' = Append(list, x)
        /\ UNCHANGED <<calls, wmsg, freed, lost>> /\ x \in Message
    BY <1>4, CurrentMessage DEF PushInsert, Added
  <2>2. Pushed(x) /\ \A m \in Message : Pushed(m)' <=> Pushed(m) /\ m # x
    BY <2>1, PushedNoMore
  <2>3. /\ Len(list') = Len(list) + 1 /\ Len(list) \in Nat
        /\ \A k \in 1 .. Len(list) : k \in 1 .. Len(list') /\ list'[k] = list[k]
        /\ list'[Len(list) + 1] = x /\ Len(list) + 1 \in 1 .. Len(list')
        /\ \A k \in 1 .. Len(list') : k \in 1 .. Len(list) \/ k = Len(list) + 1
    BY <2>1, <1>1, AppendItems
  <2> HIDE DEF x
  <2>4. \A m \in Message : Listed(m)' <=> Listed(m) \/ m = x
    BY <2>3 DEF Listed
  <2>5. \A m \in Message : (Issued(m)' <=> Issued(m)) /\ (Held(m)' <=> Held(m)) /\ (Gone(m)' <=> Gone(m))
    BY <2>1, SamePlaces
  <2>6. ~Listed(x)
    BY <2>1, <2>2 DEF Owned
  <2>7. \A k, l \in 1 .. Len(list') : list'[k] = list'[l] => k = l
    BY <2>3, <2>6 DEF Owned, Listed
  <2> QED
    BY <2>1, <2>2, <2>4, <2>5, <2>7 DEF Owned
<1>5. ASSUME NEW p \in Producer, PushFail(p) PROVE Owned'
  <2> DEFINE x == Current(p)
  <2>1. /\ ppc[p] # "idle" /\ ppc' = [ppc EXCEPT ![p] = "idle"] /\ freed' = [freed EXCEPT ![x] = @ + 1]
        /\ UNCHANGED <<calls, wmsg, list, lost>> /\ x \in Message
    BY <1>5, CurrentMessage DEF PushFail, Free
  <2>2. Pushed(x) /\ \A m \in Message : Pushed(m)' <=> Pushed(m) /\ m # x
    BY <2>1, PushedNoMore
  <2> HIDE DEF x
  <2>3. \A m \in Message : (Issued(m)' <=> Issued(m)) /\ (Held(m)' <=> Held(m)) /\ (Listed(m)' <=> Listed(m))
    BY <2>1, SamePlaces
  <2>4. freed[x] = 0 /\ freed'[x] = 1 /\ \A m \in Message : m # x => freed'[m] = freed[m]
    BY <2>1, <2>2, <1>1 DEF Owned, Gone
  <2>5. \A m \in Message : Gone(m)' <=> Gone(m) \/ m = x
    BY <2>1, <2>4 DEF Gone
  <2> QED
    BY <2>1, <2>2, <2>3, <2>4, <2>5 DEF Owned
<1>6. ASSUME NEW w \in Worker, PopWait(w) \/ Expire(w) \/ PopNothing(w) PROVE Owned'
  BY <1>6, NothingMoves DEF PopWait, Expire, PopNothing
<1>7. ASSUME NEW w \in Worker, PopTake(w) PROVE Owned'
  <2> DEFINE x == Head(list)
  <2>1. /\ list # << >> /\ list' = Tail(list) /\ UNCHANGED <<calls, freed>>
        /\ \/ wmsg' = [wmsg EXCEPT ![w] = x] /\ UNCHANGED lost
           \/ UNCHANGED wmsg /\ lost' = lost \cup {x}
    BY <1>7 DEF PopTake
  <2>2. wmsg[w] = NoMsg
    BY <1>7 DEF PopTake, Control, TypeOK
  <2>3. /\ 1 \in 1 .. Len(list) /\ x = list[1] /\ x \in Message
        /\ \A k \in 1 .. Len(list') : k \in Nat /\ k + 1 \in 1 .. Len(list) /\ k + 1 # 1 /\ list'[k] = list[k + 1]
        /\ \A k \in 1 .. Len(list) : k = 1 \/ (k - 1 \in 1 .. Len(list') /\ list'[k - 1] = list[k])
    BY <2>1, <1>1, TailItems
  <2>4. ppc \in [Producer -> PState] /\ "woken" \in PState /\ Signal(ppc, ppc', Producer)
    BY <1>1, <1>7 DEF PopTake, SignalFull, PState
  <2>5. \A p \in Producer : ppc'[p] # "idle" <=> ppc[p] # "idle"
    BY <2>4, OneSignalled, FiniteAssumption
  <2> HIDE DEF x
  <2>6. \A m \in Message : (Issued(m)' <=> Issued(m)) /\ (Pushed(m)' <=> Pushed(m))
    BY <2>1, <2>5, SamePlaces, SamePushed
  <2>7. \A k, l \in 1 .. Len(list) : list[k] = list[l] => k = l
    BY DEF Owned
  <2>8. Listed(x) /\ x # NoMsg
    BY <2>3, NoMsgAssumption DEF Listed
  <2>9. \A m \in Message : Listed(m)' <=> Listed(m) /\ m # x
    <3>1. ASSUME NEW m \in Message, NEW k \in 1 .. Len(list'), list'[k] = m
          PROVE  Listed(m) /\ m # x
      BY <2>3, <2>7, <3>1 DEF Listed
    <3>2. ASSUME NEW m \in Message, m # x, NEW k \in 1 .. Len(list), list[k] = m
          PROVE  \E j \in 1 .. Len(list') : list'[j] = m
      BY <2>3, <3>2
    <3> QED
      BY <3>1, <3>2 DEF Listed
  <2>10. \A k, l \in 1 .. Len(list') : list'[k] = list'[l] => k = l
    <3> SUFFICES ASSUME NEW k \in 1 .. Len(list'), NEW l \in 1 .. Len(list'), list'[k] = list'[l] PROVE k = l
      OBVIOUS
    <3>1. k + 1 = l + 1
      BY <2>3, <2>7
    <3> QED
      BY <2>3, <3>1
  <2>11. CASE wmsg' = [wmsg EXCEPT ![w] = x] /\ UNCHANGED lost
    <3>1. \A v \in Worker : wmsg'[v] = IF v = w THEN x ELSE wmsg[v]
      BY <2>11, <1>1
    <3>2. \A m \in Message : Held(m)' <=> Held(m) \/ m = x
      BY <3>1, <2>2, NoMsgAssumption DEF Held
    <3>3. \A v \in Worker : wmsg[v] # x
      BY <2>3, <2>8 DEF Owned, Held
    <3>4. \A u, v \in Worker : wmsg'[u] = wmsg'[v] /\ wmsg'[u] # NoMsg => u = v
      BY <3>1, <3>3 DEF Owned
    <3>5. \A m \in Message : Gone(m)' <=> Gone(m)
      BY <2>1, <2>11, SamePlaces
    <3> QED
      BY <2>1, <2>3, <2>6, <2>8, <2>9, <2>10, <3>2, <3>4, <3>5 DEF Owned
  <2>12. CASE UNCHANGED wmsg /\ lost' = lost \cup {x}
    <3>1. \A m \in Message : (Held(m)' <=> Held(m)) /\ (Gone(m)' <=> Gone(m) \/ m = x)
      BY <2>1, <2>12, SamePlaces DEF Gone
    <3> QED
      BY <2>1, <2>3, <2>6, <2>8, <2>9, <2>10, <2>12, <3>1 DEF Owned
  <2> QED
    BY <2>1, <2>11, <2>12
<1>8. ASSUME NEW w \in Worker, Forward(w) PROVE Owned'
  <2> DEFINE x == wmsg[w]
  <2>1. /\ x \in Message /\ freed' = [freed EXCEPT ![x] = @ + 1] /\ wmsg' = [wmsg EXCEPT ![w] = NoMsg]
        /\ UNCHANGED <<list, calls, ppc, lost>>
    BY <1>8 DEF Forward, Free, Control, TypeOK
  <2>2. \A v \in Worker : wmsg'[v] = IF v = w THEN NoMsg ELSE wmsg[v]
    BY <2>1, <1>1
  <2>3. Held(x) /\ \A m \in Message : Held(m)' <=> Held(m) /\ m # x
    BY <2>1, <2>2, NoMsgAssumption DEF Held, Owned
  <2>4. \A u, v \in Worker : wmsg'[u] = wmsg'[v] /\ wmsg'[u] # NoMsg => u = v
    BY <2>2 DEF Owned
  <2> HIDE DEF x
  <2>5. \A m \in Message : (Issued(m)' <=> Issued(m)) /\ (Pushed(m)' <=> Pushed(m)) /\ (Listed(m)' <=> Listed(m))
    BY <2>1, SamePlaces
  <2>6. freed[x] = 0 /\ freed'[x] = 1 /\ \A m \in Message : m # x => freed'[m] = freed[m]
    BY <2>1, <2>3, <1>1 DEF Owned, Gone
  <2>7. \A m \in Message : Gone(m)' <=> Gone(m) \/ m = x
    BY <2>1, <2>6 DEF Gone
  <2> QED
    BY <2>1, <2>3, <2>4, <2>5, <2>6, <2>7 DEF Owned
<1>9. CASE Spurious
  <2>1. \A p \in Producer : ppc'[p] # "idle" <=> ppc[p] # "idle"
    BY <1>9, <1>1 DEF Spurious
  <2> QED
    BY <1>9, <2>1, NothingMoves DEF Spurious
<1>10. CASE DestroyList
  <2>1. /\ list' = << >> /\ UNCHANGED <<calls, ppc, wmsg, lost>>
        /\ \A m \in Message : freed'[m] = IF m \in InList THEN freed[m] + 1 ELSE freed[m]
    BY <1>10 DEF DestroyList, FreedNodes
  <2>2. \A m \in Message : (m \in InList <=> Listed(m)) /\ ~Listed(m)'
    BY <2>1 DEF InList, Listed
  <2>3. \A m \in Message : (Issued(m)' <=> Issued(m)) /\ (Pushed(m)' <=> Pushed(m)) /\ (Held(m)' <=> Held(m))
    BY <2>1, SamePlaces
  <2>4. \A m \in Message : freed'[m] = IF Listed(m) THEN 1 ELSE freed[m]
    BY <2>1, <2>2, <1>1 DEF Owned, Gone
  <2>5. \A m \in Message : Gone(m)' <=> Gone(m) \/ Listed(m)
    BY <2>1, <2>4 DEF Gone
  <2>6. \A k, l \in 1 .. Len(list') : list'[k] = list'[l] => k = l
    BY <2>1
  <2> QED
    BY <2>1, <2>2, <2>3, <2>4, <2>5, <2>6 DEF Owned
<1>11. CASE DestroyNotEmpty \/ DestroyNotFull \/ UNCHANGED vars
  BY <1>11, NothingMoves DEF DestroyNotEmpty, DestroyNotFull, vars
<1> QED
  BY <1>2, <1>3, <1>4, <1>5, <1>6, <1>7, <1>8, <1>9, <1>10, <1>11 DEF Next, Callback, Work, Destroy

-----------------------------------------------------------------------------
LEMMA Invariant == Spec => []IInv
<1>1. Init => IInv
  <2> SUFFICES ASSUME Init PROVE NoLostWakeup
    BY InitControl, InitOwned DEF IInv
  <2>1. Waiting(ppc, Producer) = {} /\ Waiting(wpc, Worker) = {}
    BY DEF Init, Waiting
  <2> QED
    BY <2>1 DEF NoLostWakeup
<1>2. IInv /\ [Next]_vars => IInv'
  <2> SUFFICES ASSUME IInv, [Next]_vars PROVE IInv'
    OBVIOUS
  <2>1. Control /\ Control' /\ Owned /\ PutWakeup /\ GetWakeup
    BY NextControl, WakeupHalves DEF IInv
  <2>2. PutWakeup' /\ GetWakeup'
    BY <2>1, NextPutWakeup, NextGetWakeup
  <2>3. NoLostWakeup'
    BY <2>2 DEF NoLostWakeup, PutWakeup, GetWakeup
  <2>4. Owned'
    BY <2>1, NextOwned
  <2> QED
    BY <2>1, <2>3, <2>4 DEF IInv
<1> QED
  BY <1>1, <1>2, PTL DEF Spec

(* No wakeup of either condition is lost, although msg_queue_push and      *)
(* msg_queue_pop signal one thread at a time, a newcomer may take what a   *)
(* woken thread was woken for, and waits end spuriously or by time-out:    *)
(* for every number of callbacks and workers and every capacity.           *)
THEOREM WakeupsKept == Spec => []NoLostWakeup
<1>1. IInv => NoLostWakeup
  BY DEF IInv
<1> QED
  BY Invariant, <1>1, PTL

(* A payload is freed once, by whoever has it last, and never while it is  *)
(* in use: across a failing push, the worker's copy, and a destruction of  *)
(* the queue under both of them.                                           *)
THEOREM PayloadsFreedOnce == Spec => []PayloadFreedOnce
<1>1. IInv => PayloadFreedOnce
  <2> SUFFICES ASSUME Control, Owned, NEW m \in Message
               PROVE  /\ freed[m] <= 1
                      /\ freed[m] = 1 => /\ m \notin InList /\ \A w \in Worker : wmsg[w] # m
                                         /\ \A p \in Producer : ppc[p] # "idle" => Current(p) # m
                      /\ (freed[m] = 0 /\ m[2] <= calls[m[1]] /\ m \notin lost) =>
                           \/ m \in InList
                           \/ \E w \in Worker : wmsg[w] = m
                           \/ \E p \in Producer : ppc[p] # "idle" /\ Current(p) = m
    BY DEF IInv, PayloadFreedOnce, Control
  <2>1. m \in InList <=> Listed(m)
    BY DEF InList, Listed
  <2>2. (\E p \in Producer : ppc[p] # "idle" /\ Current(p) = m) <=> Pushed(m)
    <3>1. m[1] \in Producer /\ m = <<m[1], m[2]>>
      BY DEF Message
    <3>2. ASSUME NEW p \in Producer, ppc[p] # "idle", Current(p) = m PROVE Pushed(m)
      BY <3>2 DEF Current, Pushed
    <3>3. Pushed(m) => ppc[m[1]] # "idle" /\ Current(m[1]) = m
      BY <3>1 DEF Current, Pushed
    <3> QED
      BY <3>1, <3>2, <3>3
  <2> QED
    BY <2>1, <2>2 DEF Owned, Gone, Held, Issued
<1> QED
  BY Invariant, <1>1, PTL

(* The two conditions, the counter and the linked list implement the       *)
(* bounded channel: first in, first out, no message lost before the queue  *)
(* is destroyed, and none put or taken afterwards.                         *)
THEOREM QueueIsChannel == Spec => ImplementsChannel
<1>1. Init => Channel!ChannelInit
  BY DEF Init, Channel!ChannelInit
<1>2. IInv /\ [Next]_vars => [Channel!ChannelNext]_(Channel!cvars)
  <2> SUFFICES ASSUME Control, [Next]_vars PROVE Channel!ChannelNext \/ UNCHANGED <<list, taken, shutdown>>
    BY DEF IInv, Channel!cvars
  <2> USE DEF queueVars, prodVars, workVars, memVars
  <2>1. ASSUME NEW p \in Producer, PushInsert(p) PROVE Channel!ChannelNext
    <3>1. /\ ~shutdown /\ Len(list) < Capacity /\ list' = Append(list, Current(p)) /\ UNCHANGED <<taken, shutdown>>
      <4>1. /\ ~shutdown /\ ~(count >= Capacity) /\ count = Len(list) /\ count \in Nat
            /\ list' = Append(list, Current(p)) /\ UNCHANGED <<taken, shutdown>>
        BY <2>1 DEF PushInsert, Full, Added, Control, TypeOK
      <4> QED
        BY <4>1, CapacityAssumption
    <3>2. Current(p) \in Message
      BY <2>1, CurrentMessage DEF PushInsert
    <3> QED
      BY <3>1, <3>2 DEF Channel!ChannelNext, Channel!Put
  <2>2. ASSUME NEW w \in Worker, PopTake(w) PROVE Channel!ChannelNext
    BY <2>2 DEF PopTake, Control, Channel!ChannelNext, Channel!Take
  <2>3. CASE DestroyList
    BY <2>3 DEF DestroyList, Control, Channel!ChannelNext, Channel!Close
  <2>4. ASSUME NEW p \in Producer, Receive(p) \/ PushWait(p) \/ PushFail(p) PROVE UNCHANGED <<list, taken, shutdown>>
    BY <2>4 DEF Receive, PushWait, PushFail
  <2>5. ASSUME NEW w \in Worker, PopWait(w) \/ Expire(w) \/ PopNothing(w) \/ Forward(w)
        PROVE  UNCHANGED <<list, taken, shutdown>>
    BY <2>5 DEF PopWait, Expire, PopNothing, Forward
  <2>6. CASE Spurious \/ DestroyNotEmpty \/ DestroyNotFull \/ UNCHANGED vars
    BY <2>6 DEF Spurious, DestroyNotEmpty, DestroyNotFull, vars
  <2> QED
    BY <2>1, <2>2, <2>3, <2>4, <2>5, <2>6 DEF Next, Callback, Work, Destroy
<1> QED
  BY Invariant, <1>1, <1>2, PTL DEF Spec, ImplementsChannel, Channel!ChannelSpec

-----------------------------------------------------------------------------
(* The order.  A call is past when its callback has left the queue's lock  *)
(* for the last time: c and pc are calls and ppc.                          *)
Past(m, c, pc)    == m[2] <= c[m[1]] /\ ~(pc[m[1]] # "idle" /\ c[m[1]] = m[2])
AllPast(s, c, pc) == \A k \in 1 .. Len(s) : Past(s[k], c, pc)
PastCalls         == AllPast(list, calls, ppc) /\ AllPast(taken, calls, ppc)

(* The items of s, then those of q, in the order of their calls. *)
Ordered(s, q) ==
  /\ \A k, l \in 1 .. Len(s) : k < l => Before(s[k], s[l])
  /\ \A k, l \in 1 .. Len(q) : k < l => Before(q[k], q[l])
  /\ \A k \in 1 .. Len(s), l \in 1 .. Len(q) : Before(s[k], q[l])

(* A message that comes after all the others goes to the rear... *)
LEMMA OrderedAppend ==
  ASSUME NEW s \in Seq(Message), NEW q \in Seq(Message), NEW e \in Message, Ordered(s, q),
         \A k \in 1 .. Len(s) : Before(s[k], e), \A k \in 1 .. Len(q) : Before(q[k], e)
  PROVE  Ordered(s, Append(q, e))
<1> DEFINE r == Append(q, e)
<1>1. /\ Len(r) = Len(q) + 1 /\ Len(q) \in Nat
      /\ \A k \in 1 .. Len(q) : r[k] = q[k]
      /\ r[Len(q) + 1] = e
      /\ \A k \in 1 .. Len(r) : k \in 1 .. Len(q) \/ k = Len(q) + 1
  BY AppendItems
<1> HIDE DEF r
<1>2. \A k, l \in 1 .. Len(r) : k < l => Before(r[k], r[l])
  <2> SUFFICES ASSUME NEW k \in 1 .. Len(r), NEW l \in 1 .. Len(r), k < l PROVE Before(r[k], r[l])
    OBVIOUS
  <2>1. k \in 1 .. Len(q)
    BY <1>1
  <2> QED
    BY <1>1, <2>1 DEF Ordered
<1>3. \A k \in 1 .. Len(s), l \in 1 .. Len(r) : Before(s[k], r[l])
  BY <1>1 DEF Ordered
<1> QED
  BY <1>2, <1>3 DEF Ordered, r

(* ... and the one at the front follows what was taken before it. *)
LEMMA OrderedTake ==
  ASSUME NEW s \in Seq(Message), NEW q \in Seq(Message), q # << >>, Ordered(s, q)
  PROVE  Ordered(Append(s, Head(q)), Tail(q))
<1> DEFINE r == Tail(q)
           t == Append(s, Head(q))
<1>1. /\ 1 \in 1 .. Len(q) /\ Head(q) = q[1] /\ Head(q) \in Message
      /\ \A k \in 1 .. Len(r) : k \in Nat /\ k + 1 \in 1 .. Len(q) /\ k + 1 # 1 /\ r[k] = q[k + 1]
  BY TailItems
<1>2. /\ Len(t) = Len(s) + 1 /\ Len(s) \in Nat
      /\ \A k \in 1 .. Len(s) : t[k] = s[k]
      /\ t[Len(s) + 1] = q[1]
      /\ \A k \in 1 .. Len(t) : k \in 1 .. Len(s) \/ k = Len(s) + 1
  BY <1>1, AppendItems
<1> HIDE DEF r, t
<1>3. \A k, l \in 1 .. Len(r) : k < l => Before(r[k], r[l])
  <2> SUFFICES ASSUME NEW k \in 1 .. Len(r), NEW l \in 1 .. Len(r), k < l PROVE Before(r[k], r[l])
    OBVIOUS
  <2>1. k + 1 \in 1 .. Len(q) /\ l + 1 \in 1 .. Len(q) /\ k + 1 < l + 1 /\ r[k] = q[k + 1] /\ r[l] = q[l + 1]
    BY <1>1
  <2> QED
    BY <2>1 DEF Ordered
<1>4. \A k, l \in 1 .. Len(t) : k < l => Before(t[k], t[l])
  <2> SUFFICES ASSUME NEW k \in 1 .. Len(t), NEW l \in 1 .. Len(t), k < l PROVE Before(t[k], t[l])
    OBVIOUS
  <2>1. k \in 1 .. Len(s)
    BY <1>2
  <2> QED
    BY <1>1, <1>2, <2>1 DEF Ordered
<1>5. \A l \in 1 .. Len(r) : Before(q[1], r[l])
  <2> SUFFICES ASSUME NEW l \in 1 .. Len(r) PROVE Before(q[1], r[l])
    OBVIOUS
  <2>1. l + 1 \in 1 .. Len(q) /\ 1 < l + 1 /\ r[l] = q[l + 1]
    BY <1>1
  <2> QED
    BY <1>1, <2>1 DEF Ordered
<1>6. \A k \in 1 .. Len(t), l \in 1 .. Len(r) : Before(t[k], r[l])
  <2> SUFFICES ASSUME NEW k \in 1 .. Len(t), NEW l \in 1 .. Len(r) PROVE Before(t[k], r[l])
    OBVIOUS
  <2>1. CASE k \in 1 .. Len(s)
    BY <1>1, <1>2, <2>1 DEF Ordered
  <2>2. CASE k = Len(s) + 1
    BY <1>2, <1>5, <2>2
  <2> QED
    BY <1>2, <2>1, <2>2
<1> QED
  BY <1>3, <1>4, <1>6 DEF Ordered, r, t

(* The calls stay past when one more of them goes to the rear. *)
LEMMA AllPastAppend ==
  ASSUME NEW s \in Seq(Message), NEW e \in Message, NEW c, NEW pc, AllPast(s, c, pc), Past(e, c, pc)
  PROVE  AllPast(Append(s, e), c, pc)
<1> DEFINE r == Append(s, e)
<1>1. /\ \A k \in 1 .. Len(s) : r[k] = s[k]
      /\ r[Len(s) + 1] = e
      /\ \A k \in 1 .. Len(r) : k \in 1 .. Len(s) \/ k = Len(s) + 1
  BY AppendItems
<1> HIDE DEF r
<1>2. \A k \in 1 .. Len(r) : Past(r[k], c, pc)
  BY <1>1 DEF AllPast
<1> QED
  BY <1>2 DEF AllPast, r

(* A call that is past stays past: a callback that begins another only     *)
(* counts on. *)
LEMMA PastStays ==
  ASSUME Control, [Next]_vars, NEW m \in Message, Past(m, calls, ppc)
  PROVE  Past(m, calls', ppc')
<1> USE DEF queueVars, prodVars, workVars, memVars
<1> DEFINE p == m[1]
<1>0. p \in Producer /\ m[2] \in Nat /\ calls[p] \in Nat /\ p \in DOMAIN ppc /\ p \in DOMAIN calls
  BY BoundAssumption DEF Message, Control, TypeOK
<1>1. ASSUME calls'[p] = calls[p], ppc'[p] # "idle" => ppc[p] # "idle" PROVE Past(m, calls', ppc')
  BY <1>0, <1>1 DEF Past
<1>2. ASSUME NEW o \in Producer, Receive(o) PROVE Past(m, calls', ppc')
  <2>1. ppc[o] = "idle" /\ calls' = [calls EXCEPT ![o] = @ + 1] /\ ppc' = [ppc EXCEPT ![o] = "push"]
    BY <1>2 DEF Receive
  <2>2. CASE p = o
    <3>1. calls'[p] = calls[p] + 1 /\ m[2] <= calls[p]
      BY <1>0, <2>1, <2>2 DEF Past
    <3>2. m[2] <= calls'[p] /\ calls'[p] # m[2]
      BY <1>0, <3>1
    <3> QED
      BY <3>2 DEF Past
  <2>3. CASE p # o
    <3>1. calls'[p] = calls[p] /\ ppc'[p] = ppc[p]
      BY <1>0, <2>1, <2>3
    <3> QED
      BY <1>1, <3>1
  <2> QED
    BY <2>2, <2>3
<1>3. ASSUME NEW o \in Producer, PushWait(o) \/ PushInsert(o) \/ PushFail(o) PROVE Past(m, calls', ppc')
  <2>1. /\ calls' = calls /\ ppc[o] # "idle"
        /\ ppc' = [ppc EXCEPT ![o] = "wait"] \/ ppc' = [ppc EXCEPT ![o] = "idle"]
    BY <1>3 DEF PushWait, PushInsert, PushFail
  <2>2. ppc'[p] # "idle" => ppc[p] # "idle"
    BY <1>0, <2>1
  <2> QED
    BY <1>1, <2>1, <2>2
<1>4. ASSUME \/ \E w \in Worker : PopTake(w)
             \/ Spurious
      PROVE  Past(m, calls', ppc')
  <2>1. /\ calls' = calls
        /\ ppc' = ppc \/ \E o \in Producer : ppc[o] = "wait" /\ ppc' = [ppc EXCEPT ![o] = "woken"]
    BY <1>4 DEF PopTake, SignalFull, Signal, Spurious
  <2>2. ppc'[p] # "idle" => ppc[p] # "idle"
    BY <1>0, <2>1
  <2> QED
    BY <1>1, <2>1, <2>2
<1>5. ASSUME \/ \E w \in Worker : PopWait(w) \/ Expire(w) \/ PopNothing(w) \/ Forward(w)
             \/ DestroyList \/ DestroyNotEmpty \/ DestroyNotFull \/ UNCHANGED vars
      PROVE  Past(m, calls', ppc')
  <2>1. calls' = calls /\ ppc' = ppc
    BY <1>5 DEF PopWait, Expire, PopNothing, Forward, DestroyList, DestroyNotEmpty, DestroyNotFull, vars
  <2> QED
    BY <1>1, <2>1
<1> QED
  BY <1>2, <1>3, <1>4, <1>5 DEF Next, Callback, Work, Destroy

(* No step breaks the order. *)
LEMMA NextOrder ==
  ASSUME Control, PastCalls, InCallOrder, [Next]_vars
  PROVE  PastCalls' /\ InCallOrder'
<1> USE DEF queueVars, prodVars, workVars, memVars
<1>0. list \in Seq(Message) /\ taken \in Seq(Message) /\ Ordered(taken, list)
  BY DEF Control, TypeOK, InCallOrder, Ordered
<1>1. AllPast(list, calls', ppc') /\ AllPast(taken, calls', ppc')
  <2>1. \A k \in 1 .. Len(list) : list[k] \in Message /\ Past(list[k], calls, ppc)
    BY <1>0 DEF PastCalls, AllPast
  <2>2. \A k \in 1 .. Len(taken) : taken[k] \in Message /\ Past(taken[k], calls, ppc)
    BY <1>0 DEF PastCalls, AllPast
  <2> QED
    BY <2>1, <2>2, PastStays DEF AllPast
<1>2. SUFFICES AllPast(list', calls', ppc') /\ AllPast(taken', calls', ppc') /\ Ordered(taken', list')
  BY <1>2 DEF PastCalls, AllPast, InCallOrder, Ordered
<1>3. ASSUME NEW p \in Producer, PushInsert(p)
      PROVE  AllPast(list', calls', ppc') /\ AllPast(taken', calls', ppc') /\ Ordered(taken', list')
  <2>1. /\ ppc[p] # "idle" /\ list' = Append(list, Current(p)) /\ taken' = taken
        /\ calls' = calls /\ ppc' = [ppc EXCEPT ![p] = "idle"]
    BY <1>3 DEF PushInsert, Added
  <2>2. Current(p) \in Message /\ Current(p) = <<p, calls[p]>> /\ calls[p] \in Nat /\ ppc'[p] = "idle"
    <3>1. Current(p) \in Message
      BY <2>1, CurrentMessage
    <3>2. calls[p] \in Nat /\ p \in DOMAIN ppc
      BY BoundAssumption DEF Control, TypeOK
    <3> QED
      BY <2>1, <3>1, <3>2 DEF Current
  <2>3. \A m \in Message : Past(m, calls, ppc) => Before(m, Current(p))
    <3> SUFFICES ASSUME NEW m \in Message, Past(m, calls, ppc), m[1] = p PROVE m[2] < calls[p]
      BY <2>2 DEF Before
    <3>1. m[2] \in Nat /\ m[2] <= calls[p] /\ m[2] # calls[p]
      BY <2>1, BoundAssumption DEF Past, Message
    <3> QED
      BY <2>2, <3>1
  <2>4. Ordered(taken', list')
    <3>1. \A k \in 1 .. Len(taken) : Before(taken[k], Current(p))
      BY <1>0, <2>3 DEF PastCalls, AllPast
    <3>2. \A k \in 1 .. Len(list) : Before(list[k], Current(p))
      BY <1>0, <2>3 DEF PastCalls, AllPast
    <3> QED
      BY <1>0, <2>1, <2>2, <3>1, <3>2, OrderedAppend
  <2>5. Past(Current(p), calls', ppc')
    BY <2>1, <2>2 DEF Past
  <2>6. AllPast(list', calls', ppc')
    BY <1>0, <1>1, <2>1, <2>2, <2>5, AllPastAppend
  <2> QED
    BY <1>1, <2>1, <2>4, <2>6
<1>4. ASSUME NEW w \in Worker, PopTake(w)
      PROVE  AllPast(list', calls', ppc') /\ AllPast(taken', calls', ppc') /\ Ordered(taken', list')
  <2>1. list # << >> /\ list' = Tail(list) /\ taken' = Append(taken, Head(list))
    BY <1>4 DEF PopTake
  <2>2. Ordered(taken', list')
    BY <1>0, <2>1, OrderedTake
  <2>3. AllPast(list', calls', ppc')
    BY <1>0, <1>1, <2>1, TailItems DEF AllPast
  <2>4. AllPast(taken', calls', ppc')
    <3>1. Head(list) \in Message /\ Past(Head(list), calls', ppc')
      BY <1>0, <1>1, <2>1, TailItems DEF AllPast
    <3> QED
      BY <1>0, <1>1, <2>1, <3>1, AllPastAppend
  <2> QED
    BY <2>2, <2>3, <2>4
<1>5. ASSUME DestroyList
      PROVE  AllPast(list', calls', ppc') /\ AllPast(taken', calls', ppc') /\ Ordered(taken', list')
  <2>1. list' = << >> /\ taken' = taken
    BY <1>5 DEF DestroyList
  <2> QED
    BY <1>0, <1>1, <2>1 DEF AllPast, Ordered
<1>6. ASSUME \/ \E p \in Producer : Receive(p) \/ PushWait(p) \/ PushFail(p)
             \/ \E w \in Worker : PopWait(w) \/ Expire(w) \/ PopNothing(w) \/ Forward(w)
             \/ Spurious \/ DestroyNotEmpty \/ DestroyNotFull \/ UNCHANGED vars
      PROVE  AllPast(list', calls', ppc') /\ AllPast(taken', calls', ppc') /\ Ordered(taken', list')
  <2>1. list' = list /\ taken' = taken
    BY <1>6 DEF Receive, PushWait, PushFail, PopWait, Expire, PopNothing, Forward, Spurious,
                DestroyNotEmpty, DestroyNotFull, vars
  <2> QED
    BY <1>0, <1>1, <2>1
<1> QED
  BY <1>3, <1>4, <1>5, <1>6 DEF Next, Callback, Work, Destroy

(* However many callbacks and workers there are and whatever fails, the    *)
(* messages of one callback are taken from the queue in the order of its   *)
(* calls, and none is taken twice.                                         *)
THEOREM TakenInOrder == Spec => []InCallOrder
<1>1. Init => PastCalls /\ InCallOrder
  BY DEF Init, PastCalls, AllPast, InCallOrder
<1>2. IInv /\ PastCalls /\ InCallOrder /\ [Next]_vars => PastCalls' /\ InCallOrder'
  BY NextOrder DEF IInv
<1> QED
  BY Invariant, <1>1, <1>2, PTL DEF Spec
=============================================================================
