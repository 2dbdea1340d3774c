------------------------ MODULE NetProxyQueueProofs ------------------------
(***************************************************************************)
(* The send path of the network proxy, for every number of messages and    *)
(* priorities and every ring size: messages are conserved (Conserved), the *)
(* preemption check is current (SendCurrent), the order is kept            *)
(* (OrderKept), and rings, scans and put-back implement NetProxyRelay.     *)
(*                                                                         *)
(* First the ring arithmetic: what push and pop do to a ring is what       *)
(* Append and Tail do to the sequence it stands for.  After that the       *)
(* indices do not occur any more.                                          *)
(***************************************************************************)
EXTENDS NetProxyQueue, FiniteSetTheorems, SequenceTheorems, TLAPS

(* The items of a queue after an insertion at the tail... *)
LEMMA AppendItems ==
  ASSUME NEW S, NEW s \in Seq(S), NEW e \in S
  PROVE  /\ Len(Append(s, e)) = Len(s) + 1 /\ Len(s) \in Nat
         /\ \A k \in 1 .. Len(s) : k \in 1 .. Len(Append(s, e)) /\ Append(s, e)[k] = s[k]
         /\ Append(s, e)[Len(s) + 1] = e
         /\ \A k \in 1 .. Len(Append(s, e)) : k \in 1 .. Len(s) \/ k = Len(s) + 1
  OBVIOUS

(* ... and after a removal from the head. *)
LEMMA TailItems ==
  ASSUME NEW S, NEW s \in Seq(S), s # << >>
  PROVE  /\ 1 \in 1 .. Len(s) /\ Head(s) = s[1] /\ Head(s) \in S
         /\ \A k \in 1 .. Len(Tail(s)) :
              k \in Nat /\ k + 1 \in 1 .. Len(s) /\ k + 1 # 1 /\ Tail(s)[k] = s[k + 1]
         /\ \A k \in 1 .. Len(s) : k = 1 \/ (k - 1 \in 1 .. Len(Tail(s)) /\ Tail(s)[k - 1] = s[k])
  OBVIOUS

(* A set whose elements are all the same. *)
LEMMA ExactlyOne ==
  ASSUME NEW S, \A o1, o2 \in S : o1 = o2, S # {}
  PROVE  Cardinality(S) = 1
<1>1. PICK o : o \in S
  OBVIOUS
<1>2. S = {o}
  BY <1>1
<1>3. Cardinality({o}) = 1
  BY FS_Singleton
<1> QED
  BY <1>2, <1>3

(* One ring: its slots, its head and its count. *)
Index(h, k)     == (h + k - 1) % Size
RingOf(s, h, c) == [k \in 1 .. c |-> s[Index(h, k)]]
Filled(s, h, c) == \A k \in 1 .. c : s[Index(h, k)] \in Msg
Slots           == [Slot -> Msg \cup {NoMsg}]

(* Indices wrap once at most. *)
LEMMA WrapOnce ==
  ASSUME NEW x \in Nat, x < 2 * Size
  PROVE  x % Size = IF x < Size THEN x ELSE x - Size
<1>1. Size \in Nat \ {0}
  BY SizeAssumption
<1>2. CASE x < Size
  BY <1>1, <1>2
<1>3. CASE x >= Size
  BY <1>1, <1>3
<1> QED
  BY <1>1, <1>2, <1>3

LEMMA Wrap ==
  ASSUME NEW a \in Slot, NEW b \in 0 .. Size
  PROVE  (a + b) % Size = IF a + b < Size THEN a + b ELSE a + b - Size
<1>1. a \in Int /\ b \in Int /\ Size \in Nat \ {0} /\ a + b \in Nat /\ a + b < 2 * Size
  BY SizeAssumption DEF Slot
<1> QED
  BY <1>1, WrapOnce

LEMMA IndexIs ==
  ASSUME NEW h \in Slot, NEW k \in 1 .. Size + 1
  PROVE  /\ Index(h, k) = IF h + k - 1 < Size THEN h + k - 1 ELSE h + k - 1 - Size
         /\ Index(h, k) \in Slot
<1>1. k - 1 \in 0 .. Size /\ h + (k - 1) = h + k - 1 /\ h \in 0 .. Size - 1 /\ Size \in Nat
  BY SizeAssumption DEF Slot
<1>2. (h + (k - 1)) % Size = IF h + (k - 1) < Size THEN h + (k - 1) ELSE h + (k - 1) - Size
  BY <1>1, Wrap
<1>3. Index(h, k) = IF h + k - 1 < Size THEN h + k - 1 ELSE h + k - 1 - Size
  BY <1>1, <1>2 DEF Index
<1> QED
  BY <1>1, <1>3 DEF Slot

(* Different places of a ring have different indices. *)
LEMMA IndexApart ==
  ASSUME NEW h \in Slot, NEW k \in 1 .. Size, NEW l \in 1 .. Size, Index(h, k) = Index(h, l)
  PROVE  k = l
<1>1. h \in 0 .. Size - 1 /\ Size \in Nat /\ k \in 1 .. Size + 1 /\ l \in 1 .. Size + 1
  BY SizeAssumption DEF Slot
<1>2. /\ Index(h, k) = IF h + k - 1 < Size THEN h + k - 1 ELSE h + k - 1 - Size
      /\ Index(h, l) = IF h + l - 1 < Size THEN h + l - 1 ELSE h + l - 1 - Size
  BY <1>1, IndexIs
<1>3. (IF h + k - 1 < Size THEN h + k - 1 ELSE h + k - 1 - Size)
        = (IF h + l - 1 < Size THEN h + l - 1 ELSE h + l - 1 - Size)
  BY <1>2
<1> QED
  BY <1>1, <1>3

(* A ring stands for a sequence. *)
LEMMA RingIsSeq ==
  ASSUME NEW s, NEW h, NEW c \in Nat, Filled(s, h, c)
  PROVE  /\ RingOf(s, h, c) \in Seq(Msg) /\ Len(RingOf(s, h, c)) = c
         /\ \A k \in 1 .. c : RingOf(s, h, c)[k] = s[Index(h, k)]
<1>1. RingOf(s, h, c) \in [1 .. c -> Msg]
  BY DEF RingOf, Filled
<1>2. RingOf(s, h, c) \in Seq(Msg)
  BY <1>1, SeqDef
<1>3. DOMAIN RingOf(s, h, c) = 1 .. c
  BY DEF RingOf
<1>4. Len(RingOf(s, h, c)) = c
  <2>1. Len(RingOf(s, h, c)) \in Nat /\ DOMAIN RingOf(s, h, c) = 1 .. Len(RingOf(s, h, c))
    BY <1>2, LenProperties
  <2> DEFINE n == Len(RingOf(s, h, c))
  <2>2. n \in Nat /\ 1 .. n = 1 .. c
    BY <2>1, <1>3
  <2> HIDE DEF n
  <2>3. (n > 0 => n \in 1 .. c) /\ (c > 0 => c \in 1 .. n)
    BY <2>2
  <2>4. n = c
    BY <2>2, <2>3
  <2> QED
    BY <2>4 DEF n
<1> QED
  BY <1>2, <1>4 DEF RingOf

(* The push: at the index behind the last. *)
LEMMA RingPut ==
  ASSUME NEW s \in Slots, NEW h \in Slot, NEW c \in 0 .. Size, c < Size, Filled(s, h, c), NEW m \in Msg,
         NEW t, t = (h + c) % Size
  PROVE  LET s2 == [s EXCEPT ![t] = m] IN
         /\ t \in Slot /\ Succ(t) = (h + (c + 1)) % Size /\ Succ(t) \in Slot
         /\ s2 \in Slots /\ Filled(s2, h, c + 1)
         /\ RingOf(s2, h, c + 1) = Append(RingOf(s, h, c), m)
<1> DEFINE s2 == [s EXCEPT ![t] = m]
<1>1. h \in 0 .. Size - 1 /\ Size \in Nat \ {0} /\ c \in Nat /\ c + 1 \in 1 .. Size
  BY SizeAssumption DEF Slot
<1>2. t = Index(h, c + 1) /\ t \in Slot
  <2>1. h + (c + 1) - 1 = h + c
    BY <1>1
  <2>2. t = Index(h, c + 1)
    BY <2>1 DEF Index
  <2>3. c + 1 \in 1 .. Size + 1
    BY <1>1
  <2> QED
    BY <2>2, <2>3, IndexIs
<1>3. Succ(t) = (h + (c + 1)) % Size /\ Succ(t) \in Slot
  <2>1. t = IF h + c < Size THEN h + c ELSE h + c - Size
    BY <1>1, Wrap
  <2>2. (t + 1) % Size = IF t + 1 < Size THEN t + 1 ELSE t + 1 - Size
    BY <1>1, <1>2, Wrap
  <2>3. (h + (c + 1)) % Size = IF h + (c + 1) < Size THEN h + (c + 1) ELSE h + (c + 1) - Size
    BY <1>1, Wrap
  <2> QED
    BY <1>1, <2>1, <2>2, <2>3 DEF Succ, Slot
<1>4. s2 \in Slots /\ s2[t] = m
  BY <1>2 DEF Slots
<1>5. \A k \in 1 .. c : s2[Index(h, k)] = s[Index(h, k)]
  <2> SUFFICES ASSUME NEW k \in 1 .. c PROVE Index(h, k) # t
    BY <1>2 DEF Slots
  <2>1. k \in 1 .. Size /\ c + 1 \in 1 .. Size /\ k # c + 1
    BY <1>1
  <2> QED
    BY <2>1, <1>2, IndexApart
<1>6. \A k \in 1 .. c + 1 : k \in 1 .. c \/ k = c + 1
  BY <1>1
<1> HIDE DEF s2
<1>7. Filled(s2, h, c + 1)
  BY <1>2, <1>4, <1>5, <1>6 DEF Filled
<1>8. RingOf(s2, h, c + 1) = Append(RingOf(s, h, c), m)
  <2> DEFINE r == RingOf(s, h, c)  r2 == RingOf(s2, h, c + 1)
  <2>1. r \in Seq(Msg) /\ Len(r) = c /\ \A k \in 1 .. c : r[k] = s[Index(h, k)]
    BY <1>1, RingIsSeq
  <2>2. r2 \in Seq(Msg) /\ Len(r2) = c + 1 /\ \A k \in 1 .. c + 1 : r2[k] = s2[Index(h, k)]
    BY <1>1, <1>7, RingIsSeq
  <2> HIDE DEF r, r2
  <2>3. /\ Append(r, m) \in Seq(Msg) /\ Len(Append(r, m)) = c + 1 /\ Append(r, m)[c + 1] = m
        /\ \A k \in 1 .. c : Append(r, m)[k] = r[k]
    BY <2>1, AppendItems
  <2>4. \A k \in 1 .. Len(r2) : r2[k] = Append(r, m)[k]
    BY <2>1, <2>2, <2>3, <1>1, <1>2, <1>4, <1>5, <1>6
  <2>5. r2 = Append(r, m)
    BY <2>2, <2>3, <2>4, SeqEqual
  <2> QED
    BY <2>5 DEF r, r2
<1> QED
  BY <1>2, <1>3, <1>4, <1>7, <1>8 DEF s2

(* The pop: from the head. *)
LEMMA RingDrop ==
  ASSUME NEW s \in Slots, NEW h \in Slot, NEW c \in 0 .. Size, c > 0, Filled(s, h, c)
  PROVE  /\ Succ(h) \in Slot /\ (Succ(h) + (c - 1)) % Size = (h + c) % Size
         /\ Filled(s, Succ(h), c - 1)
         /\ RingOf(s, h, c) # << >> /\ Head(RingOf(s, h, c)) = s[h]
         /\ RingOf(s, Succ(h), c - 1) = Tail(RingOf(s, h, c))
<1>1. h \in 0 .. Size - 1 /\ Size \in Nat \ {0} /\ c \in 1 .. Size /\ c - 1 \in Nat /\ c \in Nat
  BY SizeAssumption DEF Slot
<1>2. Succ(h) = (IF h + 1 < Size THEN h + 1 ELSE 0) /\ Succ(h) \in Slot
  <2>1. (h + 1) % Size = IF h + 1 < Size THEN h + 1 ELSE h + 1 - Size
    BY <1>1, Wrap
  <2> QED
    BY <1>1, <2>1 DEF Succ, Slot
<1>3. (Succ(h) + (c - 1)) % Size = (h + c) % Size
  <2>1. /\ (Succ(h) + (c - 1)) % Size = IF Succ(h) + (c - 1) < Size THEN Succ(h) + (c - 1) ELSE Succ(h) + (c - 1) - Size
        /\ (h + c) % Size = IF h + c < Size THEN h + c ELSE h + c - Size
    BY <1>1, <1>2, Wrap
  <2> QED
    BY <1>1, <1>2, <2>1
<1>4. \A k \in 1 .. c - 1 : k + 1 \in 1 .. c /\ Index(Succ(h), k) = Index(h, k + 1)
  <2> SUFFICES ASSUME NEW k \in 1 .. c - 1 PROVE Index(Succ(h), k) = Index(h, k + 1)
    BY <1>1
  <2>1. k \in 1 .. Size + 1 /\ k + 1 \in 1 .. Size + 1
    BY <1>1
  <2>2. /\ Index(Succ(h), k) = IF Succ(h) + k - 1 < Size THEN Succ(h) + k - 1 ELSE Succ(h) + k - 1 - Size
        /\ Index(h, k + 1) = IF h + (k + 1) - 1 < Size THEN h + (k + 1) - 1 ELSE h + (k + 1) - 1 - Size
    BY <1>2, <2>1, IndexIs
  <2> QED
    BY <1>1, <1>2, <2>2
<1>5. Filled(s, Succ(h), c - 1)
  BY <1>4 DEF Filled
<1>6. Index(h, 1) = h
  <2>1. 1 \in 1 .. Size + 1
    BY <1>1
  <2>2. Index(h, 1) = IF h + 1 - 1 < Size THEN h + 1 - 1 ELSE h + 1 - 1 - Size
    BY <2>1, IndexIs
  <2> QED
    BY <2>2, <1>1
<1> DEFINE r == RingOf(s, h, c)  r2 == RingOf(s, Succ(h), c - 1)
<1>7. r \in Seq(Msg) /\ Len(r) = c /\ \A k \in 1 .. c : r[k] = s[Index(h, k)]
  BY <1>1, RingIsSeq
<1>8. r2 \in Seq(Msg) /\ Len(r2) = c - 1 /\ \A k \in 1 .. c - 1 : r2[k] = s[Index(Succ(h), k)]
  BY <1>1, <1>5, RingIsSeq
<1> HIDE DEF r, r2
<1>9. r # << >> /\ Head(r) = r[1]
  BY <1>1, <1>7
<1>10. Tail(r) \in Seq(Msg) /\ Len(Tail(r)) = c - 1 /\ \A k \in 1 .. c - 1 : Tail(r)[k] = r[k + 1]
  BY <1>7, <1>9, HeadTailProperties
<1>11. r2 = Tail(r)
  <2>1. \A k \in 1 .. Len(r2) : r2[k] = Tail(r)[k]
    BY <1>4, <1>7, <1>8, <1>10
  <2> QED
    BY <2>1, <1>8, <1>10, SeqEqual
<1>12. 1 \in 1 .. c
  BY <1>1
<1> QED
  BY <1>2, <1>3, <1>5, <1>6, <1>7, <1>9, <1>11, <1>12 DEF r, r2

-----------------------------------------------------------------------------
(* The FIFOs the rings stand for. *)
Fifo == [p \in Pri |-> Ring(p)]

(* The indices belong together, and no slot between them is empty. *)
Rings == \A p \in Pri : /\ tail[p] = (head[p] + count[p]) % Size
                        /\ Filled(slot[p], head[p], count[p])

(* What the two program counters say. *)
Control ==
  /\ TypeOK /\ Rings
  /\ tpc = "scan" <=> node = NoMsg
  /\ tpc = "check" => i >= npri
  /\ tpc = "requeue" => i > npri /\ i \in Pri /\ count[i] > 0
  /\ rpc = "push" => cur \in Msg /\ ~WasAccepted(cur)

LEMMA FifoType ==
  ASSUME TypeOK, Rings
  PROVE  /\ Fifo \in [Pri -> Seq(Msg)]
         /\ \A p \in Pri : Fifo[p] = RingOf(slot[p], head[p], count[p]) /\ Len(Fifo[p]) = count[p]
<1>1. ASSUME NEW p \in Pri PROVE Fifo[p] = RingOf(slot[p], head[p], count[p])
  BY DEF Fifo, Ring, RingOf, Index
<1>2. ASSUME NEW p \in Pri
      PROVE  RingOf(slot[p], head[p], count[p]) \in Seq(Msg) /\ Len(RingOf(slot[p], head[p], count[p])) = count[p]
  <2>1. count[p] \in Nat /\ Filled(slot[p], head[p], count[p])
    BY SizeAssumption DEF TypeOK, Rings
  <2> QED
    BY <2>1, RingIsSeq
<1> QED
  BY <1>1, <1>2 DEF Fifo

LEMMA PutEffect ==
  ASSUME TypeOK, Rings, NEW p \in Pri, NEW m \in Msg, HasRoom(p), PutTail(p, m)
  PROVE  /\ slot' \in [Pri -> Slots] /\ head' \in [Pri -> Slot] /\ tail' \in [Pri -> Slot]
         /\ count' \in [Pri -> 0 .. Size] /\ Rings'
         /\ Fifo' = [Fifo EXCEPT ![p] = Append(@, m)]
         /\ \A q \in Pri : count[q] > 0 => count'[q] > 0
<1>1. /\ slot \in [Pri -> Slots] /\ head \in [Pri -> Slot] /\ tail \in [Pri -> Slot] /\ count \in [Pri -> 0 .. Size]
      /\ Size \in Nat
  BY SizeAssumption DEF TypeOK, Slots
<1>2. /\ slot' = [slot EXCEPT ![p] = [slot[p] EXCEPT ![tail[p]] = m]] /\ head' = head
      /\ tail' = [tail EXCEPT ![p] = Succ(tail[p])] /\ count' = [count EXCEPT ![p] = count[p] + 1]
  BY <1>1 DEF PutTail
<1> DEFINE s2 == [slot[p] EXCEPT ![tail[p]] = m]
<1>3. /\ tail[p] \in Slot /\ Succ(tail[p]) = (head[p] + (count[p] + 1)) % Size /\ Succ(tail[p]) \in Slot
      /\ s2 \in Slots /\ Filled(s2, head[p], count[p] + 1)
      /\ RingOf(s2, head[p], count[p] + 1) = Append(RingOf(slot[p], head[p], count[p]), m)
  <2>1. /\ slot[p] \in Slots /\ head[p] \in Slot /\ count[p] \in 0 .. Size /\ count[p] < Size
        /\ Filled(slot[p], head[p], count[p]) /\ tail[p] = (head[p] + count[p]) % Size
    BY <1>1 DEF HasRoom, Rings
  <2> QED
    BY <2>1, RingPut
<1>4. count[p] + 1 \in 0 .. Size
  BY <1>1 DEF HasRoom
<1> HIDE DEF s2
<1>5. \A q \in Pri : /\ slot'[q] = (IF q = p THEN s2 ELSE slot[q]) /\ head'[q] = head[q]
                     /\ tail'[q] = (IF q = p THEN Succ(tail[p]) ELSE tail[q])
                     /\ count'[q] = (IF q = p THEN count[p] + 1 ELSE count[q])
  BY <1>1, <1>2 DEF s2
<1>6. /\ slot' \in [Pri -> Slots] /\ head' \in [Pri -> Slot] /\ tail' \in [Pri -> Slot]
      /\ count' \in [Pri -> 0 .. Size]
  BY <1>1, <1>2, <1>3, <1>4 DEF s2
<1>7. Rings'
  BY <1>3, <1>5 DEF Rings
<1>8. Fifo' = [Fifo EXCEPT ![p] = Append(@, m)]
  <2>1. \A q \in Pri : Fifo[q] = RingOf(slot[q], head[q], count[q])
    BY FifoType
  <2>2. \A q \in Pri : Fifo'[q] = RingOf(slot'[q], head'[q], count'[q])
    BY DEF Fifo, Ring, RingOf, Index
  <2>3. \A q \in Pri : Fifo'[q] = IF q = p THEN Append(Fifo[p], m) ELSE Fifo[q]
    BY <2>1, <2>2, <1>3, <1>5
  <2>4. Fifo' = [q \in Pri |-> Fifo'[q]] /\ Fifo = [q \in Pri |-> Fifo[q]]
    BY DEF Fifo
  <2> QED
    BY <2>3, <2>4
<1>9. \A q \in Pri : count[q] > 0 => count'[q] > 0
  BY <1>1, <1>5
<1> QED
  BY <1>6, <1>7, <1>8, <1>9

LEMMA DropEffect ==
  ASSUME TypeOK, Rings, NEW p \in Pri, count[p] > 0, DropHead(p)
  PROVE  /\ head' \in [Pri -> Slot] /\ count' \in [Pri -> 0 .. Size] /\ UNCHANGED <<slot, tail>> /\ Rings'
         /\ Fifo[p] # << >> /\ Oldest(p) = Head(Fifo[p])
         /\ Fifo' = [Fifo EXCEPT ![p] = Tail(@)]
<1>1. /\ slot \in [Pri -> Slots] /\ head \in [Pri -> Slot] /\ tail \in [Pri -> Slot] /\ count \in [Pri -> 0 .. Size]
      /\ Size \in Nat
  BY SizeAssumption DEF TypeOK, Slots
<1>2. /\ head' = [head EXCEPT ![p] = Succ(head[p])] /\ count' = [count EXCEPT ![p] = count[p] - 1]
      /\ UNCHANGED <<slot, tail>>
  BY <1>1 DEF DropHead
<1>3. /\ Succ(head[p]) \in Slot /\ (Succ(head[p]) + (count[p] - 1)) % Size = (head[p] + count[p]) % Size
      /\ Filled(slot[p], Succ(head[p]), count[p] - 1)
      /\ RingOf(slot[p], head[p], count[p]) # << >> /\ Head(RingOf(slot[p], head[p], count[p])) = slot[p][head[p]]
      /\ RingOf(slot[p], Succ(head[p]), count[p] - 1) = Tail(RingOf(slot[p], head[p], count[p]))
  <2>1. slot[p] \in Slots /\ head[p] \in Slot /\ count[p] \in 0 .. Size /\ Filled(slot[p], head[p], count[p])
    BY <1>1 DEF Rings
  <2> QED
    BY <2>1, RingDrop
<1>4. count[p] - 1 \in 0 .. Size
  BY <1>1
<1>5. \A q \in Pri : /\ head'[q] = (IF q = p THEN Succ(head[p]) ELSE head[q])
                     /\ count'[q] = (IF q = p THEN count[p] - 1 ELSE count[q])
  BY <1>1, <1>2
<1>6. head' \in [Pri -> Slot] /\ count' \in [Pri -> 0 .. Size]
  BY <1>1, <1>2, <1>3, <1>4
<1>7. Rings'
  BY <1>2, <1>3, <1>5 DEF Rings
<1>8. \A q \in Pri : Fifo[q] = RingOf(slot[q], head[q], count[q])
  BY FifoType
<1>9. Fifo' = [Fifo EXCEPT ![p] = Tail(@)]
  <2>1. \A q \in Pri : Fifo'[q] = RingOf(slot'[q], head'[q], count'[q])
    BY DEF Fifo, Ring, RingOf, Index
  <2>2. \A q \in Pri : Fifo'[q] = IF q = p THEN Tail(Fifo[p]) ELSE Fifo[q]
    <3> TAKE q \in Pri
    <3>1. CASE q = p
      <4>1. slot'[q] = slot[p] /\ head'[q] = Succ(head[p]) /\ count'[q] = count[p] - 1
        BY <1>2, <1>5, <3>1
      <4> QED
        BY <2>1, <1>3, <1>8, <3>1, <4>1
    <3>2. CASE q # p
      <4>1. slot'[q] = slot[q] /\ head'[q] = head[q] /\ count'[q] = count[q]
        BY <1>2, <1>5, <3>2
      <4> QED
        BY <2>1, <1>8, <3>2, <4>1
    <3> QED
      BY <3>1, <3>2
  <2>3. Fifo' = [q \in Pri |-> Fifo'[q]] /\ Fifo = [q \in Pri |-> Fifo[q]]
    BY DEF Fifo
  <2> QED
    BY <2>2, <2>3
<1> QED
  BY <1>2, <1>3, <1>6, <1>7, <1>8, <1>9 DEF Oldest

LEMMA SameFifo == UNCHANGED rings => Fifo' = Fifo /\ (Rings => Rings')
  BY DEF rings, Fifo, Ring, Rings

(* The initial rings are empty. *)
LEMMA InitControl ==
  ASSUME Init
  PROVE  Control /\ Fifo = [p \in Pri |-> << >>]
<1>1. Size \in Nat \ {0} /\ MaxPri \in Nat /\ 0 \in Slot /\ 0 \in 0 .. Size /\ 0 \in Pri /\ MaxPri \in -1 .. MaxPri
  BY SizeAssumption, PriAssumption DEF Slot, Pri
<1>2. TypeOK
  BY <1>1 DEF Init, TypeOK
<1>3. Rings
  <2>1. (0 + 0) % Size = 0 /\ 1 .. 0 = {}
    BY <1>1
  <2> QED
    BY <2>1 DEF Init, Rings, Filled
<1>4. Fifo = [p \in Pri |-> << >>]
  <2>1. 1 .. 0 = {}
    OBVIOUS
  <2>2. ASSUME NEW p \in Pri PROVE Ring(p) = << >>
    <3>1. Fifo[p] \in Seq(Msg) /\ Len(Fifo[p]) = 0 /\ Fifo[p] = Ring(p)
      BY <1>2, <1>3, FifoType DEF Init, Fifo
    <3> QED
      BY <3>1
  <2> QED
    BY <2>2 DEF Fifo
<1> QED
  BY <1>2, <1>3, <1>4 DEF Init, Control

(* A step keeps the types, the indices and the control facts. *)
LEMMA NextControl == Control /\ [Next]_vars => Control'
<1> SUFFICES ASSUME Control, Next \/ UNCHANGED vars PROVE Control'
  OBVIOUS
<1>1. /\ TypeOK /\ Rings /\ MaxPri \in Nat /\ Size \in Nat \ {0} /\ NoMsg \notin Msg
      /\ 0 \in Pri /\ MaxPri \in Pri /\ MaxPri \in -1 .. MaxPri
  BY SizeAssumption, PriAssumption, MsgAssumption DEF Control, Pri
<1>2. ASSUME NEW p \in 0 .. MaxPri + 1, RpcReceive(p) PROVE Control'
  <2>1. cur' \in NewMsgs
    BY <1>2 DEF RpcReceive
  <2>2. cur' \in Msg /\ ~WasAccepted(cur')
    BY <2>1 DEF NewMsgs, WasAccepted
  <2>3. Clamp(p) \in Pri
    BY <1>1 DEF Clamp, Pri
  <2> QED
    BY <1>1, <1>2, <2>2, <2>3 DEF Control, RpcReceive, TypeOK, Rings, rings, thrVars, history, WasAccepted
<1>3. CASE RpcPush
  <2>1. CASE HasRoom(curpri)
    <3>1. curpri \in Pri /\ cur \in Msg /\ PutTail(curpri, cur)
      BY <1>1, <1>3, <2>1 DEF RpcPush, Control, TypeOK
    <3>2. /\ slot' \in [Pri -> Slots] /\ head' \in [Pri -> Slot] /\ tail' \in [Pri -> Slot]
          /\ count' \in [Pri -> 0 .. Size] /\ Rings'
          /\ \A q \in Pri : count[q] > 0 => count'[q] > 0
      BY <1>1, <2>1, <3>1, PutEffect
    <3>3. accepted' \in Seq(Msg \X Pri) /\ late' \in SUBSET Msg
      <4>1. accepted \in Seq(Msg \X Pri) /\ late \in SUBSET Msg /\ <<cur, curpri>> \in Msg \X Pri
        BY <1>1, <3>1 DEF TypeOK
      <4>2. accepted' = Append(accepted, <<cur, curpri>>) /\ late' = late \cup {cur}
        BY <1>3, <2>1 DEF RpcPush
      <4> QED
        BY <3>1, <4>1, <4>2
    <3>4. TypeOK'
      BY <1>1, <1>3, <3>2, <3>3 DEF RpcPush, TypeOK, thrVars, Slots
    <3> QED
      BY <1>3, <3>2, <3>4 DEF RpcPush, Control, thrVars
  <2>2. CASE ~HasRoom(curpri)
    BY <1>1, <1>3, <2>2 DEF RpcPush, Control, TypeOK, Rings, rings, thrVars
  <2> QED
    BY <2>1, <2>2
<1>4. CASE RpcReturn
  BY <1>1, <1>4 DEF RpcReturn, Control, TypeOK, Rings, rings, thrVars, history
<1>5. CASE ScanTake
  <2>1. i \in Pri /\ count[i] > 0 /\ DropHead(i)
    BY <1>1, <1>5 DEF ScanTake, TypeOK, Pri
  <2>2. /\ head' \in [Pri -> Slot] /\ count' \in [Pri -> 0 .. Size] /\ UNCHANGED <<slot, tail>> /\ Rings'
        /\ Fifo[i] # << >> /\ Oldest(i) = Head(Fifo[i]) /\ Fifo[i] \in Seq(Msg)
    BY <1>1, <2>1, DropEffect, FifoType
  <2>3. node' \in Msg
    BY <1>5, <2>2 DEF ScanTake
  <2>4. TypeOK'
    BY <1>1, <1>5, <2>1, <2>2, <2>3 DEF ScanTake, TypeOK, rpcVars, Top
  <2>5. i' = MaxPri /\ npri' = i /\ MaxPri >= i
    BY <1>1, <1>5, <2>1 DEF ScanTake, Top, Pri
  <2> QED
    BY <1>1, <1>5, <2>2, <2>3, <2>4, <2>5 DEF ScanTake, Control, rpcVars, WasAccepted
<1>6. CASE ScanDown
  <2>1. i - 1 \in -1 .. MaxPri
    BY <1>1, <1>6 DEF ScanDown, TypeOK
  <2> QED
    BY <1>1, <1>6, <2>1 DEF ScanDown, Control, TypeOK, Rings, rings, rpcVars, history, WasAccepted
<1>7. CASE Sleep
  BY <1>1, <1>7 DEF Sleep, TopLevel, Control, TypeOK, Rings, rings, rpcVars, history, WasAccepted
<1>8. CASE CheckRing
  <2>1. i \in Int /\ npri \in Int /\ npri >= 0 /\ i > npri /\ i \in Pri /\ i - 1 \in -1 .. MaxPri /\ i - 1 >= npri
    BY <1>1, <1>8 DEF CheckRing, Above, TypeOK, Pri
  <2>2. CASE count[i] > 0
    BY <1>1, <1>8, <2>1, <2>2 DEF CheckRing, Control, TypeOK, Rings, rings, rpcVars, history, WasAccepted
  <2>3. CASE ~(count[i] > 0)
    BY <1>1, <1>8, <2>1, <2>3 DEF CheckRing, Control, TypeOK, Rings, rings, rpcVars, history, WasAccepted
  <2> QED
    BY <2>2, <2>3
<1>9. CASE CheckDone
  BY <1>1, <1>9 DEF CheckDone, Control, TypeOK, Rings, rings, rpcVars, history, WasAccepted
<1>10. CASE Requeue
  <2>1. npri \in Pri /\ node \in Msg
    BY <1>1, <1>10 DEF Requeue, Control, TypeOK
  <2>2. CASE HasRoom(npri)
    <3>1. PutTail(npri, node)
      BY <1>10, <2>2 DEF Requeue
    <3>2. /\ slot' \in [Pri -> Slots] /\ head' \in [Pri -> Slot] /\ tail' \in [Pri -> Slot]
          /\ count' \in [Pri -> 0 .. Size] /\ Rings'
      BY <1>1, <2>1, <2>2, <3>1, PutEffect
    <3>3. TypeOK'
      BY <1>1, <1>10, <2>1, <2>2, <3>2 DEF Requeue, TypeOK, rpcVars, TopLevel, Slots
    <3> QED
      BY <1>10, <3>2, <3>3 DEF Requeue, Control, rpcVars, WasAccepted
  <2>3. CASE ~HasRoom(npri)
    BY <1>1, <1>10, <2>1, <2>3 DEF Requeue, TopLevel, Control, TypeOK, Rings, rings, rpcVars, WasAccepted
  <2> QED
    BY <2>2, <2>3
<1>11. CASE SendNode
  <2>1. node \in Msg
    BY <1>1, <1>11 DEF SendNode, Control, TypeOK
  <2>2. sent' \in Seq(Msg)
    BY <1>1, <1>11, <2>1 DEF SendNode, TypeOK
  <2> QED
    BY <1>1, <1>11, <2>2 DEF SendNode, TopLevel, Control, TypeOK, Rings, rings, rpcVars, WasAccepted
<1>12. CASE UNCHANGED vars
  BY <1>1, <1>12 DEF vars, Control, TypeOK, Rings, rings, rpcVars, thrVars, history, WasAccepted
<1> QED
  BY <1>2, <1>3, <1>4, <1>5, <1>6, <1>7, <1>8, <1>9, <1>10, <1>11, <1>12 DEF Next, Rpc, Thread

-----------------------------------------------------------------------------
(* The kinds of steps, as far as FIFOs, hand and histories are concerned. *)
Accepts(m, p) ==
  /\ ~WasAccepted(m) /\ Len(Fifo[p]) < Size
  /\ Fifo' = [Fifo EXCEPT ![p] = Append(@, m)]
  /\ accepted' = Append(accepted, <<m, p>>) /\ late' = late \cup {m}
  /\ UNCHANGED <<tpc, i, node, npri, sent, requeued, dropped>>

Takes(p) ==
  /\ node = NoMsg /\ Fifo[p] # << >>
  /\ node' = Head(Fifo[p]) /\ npri' = p /\ Fifo' = [Fifo EXCEPT ![p] = Tail(@)]
  /\ tpc' = "check" /\ i' = MaxPri
  /\ UNCHANGED <<accepted, sent, requeued, dropped>>

Yields ==
  /\ node \in Msg /\ node' = NoMsg /\ tpc' = "scan"
  /\ \E q \in Pri : q > npri /\ Fifo[q] # << >>
  /\ UNCHANGED <<npri, accepted, sent>>

PutsBack ==
  /\ Yields /\ Len(Fifo[npri]) < Size
  /\ Fifo' = [Fifo EXCEPT ![npri] = Append(@, node)]
  /\ requeued' = requeued \cup {node} /\ UNCHANGED dropped

Drops ==
  /\ Yields /\ Len(Fifo[npri]) = Size
  /\ dropped' = dropped \cup {node} /\ UNCHANGED <<Fifo, requeued>>

Sends ==
  /\ node \in Msg /\ node' = NoMsg /\ tpc' = "scan"
  /\ sent' = Append(sent, node)
  /\ UNCHANGED <<Fifo, npri, accepted, requeued, dropped>>

(* The scan goes on, or the check finds ring i empty, or is done. *)
Looks ==
  /\ UNCHANGED <<Fifo, node, npri, accepted, sent, requeued, dropped, late>>
  /\ \/ tpc' = "scan" \/ tpc' = "requeue" \/ UNCHANGED <<tpc, i>>
     \/ tpc = "check" /\ tpc' = "check" /\ Fifo[i] = << >> /\ i' = i - 1
     \/ tpc = "check" /\ i <= npri /\ tpc' = "send"

Step == \/ \E m \in Msg, p \in Pri : Accepts(m, p)
        \/ \E p \in Pri : Takes(p)
        \/ PutsBack \/ Drops \/ Sends \/ Looks

LEMMA StepKinds == Control /\ [Next]_vars => Step
<1> SUFFICES ASSUME Control, Next \/ UNCHANGED vars PROVE Step
  OBVIOUS
<1>1. /\ TypeOK /\ Rings /\ NoMsg \notin Msg /\ MaxPri \in Nat
      /\ \A p \in Pri : Fifo[p] \in Seq(Msg) /\ Len(Fifo[p]) = count[p] /\ count[p] \in 0 .. Size
      /\ Size \in Nat
  BY SizeAssumption, PriAssumption, MsgAssumption, FifoType DEF Control, TypeOK
<1>2. ASSUME NEW p \in Pri, count[p] > 0 PROVE Fifo[p] # << >>
  BY <1>1, <1>2
<1>3. ASSUME NEW p \in 0 .. MaxPri + 1, RpcReceive(p) PROVE Step
  BY <1>3, SameFifo DEF RpcReceive, thrVars, history, Looks, Step
<1>4. CASE RpcPush
  <2>1. CASE HasRoom(curpri)
    <3>1. curpri \in Pri /\ cur \in Msg /\ ~WasAccepted(cur) /\ PutTail(curpri, cur)
      BY <1>1, <1>4, <2>1 DEF RpcPush, Control, TypeOK
    <3>2. Fifo' = [Fifo EXCEPT ![curpri] = Append(@, cur)]
      BY <1>1, <2>1, <3>1, PutEffect
    <3>3. Len(Fifo[curpri]) < Size
      BY <1>1, <2>1, <3>1 DEF HasRoom
    <3>4. Accepts(cur, curpri)
      BY <1>4, <2>1, <3>1, <3>2, <3>3 DEF RpcPush, Accepts, thrVars
    <3> QED
      BY <3>1, <3>4 DEF Step
  <2>2. CASE ~HasRoom(curpri)
    BY <1>4, <2>2, SameFifo DEF RpcPush, thrVars, Looks, Step
  <2> QED
    BY <2>1, <2>2
<1>5. CASE RpcReturn
  BY <1>5, SameFifo DEF RpcReturn, thrVars, history, Looks, Step
<1>6. CASE ScanTake
  <2>1. i \in Pri /\ count[i] > 0 /\ DropHead(i) /\ node = NoMsg
    BY <1>1, <1>6 DEF ScanTake, TypeOK, Pri, Control
  <2>2. Fifo[i] # << >> /\ Oldest(i) = Head(Fifo[i]) /\ Fifo' = [Fifo EXCEPT ![i] = Tail(@)]
    BY <1>1, <2>1, DropEffect
  <2>3. Takes(i)
    BY <1>6, <2>1, <2>2 DEF ScanTake, Takes, Top
  <2> QED
    BY <2>1, <2>3 DEF Step
<1>7. CASE ScanDown
  BY <1>7, SameFifo DEF ScanDown, rpcVars, history, Looks, Step
<1>8. CASE Sleep
  BY <1>8, SameFifo DEF Sleep, rpcVars, history, Looks, Step
<1>9. CASE CheckRing
  <2>1. i \in Pri
    BY <1>1, <1>9 DEF CheckRing, Above, TypeOK, Pri
  <2>2. CASE count[i] > 0
    BY <1>9, <2>2, SameFifo DEF CheckRing, rpcVars, history, Looks, Step
  <2>3. CASE ~(count[i] > 0)
    <3>1. Fifo[i] = << >>
      BY <1>1, <2>1, <2>3
    <3> QED
      BY <1>9, <2>3, <3>1, SameFifo DEF CheckRing, rpcVars, history, Looks, Step
  <2> QED
    BY <2>2, <2>3
<1>10. CASE CheckDone
  <2>1. i <= npri
    BY <1>1, <1>10 DEF CheckDone, Above, TypeOK, Pri
  <2> QED
    BY <1>10, <2>1, SameFifo DEF CheckDone, rpcVars, history, Looks, Step
<1>11. CASE Requeue
  <2>1. npri \in Pri /\ node \in Msg /\ i \in Pri /\ i > npri /\ Fifo[i] # << >>
    BY <1>1, <1>2, <1>11 DEF Requeue, Control, TypeOK
  <2>2. Yields
    BY <1>11, <2>1 DEF Requeue, Yields
  <2>3. CASE HasRoom(npri)
    <3>1. PutTail(npri, node)
      BY <1>11, <2>3 DEF Requeue
    <3>2. Fifo' = [Fifo EXCEPT ![npri] = Append(@, node)]
      BY <1>1, <2>1, <2>3, <3>1, PutEffect
    <3>3. Len(Fifo[npri]) < Size
      BY <1>1, <2>1, <2>3 DEF HasRoom
    <3> QED
      BY <1>11, <2>2, <2>3, <3>2, <3>3 DEF Requeue, PutsBack, Step
  <2>4. CASE ~HasRoom(npri)
    <3>1. Len(Fifo[npri]) = Size
      BY <1>1, <2>1, <2>4 DEF HasRoom
    <3> QED
      BY <1>11, <2>2, <2>4, <3>1, SameFifo DEF Requeue, Drops, Step
  <2> QED
    BY <2>3, <2>4
<1>12. CASE SendNode
  <2>1. node \in Msg
    BY <1>1, <1>12 DEF SendNode, Control, TypeOK
  <2> QED
    BY <1>12, <2>1, SameFifo DEF SendNode, Sends, Step
<1>13. CASE UNCHANGED vars
  BY <1>13, SameFifo DEF vars, thrVars, history, Looks, Step
<1> QED
  BY <1>3, <1>4, <1>5, <1>6, <1>7, <1>8, <1>9, <1>10, <1>11, <1>12, <1>13 DEF Next, Rpc, Thread

-----------------------------------------------------------------------------
(* The relay: each kind of step is one of its actions, or a stutter. *)
LEMMA StepRelay ==
  ASSUME Control, Step
  PROVE  [Relay!Next]_(Relay!vars)
<1>1. Relay!Pri = Pri /\ Fifo = [p \in Pri |-> Ring(p)] /\ Fifo' = [p \in Pri |-> Ring(p)]' /\ npri \in Pri
  BY DEF Relay!Pri, Pri, Fifo, Control, TypeOK
<1> NoMsg \notin Msg
  BY MsgAssumption
<1>2. ASSUME NEW m \in Msg, NEW p \in Pri, Accepts(m, p) PROVE Relay!Next
  BY <1>1, <1>2 DEF Accepts, Relay!Accept, Relay!Next
<1>3. ASSUME NEW p \in Pri, Takes(p) PROVE Relay!Next
  BY <1>1, <1>3 DEF Takes, Relay!Take, Relay!Next
<1>4. ASSUME Yields PROVE Relay!Preempted
  BY <1>1, <1>4 DEF Yields, Relay!Preempted
<1>5. CASE PutsBack
  BY <1>1, <1>4, <1>5 DEF PutsBack, Yields, Relay!PutBack, Relay!Next
<1>6. CASE Drops
  BY <1>1, <1>4, <1>6 DEF Drops, Yields, Relay!Drop, Relay!vars, Relay!Next
<1>7. CASE Sends
  BY <1>1, <1>7 DEF Sends, Relay!Send, Relay!Next
<1>8. CASE Looks
  BY <1>1, <1>8 DEF Looks, Relay!vars
<1> QED
  BY <1>2, <1>3, <1>5, <1>6, <1>7, <1>8 DEF Step

-----------------------------------------------------------------------------
(* While the check runs, every ring above i has held nothing but what was  *)
(* pushed after the thread took its message; when the check is done, that  *)
(* covers every ring above npri.                                           *)
AllLate(p) == \A k \in 1 .. Len(Fifo[p]) : Fifo[p][k] \in late

Current ==
  /\ tpc = "check" => \A p \in Pri : p > i => AllLate(p)
  /\ tpc = "send"  => \A p \in Pri : p > npri => AllLate(p)

LEMMA StepCurrent ==
  ASSUME Control, Current, Step
  PROVE  Current'
<1>1. /\ Fifo \in [Pri -> Seq(Msg)] /\ MaxPri \in Nat /\ i \in -1 .. MaxPri /\ npri \in Pri
      /\ tpc = "check" => i >= npri
  BY PriAssumption, FifoType DEF Control, TypeOK
<1>2. ASSUME NEW m \in Msg, NEW p \in Pri, Accepts(m, p) PROVE Current'
  <2>1. ASSUME NEW q \in Pri, AllLate(q) PROVE AllLate(q)'
    <3>1. CASE q = p
      <4>1. Fifo'[q] = Append(Fifo[q], m) /\ Fifo[q] \in Seq(Msg) /\ late' = late \cup {m}
        BY <1>1, <1>2, <3>1 DEF Accepts
      <4> QED
        BY <2>1, <4>1, AppendItems DEF AllLate
    <3>2. CASE q # p
      <4>1. Fifo'[q] = Fifo[q] /\ late' = late \cup {m}
        BY <1>1, <1>2, <3>2 DEF Accepts
      <4> QED
        BY <2>1, <4>1 DEF AllLate
    <3> QED
      BY <3>1, <3>2
  <2>2. UNCHANGED <<tpc, i, npri>>
    BY <1>2 DEF Accepts
  <2> QED
    BY <2>1, <2>2 DEF Current
<1>3. ASSUME NEW p \in Pri, Takes(p) PROVE Current'
  <2>1. tpc' = "check" /\ i' = MaxPri /\ \A q \in Pri : ~(q > MaxPri)
    BY <1>1, <1>3 DEF Takes, Pri
  <2> QED
    BY <2>1 DEF Current
<1>4. CASE PutsBack \/ Drops \/ Sends
  BY <1>4 DEF PutsBack, Drops, Yields, Sends, Current
<1>5. CASE Looks
  <2>1. UNCHANGED <<Fifo, late, npri>>
    BY <1>5 DEF Looks
  <2>2. \A q \in Pri : AllLate(q)' <=> AllLate(q)
    BY <2>1 DEF AllLate
  <2>3. CASE tpc = "check" /\ tpc' = "check" /\ Fifo[i] = << >> /\ i' = i - 1
    <3>1. ASSUME NEW q \in Pri, q > i - 1 PROVE AllLate(q)
      <4>1. q > i \/ q = i
        BY <1>1, <3>1 DEF Pri
      <4>2. q = i => AllLate(q)
        BY <2>3 DEF AllLate
      <4> QED
        BY <2>3, <4>1, <4>2 DEF Current
    <3> QED
      BY <2>2, <2>3, <3>1 DEF Current
  <2>4. CASE tpc = "check" /\ i <= npri /\ tpc' = "send"
    <3>1. i = npri
      BY <1>1, <2>4 DEF Pri
    <3> QED
      BY <2>1, <2>2, <2>4, <3>1 DEF Current
  <2>5. CASE tpc' = "scan" \/ tpc' = "requeue"
    BY <2>5 DEF Current
  <2>6. CASE UNCHANGED <<tpc, i>>
    BY <2>1, <2>2, <2>6 DEF Current
  <2> QED
    BY <1>5, <2>3, <2>4, <2>5, <2>6 DEF Looks
<1> QED
  BY <1>2, <1>3, <1>4, <1>5 DEF Step

-----------------------------------------------------------------------------
(* The messages in the FIFOs after an insertion at the end of one, *)
LEMMA PutItems ==
  ASSUME NEW W \in [Pri -> Seq(Msg)], NEW p \in Pri, NEW m \in Msg,
         NEW V, V = [W EXCEPT ![p] = Append(@, m)]
  PROVE  /\ \A q \in Pri : \A k \in 1 .. Len(W[q]) : k \in 1 .. Len(V[q]) /\ V[q][k] = W[q][k]
         /\ Len(W[p]) + 1 \in 1 .. Len(V[p]) /\ V[p][Len(W[p]) + 1] = m
         /\ \A q \in Pri : \A k \in 1 .. Len(V[q]) : k \in 1 .. Len(W[q]) \/ (q = p /\ k = Len(W[p]) + 1)
<1>1. W[p] \in Seq(Msg) /\ V[p] = Append(W[p], m) /\ \A q \in Pri : q # p => V[q] = W[q]
  OBVIOUS
<1>2. /\ Len(Append(W[p], m)) = Len(W[p]) + 1 /\ Len(W[p]) \in Nat
      /\ \A k \in 1 .. Len(W[p]) : k \in 1 .. Len(V[p]) /\ V[p][k] = W[p][k]
      /\ V[p][Len(W[p]) + 1] = m
      /\ \A k \in 1 .. Len(V[p]) : k \in 1 .. Len(W[p]) \/ k = Len(W[p]) + 1
  BY <1>1, AppendItems
<1>3. Len(W[p]) + 1 \in 1 .. Len(V[p])
  BY <1>1, <1>2
<1>4. ASSUME NEW q \in Pri, q # p
      PROVE  /\ \A k \in 1 .. Len(W[q]) : k \in 1 .. Len(V[q]) /\ V[q][k] = W[q][k]
             /\ \A k \in 1 .. Len(V[q]) : k \in 1 .. Len(W[q])
  BY <1>1, <1>4
<1> QED
  BY <1>2, <1>3, <1>4

(* and after a removal from the front of one: all move up by one. *)
LEMMA DropItems ==
  ASSUME NEW W \in [Pri -> Seq(Msg)], NEW p \in Pri, W[p] # << >>,
         NEW V, V = [W EXCEPT ![p] = Tail(@)]
  PROVE  /\ 1 \in 1 .. Len(W[p]) /\ Head(W[p]) = W[p][1] /\ Head(W[p]) \in Msg
         /\ \A q \in Pri : q # p => V[q] = W[q]
         /\ \A k \in 1 .. Len(V[p]) : k \in Nat /\ k + 1 \in 1 .. Len(W[p]) /\ k + 1 # 1 /\ V[p][k] = W[p][k + 1]
         /\ \A k \in 1 .. Len(W[p]) : k = 1 \/ (k - 1 \in 1 .. Len(V[p]) /\ V[p][k - 1] = W[p][k])
<1>1. W[p] \in Seq(Msg) /\ V[p] = Tail(W[p]) /\ \A q \in Pri : q # p => V[q] = W[q]
  OBVIOUS
<1> QED
  BY <1>1, TailItems

(* No message is twice in the FIFOs, and push and pop keep it so. *)
Distinct(W) ==
  \A p, q \in Pri : \A k \in 1 .. Len(W[p]), l \in 1 .. Len(W[q]) : W[p][k] = W[q][l] => p = q /\ k = l

LEMMA PutDistinct ==
  ASSUME NEW W \in [Pri -> Seq(Msg)], NEW p \in Pri, NEW m \in Msg,
         NEW V, V = [W EXCEPT ![p] = Append(@, m)],
         Distinct(W), \A q \in Pri : \A k \in 1 .. Len(W[q]) : W[q][k] # m
  PROVE  Distinct(V)
<1> SUFFICES ASSUME NEW q1 \in Pri, NEW q2 \in Pri, NEW k \in 1 .. Len(V[q1]), NEW l \in 1 .. Len(V[q2]),
                    V[q1][k] = V[q2][l]
             PROVE  q1 = q2 /\ k = l
  BY DEF Distinct
<1>1. \/ k \in 1 .. Len(W[q1]) /\ V[q1][k] = W[q1][k] /\ W[q1][k] # m
      \/ q1 = p /\ k = Len(W[p]) + 1 /\ V[q1][k] = m
  BY PutItems
<1>2. \/ l \in 1 .. Len(W[q2]) /\ V[q2][l] = W[q2][l] /\ W[q2][l] # m
      \/ q2 = p /\ l = Len(W[p]) + 1 /\ V[q2][l] = m
  BY PutItems
<1> QED
  BY <1>1, <1>2 DEF Distinct

LEMMA DropDistinct ==
  ASSUME NEW W \in [Pri -> Seq(Msg)], NEW p \in Pri, W[p] # << >>,
         NEW V, V = [W EXCEPT ![p] = Tail(@)], Distinct(W)
  PROVE  Distinct(V)
<1> SUFFICES ASSUME NEW q1 \in Pri, NEW q2 \in Pri, NEW k \in 1 .. Len(V[q1]), NEW l \in 1 .. Len(V[q2]),
                    V[q1][k] = V[q2][l]
             PROVE  q1 = q2 /\ k = l
  BY DEF Distinct
<1> DEFINE At(q, n) == IF q = p THEN n + 1 ELSE n
<1>1. At(q1, k) \in 1 .. Len(W[q1]) /\ V[q1][k] = W[q1][At(q1, k)]
  BY DropItems
<1>2. At(q2, l) \in 1 .. Len(W[q2]) /\ V[q2][l] = W[q2][At(q2, l)]
  BY DropItems
<1>3. k \in Int /\ l \in Int
  OBVIOUS
<1>4. q1 = q2 /\ At(q1, k) = At(q1, l) => k = l
  BY <1>3
<1> HIDE DEF At
<1>5. q1 = q2 /\ At(q1, k) = At(q2, l)
  BY <1>1, <1>2 DEF Distinct
<1> QED
  BY <1>4, <1>5

-----------------------------------------------------------------------------
(* Each accepted message is in one place: a FIFO, the hand, sent, dropped. *)
Waits(m) == \E p \in Pri : \E k \in 1 .. Len(Fifo[p]) : Fifo[p][k] = m

Somewhere == \A m \in Msg : WasAccepted(m) <=> Waits(m) \/ node = m \/ WasSent(m) \/ m \in dropped

Apart == \A m \in Msg : /\ Waits(m) => node # m /\ ~WasSent(m) /\ m \notin dropped
                        /\ node = m => ~WasSent(m) /\ m \notin dropped
                        /\ WasSent(m) => m \notin dropped

Once == /\ Distinct(Fifo)
        /\ \A k, l \in 1 .. Len(sent) : sent[k] = sent[l] => k = l

Owned == Somewhere /\ Apart /\ Once

LEMMA AcceptOwned ==
  ASSUME Control, Owned, NEW m \in Msg, NEW p \in Pri, Accepts(m, p)
  PROVE  Owned'
<1>1. /\ Fifo \in [Pri -> Seq(Msg)] /\ Fifo[p] \in Seq(Msg) /\ NoMsg \notin Msg
      /\ accepted \in Seq(Msg \X Pri) /\ <<m, p>> \in Msg \X Pri
  BY MsgAssumption, FifoType DEF Control, TypeOK
<1>2. /\ ~WasAccepted(m) /\ accepted' = Append(accepted, <<m, p>>) /\ UNCHANGED <<node, sent, dropped>>
      /\ Fifo'[p] = Append(Fifo[p], m) /\ \A q \in Pri : q # p => Fifo'[q] = Fifo[q]
  BY <1>1 DEF Accepts
<1>3. ~Waits(m) /\ node # m /\ ~WasSent(m) /\ m \notin dropped
  BY <1>2 DEF Owned, Somewhere
<1>4. \A n : WasAccepted(n)' <=> WasAccepted(n) \/ n = m
  <2>1. /\ \A k \in 1 .. Len(accepted) : k \in 1 .. Len(accepted') /\ accepted'[k] = accepted[k]
        /\ Len(accepted) + 1 \in 1 .. Len(accepted') /\ accepted'[Len(accepted) + 1] = <<m, p>>
        /\ \A k \in 1 .. Len(accepted') : k \in 1 .. Len(accepted) \/ k = Len(accepted) + 1
    BY <1>1, <1>2, AppendItems
  <2> QED
    BY <2>1 DEF WasAccepted
<1>5. /\ \A q \in Pri : \A k \in 1 .. Len(Fifo[q]) : k \in 1 .. Len(Fifo'[q]) /\ Fifo'[q][k] = Fifo[q][k]
      /\ Len(Fifo[p]) + 1 \in 1 .. Len(Fifo'[p]) /\ Fifo'[p][Len(Fifo[p]) + 1] = m
      /\ \A q \in Pri : \A k \in 1 .. Len(Fifo'[q]) : k \in 1 .. Len(Fifo[q]) \/ (q = p /\ k = Len(Fifo[p]) + 1)
  BY <1>1, PutItems DEF Accepts
<1>6. \A n : Waits(n)' <=> Waits(n) \/ n = m
  BY <1>2, <1>5 DEF Waits
<1>7. \A n : WasSent(n)' <=> WasSent(n)
  BY <1>2 DEF WasSent
<1>8. Somewhere'
  BY <1>2, <1>4, <1>6, <1>7 DEF Somewhere, Owned
<1>9. Apart'
  BY <1>2, <1>3, <1>6, <1>7 DEF Apart, Owned
<1>10. Once'
  <2>1. \A q \in Pri : \A k \in 1 .. Len(Fifo[q]) : Fifo[q][k] # m
    BY <1>3 DEF Waits
  <2>2. Distinct(Fifo')
    <3>1. Distinct(Fifo) /\ Fifo' = [Fifo EXCEPT ![p] = Append(@, m)]
      BY DEF Accepts, Owned, Once
    <3> QED
      BY <1>1, <2>1, <3>1, PutDistinct DEF Distinct
  <2>3. Distinct(Fifo)' <=> Distinct(Fifo')
    BY DEF Distinct
  <2> QED
    BY <1>2, <2>2, <2>3 DEF Once, Owned
<1> QED
  BY <1>8, <1>9, <1>10 DEF Owned

LEMMA TakeOwned ==
  ASSUME Control, Owned, NEW p \in Pri, Takes(p)
  PROVE  Owned'
<1>1. /\ Fifo \in [Pri -> Seq(Msg)] /\ NoMsg \notin Msg
      /\ node = NoMsg /\ node' = Head(Fifo[p]) /\ UNCHANGED <<accepted, sent, dropped>>
  BY MsgAssumption, FifoType DEF Control, Takes
<1>2. /\ 1 \in 1 .. Len(Fifo[p]) /\ node' = Fifo[p][1] /\ node' \in Msg
      /\ \A q \in Pri : q # p => Fifo'[q] = Fifo[q]
      /\ \A k \in 1 .. Len(Fifo'[p]) : k \in Nat /\ k + 1 \in 1 .. Len(Fifo[p]) /\ k + 1 # 1 /\ Fifo'[p][k] = Fifo[p][k + 1]
      /\ \A k \in 1 .. Len(Fifo[p]) : k = 1 \/ (k - 1 \in 1 .. Len(Fifo'[p]) /\ Fifo'[p][k - 1] = Fifo[p][k])
  BY <1>1, DropItems DEF Takes
<1>3. Once
  BY DEF Owned
<1>4. Waits(node')
  BY <1>2 DEF Waits
<1>5. \A m \in Msg : Waits(m)' <=> Waits(m) /\ m # node'
  <2>1. ASSUME NEW m \in Msg, Waits(m)' PROVE Waits(m) /\ m # node'
    <3>1. PICK q \in Pri : \E k \in 1 .. Len(Fifo'[q]) : Fifo'[q][k] = m
      BY <2>1 DEF Waits
    <3>2. PICK k \in 1 .. Len(Fifo'[q]) : Fifo'[q][k] = m
      BY <3>1
    <3>3. CASE q = p
      BY <1>2, <1>3, <3>2, <3>3 DEF Waits, Once, Distinct
    <3>4. CASE q # p
      BY <1>2, <1>3, <3>2, <3>4 DEF Waits, Once, Distinct
    <3> QED
      BY <3>3, <3>4
  <2>2. ASSUME NEW m \in Msg, Waits(m), m # node' PROVE Waits(m)'
    <3>1. PICK q \in Pri : \E k \in 1 .. Len(Fifo[q]) : Fifo[q][k] = m
      BY <2>2 DEF Waits
    <3>2. PICK k \in 1 .. Len(Fifo[q]) : Fifo[q][k] = m
      BY <3>1
    <3>3. CASE q = p
      BY <1>2, <2>2, <3>2, <3>3 DEF Waits
    <3>4. CASE q # p
      BY <1>2, <3>2, <3>4 DEF Waits
    <3> QED
      BY <3>3, <3>4
  <2> QED
    BY <2>1, <2>2
<1>6. \A m : (WasAccepted(m)' <=> WasAccepted(m)) /\ (WasSent(m)' <=> WasSent(m))
  BY <1>1 DEF WasAccepted, WasSent
<1>7. Somewhere'
  BY <1>1, <1>2, <1>4, <1>5, <1>6 DEF Owned, Somewhere
<1>8. Apart'
  BY <1>1, <1>2, <1>4, <1>5, <1>6 DEF Owned, Apart
<1>9. Once'
  <2>1. Distinct(Fifo')
    <3>1. Distinct(Fifo) /\ Fifo[p] # << >> /\ Fifo' = [Fifo EXCEPT ![p] = Tail(@)]
      BY <1>3 DEF Takes, Once
    <3> QED
      BY <1>1, <3>1, DropDistinct DEF Distinct
  <2>2. Distinct(Fifo)' <=> Distinct(Fifo')
    BY DEF Distinct
  <2> QED
    BY <1>1, <1>3, <2>1, <2>2 DEF Once
<1> QED
  BY <1>7, <1>8, <1>9 DEF Owned

LEMMA YieldOwned ==
  ASSUME Control, Owned, PutsBack \/ Drops
  PROVE  Owned'
<1>1. /\ Fifo \in [Pri -> Seq(Msg)] /\ NoMsg \notin Msg /\ npri \in Pri
      /\ node \in Msg /\ node' = NoMsg /\ UNCHANGED <<accepted, sent>>
  BY MsgAssumption, FifoType DEF Control, TypeOK, PutsBack, Drops, Yields
<1>2. ~Waits(node) /\ ~WasSent(node) /\ node \notin dropped
  BY <1>1 DEF Owned, Apart
<1>3. \A m : (WasAccepted(m)' <=> WasAccepted(m)) /\ (WasSent(m)' <=> WasSent(m))
  BY <1>1 DEF WasAccepted, WasSent
<1>4. CASE PutsBack
  <2>1. /\ \A q \in Pri : \A k \in 1 .. Len(Fifo[q]) : k \in 1 .. Len(Fifo'[q]) /\ Fifo'[q][k] = Fifo[q][k]
        /\ Len(Fifo[npri]) + 1 \in 1 .. Len(Fifo'[npri]) /\ Fifo'[npri][Len(Fifo[npri]) + 1] = node
        /\ \A q \in Pri : \A k \in 1 .. Len(Fifo'[q]) : k \in 1 .. Len(Fifo[q]) \/ (q = npri /\ k = Len(Fifo[npri]) + 1)
    BY <1>1, <1>4, PutItems DEF PutsBack
  <2>2. UNCHANGED dropped
    BY <1>4 DEF PutsBack
  <2>3. \A n : Waits(n)' <=> Waits(n) \/ n = node
    BY <1>1, <2>1 DEF Waits
  <2>4. Somewhere'
    BY <1>1, <1>3, <2>2, <2>3 DEF Somewhere, Owned
  <2>5. Apart'
    BY <1>1, <1>2, <1>3, <2>2, <2>3 DEF Apart, Owned
  <2>6. Once'
    <3>1. \A q \in Pri : \A k \in 1 .. Len(Fifo[q]) : Fifo[q][k] # node
      BY <1>2 DEF Waits
    <3>2. Distinct(Fifo')
      <4>1. Distinct(Fifo) /\ Fifo' = [Fifo EXCEPT ![npri] = Append(@, node)]
        BY <1>4 DEF PutsBack, Owned, Once
      <4> QED
        BY <1>1, <3>1, <4>1, PutDistinct DEF Distinct
    <3>3. Distinct(Fifo)' <=> Distinct(Fifo')
      BY DEF Distinct
    <3> QED
      BY <1>1, <3>2, <3>3 DEF Once, Owned
  <2> QED
    BY <2>4, <2>5, <2>6 DEF Owned
<1>5. CASE Drops
  <2>1. dropped' = dropped \cup {node} /\ UNCHANGED Fifo
    BY <1>5 DEF Drops
  <2>2. \A n : Waits(n)' <=> Waits(n)
    BY <2>1 DEF Waits
  <2>3. Somewhere'
    BY <1>1, <1>3, <2>1, <2>2 DEF Somewhere, Owned
  <2>4. Apart'
    BY <1>1, <1>2, <1>3, <2>1, <2>2 DEF Apart, Owned
  <2>5. Once'
    BY <1>1, <2>1 DEF Once, Owned
  <2> QED
    BY <2>3, <2>4, <2>5 DEF Owned
<1> QED
  BY <1>4, <1>5

LEMMA SendOwned ==
  ASSUME Control, Owned, Sends
  PROVE  Owned'
<1>1. /\ NoMsg \notin Msg /\ sent \in Seq(Msg) /\ sent' = Append(sent, node)
      /\ node \in Msg /\ node' = NoMsg /\ UNCHANGED <<Fifo, accepted, dropped>>
  BY MsgAssumption DEF Control, TypeOK, Sends
<1>2. ~Waits(node) /\ ~WasSent(node) /\ node \notin dropped
  BY <1>1 DEF Owned, Apart
<1>3. /\ \A k \in 1 .. Len(sent) : k \in 1 .. Len(sent') /\ sent'[k] = sent[k]
      /\ Len(sent) + 1 \in 1 .. Len(sent') /\ sent'[Len(sent) + 1] = node
      /\ \A k \in 1 .. Len(sent') : k \in 1 .. Len(sent) \/ k = Len(sent) + 1
  BY <1>1, AppendItems
<1>4. \A m : (WasAccepted(m)' <=> WasAccepted(m)) /\ (Waits(m)' <=> Waits(m))
  BY <1>1 DEF WasAccepted, Waits
<1>5. \A m : WasSent(m)' <=> WasSent(m) \/ m = node
  BY <1>3 DEF WasSent
<1>6. Somewhere'
  BY <1>1, <1>4, <1>5 DEF Somewhere, Owned
<1>7. Apart'
  BY <1>1, <1>2, <1>4, <1>5 DEF Apart, Owned
<1>8. Once'
  <2>1. \A k \in 1 .. Len(sent) : sent[k] # node
    BY <1>2 DEF WasSent
  <2> QED
    BY <1>1, <1>3, <2>1 DEF Once, Owned
<1> QED
  BY <1>6, <1>7, <1>8 DEF Owned

LEMMA StepOwned ==
  ASSUME Control, Owned, Step
  PROVE  Owned'
<1>1. CASE Looks
  BY <1>1 DEF Looks, Owned, Somewhere, Apart, Once, Waits, WasAccepted, WasSent
<1> QED
  BY <1>1, AcceptOwned, TakeOwned, YieldOwned, SendOwned DEF Step

-----------------------------------------------------------------------------
(* A message keeps the priority it was pushed with, and is put back or     *)
(* dropped only below the highest.                                         *)
AtLevel(m, p) ==
  /\ \A q \in Pri : \A k \in 1 .. Len(Fifo[q]) : Fifo[q][k] = m => q = p
  /\ node = m => npri = p
  /\ m \in requeued \cup dropped => p < MaxPri

(* What is behind an older message in its FIFO has that message in front,  *)
(* in the hand, or sent; what is in the hand has it sent, and what is sent *)
(* has it sent before.                                                     *)
Follows(older, newer, p) ==
  /\ \A k \in 1 .. Len(Fifo[p]) : Fifo[p][k] = newer =>
       WasSent(older) \/ node = older \/ \E l \in 1 .. Len(Fifo[p]) : l < k /\ Fifo[p][l] = older
  /\ node = newer => WasSent(older)
  /\ \A k \in 1 .. Len(sent) : sent[k] = newer => \E j \in 1 .. Len(sent) : j < k /\ sent[j] = older

(* It holds of the messages of a priority unless the older one was put     *)
(* back or dropped.                                                        *)
Order ==
  /\ \A m \in requeued : WasAccepted(m)
  /\ \A m \in Msg, p \in Pri, a \in 1 .. Len(accepted) : accepted[a] = <<m, p>> => AtLevel(m, p)
  /\ \A older, newer \in Msg, p \in Pri, a, b \in 1 .. Len(accepted) :
       a < b /\ accepted[a] = <<older, p>> /\ accepted[b] = <<newer, p>> /\ older \notin requeued \cup dropped
         => Follows(older, newer, p)

LEMMA AcceptOrder ==
  ASSUME Control, Owned, Order, NEW m \in Msg, NEW p \in Pri, Accepts(m, p)
  PROVE  Order'
<1> DEFINE n == Len(accepted) + 1
<1>1. /\ Fifo \in [Pri -> Seq(Msg)] /\ NoMsg \notin Msg
      /\ accepted \in Seq(Msg \X Pri) /\ <<m, p>> \in Msg \X Pri
  BY MsgAssumption, FifoType DEF Control, TypeOK
<1>2. /\ ~WasAccepted(m) /\ accepted' = Append(accepted, <<m, p>>)
      /\ UNCHANGED <<node, npri, sent, requeued, dropped>>
  BY DEF Accepts
<1>3. ~Waits(m) /\ node # m /\ ~WasSent(m) /\ m \notin requeued /\ m \notin dropped
  BY <1>2 DEF Owned, Somewhere, Order
<1>4. /\ Len(accepted') = n /\ Len(accepted) \in Nat
      /\ \A a \in 1 .. Len(accepted) : a \in 1 .. n /\ accepted'[a] = accepted[a]
      /\ accepted'[n] = <<m, p>>
      /\ \A a \in 1 .. n : a \in 1 .. Len(accepted) \/ a = n
  BY <1>1, <1>2, AppendItems
<1>5. /\ \A q \in Pri : \A k \in 1 .. Len(Fifo[q]) : k \in 1 .. Len(Fifo'[q]) /\ Fifo'[q][k] = Fifo[q][k]
      /\ Len(Fifo[p]) + 1 \in 1 .. Len(Fifo'[p]) /\ Fifo'[p][Len(Fifo[p]) + 1] = m
      /\ \A q \in Pri : \A k \in 1 .. Len(Fifo'[q]) : k \in 1 .. Len(Fifo[q]) \/ (q = p /\ k = Len(Fifo[p]) + 1)
  BY <1>1, PutItems DEF Accepts
<1>6. \A x, r : \A a \in 1 .. Len(accepted) : accepted[a] = <<x, r>> => x # m /\ WasAccepted(x)
  BY <1>2 DEF WasAccepted
<1>7. /\ \A x : WasSent(x)' <=> WasSent(x)
      /\ \A x : WasAccepted(x) => WasAccepted(x)'
  BY <1>2, <1>4 DEF WasSent, WasAccepted
<1>8. ASSUME NEW x, NEW r, x # m, AtLevel(x, r) PROVE AtLevel(x, r)'
  BY <1>2, <1>5, <1>8 DEF AtLevel
<1>9. AtLevel(m, p)'
  BY <1>2, <1>3, <1>5 DEF AtLevel, Waits
<1>10. ASSUME NEW x, NEW y, NEW r \in Pri, y # m, Follows(x, y, r) PROVE Follows(x, y, r)'
  BY <1>2, <1>5, <1>7, <1>10 DEF Follows
<1>11. ASSUME NEW x \in Msg, WasAccepted(x), AtLevel(x, p), x \notin dropped PROVE Follows(x, m, p)'
  <2>1. WasSent(x) \/ node = x \/ \E l \in 1 .. Len(Fifo[p]) : Fifo[p][l] = x
    BY <1>11 DEF Owned, Somewhere, Waits, AtLevel
  <2>2. ASSUME NEW k \in 1 .. Len(Fifo'[p]), Fifo'[p][k] = m
        PROVE  WasSent(x) \/ node = x \/ \E l \in 1 .. Len(Fifo'[p]) : l < k /\ Fifo'[p][l] = x
    <3>1. k = Len(Fifo[p]) + 1
      BY <1>3, <1>5, <2>2 DEF Waits
    <3>2. ASSUME NEW l \in 1 .. Len(Fifo[p]) PROVE l < k
      BY <3>1
    <3> QED
      BY <1>5, <2>1, <3>2
  <2>3. \A k \in 1 .. Len(sent) : sent[k] # m
    BY <1>3 DEF WasSent
  <2> QED
    BY <1>2, <1>3, <1>7, <2>2, <2>3 DEF Follows
<1> HIDE DEF n
<1>12. ASSUME NEW x \in Msg, NEW r \in Pri, NEW a \in 1 .. n, accepted'[a] = <<x, r>>
       PROVE  AtLevel(x, r)'
  <2>1. CASE a \in 1 .. Len(accepted)
    BY <1>4, <1>6, <1>8, <1>12, <2>1 DEF Order
  <2>2. CASE a = n
    BY <1>4, <1>9, <1>12, <2>2
  <2> QED
    BY <1>4, <2>1, <2>2
<1>13. ASSUME NEW x \in Msg, NEW y \in Msg, NEW r \in Pri, NEW a \in 1 .. n, NEW b \in 1 .. n, a < b,
              accepted'[a] = <<x, r>>, accepted'[b] = <<y, r>>, x \notin requeued \cup dropped
       PROVE  Follows(x, y, r)'
  <2>1. a \in 1 .. Len(accepted) /\ accepted[a] = <<x, r>>
    BY <1>4, <1>13 DEF n
  <2>2. CASE b \in 1 .. Len(accepted)
    <3>1. accepted[b] = <<y, r>>
      BY <1>4, <1>13, <2>2
    <3> QED
      BY <1>6, <1>10, <1>13, <2>1, <2>2, <3>1 DEF Order
  <2>3. CASE b = n
    <3>1. y = m /\ r = p
      BY <1>4, <1>13, <2>3
    <3> QED
      BY <1>6, <1>11, <1>13, <2>1, <3>1 DEF Order
  <2> QED
    BY <1>4, <2>2, <2>3
<1>14. \A x \in requeued : WasAccepted(x)'
  BY <1>7 DEF Order
<1> QED
  BY <1>2, <1>4, <1>12, <1>13, <1>14 DEF Order

(* Steps that push nothing: it is enough that they keep what Order says of *)
(* one message and of one pair.                                            *)
LEMMA KeepOrder ==
  ASSUME Order, accepted' = accepted,
         requeued \subseteq requeued', dropped \subseteq dropped',
         \A m \in requeued' : WasAccepted(m),
         \A m \in Msg, p \in Pri : AtLevel(m, p) => AtLevel(m, p)',
         \A x, y \in Msg, p \in Pri :
           AtLevel(y, p) /\ x \notin requeued' \cup dropped' /\ Follows(x, y, p) => Follows(x, y, p)'
  PROVE  Order'
<1>1. \A m : WasAccepted(m)' <=> WasAccepted(m)
  BY DEF WasAccepted
<1> QED
  BY <1>1 DEF Order

LEMMA TakeOrder ==
  ASSUME Control, Owned, Order, NEW p \in Pri, Takes(p)
  PROVE  Order'
<1>1. /\ Fifo \in [Pri -> Seq(Msg)] /\ NoMsg \notin Msg
      /\ node = NoMsg /\ node' = Head(Fifo[p]) /\ npri' = p
      /\ UNCHANGED <<accepted, sent, requeued, dropped>>
  BY MsgAssumption, FifoType DEF Control, Takes
<1>2. /\ 1 \in 1 .. Len(Fifo[p]) /\ node' = Fifo[p][1] /\ node' \in Msg
      /\ \A q \in Pri : q # p => Fifo'[q] = Fifo[q]
      /\ \A k \in 1 .. Len(Fifo'[p]) : k \in Nat /\ k + 1 \in 1 .. Len(Fifo[p]) /\ k + 1 # 1 /\ Fifo'[p][k] = Fifo[p][k + 1]
      /\ \A k \in 1 .. Len(Fifo[p]) : k = 1 \/ (k - 1 \in 1 .. Len(Fifo'[p]) /\ Fifo'[p][k - 1] = Fifo[p][k])
  BY <1>1, DropItems DEF Takes
<1>3. \A m : WasSent(m)' <=> WasSent(m)
  BY <1>1 DEF WasSent
<1>4. ASSUME NEW m \in Msg, NEW r \in Pri, AtLevel(m, r) PROVE AtLevel(m, r)'
  <2>1. ASSUME NEW q \in Pri, NEW k \in 1 .. Len(Fifo'[q]), Fifo'[q][k] = m PROVE q = r
    <3>1. CASE q = p
      BY <1>2, <1>4, <2>1, <3>1 DEF AtLevel
    <3>2. CASE q # p
      BY <1>2, <1>4, <2>1, <3>2 DEF AtLevel
    <3> QED
      BY <3>1, <3>2
  <2>2. node' = m => npri' = r
    BY <1>1, <1>2, <1>4 DEF AtLevel
  <2> QED
    BY <1>1, <1>4, <2>1, <2>2 DEF AtLevel
<1>5. ASSUME NEW x \in Msg, NEW y \in Msg, NEW r \in Pri, AtLevel(y, r), Follows(x, y, r)
      PROVE  Follows(x, y, r)'
  <2>1. ASSUME NEW k \in 1 .. Len(Fifo'[r]), Fifo'[r][k] = y
        PROVE  WasSent(x) \/ node' = x \/ \E l \in 1 .. Len(Fifo'[r]) : l < k /\ Fifo'[r][l] = x
    <3>1. CASE r = p
      <4>1. k + 1 \in 1 .. Len(Fifo[p]) /\ Fifo[p][k + 1] = y /\ k \in Nat
        BY <1>2, <2>1, <3>1
      <4>2. CASE WasSent(x) \/ node = x
        BY <1>1, <4>2
      <4>3. CASE \E l \in 1 .. Len(Fifo[p]) : l < k + 1 /\ Fifo[p][l] = x
        <5>1. PICK l \in 1 .. Len(Fifo[p]) : l < k + 1 /\ Fifo[p][l] = x
          BY <4>3
        <5>2. l = 1 \/ (l - 1 \in 1 .. Len(Fifo'[p]) /\ Fifo'[p][l - 1] = x)
          BY <1>2, <5>1
        <5>3. l \in Int /\ k \in Int /\ l - 1 < k
          BY <4>1, <5>1
        <5> QED
          BY <1>2, <3>1, <5>1, <5>2, <5>3
      <4> QED
        BY <1>5, <3>1, <4>1, <4>2, <4>3 DEF Follows
    <3>2. CASE r # p
      BY <1>1, <1>2, <1>5, <2>1, <3>2 DEF Follows
    <3> QED
      BY <3>1, <3>2
  <2>2. ASSUME node' = y PROVE WasSent(x)
    <3>1. r = p
      <4>1. Fifo[p][1] = y /\ 1 \in 1 .. Len(Fifo[p])
        BY <1>2, <2>2
      <4> QED
        BY <1>5, <4>1 DEF AtLevel
    <3>2. WasSent(x) \/ node = x \/ \E l \in 1 .. Len(Fifo[p]) : l < 1 /\ Fifo[p][l] = x
      BY <1>2, <1>5, <2>2, <3>1 DEF Follows
    <3> QED
      BY <1>1, <3>2
  <2>3. \A k \in 1 .. Len(sent) : sent[k] = y => \E j \in 1 .. Len(sent) : j < k /\ sent[j] = x
    BY <1>5 DEF Follows
  <2> QED
    BY <1>1, <1>3, <2>1, <2>2, <2>3 DEF Follows
<1>6. \A m \in requeued' : WasAccepted(m)
  BY <1>1 DEF Order
<1> QED
  BY <1>1, <1>4, <1>5, <1>6, KeepOrder

LEMMA YieldOrder ==
  ASSUME Control, Owned, Order, PutsBack \/ Drops
  PROVE  Order'
<1>1. /\ Fifo \in [Pri -> Seq(Msg)] /\ NoMsg \notin Msg /\ npri \in Pri
      /\ node \in Msg /\ node' = NoMsg /\ UNCHANGED <<npri, accepted, sent>>
  BY MsgAssumption, FifoType DEF Control, TypeOK, PutsBack, Drops, Yields
<1>2. npri < MaxPri
  <2>1. PICK q \in Pri : q > npri
    BY DEF PutsBack, Drops, Yields
  <2> QED
    BY <1>1, <2>1, PriAssumption DEF Pri
<1>3. /\ requeued \subseteq requeued' /\ dropped \subseteq dropped'
      /\ requeued' \cup dropped' = requeued \cup dropped \cup {node}
      /\ requeued' \subseteq requeued \cup {node}
  BY DEF PutsBack, Drops
<1>4. /\ \A q \in Pri : \A k \in 1 .. Len(Fifo[q]) : k \in 1 .. Len(Fifo'[q]) /\ Fifo'[q][k] = Fifo[q][k]
      /\ \A q \in Pri : \A k \in 1 .. Len(Fifo'[q]) : k \in 1 .. Len(Fifo[q]) \/ (q = npri /\ Fifo'[q][k] = node)
      /\ \A k \in 1 .. Len(Fifo'[npri]) : k \in 1 .. Len(Fifo[npri]) \/ Fifo'[npri][k] = node
  <2>1. CASE PutsBack
    BY <1>1, <2>1, PutItems DEF PutsBack
  <2>2. CASE Drops
    BY <2>2 DEF Drops
  <2> QED
    BY <2>1, <2>2
<1>5. \A m : WasSent(m)' <=> WasSent(m)
  BY <1>1 DEF WasSent
<1>6. ASSUME NEW m \in Msg, NEW r \in Pri, AtLevel(m, r) PROVE AtLevel(m, r)'
  BY <1>1, <1>2, <1>3, <1>4, <1>6 DEF AtLevel
<1>7. ASSUME NEW x \in Msg, NEW y \in Msg, NEW r \in Pri, x \notin requeued' \cup dropped', Follows(x, y, r)
      PROVE  Follows(x, y, r)'
  <2>1. x # node
    BY <1>3, <1>7
  <2>2. ASSUME NEW k \in 1 .. Len(Fifo'[r]), Fifo'[r][k] = y
        PROVE  WasSent(x) \/ \E l \in 1 .. Len(Fifo'[r]) : l < k /\ Fifo'[r][l] = x
    <3>1. CASE k \in 1 .. Len(Fifo[r])
      BY <1>4, <1>7, <2>1, <2>2, <3>1 DEF Follows
    <3>2. CASE y = node
      BY <1>7, <3>2 DEF Follows
    <3> QED
      BY <1>4, <2>2, <3>1, <3>2
  <2> QED
    BY <1>1, <1>5, <1>7, <2>2 DEF Follows
<1>8. \A m \in requeued' : WasAccepted(m)
  <2>1. WasAccepted(node)
    BY <1>1 DEF Owned, Somewhere
  <2> QED
    BY <1>3, <2>1 DEF Order
<1> QED
  BY <1>1, <1>3, <1>6, <1>7, <1>8, KeepOrder

LEMMA SendOrder ==
  ASSUME Control, Owned, Order, Sends
  PROVE  Order'
<1>1. /\ NoMsg \notin Msg /\ sent \in Seq(Msg) /\ sent' = Append(sent, node)
      /\ node \in Msg /\ node' = NoMsg /\ UNCHANGED <<Fifo, npri, accepted, requeued, dropped>>
  BY MsgAssumption DEF Control, TypeOK, Sends
<1>2. /\ Len(sent) \in Nat
      /\ \A k \in 1 .. Len(sent) : k \in 1 .. Len(sent') /\ sent'[k] = sent[k]
      /\ Len(sent) + 1 \in 1 .. Len(sent') /\ sent'[Len(sent) + 1] = node
      /\ \A k \in 1 .. Len(sent') : k \in 1 .. Len(sent) \/ k = Len(sent) + 1
  BY <1>1, AppendItems
<1>3. \A m : WasSent(m)' <=> WasSent(m) \/ m = node
  BY <1>2 DEF WasSent
<1>4. ASSUME NEW m \in Msg, NEW r \in Pri, AtLevel(m, r) PROVE AtLevel(m, r)'
  BY <1>1, <1>4 DEF AtLevel
<1>5. ASSUME NEW x \in Msg, NEW y \in Msg, NEW r \in Pri, Follows(x, y, r)
      PROVE  Follows(x, y, r)'
  <2>1. ASSUME NEW k \in 1 .. Len(sent'), sent'[k] = y
        PROVE  \E j \in 1 .. Len(sent') : j < k /\ sent'[j] = x
    <3>1. CASE k \in 1 .. Len(sent)
      <4>1. PICK j \in 1 .. Len(sent) : j < k /\ sent[j] = x
        BY <1>2, <1>5, <2>1, <3>1 DEF Follows
      <4> QED
        BY <1>2, <4>1
    <3>2. CASE k = Len(sent) + 1
      <4>1. WasSent(x)
        BY <1>2, <1>5, <2>1, <3>2 DEF Follows
      <4>2. PICK j \in 1 .. Len(sent) : sent[j] = x
        BY <4>1 DEF WasSent
      <4>3. j < k
        BY <1>2, <3>2
      <4> QED
        BY <1>2, <4>2, <4>3
    <3> QED
      BY <1>2, <3>1, <3>2
  <2> QED
    BY <1>1, <1>3, <1>5, <2>1 DEF Follows
<1>6. \A m \in requeued' : WasAccepted(m)
  BY <1>1 DEF Order
<1> QED
  BY <1>1, <1>4, <1>5, <1>6, KeepOrder

LEMMA StepOrder ==
  ASSUME Control, Owned, Order, Step
  PROVE  Order'
<1>1. CASE Looks
  <2>1. UNCHANGED <<Fifo, node, npri, accepted, sent, requeued, dropped>>
    BY <1>1 DEF Looks
  <2>2. \A m \in Msg, p \in Pri : AtLevel(m, p) => AtLevel(m, p)'
    BY <2>1 DEF AtLevel
  <2>3. \A x, y \in Msg, p \in Pri : Follows(x, y, p) => Follows(x, y, p)'
    BY <2>1 DEF Follows, WasSent
  <2>4. \A m \in requeued : WasAccepted(m)
    BY DEF Order
  <2> QED
    BY <2>1, <2>2, <2>3, <2>4, KeepOrder
<1> QED
  BY <1>1, AcceptOrder, TakeOrder, YieldOrder, SendOrder DEF Step

-----------------------------------------------------------------------------
IInv == Control /\ Current /\ Owned /\ Order

LEMMA InitInv == Init => IInv
<1> SUFFICES ASSUME Init PROVE IInv
  OBVIOUS
<1>1. Control /\ Fifo = [p \in Pri |-> << >>]
  BY InitControl
<1>2. /\ tpc = "scan" /\ node = NoMsg /\ NoMsg \notin Msg
      /\ accepted = << >> /\ sent = << >> /\ requeued = {} /\ dropped = {}
  BY MsgAssumption DEF Init
<1>3. \A m : ~Waits(m) /\ ~WasSent(m) /\ ~WasAccepted(m)
  BY <1>1, <1>2 DEF Waits, WasSent, WasAccepted
<1>4. Current
  BY <1>2 DEF Current
<1>5. Owned
  BY <1>1, <1>2, <1>3 DEF Owned, Somewhere, Apart, Once, Distinct
<1>6. Order
  BY <1>2 DEF Order
<1> QED
  BY <1>1, <1>4, <1>5, <1>6 DEF IInv

LEMMA Invariant == Spec => []IInv
<1>1. IInv /\ [Next]_vars => IInv'
  BY NextControl, StepKinds, StepCurrent, StepOwned, StepOrder DEF IInv
<1> QED
  BY InitInv, <1>1, PTL DEF Spec

(* What Owned says of the places a message is in. *)
LEMMA OwnedConserved == Control /\ Owned => Conserved
<1> SUFFICES ASSUME Control, Owned, NEW m \in Msg
             PROVE  Cardinality(Places(m)) = IF WasAccepted(m) THEN 1 ELSE 0
  BY DEF Conserved, Control
<1> DEFINE inRing == UNION {{<<"ring", p, k>> : k \in {j \in 1 .. count[p] : Ring(p)[j] = m}} : p \in Pri}
           inSent == {<<"sent", 0, k>> : k \in {j \in 1 .. Len(sent) : sent[j] = m}}
           inHand == IF node = m THEN {<<"hand", 0, 0>>} ELSE {}
           inDrop == IF m \in dropped THEN {<<"dropped", 0, 0>>} ELSE {}
<1>1. Places(m) = inRing \cup inSent \cup inHand \cup inDrop
  BY DEF Places
<1>2. (\A o1, o2 \in inRing : o1 = o2) /\ (inRing = {} <=> ~Waits(m))
  <2>1. \A p \in Pri : Ring(p) = Fifo[p] /\ count[p] = Len(Fifo[p])
    BY FifoType DEF Fifo, Control
  <2>2. \A o : o \in inRing <=> \E p \in Pri : \E k \in 1 .. Len(Fifo[p]) : Fifo[p][k] = m /\ o = <<"ring", p, k>>
    BY <2>1
  <2> HIDE DEF inRing
  <2>3. \A o1, o2 \in inRing : o1 = o2
    BY <2>2 DEF Owned, Once, Distinct
  <2>4. inRing = {} <=> ~Waits(m)
    BY <2>2 DEF Waits
  <2> QED
    BY <2>3, <2>4
<1>3. (\A o1, o2 \in inSent : o1 = o2) /\ (inSent = {} <=> ~WasSent(m))
  <2>1. \A o : o \in inSent <=> \E k \in 1 .. Len(sent) : sent[k] = m /\ o = <<"sent", 0, k>>
    OBVIOUS
  <2> HIDE DEF inSent
  <2>2. \A o1, o2 \in inSent : o1 = o2
    BY <2>1 DEF Owned, Once
  <2>3. inSent = {} <=> ~WasSent(m)
    BY <2>1 DEF WasSent
  <2> QED
    BY <2>2, <2>3
<1>4. (\A o1, o2 \in inHand : o1 = o2) /\ (inHand = {} <=> node # m)
  OBVIOUS
<1>5. (\A o1, o2 \in inDrop : o1 = o2) /\ (inDrop = {} <=> m \notin dropped)
  OBVIOUS
<1>6. /\ WasAccepted(m) <=> Waits(m) \/ node = m \/ WasSent(m) \/ m \in dropped
      /\ Waits(m) => node # m /\ ~WasSent(m) /\ m \notin dropped
      /\ node = m => ~WasSent(m) /\ m \notin dropped
      /\ WasSent(m) => m \notin dropped
  BY DEF Owned, Somewhere, Apart
<1> HIDE DEF inRing, inSent, inHand, inDrop
<1>7. \A o1, o2 \in Places(m) : o1 = o2
  BY <1>1, <1>2, <1>3, <1>4, <1>5, <1>6
<1>8. CASE WasAccepted(m)
  <2>1. Places(m) # {}
    BY <1>1, <1>2, <1>3, <1>4, <1>5, <1>6, <1>8
  <2> QED
    BY <1>7, <1>8, <2>1, ExactlyOne
<1>9. CASE ~WasAccepted(m)
  <2>1. Places(m) = {}
    BY <1>1, <1>2, <1>3, <1>4, <1>5, <1>6, <1>9
  <2> QED
    BY <1>9, <2>1, FS_EmptySet
<1> QED
  BY <1>8, <1>9

(* An accepted message is in exactly one ring slot, or in the thread's     *)
(* hand, or was sent once, or was dropped, for every number of messages    *)
(* and priorities and every ring size.                                     *)
THEOREM MessagesConserved == Spec => []Conserved
<1>1. IInv => Conserved
  BY OwnedConserved DEF IInv
<1> QED
  BY Invariant, <1>1, PTL

(* Although scan and check lock one ring at a time, the thread sends only  *)
(* while whatever waits at a higher priority came after it took its        *)
(* message.                                                                *)
THEOREM PreemptionCurrent == Spec => []SendCurrent
<1>1. IInv => SendCurrent
  <2> SUFFICES ASSUME IInv, tpc = "send", NEW p \in npri + 1 .. MaxPri, NEW k \in 1 .. count[p]
               PROVE  Ring(p)[k] \in late
    BY DEF SendCurrent
  <2>1. npri \in Pri /\ MaxPri \in Nat
    BY PriAssumption DEF IInv, Control, TypeOK
  <2>2. p \in Pri /\ p > npri
    BY <2>1 DEF Pri
  <2>3. Ring(p) = Fifo[p] /\ Len(Fifo[p]) = count[p]
    BY <2>2, FifoType DEF Fifo, IInv, Control
  <2> QED
    BY <2>2, <2>3 DEF IInv, Current, AllLate
<1> QED
  BY Invariant, <1>1, PTL

(* Messages of one priority leave in the order they were pushed, unless    *)
(* the older was put back for a higher priority; the highest keeps its     *)
(* order throughout.                                                       *)
THEOREM SentInOrder == Spec => []OrderKept
<1>1. IInv => OrderKept
  <2> SUFFICES ASSUME IInv, NEW a \in 1 .. Len(accepted), NEW b \in 1 .. Len(accepted), NEW k \in 1 .. Len(sent),
                      a < b, accepted[a][2] = accepted[b][2], sent[k] = accepted[b][1]
               PROVE  \/ \E j \in 1 .. k - 1 : sent[j] = accepted[a][1]
                      \/ accepted[a][1] \in requeued \cup dropped /\ accepted[a][2] < MaxPri
    BY DEF OrderKept
  <2> DEFINE older == accepted[a][1]  newer == accepted[b][1]  p == accepted[a][2]
  <2>1. /\ older \in Msg /\ newer \in Msg /\ p \in Pri
        /\ accepted[a] = <<older, p>> /\ accepted[b] = <<newer, p>>
    <3>1. accepted[a] \in Msg \X Pri /\ accepted[b] \in Msg \X Pri
      BY DEF IInv, Control, TypeOK
    <3> QED
      BY <3>1
  <2> HIDE DEF older, newer, p
  <2>2. CASE older \in requeued \cup dropped
    <3>1. p < MaxPri
      BY <2>1, <2>2 DEF IInv, Order, AtLevel
    <3> QED
      BY <2>2, <3>1 DEF older, p
  <2>3. CASE older \notin requeued \cup dropped
    <3>1. Follows(older, newer, p)
      BY <2>1, <2>3 DEF IInv, Order
    <3>2. PICK j \in 1 .. Len(sent) : j < k /\ sent[j] = older
      BY <3>1 DEF Follows, newer
    <3>3. j \in 1 .. k - 1
      BY <3>2
    <3> QED
      BY <3>2, <3>3 DEF older
  <2> QED
    BY <2>2, <2>3
<1> QED
  BY Invariant, <1>1, PTL

(* Rings, scans and put-back implement the relay, liveness aside: every    *)
(* step is one Accept, Take, Send, PutBack or Drop of NetProxyRelay, or    *)
(* changes nothing the relay promises about.                               *)
THEOREM QueueIsRelay == Spec => Relay!Spec
<1>1. Init => Relay!Init
  <2> SUFFICES ASSUME Init PROVE Relay!Init
    OBVIOUS
  <2>1. [p \in Pri |-> Ring(p)] = [p \in Pri |-> << >>] /\ Relay!Pri = Pri
    BY InitControl DEF Fifo, Relay!Pri, Pri
  <2> QED
    BY <2>1 DEF Init, Relay!Init
<1>2. IInv /\ [Next]_vars => [Relay!Next]_(Relay!vars)
  BY StepKinds, StepRelay DEF IInv
<1> QED
  BY <1>1, <1>2, Invariant, PTL DEF Spec, Relay!Spec
=============================================================================
