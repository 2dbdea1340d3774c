------------------------- MODULE TlsRequestProofs -------------------------
(***************************************************************************)
(* The wait list of the link status requests for any number of callers and *)
(* commands: it is a ring of exactly the commands whose callers wait or    *)
(* were cancelled waiting, the walk of the command thread stays on it      *)
(* (WalkSound), what that thread times out is old enough (OnlyTimeouts),   *)
(* and a stop leaves no more behind than the command of each caller that   *)
(* was cut short, and nobody who works on it (LeftBehind, Untouched).      *)
(*                                                                         *)
(* tls_list.c follows pointers, so Walk is recursive; that it finds the    *)
(* nodes in their order and stops at the head is proved by looking at the  *)
(* least place at which it would not.                                      *)
(***************************************************************************)
EXTENDS TlsRequest, FiniteSetTheorems, TLAPS

Node     == Cmd \cup {Head}
LinkType == [Node -> [pre : Node, next : Node]]

(* The nodes of a list in their order, from its head: c[0] is the head,    *)
(* and either link of a node names its neighbour on that side.             *)
Succ(m, i) == IF i = m THEN 0 ELSE i + 1

Ordered(l, c, m) ==
  /\ c[0] = Head
  /\ \A i, j \in 0 .. m : c[i] = c[j] => i = j
  /\ \A i \in 0 .. m : l[c[i]].next = c[Succ(m, i)] /\ l[c[Succ(m, i)]].pre = c[i]

Members(c, m) == {c[i] : i \in 1 .. m}

ListOf(l, S) == \E m \in Nat : \E c \in [0 .. m -> Node] : Ordered(l, c, m) /\ Members(c, m) = S

-----------------------------------------------------------------------------
(* The inductive invariant. *)

Types ==
  /\ heap \in SUBSET Cmd /\ link \in LinkType /\ failed \in SUBSET Cmd
  /\ event = [c \in Cmd |-> event[c]]
  /\ tick \in [Cmd -> Int] /\ wall \in [Cmd -> Int] /\ age \in [Cmd -> Nat]
  /\ lock \in {Free, Poller} /\ at \in Node /\ steps \in Nat
  /\ pc \in [Caller -> {"idle", "push", "wait", "woken", "expired", "free", "cutwait", "cutfree"}]
  /\ mine \in [Caller -> Cmd \cup {NoCmd}]
  /\ outcome \in [Caller -> {"none", "copied"}]
  /\ tpc \in {"absent", "start", "wait", "poll", "visit", "next", "sleep", "leave", "exit", "dead"}

(* A caller in a call has a command of its own, and it is not free. *)
Owned == /\ \A t \in Caller : pc[t] # "idle" => mine[t] \in Cmd \ heap
         /\ \A t, u \in Caller : pc[t] # "idle" /\ pc[u] # "idle" /\ mine[t] = mine[u] => t = u

(* The wait list holds the commands whose callers wait, *)
Awaited == {mine[t] : t \in Waiting}
Listed  == ListOf(link, Awaited)

(* the walk, which has the lock from its first node to its last and for    *)
(* ever when it is cancelled in between, is on it, *)
Walks == /\ tpc \in {"visit", "next"} => lock = Poller
         /\ lock = Poller => tpc \in {"visit", "next", "dead"} /\ at \in Awaited \cup {Head}

(* an event says that its command has been timed out, *)
Answers == /\ \A c \in Cmd : E!Signalled(event[c]) => c \in failed
           /\ \A t \in Caller : /\ pc[t] = "woken" => mine[t] \in failed
                                /\ outcome[t] = "none"

(* and what the walk knows of an age is not more than it is, unless the    *)
(* clock is set back.                                                      *)
Ages == steps = 0 => /\ \A c \in Cmd : /\ 0 <= tick[c] /\ tick[c] <= wall[c] 
                                       /\ wall[c] = age[c] /\ age[c] <= CallTimeout
                     /\ \A c \in failed \ heap : age[c] >= PollTimeout

IInv == Types /\ Owned /\ Listed /\ Walks /\ Answers /\ Ages
-----------------------------------------------------------------------------
(* Induction over the natural numbers: a set that holds 0 and with every   *)
(* number its successor holds them all, or there were a least exception.   *)
LEMMA AllNaturals ==
  ASSUME NEW S, 0 \in S, \A n \in Nat : n \in S => n + 1 \in S
  PROVE  Nat \subseteq S
<1>1. SUFFICES ASSUME Nat \ S # {} PROVE FALSE
  OBVIOUS
<1> DEFINE R == {ss \in Nat \X Nat : ss[1] < ss[2]}
<1>2. PICK n \in Nat \ S : \A k \in Nat \ S : ~(<<k, n>> \in R)
  <2>1. IsWellFoundedOn(R, Nat)
    BY NatLessThanWellFounded, Zenon DEF OpToRel
  <2> HIDE DEF R
  <2> QED
    BY <1>1, <2>1, WFMin
<1>3. n \in Nat /\ n # 0 /\ n \notin S
  BY <1>2
<1>4. n - 1 \in Nat /\ n - 1 < n /\ (n - 1) + 1 = n
  BY <1>3
<1>5. n - 1 \in S
  <2>1. n - 1 \notin S => <<n - 1, n>> \in R
    BY <1>3, <1>4
  <2> QED
    BY <1>2, <1>4, <2>1
<1> QED
  BY <1>3, <1>4, <1>5

(* The place after i steps around a ring. *)
Around(m, i) == i % (m + 1)

LEMMA Rounds ==
  ASSUME NEW m \in Nat, NEW i \in Nat
  PROVE  /\ Around(m, i) \in 0 .. m
         /\ Around(m, i + 1) = Succ(m, Around(m, i))
         /\ i <= m => Around(m, i) = i
<1> DEFINE d == m + 1   q == i \div d   r == i % d
<1>1. d \in Nat /\ d > 0
  OBVIOUS
<1>2. q \in Int /\ r \in Int /\ 0 <= r /\ r < d /\ i = d * q + r
  BY <1>1
<1>3. r \in 0 .. m
  BY <1>2
<1>4. (i + 1) % d = Succ(m, r)
  <2>1. CASE r = m
    <3>1. i + 1 = d * (q + 1) + 0
      <4>1. \A a, b \in Int : a * (b + 1) + 0 = a * b + a
        OBVIOUS
      <4>2. d * (q + 1) + 0 = d * q + d
        BY <1>1, <1>2, <4>1
      <4>3. r + 1 = d
        BY <2>1
      <4> HIDE DEF d, q, r
      <4> QED
        BY <1>1, <1>2, <4>2, <4>3
    <3>2. (i + 1) % d = 0
      BY <1>1, <1>2, <3>1
    <3> QED
      BY <2>1, <3>2 DEF Succ
  <2>2. CASE r # m
    <3>1. i + 1 = d * q + (r + 1) /\ r + 1 < d /\ 0 <= r + 1
      BY <1>2, <2>2
    <3>2. (i + 1) % d = r + 1
      BY <1>1, <1>2, <3>1
    <3> QED
      BY <2>2, <3>2 DEF Succ
  <2> QED
    BY <2>1, <2>2
<1>5. i <= m => r = i
  OBVIOUS
<1> QED
  BY <1>3, <1>4, <1>5 DEF Around

(* What a list that is in order looks like from a place on it. *)
LEMMA Places ==
  ASSUME NEW m \in Nat, NEW i \in 0 .. m
  PROVE  /\ Succ(m, i) \in 0 .. m
         /\ i = 0 => Succ(m, m) = i
         /\ i # 0 => i - 1 \in 0 .. m /\ Succ(m, i - 1) = i
  BY DEF Succ

(* The places a walk comes to, one after the other. *)
Visit(l, h) == CHOOSE f : f = [i \in Nat |-> IF i = 0 THEN l[h].next ELSE l[f[i - 1]].next]

LEMMA WalkVisits ==
  ASSUME NEW l, NEW h
  PROVE  L!Walk(l, h) = {Visit(l, h)[i] : i \in {j \in 0 .. Cardinality(DOMAIN l) :
                                                 \A k \in 0 .. j : Visit(l, h)[k] # h}}
  BY Zenon DEF L!Walk, Visit, L!Cardinality, Cardinality

(* The walk of tls_list.c from the head meets the nodes of the list, all   *)
(* of them and no other, and comes to an end.                              *)
LEMMA WalkFinds ==
  ASSUME NEW l \in LinkType, NEW S, ListOf(l, S)
  PROVE  L!Walk(l, Head) = S
<1>m. PICK m \in Nat : \E c \in [0 .. m -> Node] : Ordered(l, c, m) /\ Members(c, m) = S
  BY DEF ListOf
<1>c. PICK c \in [0 .. m -> Node] : Ordered(l, c, m) /\ Members(c, m) = S
  BY <1>m
<1> DEFINE Step(f) == [i \in Nat |-> IF i = 0 THEN l[Head].next ELSE l[f[i - 1]].next]
           V   == Visit(l, Head)
           W   == [i \in Nat |-> c[Around(m, i + 1)]]
           Steps == 0 .. Cardinality(DOMAIN l)
<1>1. W = Step(W)
  <2>1. ASSUME NEW i \in Nat PROVE W[i] = IF i = 0 THEN l[Head].next ELSE l[W[i - 1]].next
    <3>0. i = 0 => i <= m
      OBVIOUS
    <3>1. /\ Around(m, i) \in 0 .. m /\ Around(m, i + 1) = Succ(m, Around(m, i))
          /\ (i = 0 => Around(m, i) = 0)
      BY <3>0, Rounds, Zenon
    <3>2. l[c[Around(m, i)]].next = c[Around(m, i + 1)]
      BY <1>c, <3>1 DEF Ordered
    <3>3. CASE i = 0
      BY <1>c, <3>1, <3>2, <3>3 DEF Ordered
    <3>4. CASE i # 0
      <4>1. i - 1 \in Nat /\ (i - 1) + 1 = i
        BY <3>4
      <4>2. W[i - 1] = c[Around(m, i)]
        BY <4>1
      <4> QED
        BY <3>2, <3>4, <4>2
    <3> QED
      BY <3>3, <3>4
  <2> QED
    BY <2>1, Zenon
<1>2. V = Step(V)
  BY <1>1, Zenon DEF Visit
<1>3. \A i \in Nat : V[i] = W[i]
  <2> DEFINE Same == {i \in Nat : V[i] = W[i]}
  <2> HIDE DEF V, W
  <2>1. /\ V[0] = l[Head].next /\ W[0] = l[Head].next
    BY <1>1, <1>2
  <2>2. \A n \in Nat : n \in Same => n + 1 \in Same
    <3> SUFFICES ASSUME NEW n \in Nat, V[n] = W[n] PROVE V[n + 1] = W[n + 1]
      OBVIOUS
    <3>1. n + 1 \in Nat /\ n + 1 # 0 /\ (n + 1) - 1 = n
      OBVIOUS
    <3>2. V[n + 1] = l[V[n]].next
      <4>1. V[n + 1] = l[V[(n + 1) - 1]].next
        BY <1>2, <3>1
      <4> QED
        BY <3>1, <4>1
    <3>3. W[n + 1] = l[W[n]].next
      <4>1. W[n + 1] = l[W[(n + 1) - 1]].next
        BY <1>1, <3>1
      <4> QED
        BY <3>1, <4>1
    <3> QED
      BY <3>2, <3>3
  <2>3. 0 \in Same
    BY <2>1
  <2>4. Nat \subseteq Same
    <3> HIDE DEF Same
    <3> QED
      BY <2>2, <2>3, AllNaturals
  <2> QED
    BY <2>4
<1>4. L!Walk(l, Head) = {V[i] : i \in {j \in Steps : \A k \in 0 .. j : V[k] # Head}}
  BY WalkVisits, Zenon
<1>5. Cardinality(DOMAIN l) \in Nat /\ m <= Cardinality(DOMAIN l)
  <2>1. DOMAIN l = Node /\ IsFiniteSet(Node)
    BY CmdAssumption, FS_AddElement DEF LinkType, Node
  <2>2. c \in Injection(0 .. m, Node)
    BY <1>c DEF Ordered, Injection, IsInjective
  <2>3. Cardinality(0 .. m) <= Cardinality(Node) /\ Cardinality(Node) \in Nat
    BY <2>1, <2>2, FS_Injection, FS_CardinalityType
  <2>4. Cardinality(0 .. m) = m + 1
    BY FS_Interval
  <2> QED
    BY <2>1, <2>3, <2>4
<1>6. /\ \A i \in Nat : i < m => V[i] = c[i + 1] /\ V[i] # Head
      /\ V[m] = Head
  <2>1. ASSUME NEW i \in Nat, i < m PROVE V[i] = c[i + 1] /\ V[i] # Head
    <3>0. i + 1 \in Nat /\ i + 1 <= m /\ i + 1 \in 0 .. m /\ i + 1 # 0 /\ 0 \in 0 .. m
      BY <2>1
    <3>1. Around(m, i + 1) = i + 1 /\ i + 1 \in 0 .. m /\ i + 1 # 0 /\ 0 \in 0 .. m
      BY <3>0, Rounds, Zenon
    <3>2. V[i] = c[i + 1]
      <4>1. V[i] = c[Around(m, i + 1)]
        BY <1>3
      <4> QED
        BY <3>1, <4>1
    <3> QED
      BY <1>c, <3>1, <3>2 DEF Ordered
  <2>2. V[m] = Head
    <3>1. Around(m, m + 1) = 0
      BY Rounds DEF Succ
    <3>2. V[m] = c[Around(m, m + 1)]
      BY <1>3
    <3> QED
      BY <1>c, <3>1, <3>2 DEF Ordered
  <2> QED
    BY <2>1, <2>2
<1>7. {j \in Steps : \A k \in 0 .. j : V[k] # Head} = {j \in Nat : j < m}
  <2> HIDE DEF V
  <2>1. ASSUME NEW j \in Nat, j < m PROVE j \in Steps /\ \A k \in 0 .. j : V[k] # Head
    BY <1>5, <1>6, <2>1
  <2>2. ASSUME NEW j \in Steps, \A k \in 0 .. j : V[k] # Head PROVE j \in Nat /\ j < m
    BY <1>5, <1>6, <2>2
  <2> QED
    BY <2>1, <2>2
<1>8. L!Walk(l, Head) = {V[j] : j \in {j \in Nat : j < m}}
  <2> HIDE DEF V
  <2> QED
    BY <1>4, <1>7
<1> HIDE DEF V
<1>9. {V[j] : j \in {j \in Nat : j < m}} = Members(c, m)
  <2>1. ASSUME NEW j \in Nat, j < m PROVE V[j] \in Members(c, m)
    BY <1>6, <2>1 DEF Members
  <2>2. ASSUME NEW i \in 1 .. m PROVE \E j \in {j \in Nat : j < m} : c[i] = V[j]
    <3>1. i - 1 \in Nat /\ i - 1 < m /\ (i - 1) + 1 = i
      OBVIOUS
    <3> QED
      BY <1>6, <3>1
  <2> QED
    BY <2>1, <2>2 DEF Members
<1> QED
  BY <1>c, <1>8, <1>9

(* In a list that is in order, the links of every node agree. *)
LEMMA RingOfList ==
  ASSUME NEW l \in LinkType, NEW S, ListOf(l, S)
  PROVE  L!Ring(l, S \cup {Head})
<1>m. PICK m \in Nat : \E c \in [0 .. m -> Node] : Ordered(l, c, m) /\ Members(c, m) = S
  BY DEF ListOf
<1>c. PICK c \in [0 .. m -> Node] : Ordered(l, c, m) /\ Members(c, m) = S
  BY <1>m
<1> DEFINE T == S \cup {Head}
<1>1. \A i \in 0 .. m : c[i] \in T
  BY <1>c DEF Members, Ordered
<1>2. \A n \in T : \E i \in 0 .. m : n = c[i]
  BY <1>c DEF Members, Ordered
<1> SUFFICES ASSUME NEW n \in T
             PROVE  /\ l[n].next \in T /\ l[l[n].next].pre = n
                    /\ l[n].pre \in T  /\ l[l[n].pre].next = n
  BY DEF L!Ring
<1>3. PICK i \in 0 .. m : n = c[i]
  BY <1>2
<1>4. l[c[i]].next \in T /\ l[l[c[i]].next].pre = c[i]
  <2>1. Succ(m, i) \in 0 .. m
    BY DEF Succ
  <2> QED
    BY <1>c, <1>1, <2>1 DEF Ordered
<1>5. PICK j \in 0 .. m : Succ(m, j) = i
  <2>1. CASE i = 0
    BY <2>1 DEF Succ
  <2>2. CASE i # 0
    <3>1. i - 1 \in 0 .. m /\ Succ(m, i - 1) = i
      BY <2>2 DEF Succ
    <3> QED
      BY <3>1
  <2> QED
    BY <2>1, <2>2
<1>6. l[c[i]].pre = c[j] /\ l[c[j]].next = c[i]
  BY <1>c, <1>5 DEF Ordered
<1> QED
  BY <1>1, <1>3, <1>4, <1>5, <1>6

(* A node that is initialised is not on the list. *)
LEMMA InitializeList ==
  ASSUME NEW l \in LinkType, NEW S, ListOf(l, S),
         NEW n \in Cmd, n \notin S
  PROVE  L!Initialize(l, n) \in LinkType /\ ListOf(L!Initialize(l, n), S)
<1>m. PICK m \in Nat : \E c \in [0 .. m -> Node] : Ordered(l, c, m) /\ Members(c, m) = S
  BY DEF ListOf
<1>c. PICK c \in [0 .. m -> Node] : Ordered(l, c, m) /\ Members(c, m) = S
  BY <1>m
<1> DEFINE l2 == L!Initialize(l, n)
<1>1. l2 \in LinkType
  BY DEF L!Initialize, L!Alone, LinkType, Node
<1>2. \A x \in Node : x # n => l2[x] = l[x]
  BY DEF L!Initialize, LinkType
<1>3. \A i \in 0 .. m : c[i] \in Node /\ c[i] # n
  BY <1>c, CmdAssumption DEF Members, Ordered
<1>4. \A i \in 0 .. m : Succ(m, i) \in 0 .. m
  BY DEF Succ
<1> HIDE DEF l2
<1>5. Ordered(l2, c, m)
  BY <1>c, <1>2, <1>3, <1>4 DEF Ordered
<1> QED
  BY <1>1, <1>c, <1>5 DEF l2, ListOf

(* The tail is between the last node and the head. *)
LEMMA InsertTailList ==
  ASSUME NEW l \in LinkType, NEW S, ListOf(l, S),
         NEW n \in Cmd, n \notin S
  PROVE  /\ L!InsertTail(l, Head, n) \in LinkType
         /\ ListOf(L!InsertTail(l, Head, n), S \cup {n})
<1>m. PICK m \in Nat : \E c \in [0 .. m -> Node] : Ordered(l, c, m) /\ Members(c, m) = S
  BY DEF ListOf
<1>c. PICK c \in [0 .. m -> Node] : Ordered(l, c, m) /\ Members(c, m) = S
  BY <1>m
<1> DEFINE l2 == L!InsertTail(l, Head, n)
           d  == [i \in 0 .. m + 1 |-> IF i = m + 1 THEN n ELSE c[i]]
<1>1. /\ n \in Node /\ Head \in Node /\ n # Head /\ l[Head].pre = c[m]
      /\ \A i \in 0 .. m : c[i] \in Node /\ c[i] # n
  BY <1>c, CmdAssumption DEF Ordered, Succ, Node, Members
<1>2. l2 \in LinkType
  BY <1>1 DEF L!InsertTail, LinkType
<1>3. /\ l2[n].pre = c[m] /\ l2[n].next = Head
      /\ \A x \in Node : x # n => /\ l2[x].next = IF x = c[m] THEN n ELSE l[x].next
                                  /\ l2[x].pre = IF x = Head THEN n ELSE l[x].pre
  BY <1>1 DEF L!InsertTail, LinkType
<1> HIDE DEF l2
<1>4. /\ d \in [0 .. m + 1 -> Node] /\ d[m + 1] = n /\ m + 1 \in Nat
      /\ \A i \in 0 .. m : d[i] = c[i] /\ i \in 0 .. m + 1
  BY <1>1
<1> HIDE DEF d
<1>5. Ordered(l2, d, m + 1)
  <2>1. d[0] = Head
    BY <1>c, <1>4 DEF Ordered
  <2>2. ASSUME NEW i \in 0 .. m + 1, NEW j \in 0 .. m + 1, d[i] = d[j] PROVE i = j
    BY <1>c, <1>1, <1>4, <2>2 DEF Ordered
  <2>3. ASSUME NEW i \in 0 .. m + 1
        PROVE  l2[d[i]].next = d[Succ(m + 1, i)] /\ l2[d[Succ(m + 1, i)]].pre = d[i]
    <3>1. CASE i = m + 1
      <4>1. Succ(m + 1, i) = 0
        BY <3>1 DEF Succ
      <4> QED
        BY <1>1, <1>3, <1>4, <2>1, <3>1, <4>1
    <3>2. CASE i = m
      <4>1. Succ(m + 1, i) = m + 1
        BY <3>2 DEF Succ
      <4>2. d[i] = c[m] /\ c[m] \in Node /\ c[m] # n
        BY <1>1, <1>4, <3>2
      <4> QED
        BY <1>3, <1>4, <4>1, <4>2
    <3>3. CASE i < m
      <4>1. Succ(m + 1, i) = i + 1 /\ Succ(m, i) = i + 1 /\ i \in 0 .. m /\ i + 1 \in 0 .. m
            /\ m \in 0 .. m /\ 0 \in 0 .. m /\ i # m /\ i + 1 # 0
        BY <3>3 DEF Succ
      <4>2. d[i] = c[i] /\ d[i + 1] = c[i + 1] /\ c[i] # c[m] /\ c[i + 1] # Head
        BY <1>c, <1>4, <4>1 DEF Ordered
      <4>3. l[c[i]].next = c[i + 1] /\ l[c[i + 1]].pre = c[i]
        BY <1>c, <4>1 DEF Ordered
      <4> QED
        BY <1>1, <1>3, <4>1, <4>2, <4>3
    <3> QED
      BY <3>1, <3>2, <3>3
  <2> QED
    BY <1>c, <2>1, <2>2, <2>3 DEF Ordered
<1>6. Members(d, m + 1) = Members(c, m) \cup {n}
  <2>1. ASSUME NEW i \in 1 .. m + 1 PROVE d[i] \in Members(c, m) \cup {n}
    BY <1>c, <1>4 DEF Members
  <2>2. ASSUME NEW i \in 1 .. m PROVE c[i] \in Members(d, m + 1)
    BY <1>c, <1>4 DEF Members
  <2>3. n \in Members(d, m + 1)
    BY <1>c, <1>4 DEF Members
  <2> QED
    BY <1>c, <2>1, <2>2, <2>3 DEF Members
<1> QED
  BY <1>2, <1>c, <1>4, <1>5, <1>6 DEF l2, ListOf

(* A node that is removed leaves its neighbours to each other. *)
LEMMA RemoveNodeList ==
  ASSUME NEW l \in LinkType, NEW S, ListOf(l, S),
         NEW n \in S
  PROVE  /\ L!RemoveNode(l, Head, n) \in LinkType
         /\ ListOf(L!RemoveNode(l, Head, n), S \ {n})
<1>m. PICK m \in Nat : \E c \in [0 .. m -> Node] : Ordered(l, c, m) /\ Members(c, m) = S
  BY DEF ListOf
<1>c. PICK c \in [0 .. m -> Node] : Ordered(l, c, m) /\ Members(c, m) = S
  BY <1>m
<1> DEFINE l2   == L!RemoveNode(l, Head, n)
<1>1. PICK k \in 1 .. m : n = c[k]
  BY <1>c DEF Members
<1> DEFINE e(i) == IF i < k THEN i ELSE i + 1
           d    == [i \in 0 .. m - 1 |-> c[e(i)]]
           nx   == c[Succ(m, k)]
<1>2. /\ k \in 0 .. m /\ k - 1 \in 0 .. m /\ k - 1 # k /\ Succ(m, k - 1) = k
      /\ Succ(m, k) \in 0 .. m /\ Succ(m, k) # k /\ 0 \in 0 .. m /\ k # 0
  BY DEF Succ
<1>3. /\ l[n].pre = c[k - 1] /\ l[n].next = nx /\ c[k - 1] # n /\ nx # n
      /\ n \in Node /\ c[k - 1] \in Node /\ nx \in Node
  BY <1>c, <1>1, <1>2 DEF Ordered
<1>4. l2 = [l EXCEPT ![l[n].pre].next = l[n].next, ![l[n].next].pre = l[n].pre,
                     ![n] = [pre |-> n, next |-> n]]
  BY WalkFinds DEF L!RemoveNode, L!Alone
<1>5. l2 \in LinkType
  BY <1>3, <1>4 DEF LinkType
<1>6. \A x \in Node : x # n => /\ l2[x].next = IF x = c[k - 1] THEN nx ELSE l[x].next
                               /\ l2[x].pre = IF x = nx THEN c[k - 1] ELSE l[x].pre
  BY <1>3, <1>4 DEF LinkType
<1> HIDE DEF l2
<1>7. /\ m - 1 \in Nat
      /\ \A i \in 0 .. m - 1 : e(i) \in 0 .. m /\ e(i) # k /\ Succ(m - 1, i) \in 0 .. m - 1
      /\ \A i, j \in 0 .. m - 1 : e(i) = e(j) => i = j
      /\ \A i \in 1 .. m - 1 : i \in 0 .. m - 1 /\ e(i) # 0 /\ e(i) \in 1 .. m
      /\ \A i \in 1 .. m : i # k => \E j \in 1 .. m - 1 : e(j) = i
      /\ 0 \in 0 .. m - 1 /\ e(0) = 0
  <2>1. ASSUME NEW i \in 1 .. m, i # k PROVE \E j \in 1 .. m - 1 : e(j) = i
    <3>1. CASE i < k
      <4>1. i \in 1 .. m - 1 /\ e(i) = i
        BY <3>1
      <4> QED
        BY <4>1
    <3>2. CASE i > k
      <4>1. i - 1 \in 1 .. m - 1 /\ e(i - 1) = i
        BY <3>2
      <4> QED
        BY <4>1
    <3> QED
      BY <2>1, <3>1, <3>2
  <2> QED
    BY <2>1 DEF Succ
<1>8. \A i \in 0 .. m - 1 : e(Succ(m - 1, i)) = IF i = k - 1 THEN Succ(m, k) ELSE Succ(m, e(i))
  BY DEF Succ
<1>9. \A i \in 0 .. m - 1 : e(i) = k - 1 <=> i = k - 1
  OBVIOUS
<1>10. \A i \in 0 .. m - 1 : i # k - 1 => Succ(m, e(i)) # Succ(m, k)
  BY DEF Succ
<1>11. \A i \in 0 .. m - 1 : d[i] = c[e(i)]
  OBVIOUS
<1>12. d \in [0 .. m - 1 -> Node]
  BY <1>7
<1> HIDE DEF d, e
<1>13. Ordered(l2, d, m - 1)
  <2>1. d[0] = Head
    BY <1>c, <1>7, <1>11 DEF Ordered
  <2>2. ASSUME NEW i \in 0 .. m - 1, NEW j \in 0 .. m - 1, d[i] = d[j] PROVE i = j
    <3>1. e(i) \in 0 .. m /\ e(j) \in 0 .. m /\ c[e(i)] = c[e(j)]
      BY <1>7, <1>11, <2>2
    <3> QED
      BY <1>c, <1>7, <3>1 DEF Ordered
  <2>3. ASSUME NEW i \in 0 .. m - 1
        PROVE  l2[d[i]].next = d[Succ(m - 1, i)] /\ l2[d[Succ(m - 1, i)]].pre = d[i]
    <3> DEFINE s == Succ(m - 1, i)
    <3>1. /\ s \in 0 .. m - 1 /\ d[i] = c[e(i)] /\ d[s] = c[e(s)]
          /\ e(i) \in 0 .. m /\ e(s) \in 0 .. m /\ e(i) # k /\ e(s) # k
      BY <1>7, <1>11
    <3>2. d[i] # n /\ d[s] # n /\ d[i] \in Node /\ d[s] \in Node
      BY <1>c, <1>1, <1>2, <3>1 DEF Ordered
    <3>3. CASE i = k - 1
      <4>1. e(i) = k - 1 /\ e(s) = Succ(m, k)
        BY <1>8, <1>9, <3>3
      <4> QED
        BY <1>6, <3>1, <3>2, <4>1
    <3>4. CASE i # k - 1
      <4>1. /\ e(i) # k - 1 /\ e(s) = Succ(m, e(i)) /\ e(s) # Succ(m, k)
        BY <1>8, <1>9, <1>10, <3>4
      <4>2. d[i] # c[k - 1] /\ d[s] # nx
        BY <1>c, <1>2, <3>1, <4>1 DEF Ordered
      <4>3. l[d[i]].next = d[s] /\ l[d[s]].pre = d[i]
        BY <1>c, <3>1, <4>1 DEF Ordered
      <4> QED
        BY <1>6, <3>2, <4>2, <4>3
    <3> QED
      BY <3>3, <3>4
  <2> QED
    BY <1>c, <2>1, <2>2, <2>3 DEF Ordered
<1>14. Members(d, m - 1) = Members(c, m) \ {n}
  <2>1. ASSUME NEW i \in 1 .. m - 1 PROVE d[i] \in Members(c, m) \ {n}
    <3>1. d[i] = c[e(i)] /\ e(i) \in 1 .. m /\ e(i) \in 0 .. m /\ e(i) # k
      BY <1>7, <1>11
    <3> QED
      BY <1>c, <1>1, <1>2, <3>1 DEF Members, Ordered
  <2>2. ASSUME NEW i \in 1 .. m, c[i] # n PROVE c[i] \in Members(d, m - 1)
    <3>1. PICK j \in 1 .. m - 1 : e(j) = i
      BY <1>1, <1>7, <2>2
    <3>2. j \in 0 .. m - 1 /\ d[j] = c[i]
      BY <1>7, <1>11, <3>1
    <3> QED
      BY <1>c, <3>2 DEF Members
  <2> QED
    BY <1>c, <2>1, <2>2 DEF Members
<1> QED
  BY <1>5, <1>7, <1>c, <1>12, <1>13, <1>14 DEF l2, ListOf

-----------------------------------------------------------------------------
(* The steps.                                                              *)

(* A new command has no message in its event. *)
LEMMA ClearedEvent == ~E!Signalled(E!Cleared)
<1>1. E!Cleared = [state |-> FALSE, pipe |-> 0, auto |-> FALSE]
  BY Zenon DEF E!Cleared, E!Fresh
<1> QED
  BY <1>1 DEF E!Signalled

LEMMA InitInv == Init => IInv
<1> SUFFICES ASSUME Init PROVE IInv
  OBVIOUS
<1>1. Types
  <2>1. link \in LinkType
    BY DEF Init, LinkType, Node, L!Alone
  <2> QED
    BY <2>1 DEF Init, Types, Node
<1>2. Waiting = {} /\ Awaited = {}
  BY DEF Init, Waiting, Awaited
<1>3. Listed
  <2> DEFINE c == [i \in 0 .. 0 |-> Head]
  <2>1. c \in [0 .. 0 -> Node] /\ 0 \in Nat
    BY DEF Node
  <2>2. Ordered(link, c, 0)
    BY DEF Ordered, Succ, Init, L!Alone
  <2>3. Members(c, 0) = Awaited
    BY <1>2 DEF Members
  <2> QED
    BY <2>1, <2>2, <2>3 DEF Listed, ListOf
<1>4. Owned /\ Walks
  BY DEF Init, Owned, Walks, Free, Poller
<1>5. Answers
  BY ClearedEvent DEF Init, Answers
<1>6. Ages
  BY DEF Init, Ages, CallTimeout
<1> QED
  BY <1>1, <1>3, <1>4, <1>5, <1>6 DEF IInv

(* What the walk of the code finds are the awaited commands. *)
LEMMA QueueAwaited ==
  ASSUME Types, Listed
  PROVE  /\ Queued = Awaited /\ L!Ring(link, Awaited \cup {Head})
         /\ \A n \in Awaited \cup {Head} : link[n].next \in Awaited \cup {Head}
<1>1. link \in LinkType /\ ListOf(link, Awaited)
  BY DEF Types, Listed
<1>3. Queued = Awaited
  BY <1>1, WalkFinds, Zenon DEF Queued
<1>4. L!Ring(link, Awaited \cup {Head})
  BY <1>1, RingOfList, Zenon
<1> QED
  BY <1>3, <1>4 DEF L!Ring

(* The steps that leave the commands, the list and the callers alone.      *)
Moves == \/ ThreadStart \/ ThreadWait \/ PollLock \/ PollNext \/ PollUnlock \/ ThreadSleep
         \/ ThreadLeave \/ StopRpc \/ Stopper \/ Cancelled

LEMMA MovesLeave ==
  ASSUME Moves \/ UNCHANGED vars
  PROVE  UNCHANGED <<cmdVars, link, callVars, steps>>
  BY DEF Moves, ThreadStart, ThreadWait, PollLock, PollNext, PollUnlock, ThreadSleep, ThreadLeave,
         StopRpc, Stopper, Stop, StopSignal, StopWait, StopJoin, Cancelled, vars, cmdVars, callVars

LEMMA StepCases ==
  ASSUME [Next]_vars,
         NEW P,
         \A t \in Caller : NewCommand(t) => P,
         \A t \in Caller : PushQueue(t) => P,
         \A t \in Caller : Wake(t) => P,
         \A t \in Caller : RemoveQueue(t) => P,
         \A t \in Caller : FreeCommand(t) => P,
         \A t \in Caller : CallerCancelled(t) => P,
         PollVisit => P, Second => P, SetBack => P,
         Moves \/ UNCHANGED vars => P
  PROVE  P
  BY DEF Next, Call, Locks, Thread, Moves

(* A command is on the list from PushQueue to RemoveQueue of its caller.   *)
LEMMA NextListed == IInv /\ [Next]_vars => link' \in LinkType /\ Listed' /\ Owned'
<1> SUFFICES ASSUME IInv, [Next]_vars PROVE link' \in LinkType /\ Listed' /\ Owned'
  OBVIOUS
<1>0. Types /\ Owned /\ Listed
  BY DEF IInv
<1>w. \A t \in Waiting : t \in Caller /\ pc[t] # "idle" /\ pc[t] # "push"
  BY DEF Waiting
<1>s. ASSUME link' = link, Awaited' = Awaited PROVE link' \in LinkType /\ Listed'
  BY <1>0, <1>s DEF Listed, Types
<1>1. ASSUME NEW t \in Caller, NewCommand(t) PROVE link' \in LinkType /\ Listed' /\ Owned'
  <2>1. PICK n \in heap : /\ heap' = heap \ {n} /\ mine' = [mine EXCEPT ![t] = n]
                          /\ link' = L!Initialize(link, n)
    BY <1>1 DEF NewCommand
  <2>2. pc[t] = "idle" /\ pc' = [pc EXCEPT ![t] = "push"]
    BY <1>1 DEF NewCommand
  <2>3. \A u \in Caller : pc[u] # "idle" => u # t /\ mine[u] # n /\ mine'[u] = mine[u]
    BY <1>0, <2>1, <2>2 DEF Owned, Types
  <2>4. Waiting' = Waiting
    BY <1>0, <2>2 DEF Waiting, Types
  <2>5. Awaited' = Awaited /\ n \notin Awaited
    BY <1>w, <2>3, <2>4 DEF Awaited
  <2>6. n \in Cmd
    BY <1>0, <2>1 DEF Types
  <2>7. link' \in LinkType /\ ListOf(link', Awaited)
    <3>1. link \in LinkType /\ ListOf(link, Awaited)
      BY <1>0 DEF Types, Listed
    <3> QED
      BY <2>1, <2>5, <2>6, <3>1, InitializeList, Zenon
  <2>8. Owned'
    BY <1>0, <2>1, <2>2, <2>3, <2>6 DEF Owned, Types
  <2> QED
    BY <2>5, <2>7, <2>8 DEF Listed
<1>2. ASSUME NEW t \in Caller, PushQueue(t) PROVE link' \in LinkType /\ Listed' /\ Owned'
  <2>1. /\ pc[t] = "push" /\ pc' = [pc EXCEPT ![t] = "wait"] /\ mine' = mine /\ heap' = heap
        /\ link' = L!InsertTail(link, Head, mine[t])
    BY <1>2 DEF PushQueue, cmdVars
  <2>2. mine[t] \in Cmd /\ mine[t] \notin Awaited
    BY <1>0, <1>w, <2>1 DEF Owned, Awaited
  <2>3. Waiting' = Waiting \cup {t}
    BY <1>0, <2>1 DEF Waiting, Types
  <2>4. Awaited' = Awaited \cup {mine[t]}
    BY <2>1, <2>3 DEF Awaited
  <2>5. link' \in LinkType /\ ListOf(link', Awaited')
    <3>1. link \in LinkType /\ ListOf(link, Awaited)
      BY <1>0 DEF Types, Listed
    <3>2. link' \in LinkType /\ ListOf(link', Awaited \cup {mine[t]})
      BY <2>1, <2>2, <3>1, InsertTailList, Zenon
    <3> QED
      BY <2>4, <3>2
  <2>6. Owned'
    BY <1>0, <2>1 DEF Owned, Types
  <2> QED
    BY <2>5, <2>6 DEF Listed
<1>3. ASSUME NEW t \in Caller, Wake(t) PROVE link' \in LinkType /\ Listed' /\ Owned'
  <2>1. /\ pc[t] = "wait" /\ mine' = mine /\ heap' = heap /\ link' = link
        /\ \E x \in {"woken", "expired"} : pc' = [pc EXCEPT ![t] = x]
    BY <1>3 DEF Wake, cmdVars
  <2>2. Waiting' = Waiting
    BY <1>0, <2>1 DEF Waiting, Types
  <2>3. Owned'
    BY <1>0, <2>1 DEF Owned, Types
  <2> QED
    BY <1>s, <2>1, <2>2, <2>3 DEF Awaited
<1>4. ASSUME NEW t \in Caller, RemoveQueue(t) PROVE link' \in LinkType /\ Listed' /\ Owned'
  <2>1. /\ pc[t] \in {"woken", "expired"} /\ pc' = [pc EXCEPT ![t] = "free"]
        /\ mine' = mine /\ heap' = heap /\ link' = L!RemoveNode(link, Head, mine[t])
    BY <1>4 DEF RemoveQueue, cmdVars
  <2>2. t \in Waiting /\ mine[t] \in Awaited /\ Waiting' = Waiting \ {t}
    BY <1>0, <2>1 DEF Waiting, Awaited, Types
  <2>3. \A u \in Waiting : mine[u] = mine[t] => u = t
    BY <1>0, <1>w, <2>2 DEF Owned
  <2>4. Awaited' = Awaited \ {mine[t]}
    BY <2>1, <2>2, <2>3 DEF Awaited
  <2>5. link' \in LinkType /\ ListOf(link', Awaited')
    <3>1. link \in LinkType /\ ListOf(link, Awaited)
      BY <1>0 DEF Types, Listed
    <3>2. link' \in LinkType /\ ListOf(link', Awaited \ {mine[t]})
      BY <2>1, <2>2, <3>1, RemoveNodeList, Zenon
    <3> QED
      BY <2>4, <3>2
  <2>6. Owned'
    BY <1>0, <2>1 DEF Owned, Types
  <2> QED
    BY <2>5, <2>6 DEF Listed
<1>5. ASSUME NEW t \in Caller, FreeCommand(t) PROVE link' \in LinkType /\ Listed' /\ Owned'
  <2>1. /\ pc[t] = "free" /\ pc' = [pc EXCEPT ![t] = "idle"] /\ mine' = [mine EXCEPT ![t] = NoCmd]
        /\ heap' = heap \cup {mine[t]} /\ link' = link
    BY <1>5 DEF FreeCommand
  <2>2. Waiting' = Waiting /\ t \notin Waiting
    BY <1>0, <2>1 DEF Waiting, Types
  <2>3. \A u \in Caller : u # t => mine'[u] = mine[u]
    BY <1>0, <2>1 DEF Types
  <2>4. Awaited' = Awaited
    BY <1>w, <2>2, <2>3 DEF Awaited
  <2>5. Owned'
    BY <1>0, <2>1, <2>3 DEF Owned, Types
  <2> QED
    BY <1>s, <2>1, <2>4, <2>5
<1>9. ASSUME NEW t \in Caller, CallerCancelled(t) PROVE link' \in LinkType /\ Listed' /\ Owned'
  <2>1. /\ mine' = mine /\ heap' = heap /\ link' = link
        /\ \/ pc[t] = "wait" /\ pc' = [pc EXCEPT ![t] = "cutwait"]
           \/ pc[t] = "free" /\ pc' = [pc EXCEPT ![t] = "cutfree"]
    BY <1>9 DEF CallerCancelled, cmdVars
  <2>2. Waiting' = Waiting
    BY <1>0, <2>1 DEF Waiting, Types
  <2>3. Owned'
    BY <1>0, <2>1 DEF Owned, Types
  <2> QED
    BY <1>s, <2>1, <2>2, <2>3 DEF Awaited
<1>6. ASSUME UNCHANGED <<heap, link, pc, mine>> PROVE link' \in LinkType /\ Listed' /\ Owned'
  BY <1>0, <1>s, <1>6 DEF Owned, Awaited, Waiting
<1>7. ASSUME PollVisit \/ Second \/ SetBack PROVE link' \in LinkType /\ Listed' /\ Owned'
  BY <1>6, <1>7 DEF PollVisit, Second, SetBack, callVars
<1>8. ASSUME Moves \/ UNCHANGED vars PROVE link' \in LinkType /\ Listed' /\ Owned'
  BY <1>6, <1>8, MovesLeave DEF cmdVars, callVars
<1> QED
  BY <1>1, <1>2, <1>3, <1>4, <1>5, <1>7, <1>8, <1>9, StepCases

LEMMA NextTypes == IInv /\ [Next]_vars => Types'
<1> SUFFICES ASSUME IInv, [Next]_vars PROVE Types'
  OBVIOUS
<1> USE DEF Types
<1>0. Types /\ Owned /\ link' \in LinkType
  BY NextListed DEF IInv
<1>b. ASSUME NEW c \in Cmd, Blank(c)
      PROVE  /\ event' = [d \in Cmd |-> event'[d]] /\ failed' \in SUBSET Cmd
             /\ tick' \in [Cmd -> Int] /\ wall' \in [Cmd -> Int] /\ age' \in [Cmd -> Nat]
  <2>1. event' = [d \in Cmd |-> event'[d]]
    BY <1>0, <1>b DEF Blank
  <2> QED
    BY <1>0, <1>b, <2>1 DEF Blank
<1>1. ASSUME NEW t \in Caller, NewCommand(t) PROVE Types'
  <2>1. PICK c \in heap : /\ heap' = heap \ {c} /\ mine' = [mine EXCEPT ![t] = c]
                          /\ Blank(c)
    BY <1>1 DEF NewCommand
  <2> QED
    BY <1>0, <1>b, <1>1, <2>1 DEF NewCommand, thrVars
<1>2. ASSUME NEW t \in Caller, PushQueue(t) PROVE Types'
  BY <1>0, <1>2 DEF PushQueue, cmdVars, thrVars
<1>3. ASSUME NEW t \in Caller, Wake(t) PROVE Types'
  BY <1>0, <1>3 DEF Wake, cmdVars, thrVars
<1>4. ASSUME NEW t \in Caller, RemoveQueue(t) PROVE Types'
  BY <1>0, <1>4 DEF RemoveQueue, cmdVars, thrVars
<1>5. ASSUME NEW t \in Caller, FreeCommand(t) PROVE Types'
  <2>1. mine[t] \in Cmd
    BY <1>0, <1>5 DEF FreeCommand, Owned
  <2> QED
    BY <1>0, <1>b, <1>5, <2>1 DEF FreeCommand, thrVars
<1>10. ASSUME NEW t \in Caller, CallerCancelled(t) PROVE Types'
  BY <1>0, <1>10 DEF CallerCancelled, cmdVars, thrVars
<1>6. ASSUME PollVisit PROVE Types'
  <2>1. at \in Cmd
    BY <1>0, <1>6 DEF PollVisit, Node
  <2> QED
    BY <1>0, <1>6, <2>1 DEF PollVisit, CallBack, callVars
<1>7. ASSUME Second PROVE Types'
  BY <1>0, <1>7 DEF Second, callVars, thrVars
<1>8. ASSUME SetBack PROVE Types'
  BY <1>0, <1>8 DEF SetBack, callVars, thrVars
<1>9. ASSUME Moves \/ UNCHANGED vars PROVE Types'
  <2>1. link[Head] \in [pre : Node, next : Node] /\ link[at].next \in Node
    BY <1>0 DEF LinkType, Node
  <2>2. /\ lock' \in {Free, Poller} /\ at' \in Node
        /\ tpc' \in {"absent", "start", "wait", "poll", "visit", "next", "sleep", "leave", "exit", "dead"}
    BY <1>0, <1>9, <2>1
       DEF Moves, ThreadStart, ThreadWait, PollLock, PollNext, PollUnlock, ThreadSleep, ThreadLeave,
           StopRpc, Stopper, Stop, StopSignal, StopWait, StopJoin, Cancelled, vars, thrVars,
           Acquire, Release
  <2> QED
    BY <1>0, <1>9, <2>2, MovesLeave DEF cmdVars, callVars
<1> QED
  BY <1>1, <1>2, <1>3, <1>4, <1>5, <1>6, <1>7, <1>8, <1>9, <1>10, StepCases


(* The walk has the lock, so that the list stays as it is while it is on   *)
(* its way.                                                                *)
LEMMA NextWalks == IInv /\ [Next]_vars => Walks'
<1> SUFFICES ASSUME IInv, [Next]_vars PROVE Walks'
  OBVIOUS
<1>0. Types /\ Owned /\ Walks
  BY DEF IInv
<1>q. \A n \in Awaited \cup {Head} : link[n].next \in Awaited \cup {Head}
  BY QueueAwaited DEF IInv
<1>f. Free # Poller
  BY DEF Free, Poller
<1>1. ASSUME UNCHANGED <<lock, tpc, at>>, lock = Poller => Awaited \subseteq Awaited' PROVE Walks'
  BY <1>0, <1>1 DEF Walks
<1>2. ASSUME NEW t \in Caller, NewCommand(t) PROVE Walks'
  <2>1. /\ pc[t] = "idle" /\ pc' = [pc EXCEPT ![t] = "push"] /\ UNCHANGED <<lock, tpc, at>>
        /\ \A u \in Caller : u # t => mine'[u] = mine[u]
    BY <1>0, <1>2 DEF NewCommand, thrVars, Types
  <2>2. Waiting' = Waiting /\ t \notin Waiting
    BY <1>0, <2>1 DEF Waiting, Types
  <2>3. Awaited' = Awaited
    BY <2>1, <2>2 DEF Awaited, Waiting
  <2> QED
    BY <1>1, <2>1, <2>3
<1>3. ASSUME NEW t \in Caller, PushQueue(t) \/ RemoveQueue(t) PROVE Walks'
  BY <1>0, <1>1, <1>3, <1>f DEF PushQueue, RemoveQueue, thrVars
<1>4. ASSUME NEW t \in Caller, Wake(t) PROVE Walks'
  <2>1. /\ mine' = mine /\ pc[t] = "wait" /\ UNCHANGED <<lock, tpc, at>>
        /\ \E x \in {"woken", "expired"} : pc' = [pc EXCEPT ![t] = x]
    BY <1>4 DEF Wake, thrVars
  <2>2. Waiting' = Waiting
    BY <1>0, <2>1 DEF Waiting, Types
  <2> QED
    BY <1>1, <2>1, <2>2 DEF Awaited
<1>5. ASSUME NEW t \in Caller, FreeCommand(t) PROVE Walks'
  <2>1. /\ pc[t] = "free" /\ pc' = [pc EXCEPT ![t] = "idle"] /\ UNCHANGED <<lock, tpc, at>>
        /\ \A u \in Caller : u # t => mine'[u] = mine[u]
    BY <1>0, <1>5 DEF FreeCommand, thrVars, Types
  <2>2. Waiting' = Waiting /\ t \notin Waiting
    BY <1>0, <2>1 DEF Waiting, Types
  <2>3. Awaited' = Awaited
    BY <2>1, <2>2 DEF Awaited, Waiting
  <2> QED
    BY <1>1, <2>1, <2>3
<1>9. ASSUME NEW t \in Caller, CallerCancelled(t) PROVE Walks'
  <2>1. /\ mine' = mine /\ UNCHANGED <<lock, tpc, at>>
        /\ \/ pc[t] = "wait" /\ pc' = [pc EXCEPT ![t] = "cutwait"]
           \/ pc[t] = "free" /\ pc' = [pc EXCEPT ![t] = "cutfree"]
    BY <1>9 DEF CallerCancelled, thrVars
  <2>2. Waiting' = Waiting
    BY <1>0, <2>1 DEF Waiting, Types
  <2> QED
    BY <1>1, <2>1, <2>2 DEF Awaited
<1>6. ASSUME PollVisit PROVE Walks'
  BY <1>0, <1>6 DEF PollVisit, callVars, Walks, Awaited, Waiting
<1>7. ASSUME Second \/ SetBack PROVE Walks'
  BY <1>1, <1>7 DEF Second, SetBack, callVars, thrVars, Awaited, Waiting
<1>8. ASSUME Moves \/ UNCHANGED vars PROVE Walks'
  <2>1. Awaited' = Awaited
    BY <1>8, MovesLeave DEF Awaited, Waiting, callVars
  <2>2. CASE PollLock
    BY <1>0, <1>q, <2>1, <2>2 DEF PollLock, Acquire, Walks
  <2>3. CASE PollNext
    BY <1>0, <1>q, <2>1, <2>3 DEF PollNext, Walks
  <2>4. CASE PollUnlock
    BY <1>0, <1>f, <2>1, <2>4 DEF PollUnlock, Release, Walks
  <2>5. CASE Cancelled
    BY <1>0, <2>1, <2>5 DEF Cancelled, Walks
  <2>6. CASE ThreadStart \/ ThreadWait \/ ThreadSleep \/ ThreadLeave
    BY <1>0, <2>1, <2>6 DEF ThreadStart, ThreadWait, ThreadSleep, ThreadLeave, Walks
  <2>7. CASE StopRpc \/ Stopper \/ UNCHANGED vars
    BY <1>1, <2>1, <2>7 DEF StopRpc, Stopper, Stop, StopSignal, StopWait, StopJoin, vars, thrVars
  <2> QED
    BY <1>8, <2>2, <2>3, <2>4, <2>5, <2>6, <2>7 DEF Moves
<1> QED
  BY <1>2, <1>3, <1>4, <1>5, <1>6, <1>7, <1>8, <1>9, StepCases

(* A command's event and its result change hands together. *)
LEMMA NextAnswers == IInv /\ [Next]_vars => Answers'
<1> SUFFICES ASSUME IInv, [Next]_vars PROVE Answers'
  OBVIOUS
<1>0. Types /\ Owned /\ Answers
  BY DEF IInv
<1>1. ASSUME NEW t \in Caller, NewCommand(t) PROVE Answers'
  <2>1. PICK n \in heap : mine' = [mine EXCEPT ![t] = n] /\ Blank(n)
    BY <1>1 DEF NewCommand
  <2>2. pc' = [pc EXCEPT ![t] = "push"] /\ outcome' = outcome
    BY <1>1 DEF NewCommand
  <2>3. \A c \in Cmd : E!Signalled(event'[c]) => c # n /\ c \in failed
    BY <1>0, <2>1, ClearedEvent DEF Blank, Types, Answers
  <2>4. failed' = failed \ {n}
    BY <2>1 DEF Blank
  <2>5. ASSUME NEW u \in Caller, pc'[u] = "woken" PROVE mine'[u] \in failed'
    <3>1. u # t /\ pc[u] = "woken"
      BY <1>0, <2>2, <2>5 DEF Types
    <3>2. mine'[u] = mine[u] /\ mine[u] # n
      BY <1>0, <2>1, <3>1 DEF Types, Owned
    <3> QED
      BY <1>0, <2>4, <3>1, <3>2 DEF Answers
  <2> QED
    BY <1>0, <2>2, <2>3, <2>4, <2>5 DEF Answers
<1>2. ASSUME NEW t \in Caller, PushQueue(t) PROVE Answers'
  BY <1>0, <1>2 DEF PushQueue, cmdVars, Answers, Types
<1>3. ASSUME NEW t \in Caller, Wake(t) PROVE Answers'
  <2>1. mine' = mine /\ failed' = failed /\ event' = event /\ outcome' = outcome /\ pc[t] = "wait"
    BY <1>3 DEF Wake, cmdVars
  <2>2. mine[t] \in Cmd
    BY <1>0, <2>1 DEF Owned
  <2>3. \/ pc' = [pc EXCEPT ![t] = "woken"] /\ mine[t] \in failed
        \/ pc' = [pc EXCEPT ![t] = "expired"]
    BY <1>0, <1>3, <2>2 DEF Wake, Answers
  <2> QED
    BY <1>0, <2>1, <2>3 DEF Answers, Types
<1>4. ASSUME NEW t \in Caller, RemoveQueue(t) PROVE Answers'
  <2>1. ~Answered(t)
    BY <1>0 DEF Answered, Answers
  <2>2. /\ mine' = mine /\ failed' = failed /\ event' = event
        /\ pc' = [pc EXCEPT ![t] = "free"] /\ outcome' = [outcome EXCEPT ![t] = "none"]
    BY <1>4, <2>1 DEF RemoveQueue, cmdVars
  <2> QED
    BY <1>0, <2>2 DEF Answers, Types
<1>5. ASSUME NEW t \in Caller, FreeCommand(t) PROVE Answers'
  <2>1. /\ pc[t] = "free" /\ pc' = [pc EXCEPT ![t] = "idle"] /\ mine' = [mine EXCEPT ![t] = NoCmd]
        /\ outcome' = outcome /\ Blank(mine[t])
    BY <1>5 DEF FreeCommand
  <2>2. \A c \in Cmd : E!Signalled(event'[c]) => c # mine[t] /\ c \in failed
    BY <1>0, <2>1, ClearedEvent DEF Blank, Types, Answers
  <2>3. failed' = failed \ {mine[t]}
    BY <2>1 DEF Blank
  <2>4. ASSUME NEW u \in Caller, pc'[u] = "woken" PROVE mine'[u] \in failed'
    <3>1. u # t /\ pc[u] = "woken"
      BY <1>0, <2>1, <2>4 DEF Types
    <3>2. mine'[u] = mine[u] /\ mine[u] # mine[t]
      BY <1>0, <2>1, <3>1 DEF Types, Owned
    <3> QED
      BY <1>0, <2>3, <3>1, <3>2 DEF Answers
  <2> QED
    BY <1>0, <2>1, <2>2, <2>3, <2>4 DEF Answers
<1>9. ASSUME NEW t \in Caller, CallerCancelled(t) PROVE Answers'
  BY <1>0, <1>9 DEF CallerCancelled, cmdVars, Answers, Types
<1>6. ASSUME PollVisit PROVE Answers'
  <2>1. /\ pc' = pc /\ mine' = mine /\ outcome' = outcome /\ failed \subseteq failed'
        /\ \A c \in Cmd : event'[c] = event[c] \/ c \in failed'
    BY <1>0, <1>6 DEF PollVisit, CallBack, callVars, Types
  <2> QED
    BY <1>0, <2>1 DEF Answers
<1>7. ASSUME Second \/ SetBack PROVE Answers'
  BY <1>0, <1>7 DEF Second, SetBack, callVars, Answers
<1>8. ASSUME Moves \/ UNCHANGED vars PROVE Answers'
  BY <1>0, <1>8, MovesLeave DEF cmdVars, callVars, Answers
<1> QED
  BY <1>1, <1>2, <1>3, <1>4, <1>5, <1>6, <1>7, <1>8, <1>9, StepCases

(* Until the clock is set back, the age the walk has noted is at most the  *)
(* real one, and a small number that the difference does not wrap.         *)
LEMMA NextAges == IInv /\ [Next]_vars => Ages'
<1> SUFFICES ASSUME IInv, [Next]_vars, steps' = 0 PROVE Ages'
  BY DEF Ages
<1>0. Types /\ Owned /\ Walks
  BY DEF IInv
<1>u. ASSUME UNCHANGED <<cmdVars, steps>> PROVE Ages'
  BY <1>u DEF Ages, IInv, cmdVars
<1> DEFINE Young(c) == 0 <= tick[c] /\ tick[c] <= wall[c] /\ wall[c] = age[c] /\ age[c] <= CallTimeout
<1>a. ASSUME steps = 0
      PROVE  (\A c \in Cmd : Young(c)) /\ \A c \in failed \ heap : age[c] >= PollTimeout
  BY <1>a DEF Ages, IInv
<1>b. ASSUME NEW n \in Cmd, Blank(n), steps' = steps,
             heap' = heap \ {n} \/ heap' = heap \cup {n}
      PROVE  Ages'
  <2>1. steps = 0
    BY <1>b
  <2>2. \A c \in Cmd : IF c = n THEN tick'[c] = 0 /\ wall'[c] = 0 /\ age'[c] = 0
                                ELSE tick'[c] = tick[c] /\ wall'[c] = wall[c] /\ age'[c] = age[c]
    BY <1>0, <1>b DEF Blank, Types
  <2>3. failed' = failed \ {n}
    BY <1>b DEF Blank
  <2>4. \A c \in Cmd : 0 <= tick'[c] /\ tick'[c] <= wall'[c] /\ wall'[c] = age'[c] /\ age'[c] <= CallTimeout
    BY <1>a, <2>1, <2>2 DEF CallTimeout
  <2>5. \A c \in failed' \ heap' : age'[c] >= PollTimeout
    BY <1>0, <1>a, <1>b, <2>1, <2>2, <2>3 DEF Types
  <2> QED
    BY <2>4, <2>5 DEF Ages
<1>1. ASSUME NEW t \in Caller, NewCommand(t) PROVE Ages'
  <2>1. PICK n \in heap : Blank(n) /\ heap' = heap \ {n}
    BY <1>1 DEF NewCommand
  <2> QED
    BY <1>0, <1>1, <1>b, <2>1 DEF NewCommand, Types
<1>2. ASSUME NEW t \in Caller, PushQueue(t) \/ Wake(t) \/ RemoveQueue(t) \/ CallerCancelled(t)
      PROVE  Ages'
  BY <1>2, <1>u DEF PushQueue, Wake, RemoveQueue, CallerCancelled
<1>3. ASSUME NEW t \in Caller, FreeCommand(t) PROVE Ages'
  BY <1>0, <1>3, <1>b DEF FreeCommand, Owned
<1>4. ASSUME PollVisit PROVE Ages'
  <2>1. /\ steps = 0 /\ UNCHANGED <<heap, wall, age>> /\ at \in Cmd
        /\ tick' = tick \/ tick' = [tick EXCEPT ![at] = wall[at]]
        /\ failed' = failed \/ (failed' = failed \cup {at} /\ TooOld(at))
    BY <1>0, <1>4 DEF PollVisit, CallBack, Types, Node
  <2>2. TooOld(at) => age[at] >= PollTimeout
    <3>1. tick[at] \in Int /\ 0 <= tick[at] /\ tick[at] <= age[at] /\ tick[at] < U64 /\ U64 \in Nat
          /\ age[at] \in Nat
      BY <1>0, <1>a, <2>1, U64Assumption DEF CallTimeout, Types
    <3>2. tick[at] % U64 = tick[at]
      BY <3>1
    <3> QED
      BY <3>1, <3>2 DEF TooOld, PollTimeout
  <2>3. \A c \in Cmd : tick'[c] = tick[c] \/ tick'[c] = wall[c]
    BY <1>0, <2>1 DEF Types
  <2>4. \A c \in Cmd : tick[c] \in Int /\ wall[c] \in Int
    BY <1>0 DEF Types
  <2>5. \A c \in Cmd : 0 <= tick'[c] /\ tick'[c] <= wall'[c] /\ wall'[c] = age'[c] /\ age'[c] <= CallTimeout
    BY <1>a, <2>1, <2>3, <2>4
  <2>6. \A c \in failed' \ heap' : age'[c] >= PollTimeout
    BY <1>a, <2>1, <2>2
  <2> QED
    BY <2>5, <2>6 DEF Ages
<1>5. ASSUME Second PROVE Ages'
  <2>1. /\ steps = 0 /\ UNCHANGED <<heap, tick, failed>>
        /\ \A c \in Cmd : \/ age'[c] = age[c] /\ wall'[c] = wall[c]
                          \/ age'[c] = age[c] + 1 /\ wall'[c] = wall[c] + 1 /\ age[c] < CallTimeout
    BY <1>5 DEF Second
  <2>2. \A c \in Cmd : tick[c] \in Int /\ wall[c] \in Int /\ age[c] \in Nat
    BY <1>0 DEF Types
  <2>3. \A c \in Cmd : Young(c)
    BY <1>a, <2>1
  <2>4. \A c \in Cmd : 0 <= tick'[c] /\ tick'[c] <= wall'[c] /\ wall'[c] = age'[c] /\ age'[c] <= CallTimeout
    BY <2>1, <2>2, <2>3 DEF CallTimeout
  <2>5. \A c \in failed' \ heap' : age'[c] >= PollTimeout
    BY <1>0, <1>a, <2>1, <2>2 DEF PollTimeout, Types
  <2> QED
    BY <2>4, <2>5 DEF Ages
<1>6. ASSUME SetBack PROVE Ages'
  BY <1>0, <1>6 DEF SetBack, Types
<1>7. ASSUME Moves \/ UNCHANGED vars PROVE Ages'
  BY <1>7, <1>u, MovesLeave
<1> QED
  BY <1>1, <1>2, <1>3, <1>4, <1>5, <1>6, <1>7, StepCases

LEMMA Inductive == IInv /\ [Next]_vars => IInv'
  BY NextTypes, NextListed, NextWalks, NextAnswers, NextAges DEF IInv

-----------------------------------------------------------------------------
(* The wait list of tls_request.c is a ring of exactly the commands whose  *)
(* callers wait, none of them is free, and the walk is on it: for any      *)
(* number of callers and commands, a caller that leaves in the middle of a *)
(* walk never frees the node the walk stands on.                           *)
THEOREM WaitListKept == Spec => []WalkSound
<1>1. IInv => WalkSound
  <2> SUFFICES ASSUME IInv PROVE WalkSound
    OBVIOUS
  <2>1. Types /\ Owned /\ Listed /\ Walks
    BY DEF IInv
  <2>2. Queued = Awaited /\ L!Ring(link, Awaited \cup {Head})
    BY <2>1, QueueAwaited
  <2>3. Awaited \cap heap = {}
    BY <2>1 DEF Awaited, Waiting, Owned
  <2>4. lock = Poller => at \in Awaited \cup {Head}
    BY <2>1 DEF Walks
  <2> QED
    BY <2>2, <2>3, <2>4 DEF WalkSound, Awaited
<1> QED
  BY InitInv, Inductive, <1>1, PTL DEF Spec

(* No command is timed out before its time unless the clock is set back,   *)
(* and no caller takes the data of a command, whatever callers, walk and   *)
(* stop do.                                                                *)
THEOREM TimedOutLate == Spec => []OnlyTimeouts
<1>1. IInv => OnlyTimeouts
  BY DEF IInv, OnlyTimeouts, Ages, Answers
<1> QED
  BY InitInv, Inductive, <1>1, PTL DEF Spec

-----------------------------------------------------------------------------
(* The stop.  A command that is not free is that of a caller in a call or  *)
(* cut short in it, and when the requests are being stopped every caller   *)
(* has ended and none begins again.                                        *)
NoneLost == \A c \in Cmd \ heap : \E t \in Caller : pc[t] # "idle" /\ mine[t] = c
AllEnded == spc \notin {"running", "rpc"} => \A t \in Caller : Ended(t)
EndGone  == spc = "freed" => Gone

LEMMA NextNoneLost == Types /\ Owned /\ NoneLost /\ [Next]_vars => NoneLost'
<1> SUFFICES ASSUME Types, Owned, NoneLost, [Next]_vars PROVE NoneLost'
  OBVIOUS
<1>1. ASSUME NEW t \in Caller, NewCommand(t) PROVE NoneLost'
  <2>1. PICK n \in heap : heap' = heap \ {n} /\ mine' = [mine EXCEPT ![t] = n]
    BY <1>1 DEF NewCommand
  <2>2. pc[t] = "idle" /\ pc' = [pc EXCEPT ![t] = "push"]
    BY <1>1 DEF NewCommand
  <2>3. mine'[t] = n /\ pc'[t] # "idle"
    BY <2>1, <2>2 DEF Types
  <2>4. \A u \in Caller : u # t => mine'[u] = mine[u] /\ pc'[u] = pc[u]
    BY <2>1, <2>2 DEF Types
  <2> QED
    BY <2>1, <2>2, <2>3, <2>4 DEF NoneLost
<1>2. ASSUME NEW t \in Caller, UNCHANGED <<heap, mine>>, pc[t] # "idle",
             \E x \in {"wait", "woken", "expired", "free", "cutwait", "cutfree"} :
               pc' = [pc EXCEPT ![t] = x]
      PROVE  NoneLost'
  <2>1. \A u \in Caller : pc[u] # "idle" => pc'[u] # "idle"
    BY <1>2 DEF Types
  <2> QED
    BY <1>2, <2>1 DEF NoneLost
<1>3. ASSUME NEW t \in Caller, PushQueue(t) PROVE NoneLost'
  BY <1>2, <1>3 DEF PushQueue, cmdVars
<1>4. ASSUME NEW t \in Caller, Wake(t) PROVE NoneLost'
  BY <1>2, <1>4 DEF Wake, cmdVars
<1>5. ASSUME NEW t \in Caller, RemoveQueue(t) PROVE NoneLost'
  BY <1>2, <1>5 DEF RemoveQueue, cmdVars
<1>6. ASSUME NEW t \in Caller, FreeCommand(t) PROVE NoneLost'
  <2>1. /\ heap' = heap \cup {mine[t]} /\ mine' = [mine EXCEPT ![t] = NoCmd]
        /\ pc' = [pc EXCEPT ![t] = "idle"]
    BY <1>6 DEF FreeCommand
  <2>2. \A u \in Caller : u # t => mine'[u] = mine[u] /\ pc'[u] = pc[u]
    BY <2>1 DEF Types
  <2> QED
    BY <2>1, <2>2 DEF NoneLost
<1>10. ASSUME NEW t \in Caller, CallerCancelled(t) PROVE NoneLost'
  BY <1>2, <1>10 DEF CallerCancelled, cmdVars
<1>7. ASSUME UNCHANGED <<heap, pc, mine>> PROVE NoneLost'
  BY <1>7 DEF NoneLost
<1>8. ASSUME PollVisit \/ Second \/ SetBack PROVE NoneLost'
  BY <1>7, <1>8 DEF PollVisit, Second, SetBack, callVars
<1>9. ASSUME Moves \/ UNCHANGED vars PROVE NoneLost'
  BY <1>7, <1>9, MovesLeave DEF cmdVars, callVars
<1> QED
  BY <1>1, <1>3, <1>4, <1>5, <1>6, <1>8, <1>9, <1>10, StepCases

LEMMA NextStopped == Types /\ AllEnded /\ EndGone /\ [Next]_vars => AllEnded' /\ EndGone'
<1> SUFFICES ASSUME Types, AllEnded, EndGone, [Next]_vars PROVE AllEnded' /\ EndGone'
  OBVIOUS
<1>1. ASSUME UNCHANGED <<tpc, spc>>,
             \A t \in Caller : Ended(t) => Ended(t)' \/ spc = "running"
      PROVE  AllEnded' /\ EndGone'
  BY <1>1 DEF AllEnded, EndGone, Gone
<1>2. ASSUME NEW t \in Caller, NewCommand(t) PROVE AllEnded' /\ EndGone'
  BY <1>1, <1>2 DEF NewCommand, thrVars
<1>3. ASSUME NEW t \in Caller,
             \/ PushQueue(t) \/ Wake(t) \/ RemoveQueue(t)
             \/ FreeCommand(t) \/ CallerCancelled(t)
      PROVE  AllEnded' /\ EndGone'
  <2>1. ~Ended(t) /\ UNCHANGED <<tpc, spc>>
    BY <1>3 DEF PushQueue, Wake, RemoveQueue, FreeCommand, CallerCancelled, Ended, thrVars
  <2>2. \A u \in Caller : u # t => pc'[u] = pc[u]
    BY <1>3 DEF PushQueue, Wake, RemoveQueue, FreeCommand, CallerCancelled, Types
  <2> QED
    BY <1>1, <2>1, <2>2 DEF Ended
<1>4. CASE Second \/ SetBack
  BY <1>1, <1>4 DEF Second, SetBack, callVars, thrVars, Ended
<1>5. CASE PollVisit
  BY <1>5 DEF PollVisit, callVars, AllEnded, EndGone, Gone, Ended
<1>6. CASE Moves \/ UNCHANGED vars
  <2>1. pc' = pc /\ \A t \in Caller : Ended(t)' <=> Ended(t)
    BY <1>6, MovesLeave DEF callVars, Ended
  <2>2. CASE StopRpc
    BY <2>1, <2>2 DEF StopRpc, AllEnded, EndGone
  <2>3. CASE Stopper
    BY <2>1, <2>3 DEF Stopper, Stop, StopSignal, StopWait, StopJoin, AllEnded, EndGone, Gone
  <2>4. CASE Cancelled
    BY <2>1, <2>4 DEF Cancelled, AllEnded, EndGone
  <2>5. CASE \/ ThreadStart \/ ThreadWait \/ PollLock \/ PollNext \/ PollUnlock
             \/ ThreadSleep \/ ThreadLeave
    BY <2>1, <2>5 DEF ThreadStart, ThreadWait, PollLock, PollNext, PollUnlock, ThreadSleep, ThreadLeave,
                      AllEnded, EndGone, Gone
  <2>6. CASE UNCHANGED vars
    BY <1>1, <2>1, <2>6 DEF vars, thrVars
  <2> QED
    BY <1>6, <2>2, <2>3, <2>4, <2>5, <2>6 DEF Moves
<1> QED
  BY <1>2, <1>3, <1>4, <1>5, <1>6, StepCases

(* Who could still take a step on a freed request has ended before.        *)
LEMMA FreedUntouched == Types /\ AllEnded /\ EndGone /\ [Next]_vars => Untouched
<1> SUFFICES ASSUME Types, AllEnded, EndGone, [Next]_vars, spc = "freed"
             PROVE  UNCHANGED <<link, lock, callVars, thrVars>>
  BY DEF Untouched
<1>0. Gone /\ \A t \in Caller : Ended(t)
  BY DEF AllEnded, EndGone
<1>1. ASSUME NEW t \in Caller PROVE ~NewCommand(t) /\ ~CallerCancelled(t)
  BY DEF NewCommand, CallerCancelled
<1>2. ASSUME NEW t \in Caller
      PROVE  ~PushQueue(t) /\ ~Wake(t) /\ ~RemoveQueue(t) /\ ~FreeCommand(t)
  BY <1>0 DEF PushQueue, Wake, RemoveQueue, FreeCommand, Ended
<1>3. ~PollVisit
  BY <1>0 DEF PollVisit, Gone
<1>4. ASSUME Second \/ SetBack PROVE UNCHANGED <<link, lock, callVars, thrVars>>
  BY <1>4 DEF Second, SetBack
<1>5. ASSUME Moves \/ UNCHANGED vars PROVE UNCHANGED <<link, lock, callVars, thrVars>>
  <2>1. ~Moves
    BY <1>0 DEF Moves, ThreadStart, ThreadWait, PollLock, PollNext, PollUnlock, ThreadSleep, ThreadLeave,
                StopRpc, Stopper, Stop, StopSignal, StopWait, StopJoin, Cancelled, Gone
  <2> QED
    BY <1>5, <2>1 DEF vars
<1> QED
  BY <1>1, <1>2, <1>3, <1>4, <1>5, StepCases

(* What a stop leaves behind, for any number of callers and commands and   *)
(* wherever the cancelled ones are cut short: the lock that a cancelled    *)
(* walk keeps keeps nobody out, at most one command of each caller is not  *)
(* freed and on the list are those of callers cut while they waited; and   *)
(* the memory of the request is not freed under anybody.                   *)
THEOREM StopsSound == Spec => [][LeftBehind' /\ Untouched]_vars
<1>1. Init => NoneLost /\ AllEnded /\ EndGone
  BY DEF Init, NoneLost, AllEnded, EndGone
<1>2. IInv /\ NoneLost /\ AllEnded => LeftBehind
  <2> SUFFICES ASSUME IInv, NoneLost, AllEnded, spc \notin {"running", "rpc"}
               PROVE  /\ \A t \in Caller : Ended(t)
                      /\ Cmd \ heap = {mine[t] : t \in Cut}
                      /\ \A t, u \in Cut : mine[t] = mine[u] => t = u
                      /\ Queued = {mine[t] : t \in Cut \cap Waiting}
    BY DEF LeftBehind
  <2>1. Types /\ Owned /\ Listed /\ \A t \in Caller : Ended(t)
    BY DEF IInv, AllEnded
  <2>2. Cut = {t \in Caller : pc[t] # "idle"} /\ Cut \cap Waiting = Waiting
    BY <2>1 DEF Cut, Waiting, Ended
  <2>3. Cmd \ heap = {mine[t] : t \in Cut}
    BY <2>1, <2>2 DEF NoneLost, Owned
  <2>4. \A t, u \in Cut : mine[t] = mine[u] => t = u
    BY <2>1, <2>2 DEF Owned
  <2>5. Queued = {mine[t] : t \in Cut \cap Waiting}
    BY <2>1, <2>2, QueueAwaited DEF Awaited
  <2> QED
    BY <2>1, <2>3, <2>4, <2>5
<1>3. /\ IInv /\ NoneLost /\ [Next]_vars => NoneLost'
      /\ IInv /\ AllEnded /\ EndGone /\ [Next]_vars => AllEnded' /\ EndGone'
      /\ IInv /\ AllEnded /\ EndGone /\ [Next]_vars => Untouched
  BY NextNoneLost, NextStopped, FreedUntouched DEF IInv
<1>4. IInv' /\ NoneLost' /\ AllEnded' => LeftBehind'
  BY <1>2, PTL
<1>5. IInv /\ NoneLost /\ AllEnded /\ EndGone /\ [Next]_vars => LeftBehind' /\ Untouched
  BY Inductive, <1>3, <1>4
<1> QED
  BY InitInv, Inductive, <1>1, <1>3, <1>5, PTL DEF Spec
=============================================================================
