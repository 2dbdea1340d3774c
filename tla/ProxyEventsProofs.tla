------------------------- MODULE ProxyEventsProofs -------------------------
(***************************************************************************)
(* The event loop of the proxy server, for every number of connections,    *)
(* descriptors, events per wait and sizes: EventsSound.                    *)
(*                                                                         *)
(* That an edge covers what is pending has to hold before the loop runs    *)
(* (Cover); that the batch is current needs that no descriptor is in it    *)
(* twice (Once); and that nothing of a closed connection is unpublished    *)
(* needs the account of what it was given (Account), which holds because   *)
(* the publisher is up before the first listener (Quiet).                  *)
(***************************************************************************)
EXTENDS ProxyEvents, FiniteSetTheorems, SequenceTheorems, TLAPS

Handle == Tcp \cup Udp \cup Conn

(* The inductive invariant, in parts.  First the types. *)
Types ==
  /\ step \in 0 .. Looping
  /\ listening \subseteq Tcp \cup Udp /\ watched \subseteq Tcp \cup Udp
  /\ backlog \in [Tcp -> Seq(Conn)]
  /\ state \in [Conn -> {"none", "queued", "open", "closed", "dropped"}]
  /\ given \in [Conn -> Nat] /\ unread \in [Conn -> Nat] /\ published \in [Conn -> Nat]
  /\ fin \in [Conn -> BOOLEAN] /\ enabled \in BOOLEAN
  /\ queued \in [Udp -> Nat]
  /\ edge \subseteq Handle /\ left \subseteq Handle
  /\ batch \in Seq(Handle)

(* A connection that is to be accepted waits in one place, at a listener. *)
Queues ==
  /\ \A l \in Tcp : backlog[l] # << >> => l \in listening
  /\ \A l \in Tcp : \A k \in 1 .. Len(backlog[l]) : state[backlog[l][k]] = "queued"
  /\ \A l, m \in Tcp : \A k \in 1 .. Len(backlog[l]), j \in 1 .. Len(backlog[m]) :
       backlog[l][k] = backlog[m][j] => l = m /\ k = j

(* No descriptor is in a batch twice: its handler runs once. *)
Once == \A k, j \in 1 .. Len(batch) : batch[k] = batch[j] => k = j

(* The publisher is up before the first peer can connect, so that what it  *)
(* has published and what is unread make up what a connection was given.   *)
Quiet ==
  /\ step <= 4 => listening = {} /\ \A c \in Conn : state[c] = "none"
  /\ \A c \in Conn : state[c] = "none" => given[c] = 0 /\ unread[c] = 0 /\ published[c] = 0
Account == enabled => \A c \in Conn : published[c] + unread[c] = given[c]

(* Nothing that is watched waits unseen, also before the loop runs. *)
Cover == \A s \in (Tcp \cap watched) \cup Conn : Pending(s) => s \in edge \cup left \cup ToSet(batch)

(* BatchCurrent, with the descriptors for the places. *)
Batched == \A s \in ToSet(batch) : Pending(s)

IInv == Types /\ Queues /\ Once /\ Quiet /\ Account /\ Cover /\ Batched /\ ClosedWhole

-----------------------------------------------------------------------------
(* What is pending, for each kind of descriptor; the kinds are disjoint. *)
LEMMA Kinds == Tcp \cap Udp = {} /\ Tcp \cap Conn = {} /\ Udp \cap Conn = {}
  BY ConnAssumption DEF Tcp, Udp

LEMMA PendingIs ==
  /\ \A s \in Tcp : Pending(s) <=> s \in listening /\ backlog[s] # << >>
  /\ \A s \in Udp : Pending(s) <=> s \in listening /\ queued[s] > 0
  /\ \A s \in Conn : Pending(s) <=> state[s] = "open" /\ (unread[s] > 0 \/ fin[s])
<1>1. ASSUME NEW s \in Tcp PROVE Pending(s) <=> s \in listening /\ backlog[s] # << >>
  <2>1. s \notin Udp /\ s \notin Conn
    BY Kinds
  <2> QED
    BY <2>1 DEF Pending
<1>2. ASSUME NEW s \in Udp PROVE Pending(s) <=> s \in listening /\ queued[s] > 0
  <2>1. s \notin Tcp /\ s \notin Conn
    BY Kinds
  <2> QED
    BY <2>1 DEF Pending
<1>3. ASSUME NEW s \in Conn PROVE Pending(s) <=> state[s] = "open" /\ (unread[s] > 0 \/ fin[s])
  <2>1. s \notin Tcp /\ s \notin Udp
    BY Kinds
  <2> QED
    BY <2>1 DEF Pending
<1> QED
  BY <1>1, <1>2, <1>3

LEMMA PendingNext ==
  /\ \A s \in Tcp : Pending(s)' <=> s \in listening' /\ backlog'[s] # << >>
  /\ \A s \in Udp : Pending(s)' <=> s \in listening' /\ queued'[s] > 0
  /\ \A s \in Conn : Pending(s)' <=> state'[s] = "open" /\ (unread'[s] > 0 \/ fin'[s])
<1>1. ASSUME NEW s \in Tcp PROVE Pending(s)' <=> s \in listening' /\ backlog'[s] # << >>
  <2>1. s \notin Udp /\ s \notin Conn
    BY Kinds
  <2> QED
    BY <2>1 DEF Pending
<1>2. ASSUME NEW s \in Udp PROVE Pending(s)' <=> s \in listening' /\ queued'[s] > 0
  <2>1. s \notin Tcp /\ s \notin Conn
    BY Kinds
  <2> QED
    BY <2>1 DEF Pending
<1>3. ASSUME NEW s \in Conn PROVE Pending(s)' <=> state'[s] = "open" /\ (unread'[s] > 0 \/ fin'[s])
  <2>1. s \notin Tcp /\ s \notin Udp
    BY Kinds
  <2> QED
    BY <2>1 DEF Pending
<1> QED
  BY <1>1, <1>2, <1>3

LEMMA BootLength == Len(Boot) = 9 /\ Len(Watch) = 4 /\ Looping = 14
  BY DEF Boot, Watch, Looping

(* Nothing there, nothing pending, nothing to come: at the start and at the end. *)
LEMMA NothingThere ==
  ASSUME step' \in 0 .. 4, listening' = {}, watched' = {}, enabled' = FALSE,
         backlog' = [l \in Tcp |-> << >>], state' = [c \in Conn |-> "none"],
         given' = [c \in Conn |-> 0], unread' = given', published' = given',
         fin' = [c \in Conn |-> FALSE], queued' = [u \in Udp |-> 0],
         edge' = {}, batch' = << >>, left' = {}
  PROVE  IInv'
<1>1. Types'
  <2>1. step' \in 0 .. Looping
    BY BootLength
  <2>2. /\ backlog' \in [Tcp -> Seq(Conn)] /\ batch' \in Seq(Handle)
        /\ state' \in [Conn -> {"none", "queued", "open", "closed", "dropped"}]
    OBVIOUS
  <2>3. given' \in [Conn -> Nat] /\ unread' \in [Conn -> Nat] /\ published' \in [Conn -> Nat] /\ queued' \in [Udp -> Nat]
    OBVIOUS
  <2>4. fin' \in [Conn -> BOOLEAN] /\ enabled' \in BOOLEAN
    OBVIOUS
  <2> QED
    BY <2>1, <2>2, <2>3, <2>4 DEF Types
<1>2. Queues' /\ Once' /\ Quiet' /\ Account'
  BY DEF Queues, Once, Quiet, Account
<1>3. Cover'
  BY PendingNext DEF Cover
<1>4. Batched' /\ ClosedWhole'
  BY DEF Batched, ToSet, ClosedWhole
<1> QED
  BY <1>1, <1>2, <1>3, <1>4 DEF IInv

(* The batch without its head. *)
LEMMA AfterHead ==
  ASSUME Types, Once, Batched, batch # << >>, batch' = Tail(batch)
  PROVE  /\ batch' \in Seq(Handle) /\ Once'
         /\ Head(batch) \in Handle /\ Pending(Head(batch))
         /\ \A s \in ToSet(batch) : s = Head(batch) \/ s \in ToSet(batch')
         /\ \A s \in ToSet(batch') : s \in Handle /\ s # Head(batch) /\ Pending(s)
<1>1. batch \in Seq(Handle) /\ DOMAIN batch = 1 .. Len(batch) /\ Len(batch) \in Nat /\ Len(batch) # 0
  BY DEF Types
<1>2. /\ Tail(batch) \in Seq(Handle) /\ Len(Tail(batch)) = Len(batch) - 1 /\ Head(batch) = batch[1]
      /\ \A k \in 1 .. Len(Tail(batch)) : Tail(batch)[k] = batch[k + 1]
      /\ DOMAIN Tail(batch) = 1 .. Len(Tail(batch))
  BY <1>1, HeadTailProperties
<1>3. /\ \A k \in 1 .. Len(Tail(batch)) : k + 1 \in 1 .. Len(batch) /\ k + 1 # 1
      /\ \A k \in 1 .. Len(batch) : k = 1 \/ (k - 1 \in 1 .. Len(Tail(batch)) /\ (k - 1) + 1 = k)
      /\ 1 \in 1 .. Len(batch)
  BY <1>1, <1>2
<1>4. \A k \in 1 .. Len(batch) : batch[k] \in Handle /\ Pending(batch[k])
  BY <1>1 DEF Batched, ToSet
<1>5. Once'
  <2> SUFFICES ASSUME NEW k \in 1 .. Len(Tail(batch)), NEW j \in 1 .. Len(Tail(batch)),
                      Tail(batch)[k] = Tail(batch)[j]
               PROVE  k = j
    BY DEF Once
  <2>1. k + 1 = j + 1
    BY <1>2, <1>3 DEF Once
  <2> QED
    BY <2>1
<1>6. \A s \in ToSet(batch) : s = Head(batch) \/ s \in ToSet(Tail(batch))
  <2> SUFFICES ASSUME NEW s \in ToSet(batch), s # Head(batch)
               PROVE  s \in ToSet(Tail(batch))
    OBVIOUS
  <2>1. PICK k \in 1 .. Len(batch) : s = batch[k]
    BY <1>1 DEF ToSet
  <2>2. k - 1 \in 1 .. Len(Tail(batch)) /\ (k - 1) + 1 = k
    BY <1>2, <1>3, <2>1
  <2>3. Tail(batch)[k - 1] = s
    BY <1>2, <2>1, <2>2
  <2> QED
    BY <1>2, <2>2, <2>3 DEF ToSet
<1>7. \A s \in ToSet(Tail(batch)) : s \in Handle /\ s # Head(batch) /\ Pending(s)
  <2> SUFFICES ASSUME NEW k \in 1 .. Len(Tail(batch))
               PROVE  Tail(batch)[k] \in Handle /\ Tail(batch)[k] # batch[1] /\ Pending(Tail(batch)[k])
    BY <1>2 DEF ToSet
  <2>1. Tail(batch)[k] = batch[k + 1] /\ k + 1 \in 1 .. Len(batch) /\ k + 1 # 1
    BY <1>2, <1>3
  <2>2. batch[k + 1] # batch[1]
    BY <1>3, <2>1 DEF Once
  <2> QED
    BY <1>4, <2>1, <2>2
<1> QED
  BY <1>2, <1>3, <1>4, <1>5, <1>6, <1>7

LEMMA InitInv == Init => IInv
<1> SUFFICES ASSUME Init PROVE IInv
  OBVIOUS
<1>1. Types
  <2>1. step \in 0 .. Looping
    BY BootLength DEF Init
  <2>2. /\ backlog \in [Tcp -> Seq(Conn)] /\ batch \in Seq(Handle)
        /\ state \in [Conn -> {"none", "queued", "open", "closed", "dropped"}]
    BY DEF Init
  <2>3. given \in [Conn -> Nat] /\ unread \in [Conn -> Nat] /\ published \in [Conn -> Nat] /\ queued \in [Udp -> Nat]
    BY DEF Init
  <2>4. fin \in [Conn -> BOOLEAN] /\ enabled \in BOOLEAN
    BY DEF Init
  <2> QED
    BY <2>1, <2>2, <2>3, <2>4 DEF Types, Init
<1>2. Queues /\ Once /\ Quiet /\ Account
  BY DEF Init, Queues, Once, Quiet, Account
<1>3. Cover
  BY PendingIs DEF Cover, Init
<1>4. Batched /\ ClosedWhole
  BY DEF Init, Batched, ToSet, ClosedWhole
<1> QED
  BY <1>1, <1>2, <1>3, <1>4 DEF IInv

(* Start-up: a step opens a listener, or turns the publisher on before     *)
(* there can be a connection.                                              *)
LEMMA BootInv ==
  ASSUME IInv, step \in 1 .. Len(Boot), step' = step + 1,
         listening \subseteq listening', listening' \subseteq Tcp \cup Udp,
         step \in 1 .. 3 => listening' = listening,
         enabled' \in BOOLEAN, enabled => enabled', enabled' => enabled \/ step = 2,
         UNCHANGED <<watched, connVars, queued, edge, batch, left>>
  PROVE  IInv'
<1>1. UNCHANGED <<watched, backlog, state, given, unread, fin, published, queued, edge, batch, left>>
  BY DEF connVars
<1>2. step \in 1 .. 9 /\ step' \in 2 .. 10 /\ step' \in 0 .. Looping /\ (step' <= 4 => step <= 4 /\ step \in 1 .. 3)
  BY BootLength
<1>3. Types'
  BY <1>1, <1>2 DEF IInv, Types
<1>4. Queues' /\ Once' /\ Quiet'
  <2>1. Queues'
    BY <1>1 DEF IInv, Queues
  <2>2. Once'
    BY <1>1 DEF IInv, Once
  <2>3. step' <= 4 => listening' = {} /\ \A c \in Conn : state[c] = "none"
    BY <1>2 DEF IInv, Quiet
  <2>4. Quiet'
    BY <1>1, <2>3 DEF IInv, Quiet
  <2> QED
    BY <2>1, <2>2, <2>4
<1>5. enabled' /\ ~enabled => \A c \in Conn : given[c] = 0 /\ unread[c] = 0 /\ published[c] = 0 /\ state[c] = "none"
  <2> SUFFICES ASSUME enabled', ~enabled, NEW c \in Conn
               PROVE  given[c] = 0 /\ unread[c] = 0 /\ published[c] = 0 /\ state[c] = "none"
    BY Zenon
  <2>1. step = 2
    BY Zenon
  <2>2. step <= 4
    BY <2>1
  <2>3. state[c] = "none"
    BY <2>2 DEF IInv, Quiet
  <2> QED
    BY <2>3 DEF IInv, Quiet
<1>6. Account'
  BY <1>1, <1>5 DEF IInv, Account
<1>7. \A s \in Handle : Pending(s) => Pending(s)'
  BY <1>1, PendingIs, PendingNext DEF Handle
<1>8. Cover'
  <2>1. \A s \in Tcp \cup Conn : Pending(s)' => Pending(s)
    BY <1>1, PendingIs, PendingNext DEF IInv, Queues
  <2> QED
    BY <1>1, <2>1 DEF IInv, Cover
<1>9. Batched'
  <2>1. \A s \in ToSet(batch) : s \in Handle
    BY DEF IInv, Types, ToSet
  <2> QED
    BY <1>1, <1>7, <2>1 DEF IInv, Batched
<1>10. ClosedWhole'
  BY <1>1, <1>5 DEF IInv, ClosedWhole
<1> QED
  BY <1>3, <1>4, <1>6, <1>8, <1>9, <1>10 DEF IInv

(* What is ready when it is registered is reported. *)
LEMMA WatchInv ==
  ASSUME IInv, WatchStep
  PROVE  IInv'
<1>1. /\ UNCHANGED <<listening, enabled, backlog, state, given, unread, fin, published, queued, batch, left>>
      /\ step' = step + 1 /\ step \in Len(Boot) + 1 .. Looping - 1
  BY DEF WatchStep, connVars, udpVars
<1>2. step \in 10 .. 13 /\ step' \in 0 .. Looping /\ ~(step' <= 4)
  BY <1>1, BootLength
<1> DEFINE s == Watch[step - Len(Boot)]
<1>3. s \in Tcp \cup Udp
  <2>1. step - Len(Boot) \in 1 .. 4
    BY <1>2, BootLength
  <2> QED
    BY <2>1 DEF Watch, Tcp, Udp
<1>4. \/ watched' = watched \cup {s} /\ edge' = edge \cup {x \in {s} : Pending(x)}
      \/ watched' = watched /\ edge' = edge
  BY DEF WatchStep
<1> HIDE DEF s
<1>5. Types'
  BY <1>1, <1>2, <1>3, <1>4 DEF IInv, Types, Handle
<1>6. Queues' /\ Once' /\ Quiet' /\ Account' /\ ClosedWhole'
  BY <1>1, <1>2 DEF IInv, Queues, Once, Quiet, Account, ClosedWhole
<1>7. \A x \in Handle : Pending(x)' <=> Pending(x)
  BY <1>1, PendingIs, PendingNext DEF Handle
<1>8. Cover'
  <2> SUFFICES ASSUME NEW x \in (Tcp \cap watched') \cup Conn, Pending(x)'
               PROVE  x \in edge' \cup left \cup ToSet(batch)
    BY <1>1 DEF Cover
  <2>1. Pending(x)
    BY <1>7 DEF Handle
  <2>2. CASE x \in (Tcp \cap watched) \cup Conn
    BY <1>4, <2>1, <2>2 DEF IInv, Cover
  <2>3. CASE x \notin (Tcp \cap watched) \cup Conn
    BY <1>4, <2>1, <2>3
  <2> QED
    BY <2>2, <2>3
<1>9. Batched'
  <2>1. \A x \in ToSet(batch) : x \in Handle
    BY DEF IInv, Types, ToSet
  <2> QED
    BY <1>1, <1>7, <2>1 DEF IInv, Batched
<1> QED
  BY <1>5, <1>6, <1>8, <1>9 DEF IInv

LEMMA ConnectInv ==
  ASSUME IInv, NEW c \in Conn, NEW l \in Tcp, Connect(c, l)
  PROVE  IInv'
<1>1. /\ state[c] = "none" /\ l \in listening
      /\ state' = [state EXCEPT ![c] = "queued"]
      /\ backlog' = [backlog EXCEPT ![l] = Append(backlog[l], c)]
      /\ edge' = edge \cup ({l} \cap watched)
      /\ UNCHANGED <<step, listening, watched, enabled, given, unread, fin, published, queued, batch, left>>
  <2>1. \E d \in Conn : state[d] = "none"
    BY DEF Connect
  <2>2. state[NextConn] = "none"
    BY <2>1 DEF NextConn
  <2> QED
    BY <2>2 DEF Connect, bootVars, udpVars
<1>2. /\ backlog[l] \in Seq(Conn) /\ Len(backlog[l]) \in Nat
      /\ Append(backlog[l], c) \in Seq(Conn) /\ Append(backlog[l], c) # << >>
      /\ Len(Append(backlog[l], c)) = Len(backlog[l]) + 1
      /\ \A k \in 1 .. Len(backlog[l]) : Append(backlog[l], c)[k] = backlog[l][k]
      /\ Append(backlog[l], c)[Len(backlog[l]) + 1] = c
  <2>1. backlog[l] \in Seq(Conn)
    BY DEF IInv, Types
  <2> QED
    BY <2>1, AppendProperties, LenProperties
<1>3. Types'
  <2>1. backlog' \in [Tcp -> Seq(Conn)] /\ state' \in [Conn -> {"none", "queued", "open", "closed", "dropped"}]
    BY <1>1, <1>2 DEF IInv, Types
  <2>2. edge' \subseteq Handle
    BY <1>1 DEF IInv, Types, Handle
  <2> QED
    BY <1>1, <2>1, <2>2 DEF IInv, Types
<1>4. /\ state'[c] = "queued" /\ \A d \in Conn : d # c => state'[d] = state[d]
      /\ backlog'[l] = Append(backlog[l], c) /\ \A m \in Tcp : m # l => backlog'[m] = backlog[m]
  BY <1>1 DEF IInv, Types
(* The places of the backlogs: the old ones, and the new one. *)
<1>5. \A m \in Tcp : \A k \in 1 .. Len(backlog'[m]) :
        \/ k \in 1 .. Len(backlog[m]) /\ backlog'[m][k] = backlog[m][k] /\ backlog[m][k] # c
        \/ m = l /\ k = Len(backlog[l]) + 1 /\ backlog'[m][k] = c
  <2> SUFFICES ASSUME NEW m \in Tcp, NEW k \in 1 .. Len(backlog'[m])
               PROVE  \/ k \in 1 .. Len(backlog[m]) /\ backlog'[m][k] = backlog[m][k] /\ backlog[m][k] # c
                      \/ m = l /\ k = Len(backlog[l]) + 1 /\ backlog'[m][k] = c
    OBVIOUS
  <2>1. \A j \in 1 .. Len(backlog[m]) : backlog[m][j] # c
    BY <1>1 DEF IInv, Queues
  <2>2. CASE m # l
    BY <1>4, <2>1, <2>2
  <2>3. CASE m = l
    <3>1. k \in 1 .. Len(backlog[l]) \/ k = Len(backlog[l]) + 1
      BY <1>2, <1>4, <2>3
    <3> QED
      BY <1>2, <1>4, <2>1, <2>3, <3>1
  <2> QED
    BY <2>2, <2>3
<1>6. Queues'
  <2>1. \A m \in Tcp : backlog'[m] # << >> => m \in listening
    BY <1>1, <1>4 DEF IInv, Queues
  <2>2. ASSUME NEW m \in Tcp, NEW k \in 1 .. Len(backlog'[m]) PROVE state'[backlog'[m][k]] = "queued"
    <3>1. \A j \in 1 .. Len(backlog[m]) : backlog[m][j] \in Conn /\ state[backlog[m][j]] = "queued"
      <4>1. backlog[m] \in Seq(Conn)
        BY DEF IInv, Types
      <4>2. \A j \in 1 .. Len(backlog[m]) : backlog[m][j] \in Conn
        BY <4>1
      <4>3. \A j \in 1 .. Len(backlog[m]) : state[backlog[m][j]] = "queued"
        BY DEF IInv, Queues
      <4> QED
        BY <4>2, <4>3
    <3> QED
      BY <1>4, <1>5, <3>1
  <2>3. ASSUME NEW m \in Tcp, NEW n \in Tcp, NEW k \in 1 .. Len(backlog'[m]), NEW j \in 1 .. Len(backlog'[n]),
               backlog'[m][k] = backlog'[n][j]
        PROVE  m = n /\ k = j
    <3>1. CASE k \in 1 .. Len(backlog[m]) /\ backlog'[m][k] = backlog[m][k] /\ backlog[m][k] # c
      <4>1. j \in 1 .. Len(backlog[n]) /\ backlog'[n][j] = backlog[n][j]
        BY <1>5, <2>3, <3>1
      <4>2. backlog[m][k] = backlog[n][j] /\ k \in 1 .. Len(backlog[m]) /\ j \in 1 .. Len(backlog[n])
        BY <2>3, <3>1, <4>1
      <4> QED
        BY <4>2 DEF IInv, Queues
    <3>2. CASE m = l /\ k = Len(backlog[l]) + 1 /\ backlog'[m][k] = c
      <4>1. n = l /\ j = Len(backlog[l]) + 1
        BY <1>5, <2>3, <3>2
      <4> QED
        BY <3>2, <4>1
    <3> QED
      BY <1>5, <3>1, <3>2
  <2> QED
    BY <1>1, <2>1, <2>2, <2>3 DEF Queues
<1>7. Once'
  BY <1>1 DEF IInv, Once
<1>8. Quiet'
  BY <1>1, <1>4 DEF IInv, Quiet
<1>9. Account' /\ ClosedWhole'
  BY <1>1, <1>4 DEF IInv, Account, ClosedWhole
<1>10. \A x \in Handle : Pending(x) => Pending(x)'
  <2>1. \A m \in Tcp : Pending(m) => Pending(m)'
    BY <1>1, <1>2, <1>4, PendingIs, PendingNext
  <2>2. \A u \in Udp : Pending(u) => Pending(u)'
    BY <1>1, PendingIs, PendingNext
  <2>3. \A d \in Conn : Pending(d) => Pending(d)'
    BY <1>1, <1>4, PendingIs, PendingNext
  <2> QED
    BY <2>1, <2>2, <2>3 DEF Handle
<1>11. Batched'
  <2>1. \A x \in ToSet(batch) : x \in Handle
    BY DEF IInv, Types, ToSet
  <2> QED
    BY <1>1, <1>10, <2>1 DEF IInv, Batched
<1>12. Cover'
  <2>1. \A m \in Tcp : m # l /\ Pending(m)' => Pending(m)
    BY <1>1, <1>4, PendingIs, PendingNext
  <2>2. \A d \in Conn : Pending(d)' => Pending(d)
    BY <1>1, <1>4, PendingIs, PendingNext
  <2>3. l \in watched => l \in edge'
    BY <1>1
  <2> QED
    BY <1>1, <2>1, <2>2, <2>3 DEF IInv, Cover
<1> QED
  BY <1>3, <1>6, <1>7, <1>8, <1>9, <1>11, <1>12 DEF IInv

(* A peer sends on a connection, or closes it. *)
LEMMA ArrivalInv ==
  ASSUME IInv, NEW c \in Conn, Send(c) \/ Close(c)
  PROVE  IInv'
<1>1. /\ state[c] \in {"queued", "open"} /\ ~fin[c]
      /\ edge' = edge \cup {x \in {c} : state[x] = "open"}
      /\ UNCHANGED <<step, listening, watched, enabled, backlog, state, published, queued, batch, left>>
      /\ \/ /\ given' = [given EXCEPT ![c] = @ + 1] /\ unread' = [unread EXCEPT ![c] = @ + 1] /\ fin' = fin
         \/ fin' = [fin EXCEPT ![c] = TRUE] /\ UNCHANGED <<given, unread>>
  BY DEF Send, Close, Arrival, bootVars, udpVars
<1>2. /\ given[c] \in Nat /\ unread[c] \in Nat /\ published[c] \in Nat
      /\ given' \in [Conn -> Nat] /\ unread' \in [Conn -> Nat] /\ fin' \in [Conn -> BOOLEAN]
  <2>1. /\ given \in [Conn -> Nat] /\ unread \in [Conn -> Nat] /\ published \in [Conn -> Nat]
        /\ fin \in [Conn -> BOOLEAN]
    BY DEF IInv, Types
  <2>2. given[c] + 1 \in Nat /\ unread[c] + 1 \in Nat
    BY <2>1
  <2>3. CASE /\ given' = [given EXCEPT ![c] = @ + 1] /\ unread' = [unread EXCEPT ![c] = @ + 1] /\ fin' = fin
    BY <2>1, <2>2, <2>3
  <2>4. CASE fin' = [fin EXCEPT ![c] = TRUE] /\ UNCHANGED <<given, unread>>
    BY <2>1, <2>4
  <2> QED
    BY <1>1, <2>1, <2>3, <2>4
<1>3. \A d \in Conn : d # c => given'[d] = given[d] /\ unread'[d] = unread[d] /\ (fin'[d] = fin[d])
  BY <1>1 DEF IInv, Types
<1>4. \/ given'[c] = given[c] + 1 /\ unread'[c] = unread[c] + 1 /\ (fin'[c] = fin[c])
      \/ given'[c] = given[c] /\ unread'[c] = unread[c] /\ (fin'[c] = TRUE)
  BY <1>1 DEF IInv, Types
<1>5. Types'
  <2>1. edge' \subseteq Handle
    BY <1>1 DEF IInv, Types, Handle
  <2> QED
    BY <1>1, <1>2, <2>1 DEF IInv, Types
<1>6. Queues' /\ Once'
  BY <1>1 DEF IInv, Queues, Once
<1>7. Quiet'
  BY <1>1, <1>3 DEF IInv, Quiet
<1>8. Account'
  <2> SUFFICES ASSUME enabled, NEW d \in Conn PROVE published[d] + unread'[d] = given'[d]
    BY <1>1 DEF Account
  <2>1. published[d] + unread[d] = given[d]
    BY DEF IInv, Account
  <2>2. CASE d = c
    BY <1>2, <1>4, <2>1, <2>2
  <2>3. CASE d # c
    BY <1>3, <2>1, <2>3
  <2> QED
    BY <2>2, <2>3
<1>9. ClosedWhole'
  BY <1>1, <1>3 DEF IInv, ClosedWhole
<1>10. \A x \in Handle : x # c => (Pending(x)' <=> Pending(x))
  BY <1>1, <1>3, PendingIs, PendingNext DEF Handle
<1>11. Pending(c) => Pending(c)'
  BY <1>1, <1>2, <1>4, PendingIs, PendingNext
<1>12. Batched'
  <2>1. \A x \in ToSet(batch) : x \in Handle
    BY DEF IInv, Types, ToSet
  <2> QED
    BY <1>1, <1>10, <1>11, <2>1 DEF IInv, Batched
<1>13. Cover'
  <2>1. Pending(c)' => c \in edge'
    BY <1>1, PendingNext
  <2> QED
    BY <1>1, <1>10, <2>1 DEF IInv, Cover, Handle
<1> QED
  BY <1>5, <1>6, <1>7, <1>8, <1>9, <1>12, <1>13 DEF IInv

LEMMA DatagramInv ==
  ASSUME IInv, NEW u \in Udp, Datagram(u)
  PROVE  IInv'
<1>1. /\ queued' = [queued EXCEPT ![u] = @ + 1]
      /\ UNCHANGED <<step, listening, watched, enabled, backlog, state, given, unread, fin, published, edge, batch, left>>
  BY DEF Datagram, bootVars, connVars
<1>2. queued' \in [Udp -> Nat] /\ \A v \in Udp : queued'[v] >= queued[v]
  BY <1>1 DEF IInv, Types
<1>3. Types'
  BY <1>1, <1>2 DEF IInv, Types
<1>4. Queues' /\ Once' /\ Quiet' /\ Account' /\ ClosedWhole'
  BY <1>1 DEF IInv, Queues, Once, Quiet, Account, ClosedWhole
<1>5. (\A x \in Tcp \cup Conn : Pending(x)' <=> Pending(x)) /\ \A x \in Udp : Pending(x) => Pending(x)'
  <2>1. \A x \in Udp : Pending(x) => Pending(x)'
    <3> SUFFICES ASSUME NEW x \in Udp, x \in listening, queued[x] > 0 PROVE queued'[x] > 0
      BY <1>1, PendingIs, PendingNext
    <3> QED
      BY <1>2 DEF IInv, Types
  <2> QED
    BY <1>1, <2>1, PendingIs, PendingNext
<1>6. Cover'
  BY <1>1, <1>5 DEF IInv, Cover
<1>7. Batched'
  <2>1. \A x \in ToSet(batch) : x \in Handle
    BY DEF IInv, Types, ToSet
  <2> QED
    BY <1>1, <1>5, <2>1 DEF IInv, Batched, Handle
<1> QED
  BY <1>3, <1>4, <1>6, <1>7 DEF IInv

(* epoll_wait: what is taken from the ready descriptors goes to the batch, *)
(* each once, and the others stay to be reported.                          *)
LEMMA SequenceOfSet ==
  ASSUME NEW S, IsFiniteSet(S), NEW f \in SetToSeqs(S)
  PROVE  /\ f \in Seq(S) /\ ToSet(f) = S
         /\ \A k, j \in 1 .. Len(f) : f[k] = f[j] => k = j
<1> DEFINE D == 1 .. Cardinality(S)
<1>1. Cardinality(S) \in Nat
  BY FS_CardinalityType
<1>2. f \in [D -> S] /\ \A k, j \in D : k # j => f[k] # f[j]
  BY DEF SetToSeqs
<1>3. f \in Seq(S) /\ Len(f) = Cardinality(S) /\ DOMAIN f = D
  BY <1>1, <1>2
<1>4. IsFiniteSet(D) /\ Cardinality(D) = Cardinality(S)
  BY <1>1, FS_Interval
<1>5. f \in Injection(D, S)
  BY <1>2 DEF Injection, IsInjective
<1>6. f \in Surjection(D, S)
  BY <1>4, <1>5, FS_Injection
<1>7. \A x \in S : \E k \in D : f[k] = x
  BY <1>6 DEF Surjection
<1>8. ToSet(f) = S
  BY <1>2, <1>3, <1>7 DEF ToSet
<1> QED
  BY <1>2, <1>3, <1>8

LEMMA EpollInv ==
  ASSUME IInv, EpollWait
  PROVE  IInv'
<1>1. /\ step = Looping /\ batch = << >>
      /\ UNCHANGED <<step, listening, watched, enabled, backlog, state, given, unread, fin, published, queued, left>>
  BY DEF EpollWait, bootVars, connVars, udpVars
<1>2. PICK S \in SUBSET Ready : batch' \in SetToSeqs(S) /\ edge' = Ready \ (S \cup Udp)
  BY DEF EpollWait
<1>3. edge \subseteq Handle /\ Ready \subseteq Handle /\ (\A x \in Ready : Pending(x))
  BY DEF IInv, Types, Ready, Handle
<1>4. IsFiniteSet(S)
  <2>1. IsFiniteSet(Tcp) /\ IsFiniteSet(Udp)
    <3>1. /\ Tcp = {"tcp192"} \cup {"tcp10"} /\ IsFiniteSet({"tcp192"}) /\ IsFiniteSet({"tcp10"})
          /\ Udp = {"udp192"} \cup {"udp10"} /\ IsFiniteSet({"udp192"}) /\ IsFiniteSet({"udp10"})
      BY FS_Singleton DEF Tcp, Udp
    <3> QED
      BY <3>1, FS_Union
  <2>2. IsFiniteSet(Handle)
    BY <2>1, ConnAssumption, FS_Union DEF Handle
  <2>3. S \subseteq Handle
    BY <1>3
  <2> QED
    BY <2>2, <2>3, FS_Subset
<1>5. /\ batch' \in Seq(S) /\ ToSet(batch') = S
      /\ \A k, j \in 1 .. Len(batch') : batch'[k] = batch'[j] => k = j
  BY <1>2, <1>4, SequenceOfSet
<1>6. Types'
  <2>1. batch' \in Seq(Handle)
    BY <1>3, <1>5
  <2>2. edge' \subseteq Handle
    BY <1>2, <1>3
  <2> QED
    BY <1>1, <2>1, <2>2 DEF IInv, Types
<1>7. Queues' /\ Quiet' /\ Account' /\ ClosedWhole'
  BY <1>1 DEF IInv, Queues, Quiet, Account, ClosedWhole
<1>8. Once'
  BY <1>5 DEF Once
<1>9. \A x \in Handle : Pending(x)' <=> Pending(x)
  BY <1>1, PendingIs, PendingNext DEF Handle
<1>10. Batched'
  BY <1>3, <1>5, <1>9 DEF Batched
<1>11. Cover'
  <2> SUFFICES ASSUME NEW x \in (Tcp \cap watched) \cup Conn, Pending(x)'
               PROVE  x \in edge' \cup left \cup ToSet(batch')
    BY <1>1 DEF Cover
  <2>1. Pending(x) /\ x \notin Udp
    BY <1>9, Kinds DEF Handle
  <2>2. x \in edge \cup left
    BY <1>1, <2>1 DEF IInv, Cover, ToSet
  <2>3. CASE x \in edge
    BY <1>2, <1>5, <2>1, <2>3 DEF Ready
  <2> QED
    BY <2>2, <2>3
<1> QED
  BY <1>6, <1>7, <1>8, <1>10, <1>11 DEF IInv

(* A handler has run: what it leaves pending is noted, the rest of the     *)
(* batch is as it was.                                                     *)
LEMMA HandleAcceptInv ==
  ASSUME IInv, HandleAccept
  PROVE  IInv'
<1> PICK l : l = Head(batch)
  OBVIOUS
<1> PICK c : c = Head(backlog[l])
  OBVIOUS
<1>1. /\ batch # << >> /\ l \in Tcp /\ batch' = Tail(batch)
      /\ UNCHANGED <<step, listening, watched, enabled, given, unread, fin, published, queued>>
      /\ \/ /\ left' = IF backlog[l] # << >> THEN left \cup {l} ELSE left \ {l}
            /\ backlog' = backlog /\ state' = state /\ edge' = edge
         \/ /\ backlog[l] # << >>
            /\ backlog' = [backlog EXCEPT ![l] = Tail(backlog[l])]
            /\ left' = IF Tail(backlog[l]) # << >> THEN left \cup {l} ELSE left \ {l}
            /\ \/ state' = [state EXCEPT ![c] = "open"] /\ edge' = edge \cup {x \in {c} : unread[x] > 0 \/ fin[x]}
               \/ state' = [state EXCEPT ![c] = "dropped"] /\ edge' = edge
  BY DEF HandleAccept, Handled, Leaves, bootVars, udpVars
<1>2. /\ batch' \in Seq(Handle) /\ Once' /\ Pending(l)
      /\ \A s \in ToSet(batch) : s = l \/ s \in ToSet(batch')
      /\ \A s \in ToSet(batch') : s \in Handle /\ s # l /\ Pending(s)
  BY <1>1, AfterHead DEF IInv
<1>3. l \in listening /\ backlog[l] # << >> /\ backlog[l] \in Seq(Conn)
  BY <1>1, <1>2, PendingIs DEF IInv, Types
<1>4. CASE backlog' = backlog /\ state' = state /\ edge' = edge /\ left' = left \cup {l}
  <2>1. Types'
    BY <1>1, <1>2, <1>4 DEF IInv, Types, Handle
  <2>2. Queues' /\ Quiet' /\ Account' /\ ClosedWhole'
    BY <1>1, <1>4 DEF IInv, Queues, Quiet, Account, ClosedWhole
  <2>3. \A x \in Handle : Pending(x)' <=> Pending(x)
    BY <1>1, <1>4, PendingIs, PendingNext DEF Handle
  <2>4. Batched'
    BY <1>2, <2>3 DEF Batched
  <2>5. Cover'
    BY <1>1, <1>2, <1>4, <2>3 DEF IInv, Cover, Handle
  <2> QED
    BY <1>2, <2>1, <2>2, <2>4, <2>5 DEF IInv
<1>5. CASE /\ backlog' = [backlog EXCEPT ![l] = Tail(backlog[l])]
           /\ left' = IF Tail(backlog[l]) # << >> THEN left \cup {l} ELSE left \ {l}
           /\ \/ state' = [state EXCEPT ![c] = "open"] /\ edge' = edge \cup {x \in {c} : unread[x] > 0 \/ fin[x]}
              \/ state' = [state EXCEPT ![c] = "dropped"] /\ edge' = edge
  <2>1. /\ c \in Conn /\ c = backlog[l][1] /\ 1 \in 1 .. Len(backlog[l])
        /\ Tail(backlog[l]) \in Seq(Conn) /\ Len(Tail(backlog[l])) \in Nat
        /\ \A k \in 1 .. Len(Tail(backlog[l])) :
             /\ k \in Nat /\ k + 1 \in 1 .. Len(backlog[l]) /\ k + 1 # 1
             /\ Tail(backlog[l])[k] = backlog[l][k + 1]
    BY <1>3
  <2>2. state[c] = "queued"
    BY <1>1, <2>1 DEF IInv, Queues
  <2>3. /\ backlog' \in [Tcp -> Seq(Conn)] /\ state' \in [Conn -> {"none", "queued", "open", "closed", "dropped"}]
        /\ edge' \subseteq Handle /\ left' \subseteq Handle
    <3>1. backlog \in [Tcp -> Seq(Conn)] /\ state \in [Conn -> {"none", "queued", "open", "closed", "dropped"}]
      BY DEF IInv, Types
    <3>2. edge \subseteq Handle /\ left \subseteq Handle /\ l \in Handle /\ c \in Handle
      BY <1>1, <2>1 DEF IInv, Types, Handle
    <3> QED
      BY <1>5, <2>1, <3>1, <3>2
  <2>4. Types'
    BY <1>1, <1>2, <2>3 DEF IInv, Types
  <2>5. /\ state'[c] \in {"open", "dropped"} /\ \A d \in Conn : d # c => state'[d] = state[d]
        /\ backlog'[l] = Tail(backlog[l]) /\ \A m \in Tcp : m # l => backlog'[m] = backlog[m]
    BY <1>1, <1>5, <2>1 DEF IInv, Types
  (* Where the places of the backlogs were. *)
  <2>6. ASSUME NEW m \in Tcp, NEW k \in 1 .. Len(backlog'[m])
        PROVE  \E i \in 1 .. Len(backlog[m]) :
                 backlog'[m][k] = backlog[m][i] /\ backlog[m][i] # c /\ (i = IF m = l THEN k + 1 ELSE k)
    <3>1. CASE m = l
      <4>1. k \in 1 .. Len(Tail(backlog[l]))
        BY <2>5, <3>1
      <4>2. /\ k + 1 \in 1 .. Len(backlog[l]) /\ k + 1 # 1
            /\ backlog'[m][k] = backlog[l][k + 1]
        BY <2>1, <2>5, <3>1, <4>1
      <4>3. backlog[l][k + 1] # c
        BY <1>1, <2>1, <4>2 DEF IInv, Queues
      <4> QED
        BY <3>1, <4>2, <4>3
    <3>2. CASE m # l
      <4>1. k \in 1 .. Len(backlog[m]) /\ backlog'[m][k] = backlog[m][k]
        BY <2>5, <3>2
      <4>2. backlog[m][k] # c
        BY <1>1, <2>1, <3>2, <4>1 DEF IInv, Queues
      <4> QED
        BY <3>2, <4>1, <4>2
    <3> QED
      BY <3>1, <3>2
  <2>7. Queues'
    <3>1. \A m \in Tcp : backlog'[m] # << >> => m \in listening
      BY <1>3, <2>5 DEF IInv, Queues
    <3>2. ASSUME NEW m \in Tcp, NEW k \in 1 .. Len(backlog'[m]) PROVE state'[backlog'[m][k]] = "queued"
      <4>1. PICK i \in 1 .. Len(backlog[m]) : backlog'[m][k] = backlog[m][i] /\ backlog[m][i] # c
        BY <2>6
      <4>2. backlog[m][i] \in Conn /\ state[backlog[m][i]] = "queued"
        <5>1. backlog[m] \in Seq(Conn)
          BY DEF IInv, Types
        <5>2. backlog[m][i] \in Conn
          BY <5>1
        <5> QED
          BY <5>2 DEF IInv, Queues
      <4> QED
        BY <2>5, <4>1, <4>2
    <3>3. ASSUME NEW m \in Tcp, NEW n \in Tcp, NEW k \in 1 .. Len(backlog'[m]), NEW j \in 1 .. Len(backlog'[n]),
                 backlog'[m][k] = backlog'[n][j]
          PROVE  m = n /\ k = j
      <4>1. PICK i \in 1 .. Len(backlog[m]) : backlog'[m][k] = backlog[m][i] /\ i = IF m = l THEN k + 1 ELSE k
        BY <2>6
      <4>2. PICK h \in 1 .. Len(backlog[n]) : backlog'[n][j] = backlog[n][h] /\ h = IF n = l THEN j + 1 ELSE j
        BY <2>6
      <4>3. backlog[m][i] = backlog[n][h]
        BY <3>3, <4>1, <4>2
      <4>4. m = n /\ i = h
        <5>1. \A p, q \in Tcp : \A r \in 1 .. Len(backlog[p]), t \in 1 .. Len(backlog[q]) :
                backlog[p][r] = backlog[q][t] => p = q /\ r = t
          BY DEF IInv, Queues
        <5> QED
          BY <4>1, <4>2, <4>3, <5>1
      <4> QED
        BY <4>1, <4>2, <4>4
    <3> QED
      BY <1>1, <3>1, <3>2, <3>3 DEF Queues
  <2>8. Quiet'
    BY <1>1, <1>3, <2>5 DEF IInv, Quiet
  <2>9. Account' /\ ClosedWhole'
    BY <1>1, <2>5 DEF IInv, Account, ClosedWhole
  <2>10. \A x \in Handle : x # l /\ x # c => (Pending(x)' <=> Pending(x))
    BY <1>1, <2>5, PendingIs, PendingNext DEF Handle
  <2>11. ~Pending(c) /\ (Pending(c)' => c \in edge')
    <3>1. ~Pending(c)
      BY <2>1, <2>2, PendingIs
    <3>2. ASSUME Pending(c)' PROVE c \in edge'
      <4>1. state'[c] = "open" /\ (unread[c] > 0 \/ fin[c])
        BY <1>1, <2>1, <3>2, PendingNext
      <4> QED
        BY <1>5, <2>1, <2>3, <4>1 DEF IInv, Types
    <3> QED
      BY <3>1, <3>2
  <2>12. Batched'
    BY <1>2, <2>10, <2>11 DEF Batched
  <2>13. Cover'
    <3> SUFFICES ASSUME NEW x \in (Tcp \cap watched) \cup Conn, Pending(x)'
                 PROVE  x \in edge' \cup left' \cup ToSet(batch')
      BY <1>1 DEF Cover
    <3>1. CASE x = l
      <4>1. Tail(backlog[l]) # << >>
        BY <1>1, <2>5, <3>1, PendingNext
      <4> QED
        BY <1>5, <3>1, <4>1
    <3>2. CASE x = c
      BY <2>11, <3>2
    <3>3. CASE x # l /\ x # c
      <4>1. Pending(x)
        BY <2>10, <3>3 DEF Handle
      <4>2. x \in edge \cup left \cup ToSet(batch)
        BY <4>1 DEF IInv, Cover
      <4> QED
        BY <1>2, <1>5, <3>3, <4>2
    <3> QED
      BY <3>1, <3>2, <3>3
  <2> QED
    BY <1>2, <2>4, <2>7, <2>8, <2>9, <2>12, <2>13 DEF IInv
<1> QED
  BY <1>1, <1>3, <1>4, <1>5

LEMMA HandleDataInv ==
  ASSUME IInv, HandleData
  PROVE  IInv'
<1> PICK c : c = Head(batch)
  OBVIOUS
<1> PICK n : n = Taken(c)
  OBVIOUS
<1>1. /\ batch # << >> /\ c \in Conn /\ batch' = Tail(batch)
      /\ UNCHANGED <<step, listening, watched, enabled, backlog, given, fin, queued>>
      /\ unread' = [unread EXCEPT ![c] = @ - n]
      /\ published' = [published EXCEPT ![c] = @ + IF enabled THEN n ELSE 0]
      /\ IF unread[c] = 0
         THEN state' = [state EXCEPT ![c] = "closed"] /\ edge' = edge \ {c} /\ left' = left \ {c}
         ELSE /\ left' = IF unread[c] > n \/ fin[c] THEN left \cup {c} ELSE left \ {c}
              /\ state' = state /\ edge' = edge
  BY DEF HandleData, Handled, Leaves, EndsAfter, bootVars, udpVars
<1>2. /\ batch' \in Seq(Handle) /\ Once' /\ Pending(c)
      /\ \A s \in ToSet(batch) : s = c \/ s \in ToSet(batch')
      /\ \A s \in ToSet(batch') : s \in Handle /\ s # c /\ Pending(s)
  BY <1>1, AfterHead DEF IInv
<1>3. state[c] = "open" /\ (unread[c] > 0 \/ fin[c])
  BY <1>1, <1>2, PendingIs
<1>4. /\ unread[c] \in Nat /\ published[c] \in Nat /\ given[c] \in Nat
      /\ n \in Nat /\ n <= unread[c] /\ unread[c] - n \in Nat /\ published[c] + n \in Nat
  <2>1. unread[c] \in Nat /\ published[c] \in Nat /\ given[c] \in Nat
    BY <1>1 DEF IInv, Types
  <2>2. n \in Nat /\ n <= unread[c]
    BY <2>1, BufAssumption DEF Taken
  <2> QED
    BY <2>1, <2>2
<1>5. /\ unread' \in [Conn -> Nat] /\ published' \in [Conn -> Nat]
      /\ unread'[c] = unread[c] - n
      /\ (enabled => published'[c] = published[c] + n)
      /\ \A d \in Conn : d # c => unread'[d] = unread[d] /\ published'[d] = published[d]
  <2>1. unread \in [Conn -> Nat] /\ published \in [Conn -> Nat]
    BY DEF IInv, Types
  <2>2. unread' = [unread EXCEPT ![c] = unread[c] - n]
    BY <1>1
  <2>3. PICK more : more = IF enabled THEN n ELSE 0
    OBVIOUS
  <2>4. published' = [published EXCEPT ![c] = published[c] + more]
    BY <1>1, <2>3
  <2>5. more \in Nat /\ published[c] + more \in Nat
    BY <1>4, <2>3
  <2>6. enabled => more = n
    BY <2>3
  <2> QED
    BY <1>1, <1>4, <2>1, <2>2, <2>4, <2>5, <2>6
<1>6. /\ \A d \in Conn : d # c => state'[d] = state[d]
      /\ \/ unread[c] = 0 /\ state'[c] = "closed"
         \/ unread[c] # 0 /\ state'[c] = "open"
      /\ state' \in [Conn -> {"none", "queued", "open", "closed", "dropped"}]
  BY <1>1, <1>3 DEF IInv, Types
<1>7. Types'
  <2>1. edge' \subseteq Handle /\ left' \subseteq Handle
    BY <1>1 DEF IInv, Types, Handle
  <2> QED
    BY <1>1, <1>2, <1>5, <1>6, <2>1 DEF IInv, Types
<1>8. Queues'
  <2>1. ASSUME NEW m \in Tcp, NEW k \in 1 .. Len(backlog[m]) PROVE state'[backlog[m][k]] = "queued"
    <3>1. backlog[m] \in Seq(Conn)
      BY DEF IInv, Types
    <3>2. backlog[m][k] \in Conn
      BY <3>1
    <3>3. state[backlog[m][k]] = "queued"
      BY DEF IInv, Queues
    <3> QED
      BY <1>3, <1>6, <3>2, <3>3
  <2> QED
    BY <1>1, <2>1 DEF IInv, Queues
<1>9. Quiet'
  <2>1. ~(step <= 4)
    BY <1>1, <1>3 DEF IInv, Quiet
  <2>2. \A d \in Conn : state'[d] = "none" => d # c /\ state[d] = "none"
    BY <1>6
  <2> QED
    BY <1>1, <1>5, <2>1, <2>2 DEF IInv, Quiet
<1>10. Account'
  <2> SUFFICES ASSUME enabled, NEW d \in Conn PROVE published'[d] + unread'[d] = given[d]
    BY <1>1 DEF Account
  <2>1. published[d] + unread[d] = given[d]
    BY DEF IInv, Account
  <2>2. CASE d = c
    BY <1>4, <1>5, <2>1, <2>2
  <2>3. CASE d # c
    BY <1>5, <2>1, <2>3
  <2> QED
    BY <2>2, <2>3
<1>11. ClosedWhole'
  <2> SUFFICES ASSUME NEW d \in Conn, state'[d] = "closed"
               PROVE  fin[d] /\ unread'[d] = 0 /\ (enabled => published'[d] = given[d])
    BY <1>1 DEF ClosedWhole
  <2>1. CASE d = c
    <3>1. unread[c] = 0 /\ fin[c]
      BY <1>3, <1>6, <2>1
    <3>2. unread'[c] = 0
      BY <1>4, <1>5, <3>1
    <3>3. enabled => published'[c] = given[c]
      BY <1>1, <1>5, <1>10, <3>2 DEF Account
    <3> QED
      BY <2>1, <3>1, <3>2, <3>3
  <2>2. CASE d # c
    BY <1>5, <1>6, <2>2 DEF IInv, ClosedWhole
  <2> QED
    BY <2>1, <2>2
<1>12. \A x \in Handle : x # c => (Pending(x)' <=> Pending(x))
  BY <1>1, <1>5, <1>6, PendingIs, PendingNext DEF Handle
<1>13. Batched'
  BY <1>2, <1>12 DEF Batched
<1>14. Cover'
  <2> SUFFICES ASSUME NEW x \in (Tcp \cap watched) \cup Conn, Pending(x)'
               PROVE  x \in edge' \cup left' \cup ToSet(batch')
    BY <1>1 DEF Cover
  <2>1. CASE x = c
    <3>1. state'[c] = "open" /\ (unread'[c] > 0 \/ fin[c])
      BY <1>1, <2>1, PendingNext
    <3>2. unread[c] # 0 /\ (unread[c] > n \/ fin[c])
      BY <1>4, <1>5, <1>6, <3>1
    <3> QED
      BY <1>1, <2>1, <3>2
  <2>2. CASE x # c
    <3>1. Pending(x)
      BY <1>12, <2>2 DEF Handle
    <3>2. x \in edge \cup left \cup ToSet(batch)
      BY <3>1 DEF IInv, Cover
    <3> QED
      BY <1>1, <1>2, <2>2, <3>2
  <2> QED
    BY <2>1, <2>2
<1> QED
  BY <1>2, <1>7, <1>8, <1>9, <1>10, <1>11, <1>13, <1>14 DEF IInv

LEMMA HandleUdpInv ==
  ASSUME IInv, HandleUdp
  PROVE  IInv'
<1> PICK u : u = Head(batch)
  OBVIOUS
<1>1. /\ batch # << >> /\ u \in Udp /\ batch' = Tail(batch) /\ queued[u] > 0
      /\ queued' = [queued EXCEPT ![u] = @ - 1]
      /\ UNCHANGED <<step, listening, watched, enabled, backlog, state, given, unread, fin, published, edge, left>>
  BY DEF HandleUdp, Handled, bootVars, connVars
<1>2. /\ batch' \in Seq(Handle) /\ Once'
      /\ \A s \in ToSet(batch) : s = u \/ s \in ToSet(batch')
      /\ \A s \in ToSet(batch') : s \in Handle /\ s # u /\ Pending(s)
  BY <1>1, AfterHead DEF IInv
<1>3. queued' \in [Udp -> Nat] /\ \A v \in Udp : v # u => queued'[v] = queued[v]
  BY <1>1 DEF IInv, Types
<1>4. Types'
  BY <1>1, <1>2, <1>3 DEF IInv, Types
<1>5. Queues' /\ Quiet' /\ Account' /\ ClosedWhole'
  BY <1>1 DEF IInv, Queues, Quiet, Account, ClosedWhole
<1>6. \A x \in Handle : x # u => (Pending(x)' <=> Pending(x))
  BY <1>1, <1>3, PendingIs, PendingNext DEF Handle
<1>7. Batched'
  BY <1>2, <1>6 DEF Batched
<1>8. Cover'
  <2>1. \A x \in Tcp \cup Conn : x # u /\ x \in Handle
    BY <1>1, Kinds DEF Handle
  <2> QED
    BY <1>1, <1>2, <1>6, <2>1 DEF IInv, Cover
<1> QED
  BY <1>2, <1>4, <1>5, <1>7, <1>8 DEF IInv

LEMMA ExitInv == Exit => IInv'
<1> SUFFICES ASSUME Exit PROVE IInv'
  OBVIOUS
<1>1. step' \in 0 .. 4
  BY DEF Exit
<1> QED
  BY <1>1, NothingThere DEF Exit

LEMMA StartInv ==
  ASSUME IInv, BootStep \/ BootFail
  PROVE  IInv'
<1>1. step \in 1 .. 3 => Boot[step] \notin Tcp \cup Udp
  BY DEF Boot, Tcp, Udp
<1>2. listening \subseteq Tcp \cup Udp /\ enabled \in BOOLEAN
  BY DEF IInv, Types
<1>3. CASE BootStep
  <2>1. /\ step \in 1 .. Len(Boot) /\ step' = step + 1
        /\ listening' = listening \cup ({Boot[step]} \cap (Tcp \cup Udp))
        /\ UNCHANGED <<watched, connVars, queued, edge, batch, left>>
    BY <1>3 DEF BootStep, udpVars
  <2>2. enabled' = (enabled \/ Boot[step] = "publisher")
    BY <1>3 DEF BootStep
  <2>3. Boot[step] = "publisher" => step = 2
    <3>1. step \in 1 .. 9
      BY <2>1, BootLength
    <3> QED
      BY <3>1 DEF Boot
  <2>4. enabled' \in BOOLEAN /\ (enabled => enabled') /\ (enabled' => enabled \/ step = 2)
    BY <2>2, <2>3, Zenon
  <2>5. /\ listening \subseteq listening' /\ listening' \subseteq Tcp \cup Udp
        /\ step \in 1 .. 3 => listening' = listening
    BY <1>1, <1>2, <2>1
  <2> QED
    BY <2>1, <2>4, <2>5, BootInv
<1>4. CASE BootFail
  <2>1. CASE Exit
    BY <2>1, ExitInv
  <2>2. CASE /\ step \in 1 .. Len(Boot) /\ step' = step + 1
             /\ UNCHANGED <<listening, watched, enabled, connVars, udpVars, edge, batch, left>>
    <3>1. listening' = listening /\ enabled' = enabled
      BY <2>2
    <3>2. enabled' \in BOOLEAN /\ (enabled => enabled') /\ (enabled' => enabled \/ step = 2)
      BY <1>2, <3>1, Zenon
    <3>3. UNCHANGED <<watched, connVars, queued, edge, batch, left>>
      BY <2>2 DEF udpVars
    <3> QED
      BY <1>2, <2>2, <3>1, <3>2, <3>3, BootInv
  <2> QED
    BY <1>4, <2>1, <2>2 DEF BootFail
<1> QED
  BY <1>3, <1>4

LEMMA NextInv == IInv /\ [Next]_vars => IInv'
<1> SUFFICES ASSUME IInv, [Next]_vars PROVE IInv'
  OBVIOUS
<1>1. CASE BootStep \/ BootFail
  BY <1>1, StartInv
<1>2. CASE WatchStep
  BY <1>2, WatchInv
<1>3. CASE EpollWait
  BY <1>3, EpollInv
<1>4. CASE HandleAccept
  BY <1>4, HandleAcceptInv
<1>5. CASE HandleData
  BY <1>5, HandleDataInv
<1>6. CASE HandleUdp
  BY <1>6, HandleUdpInv
<1>7. CASE Signal
  BY <1>7, ExitInv DEF Signal
<1>8. CASE Peers
  BY <1>8, ConnectInv, ArrivalInv, DatagramInv DEF Peers
<1>9. CASE UNCHANGED vars
  <2>1. UNCHANGED <<step, listening, watched, enabled, backlog, state, given, unread, fin, published,
                    queued, edge, batch, left>>
    BY <1>9 DEF vars, bootVars, connVars, udpVars
  <2>2. Types' /\ Queues' /\ Once' /\ Quiet' /\ Account' /\ ClosedWhole'
    BY <2>1 DEF IInv, Types, Queues, Once, Quiet, Account, ClosedWhole
  <2>3. \A x \in Handle : Pending(x)' <=> Pending(x)
    BY <2>1, PendingIs, PendingNext DEF Handle
  <2>4. Cover'
    BY <2>1, <2>3 DEF IInv, Cover, Handle
  <2>5. \A x \in ToSet(batch) : x \in Handle
    BY DEF IInv, Types, ToSet
  <2>6. Batched'
    BY <2>1, <2>3, <2>5 DEF IInv, Batched
  <2> QED
    BY <2>2, <2>4, <2>6 DEF IInv
<1> QED
  BY <1>1, <1>2, <1>3, <1>4, <1>5, <1>6, <1>7, <1>8, <1>9 DEF Next, Main

LEMMA IInvImplies == IInv => EventsSound
<1> SUFFICES ASSUME IInv PROVE EventsSound
  OBVIOUS
<1>1. EdgesCover
  BY DEF IInv, Cover, EdgesCover
<1>2. BatchCurrent
  BY DEF IInv, Types, Batched, BatchCurrent, ToSet
<1> QED
  BY <1>1, <1>2 DEF IInv, EventsSound

(* No event is lost and none is stale: what is pending on a descriptor that *)
(* epoll watches edge-triggered is still to be reported, is in the batch,   *)
(* or was left by the one accept or recv its handler makes; a handler finds *)
(* what its event announced; and a connection is closed only after its      *)
(* peer has closed it and all it sent was read and published.  For any      *)
(* number of connections, descriptors, events per wait and sizes.           *)
THEOREM EventsAreSound == Spec => []EventsSound
<1>1. Init => IInv
  BY InitInv
<1>2. IInv /\ [Next]_vars => IInv'
  BY NextInv
<1>3. IInv => EventsSound
  BY IInvImplies
<1> QED
  BY <1>1, <1>2, <1>3, PTL DEF Spec
=============================================================================
