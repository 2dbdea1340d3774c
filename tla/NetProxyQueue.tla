--------------------------- MODULE NetProxyQueue ---------------------------
(***************************************************************************)
(* The send path of the network proxy (722device/network/tls_net_proxy.c): *)
(* the VSOA RPC callback pushes a message into one of eight ring buffers,  *)
(* and one transmit thread takes the highest, checks once more for a       *)
(* higher priority, and sends it or puts it back.                          *)
(*                                                                         *)
(* Grain: one action per critical section of a ring's mutex.  Scans over   *)
(* the rings are loops of such sections, so pushes fall in between.  All   *)
(* callbacks run on the one thread of the RPC server.  A message stands    *)
(* for a queue node; its payload is a pointer into memory of the VSOA      *)
(* library that is valid until the callback returns, i.e. while cur is the *)
(* message.  Whether sendto or send succeed changes nothing here.  Nothing *)
(* in the program sets stop_listening_, so the thread has no way out.      *)
(***************************************************************************)
EXTENDS Integers, Sequences, FiniteSets

CONSTANTS
  Msg,      \* the RPC messages, each received once (bounds the run)
  NoMsg,    \* no message
  MaxPri,   \* MAX_PRIORITY_LEVELS - 1
  Size      \* NET_PROXY_QUEUE_SIZE

Pri  == 0 .. MaxPri
Slot == 0 .. Size - 1

ASSUME MsgAssumption  == NoMsg \notin Msg
ASSUME PriAssumption  == MaxPri \in Nat
ASSUME SizeAssumption == Size \in Nat \ {0}

VARIABLES
  slot, head, tail, count,   \* the ring of each priority
  rpc, cur, curpri,          \* RPC thread: where it is, its message, and its priority
  tpc, i, node, npri,        \* transmit thread: where, loop index, local node
  accepted,                  \* history: messages and priorities in the order pushed
  sent,                      \* history: messages in the order sent
  requeued, dropped,         \* history: put back, and lost in putting back
  late                       \* history: pushed after node was taken

rings   == <<slot, head, tail, count>>
rpcVars == <<rpc, cur, curpri>>
thrVars == <<tpc, i, node, npri>>
history == <<accepted, sent, requeued, dropped, late>>
vars    == <<rings, rpcVars, thrVars, history>>

Init ==
  /\ slot = [p \in Pri |-> [k \in Slot |-> NoMsg]]
  /\ head = [p \in Pri |-> 0] /\ tail = [p \in Pri |-> 0] /\ count = [p \in Pri |-> 0]
  /\ rpc = "idle" /\ cur = NoMsg /\ curpri = 0
  /\ tpc = "scan" /\ i = MaxPri /\ node = NoMsg /\ npri = 0
  /\ accepted = << >> /\ sent = << >> /\ requeued = {} /\ dropped = {} /\ late = {}

-----------------------------------------------------------------------------
(* The ring buffer.                                                        *)

(* The next index (slip: no wrap).                                         *)
NoWrap(k) == k + 1
Succ(k)   == (k + 1) % Size

(* Room for one more (slip: <= for <).                                     *)
HasRoomOffByOne(p) == count[p] <= Size
HasRoom(p)         == count[p] < Size

(* The message a pop returns (slip: the newest).                           *)
Newest(p) == slot[p][(tail[p] + Size - 1) % Size]
Oldest(p) == slot[p][head[p]]

PutTail(p, m) == /\ slot' = [slot EXCEPT ![p][tail[p]] = m]
                 /\ tail' = [tail EXCEPT ![p] = Succ(@)]
                 /\ count' = [count EXCEPT ![p] = @ + 1]
                 /\ UNCHANGED head

DropHead(p) == /\ head' = [head EXCEPT ![p] = Succ(@)]
               /\ count' = [count EXCEPT ![p] = @ - 1]
               /\ UNCHANGED <<slot, tail>>

-----------------------------------------------------------------------------
(* The RPC callback: the parsed URL names a priority, 0..255, that the     *)
(* push clamps to 0 when no ring has it.  The messages are interchangeable:  *)
(* the next is any that the proxy has not accepted.                        *)
Clamp(p) == IF p > MaxPri THEN 0 ELSE p

NewMsgs == Msg \ {accepted[k][1] : k \in 1 .. Len(accepted)}

RpcReceive(p) ==
  /\ rpc = "idle"
  /\ NewMsgs # {}
  /\ cur' = (CHOOSE m \in NewMsgs : TRUE) /\ curpri' = Clamp(p)
  /\ rpc' = "push"
  /\ UNCHANGED <<rings, thrVars, history>>

(* tls_net_proxy_push_to_prio_queue; the callback ignores a full ring.     *)
RpcPush ==
  /\ rpc = "push"
  /\ IF HasRoom(curpri)
     THEN /\ PutTail(curpri, cur)
          /\ accepted' = Append(accepted, <<cur, curpri>>)
          /\ late' = late \cup {cur}
     ELSE UNCHANGED <<rings, accepted, late>>
  /\ rpc' = "return"
  /\ UNCHANGED <<cur, curpri, thrVars, sent, requeued, dropped>>

(* The callback returns, and the library takes its payload back.           *)
RpcReturn ==
  /\ rpc = "return"
  /\ rpc' = "idle" /\ cur' = NoMsg /\ curpri' = 0
  /\ UNCHANGED <<rings, thrVars, history>>

-----------------------------------------------------------------------------
(* The transmit thread.                                                    *)

(* Where a new scan starts (slip: the priority it last had in hand).       *)
SameLevel == npri
TopLevel  == MaxPri

(* Where the preemption check starts (slip: one ring too low).             *)
BelowTop == MaxPri - 1
Top      == MaxPri

(* Whether the check goes on at ring i (slip: its own ring counts, too).   *)
AtOrAbove == i >= npri
Above     == i > npri

(* for (i = MAX_PRIORITY_LEVELS - 1; i >= 0; i--): take the oldest message *)
(* of ring i, or go on.                                                    *)
ScanTake ==
  /\ tpc = "scan" /\ i >= 0
  /\ count[i] > 0
  /\ node' = Oldest(i) /\ npri' = i
  /\ DropHead(i)
  /\ late' = {}
  /\ tpc' = "check" /\ i' = Top
  /\ UNCHANGED <<rpcVars, accepted, sent, requeued, dropped>>

ScanDown ==
  /\ tpc = "scan" /\ i >= 0
  /\ count[i] = 0
  /\ i' = i - 1
  /\ UNCHANGED <<rings, rpcVars, tpc, node, npri, history>>

(* Every ring was empty: usleep(1000), and again.                          *)
Sleep ==
  /\ tpc = "scan" /\ i < 0
  /\ i' = TopLevel
  /\ UNCHANGED <<rings, rpcVars, tpc, node, npri, history>>

(* check_higher_priority_waiting, one ring at a time.                      *)
CheckRing ==
  /\ tpc = "check" /\ Above
  /\ IF count[i] > 0
     THEN tpc' = "requeue" /\ UNCHANGED i
     ELSE i' = i - 1 /\ UNCHANGED tpc
  /\ UNCHANGED <<rings, rpcVars, node, npri, history>>

CheckDone ==
  /\ tpc = "check" /\ ~Above
  /\ tpc' = "send"
  /\ UNCHANGED <<rings, rpcVars, i, node, npri, history>>

(* Put the node back at the tail of its ring; a full ring loses it.        *)
Requeue ==
  /\ tpc = "requeue"
  /\ IF HasRoom(npri)
     THEN /\ PutTail(npri, node)
          /\ requeued' = requeued \cup {node}
          /\ UNCHANGED dropped
     ELSE /\ dropped' = dropped \cup {node}
          /\ UNCHANGED <<rings, requeued>>
  /\ node' = NoMsg
  /\ tpc' = "scan" /\ i' = TopLevel
  /\ UNCHANGED <<rpcVars, npri, accepted, sent, late>>

(* tls_net_proxy_send_tcp or _udp: copies the payload behind node.data.    *)
SendNode ==
  /\ tpc = "send"
  /\ sent' = Append(sent, node)
  /\ node' = NoMsg
  /\ tpc' = "scan" /\ i' = TopLevel
  /\ UNCHANGED <<rings, rpcVars, npri, accepted, requeued, dropped, late>>

-----------------------------------------------------------------------------
Rpc == \/ \E p \in 0 .. MaxPri + 1 : RpcReceive(p)
       \/ RpcPush \/ RpcReturn

Thread == \/ ScanTake \/ ScanDown \/ Sleep
          \/ CheckRing \/ CheckDone \/ Requeue \/ SendNode

Next == Rpc \/ Thread

Spec == Init /\ [][Next]_vars

(* The transmit thread never blocks for good: its loop, the short critical *)
(* sections and the bounded connect keep it running.                       *)
FairSpec == Spec /\ WF_vars(Thread)

-----------------------------------------------------------------------------
(* The ring of priority p, oldest first. *)
Ring(p) == [k \in 1 .. count[p] |-> slot[p][(head[p] + k - 1) % Size]]

(* The types of the variables. *)
TypeOK ==
  /\ slot \in [Pri -> [Slot -> Msg \cup {NoMsg}]]
  /\ head \in [Pri -> Slot] /\ tail \in [Pri -> Slot] /\ count \in [Pri -> 0 .. Size]
  /\ rpc \in {"idle", "push", "return"} /\ cur \in Msg \cup {NoMsg} /\ curpri \in Pri
  /\ tpc \in {"scan", "check", "requeue", "send"}
  /\ i \in -1 .. MaxPri /\ node \in Msg \cup {NoMsg} /\ npri \in Pri
  /\ accepted \in Seq(Msg \X Pri) /\ sent \in Seq(Msg)
  /\ requeued \in SUBSET Msg /\ dropped \in SUBSET Msg /\ late \in SUBSET Msg

-----------------------------------------------------------------------------
WasAccepted(m) == \E k \in 1 .. Len(accepted) : accepted[k][1] = m
WasSent(m)     == \E k \in 1 .. Len(sent) : sent[k] = m

(* Where message m is: in a ring, in the thread's hand, sent, or dropped.  *)
Places(m) ==
  (UNION {{<<"ring", p, k>> : k \in {j \in 1 .. count[p] : Ring(p)[j] = m}} : p \in Pri})
  \cup {<<"sent", 0, k>> : k \in {j \in 1 .. Len(sent) : sent[j] = m}}
  \cup (IF node = m THEN {<<"hand", 0, 0>>} ELSE {})
  \cup (IF m \in dropped THEN {<<"dropped", 0, 0>>} ELSE {})

(* An accepted message is in exactly one place, whatever the indices of    *)
(* the rings went through: none is sent twice, overwritten or forgotten.   *)
Conserved ==
  TypeOK /\ \A m \in Msg : Cardinality(Places(m)) = IF WasAccepted(m) THEN 1 ELSE 0

(* Within a priority messages are sent in the order they were pushed,      *)
(* unless the older one was put back for a higher priority; the highest    *)
(* priority is never put back and keeps its order throughout.              *)
OrderKept ==
  \A a, b \in 1 .. Len(accepted), k \in 1 .. Len(sent) :
    LET older == accepted[a][1]  newer == accepted[b][1]  p == accepted[a][2] IN
    (a < b /\ p = accepted[b][2] /\ sent[k] = newer)
      => \/ \E j \in 1 .. k - 1 : sent[j] = older
         \/ older \in requeued \cup dropped /\ p < MaxPri

(* No stale preemption check: when the thread is about to send, a message  *)
(* of higher priority may only wait if it was pushed after the thread took *)
(* the one in hand, although scan and check lock one ring at a time.       *)
SendCurrent ==
  tpc = "send" =>
    \A p \in npri + 1 .. MaxPri : \A k \in 1 .. count[p] : Ring(p)[k] \in late

(* vsoa_server.h: url and payload "are invalid when this function          *)
(* returns": a payload is sent only while the callback that got it runs.   *)
SendsLivePayload == [][SendNode => cur = node]_vars

-----------------------------------------------------------------------------
(* The rings, the scans and the put-back implement the relay's promise.    *)
Relay == INSTANCE NetProxyRelay WITH
           waiting <- [p \in Pri |-> Ring(p)], held <- node, level <- npri

ImplementsRelay == Relay!FairSpec

(* With finite traffic every accepted message leaves the proxy: being put  *)
(* back never becomes a livelock.                                          *)
AcceptedSettles == \A m \in Msg : WasAccepted(m) ~> (WasSent(m) \/ m \in dropped)
=============================================================================
