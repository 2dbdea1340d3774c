----------------------------- MODULE MsgQueue -----------------------------
(***************************************************************************)
(* The message queue of net_proxy_v2 (common/common.c) with its users in   *)
(* proxy_server.c: the RPC callback, which may run on several threads and  *)
(* blocks while the queue is full; the worker, which waits a second at a   *)
(* time for a message and forwards it; and the signal handler, which       *)
(* destroys the queue and exits.                                           *)
(*                                                                         *)
(* Grain: one action per critical section of queue->lock; waiting on a     *)
(* condition ends one.  pthread_cond_wait may return without a signal.     *)
(* pthread_cond_destroy with waiters is undefined in POSIX; in glibc, for  *)
(* which the program is built, it waits for them.  The signal is taken by  *)
(* main.  Of a message only the memory of its payload is kept.             *)
(***************************************************************************)
EXTENDS Integers, Sequences, FiniteSets

CONSTANTS
  Producer,     \* the threads that call vsoa_rpc_data_callback
  Worker,       \* the threads that run queue_worker_thread: there is one
  Capacity,     \* MSG_QUEUE_SIZE
  MaxCalls,     \* bound: how many RPCs arrive on each thread
  MaxNoMem,     \* bound: how many allocations fail
  NoMsg

ASSUME CapacityAssumption == Capacity \in Nat \ {0}
ASSUME BoundAssumption    == MaxCalls \in Nat /\ MaxNoMem \in Nat
ASSUME FiniteAssumption   == IsFiniteSet(Producer) /\ IsFiniteSet(Worker)

Message == Producer \X (1 .. MaxCalls)
ASSUME NoMsgAssumption == NoMsg \notin Message

VARIABLES
  list,         \* the nodes from front to rear
  count,        \* queue->count
  shutdown,     \* queue->shutdown
  ppc, calls,   \* the callbacks, and how many each has begun
  wpc, wmsg,    \* the worker, and the message it has popped
  spc,          \* main: running, or in the signal handler
  noMem,        \* failed allocations so far
  freed,        \* how often each message's payload has been freed
  sent,         \* history: the messages forwarded
  taken, lost   \* history: messages popped; popped and not returned

queueVars == <<list, count, shutdown>>
prodVars  == <<ppc, calls>>
workVars  == <<wpc, wmsg>>
memVars   == <<noMem, freed, lost>>
vars      == <<queueVars, prodVars, workVars, spc, memVars, sent, taken>>

(* msg_queue_init, and the threads.                                        *)
Init ==
  /\ list = << >> /\ count = 0 /\ shutdown = FALSE
  /\ ppc = [p \in Producer |-> "idle"] /\ calls = [p \in Producer |-> 0]
  /\ wpc = [w \in Worker |-> "pop"] /\ wmsg = [w \in Worker |-> NoMsg]
  /\ spc = "up" /\ noMem = 0
  /\ freed = [m \in Message |-> 0] /\ sent = {}
  /\ taken = << >> /\ lost = {}

Up == spc # "exited"
Current(p) == <<p, calls[p]>>
Free(m) == freed' = [freed EXCEPT ![m] = @ + 1]

(* pthread_cond_signal: one of the waiters, if any, is released.  Slip:    *)
(* nobody is told.                                                         *)
Signal(pc, pc2, T) ==
  IF \E t \in T : pc[t] = "wait"
  THEN \E t \in T : pc[t] = "wait" /\ pc2 = [pc EXCEPT ![t] = "woken"]
  ELSE pc2 = pc
SignalFullNever == UNCHANGED ppc
SignalFull      == Signal(ppc, ppc', Producer)

-----------------------------------------------------------------------------
(* vsoa_rpc_data_callback and msg_queue_push.                              *)

Receive(p) ==
  /\ Up /\ ppc[p] = "idle" /\ calls[p] < MaxCalls
  /\ calls' = [calls EXCEPT ![p] = @ + 1]
  /\ ppc' = [ppc EXCEPT ![p] = "push"]
  /\ UNCHANGED <<queueVars, workVars, spc, memVars, sent, taken>>

(* No room, looked at again after every wait (slip: only before the first).*)
FullOnce(p) == ppc[p] = "push" /\ count >= Capacity
Full(p)     == count >= Capacity

PushWait(p) ==
  /\ Up /\ ppc[p] \in {"push", "woken"} /\ ~shutdown /\ Full(p)
  /\ ppc' = [ppc EXCEPT ![p] = "wait"]
  /\ UNCHANGED <<queueVars, calls, workVars, spc, memVars, sent, taken>>

(* The node goes to the rear (slip: to the front).                         *)
AddedInFront(p) == <<Current(p)>> \o list
Added(p)        == Append(list, Current(p))

(* It is counted (slip: it is not).                                        *)
Uncounted == count
Counted   == count + 1

PushInsert(p) ==
  /\ Up /\ ppc[p] \in {"push", "woken"} /\ ~shutdown /\ ~Full(p)
  /\ list' = Added(p) /\ count' = Counted
  /\ Signal(wpc, wpc', Worker)
  /\ ppc' = [ppc EXCEPT ![p] = "idle"]
  /\ UNCHANGED <<shutdown, calls, wmsg, spc, memVars, sent, taken>>

(* Shut down, or no memory for the node: return -1, and the callback frees *)
(* the message.                                                            *)
PushFail(p) ==
  /\ Up /\ ppc[p] \in {"push", "woken"}
  /\ \/ shutdown /\ UNCHANGED noMem
     \/ ~shutdown /\ ~Full(p) /\ noMem < MaxNoMem /\ noMem' = noMem + 1
  /\ Free(Current(p))
  /\ ppc' = [ppc EXCEPT ![p] = "idle"]
  /\ UNCHANGED <<queueVars, calls, workVars, spc, lost, sent, taken>>

-----------------------------------------------------------------------------
(* queue_worker_thread and msg_queue_pop.                                  *)

PopWait(w) ==
  /\ Up /\ wpc[w] = "pop" /\ count = 0
  /\ wpc' = [wpc EXCEPT ![w] = "wait"]
  /\ UNCHANGED <<queueVars, prodVars, wmsg, spc, memVars, sent, taken>>

(* The second is over; the worker has yet to get the lock again.           *)
Expire(w) ==
  /\ Up /\ wpc[w] = "wait"
  /\ wpc' = [wpc EXCEPT ![w] = "expired"]
  /\ UNCHANGED <<queueVars, prodVars, wmsg, spc, memVars, sent, taken>>

(* Expired, whatever came meanwhile, or there is nothing: NULL, and the    *)
(* loop goes on.                                                           *)
PopNothing(w) ==
  /\ Up
  /\ \/ wpc[w] = "expired"
     \/ wpc[w] = "woken" /\ list = << >>
     \/ wpc[w] = "pop" /\ count > 0 /\ list = << >>
     \/ wpc[w] = "pop" /\ shutdown
  /\ wpc' = [wpc EXCEPT ![w] = "pop"]
  /\ UNCHANGED <<queueVars, prodVars, wmsg, spc, memVars, sent, taken>>

PopTake(w) ==
  /\ Up
  /\ (wpc[w] = "woken" \/ (wpc[w] = "pop" /\ count > 0))
  /\ list # << >>
  /\ list' = Tail(list) /\ count' = count - 1
  /\ taken' = Append(taken, Head(list))
  /\ SignalFull
  /\ \/ /\ wpc' = [wpc EXCEPT ![w] = "send"] /\ wmsg' = [wmsg EXCEPT ![w] = Head(list)]
        /\ UNCHANGED <<noMem, lost>>
     \/ /\ noMem < MaxNoMem /\ noMem' = noMem + 1
        /\ lost' = lost \cup {Head(list)}
        /\ wpc' = [wpc EXCEPT ![w] = "pop"] /\ UNCHANGED wmsg
  /\ UNCHANGED <<shutdown, calls, spc, freed, sent>>

(* The copy is sent and freed.  Whether over TCP or UDP is not kept: every *)
(* message of the callback is MSG_TYPE_TEXT, which takes the UDP branch.   *)
Forward(w) ==
  /\ Up /\ wpc[w] = "send"
  /\ sent' = sent \cup {wmsg[w]}
  /\ Free(wmsg[w])
  /\ wmsg' = [wmsg EXCEPT ![w] = NoMsg]
  /\ wpc' = [wpc EXCEPT ![w] = "pop"]
  /\ UNCHANGED <<queueVars, prodVars, spc, noMem, lost, taken>>

(* A wait may end without a signal.                                        *)
Spurious ==
  /\ Up
  /\ \/ \E p \in Producer : ppc[p] = "wait" /\ ppc' = [ppc EXCEPT ![p] = "woken"] /\ UNCHANGED wpc
     \/ \E w \in Worker : wpc[w] = "wait" /\ wpc' = [wpc EXCEPT ![w] = "woken"] /\ UNCHANGED ppc
  /\ UNCHANGED <<queueVars, calls, wmsg, spc, memVars, sent, taken>>

-----------------------------------------------------------------------------
(* signal_handler: proxy_cleanup, msg_queue_destroy, exit.                 *)

InList == {list[i] : i \in 1 .. Len(list)}

(* Under the lock: the nodes and their payloads are freed (slip: the node  *)
(* the worker holds is still linked).                                      *)
FreedWithHeld == InList \cup {wmsg[w] : w \in Worker}
FreedNodes    == InList

DestroyList ==
  /\ spc = "up"
  /\ shutdown' = TRUE /\ list' = << >>
  /\ freed' = [m \in Message |-> IF m \in FreedNodes THEN freed[m] + 1 ELSE freed[m]]
  /\ spc' = "notempty"
  /\ UNCHANGED <<count, prodVars, workVars, noMem, lost, sent, taken>>

(* pthread_cond_destroy of not_empty, then of not_full.                    *)
DestroyNotEmpty ==
  /\ spc = "notempty" /\ \A w \in Worker : wpc[w] # "wait"
  /\ spc' = "notfull"
  /\ UNCHANGED <<queueVars, prodVars, workVars, memVars, sent, taken>>

DestroyNotFull ==
  /\ spc = "notfull" /\ \A p \in Producer : ppc[p] # "wait"
  /\ spc' = "exited"
  /\ UNCHANGED <<queueVars, prodVars, workVars, memVars, sent, taken>>

-----------------------------------------------------------------------------
Callback(p) == Receive(p) \/ PushWait(p) \/ PushInsert(p) \/ PushFail(p)
Work(w)     == PopWait(w) \/ Expire(w) \/ PopNothing(w) \/ PopTake(w) \/ Forward(w)
Destroy     == DestroyList \/ DestroyNotEmpty \/ DestroyNotFull

Next == \/ \E p \in Producer : Callback(p)
        \/ \E w \in Worker : Work(w)
        \/ Spurious \/ Destroy

Spec == Init /\ [][Next]_vars

(* Every thread that can go on does, and the handler, once the signal has  *)
(* come, when the worker is between two waits: a wait lasts a second and   *)
(* its end wakes the destroyer.  Nothing makes an RPC or a signal come, or *)
(* a wait end by itself.                                                   *)
Fairness == /\ \A p \in Producer : WF_vars(PushWait(p) \/ PushInsert(p) \/ PushFail(p))
            /\ \A w \in Worker : WF_vars(Work(w))
            /\ SF_vars(DestroyNotEmpty) /\ WF_vars(DestroyNotFull)

FairSpec == Spec /\ Fairness

-----------------------------------------------------------------------------
(* The types of the variables; the worker has a message when it sends. *)
TypeOK ==
  /\ list \in Seq(Message) /\ count \in 0 .. Capacity /\ shutdown \in BOOLEAN
  /\ ppc \in [Producer -> {"idle", "push", "wait", "woken"}]
  /\ calls \in [Producer -> 0 .. MaxCalls]
  /\ wpc \in [Worker -> {"pop", "wait", "woken", "expired", "send"}]
  /\ \A w \in Worker : wmsg[w] \in (IF wpc[w] = "send" THEN Message ELSE {NoMsg})
  /\ spc \in {"up", "notempty", "notfull", "exited"}
  /\ noMem \in 0 .. MaxNoMem /\ lost \subseteq Message
  /\ freed \in [Message -> Nat] /\ sent \subseteq Message
  /\ taken \in Seq(Message)

(* The threads that are waiting, and those that were woken and have not    *)
(* yet got the lock.                                                       *)
Woken(pc, T)   == {t \in T : pc[t] = "woken"}
Waiting(pc, T) == {t \in T : pc[t] = "wait"}

(* One signal per message and per free place is enough, although a         *)
(* newcomer may take what a woken thread was woken for: nobody waits for   *)
(* something that is there unless as many others are on their way to it.   *)
(* Only a callback that was woken and gets no memory for its node keeps    *)
(* the wakeup to itself.                                                   *)
NoLostWakeup ==
  ~shutdown =>
    /\ Waiting(ppc, Producer) # {} =>
         Capacity - count <= Cardinality(Woken(ppc, Producer)) + noMem
    /\ Waiting(wpc, Worker) # {} => count <= Cardinality(Woken(wpc, Worker))

(* A payload is freed once: by the worker that forwarded it, by the        *)
(* callback that could not queue it, or by the destruction of the queue,   *)
(* and never while somebody still uses it.                                 *)
PayloadFreedOnce ==
  TypeOK /\ \A m \in Message :
    /\ freed[m] <= 1
    /\ freed[m] = 1 => /\ m \notin InList /\ \A w \in Worker : wmsg[w] # m
                       /\ \A p \in Producer : ppc[p] # "idle" => Current(p) # m
    /\ (freed[m] = 0 /\ m[2] <= calls[m[1]] /\ m \notin lost) =>
          \/ m \in InList
          \/ \E w \in Worker : wmsg[w] = m
          \/ \E p \in Producer : ppc[p] # "idle" /\ Current(p) = m

(* The queue implements the bounded first in, first out channel.           *)
Channel == INSTANCE MsgChannel WITH channel <- list, closed <- shutdown
ImplementsChannel == Channel!ChannelSpec

(* The messages of one callback come out in the order of its calls and     *)
(* once each, whatever the other callbacks put between them.               *)
Before(m, n) == m[1] = n[1] => m[2] < n[2]
InCallOrder ==
  /\ \A k, l \in 1 .. Len(taken) : k < l => Before(taken[k], taken[l])
  /\ \A k, l \in 1 .. Len(list) : k < l => Before(list[k], list[l])
  /\ \A k \in 1 .. Len(taken), l \in 1 .. Len(list) : Before(taken[k], list[l])

(* A message in the queue is forwarded, in its turn, unless the program    *)
(* shuts down or there is no memory to hand it over.                       *)
QueuedForwarded ==
  /\ []InCallOrder
  /\ \A m \in Message : (m \in InList) ~> (m \in sent \/ m \in lost \/ shutdown)
=============================================================================
