---------------------------- MODULE TlsTransmit ----------------------------
(***************************************************************************)
(* The transmit path of the TLS server (722device/server): the threads     *)
(* that build a datagram and call tls_transmit_push, the transmit thread   *)
(* that drains eight priority queues through one "current queue" pointer   *)
(* and a manual-reset event, the buffer pools both sides share, and the    *)
(* stop sequence.                                                          *)
(*                                                                         *)
(* Grain: one action per critical section or per read or write of a shared *)
(* field, so every interleaving the locks allow is a behaviour.  The       *)
(* contents of a datagram are abstracted to the buffer that carries it,    *)
(* and a pool to a set: which free buffer is reused is not promised.  The  *)
(* model ends when stop has drained the queues back into the pools, before *)
(* the transmit entry is freed.                                            *)
(***************************************************************************)
EXTENDS Integers, Sequences, FiniteSets

CONSTANTS
  Producer,   \* threads that publish: VSOA callbacks, file sender, main
  Buff,       \* every tls_buff_t that ever exists
  NoBuff,     \* the NULL buffer
  MaxPri,     \* TLS_QUEUE_PRI_7, the highest priority
  InitPool    \* the preallocated buffers of each priority

Pri     == 0 .. MaxPri
NoQueue == -1             \* queue_transmit_ == NULL

ASSUME BuffAssumption == NoBuff \notin Buff
ASSUME PriAssumption  == MaxPri \in Nat
ASSUME PoolAssumption ==
  /\ InitPool \in [Pri -> SUBSET Buff]
  /\ \A p, q \in Pri : p # q => InitPool[p] \cap InitPool[q] = {}

VARIABLES
  pool,       \* queue_transmit_buff_[p]: the free buffers of priority p
  heap,       \* buffers tls_buff_create has not allocated yet
  prio,       \* buff->priority_
  mode,       \* buff->transmode_, which recycling a buffer does not clear
  queue,      \* queue_transmits_[p].list_buff_: buffers waiting to be sent
  ptr,        \* queue_transmit_: the queue the thread looks at next
  ptrlock,    \* the transmit thread holds queue_transmit_lock_
  evt,        \* evt_loop_ is signalled
  pc, hand,   \* where each producer is inside a publish, and its buffer
  lvl,        \* the local variable "priority" of its tls_transmit_push
  tpc,        \* where the transmit thread is
  tbuf,       \* the buffer it has popped
  tres,       \* what tls_transmit_handle returns: "empty" or "more"
  serving,    \* server->start_
  start, run, \* transmit->start_, transmit->run_
  spc         \* where the stopping thread is

buffVars == <<pool, heap, prio, mode>>
prodVars == <<pc, hand, lvl>>
thrVars  == <<tpc, tbuf, tres>>
stopVars == <<serving, start, run, spc>>
vars     == <<buffVars, queue, ptr, ptrlock, evt, prodVars, thrVars, stopVars>>

-----------------------------------------------------------------------------
(* The server is initialised and tls_transmit_start has returned.          *)
Init ==
  /\ pool = InitPool
  /\ heap = Buff \ UNION {InitPool[p] : p \in Pri}
  /\ prio = [b \in Buff |-> IF \E p \in Pri : b \in InitPool[p]
                            THEN CHOOSE p \in Pri : b \in InitPool[p] ELSE 0]
  /\ mode = [b \in Buff |-> "udp"]
  /\ queue = [p \in Pri |-> << >>]
  /\ ptr = NoQueue /\ ptrlock = FALSE /\ evt = FALSE
  /\ pc = [c \in Producer |-> "idle"] /\ hand = [c \in Producer |-> NoBuff]
  /\ lvl = [c \in Producer |-> 0]
  /\ tpc = "loop" /\ tbuf = NoBuff /\ tres = "empty"
  /\ serving = TRUE /\ start = TRUE /\ run = TRUE /\ spc = "running"

-----------------------------------------------------------------------------
(* A producer: tls_server_register, tls_server_transmit and the            *)
(* tls_server_vsoa_publish functions, then tls_transmit_push.              *)

(* Not in a publish: none was begun yet, or the last one returned, or it   *)
(* was refused by tls_transmit_push.                                       *)
Outside == {"idle", "refused"}

(* tls_server_acquire_transmit_buff: a recycled buffer, or a new one when  *)
(* the pool is empty.  Only the publish functions write transmode_; a      *)
(* plain transmit keeps whatever the buffer carried before.                *)
AcquireTransmitBuff(c, p, publish) ==
  /\ pc[c] \in Outside /\ serving
  /\ \E b \in Buff :
       /\ \/ /\ b \in pool[p]
             /\ pool' = [pool EXCEPT ![p] = @ \ {b}]
             /\ UNCHANGED <<heap, prio>>
          \/ /\ pool[p] = {} /\ b \in heap
             /\ heap' = heap \ {b}
             /\ prio' = [prio EXCEPT ![b] = p]
             /\ UNCHANGED pool
       /\ mode' = IF publish THEN [mode EXCEPT ![b] = "vsoa"] ELSE mode
       /\ hand' = [hand EXCEPT ![c] = b]
  /\ pc' = [pc EXCEPT ![c] = "check"]
  /\ UNCHANGED <<lvl, queue, ptr, ptrlock, evt, thrVars, stopVars>>

(* tls_transmit_push tests start_ and reads the buffer's priority; on      *)
(* TLS_RESULT_E_NOTREADY no caller releases the buffer, so it belongs to   *)
(* nobody from here on.                                                    *)
PushCheckStart(c) ==
  /\ pc[c] = "check"
  /\ pc' = [pc EXCEPT ![c] = IF start THEN "insert" ELSE "refused"]
  /\ hand' = IF start THEN hand ELSE [hand EXCEPT ![c] = NoBuff]
  /\ lvl' = IF start THEN [lvl EXCEPT ![c] = prio[hand[c]]] ELSE lvl
  /\ UNCHANGED <<buffVars, queue, ptr, ptrlock, evt, thrVars, stopVars>>

(* Insert at the tail, under the lock of that one list.  From here on the  *)
(* transmit thread owns the buffer and the push only uses its priority.    *)
PushInsert(c) ==
  /\ pc[c] = "insert"
  /\ queue' = [queue EXCEPT ![lvl[c]] = Append(@, hand[c])]
  /\ hand' = [hand EXCEPT ![c] = NoBuff]
  /\ pc' = [pc EXCEPT ![c] = "update"]
  /\ UNCHANGED <<buffVars, lvl, ptr, ptrlock, evt, thrVars, stopVars>>

(* The pointer after a push at priority p: raised, never lowered.          *)
(* (OnePast, NeverRaised and LastPushed are slips of it.)                  *)
OnePast(p)     == IF ptr = NoQueue \/ p > ptr THEN p + 1 ELSE ptr
NeverRaised(p) == IF ptr = NoQueue THEN p ELSE ptr
LastPushed(p)  == p
Raised(p)      == IF ptr = NoQueue \/ p > ptr THEN p ELSE ptr

(* tls_transmit_update_transmit_queue, under queue_transmit_lock_.         *)
UpdateTransmitQueue(c) ==
  /\ pc[c] = "update" /\ ~ptrlock
  /\ ptr' = Raised(lvl[c])
  /\ pc' = [pc EXCEPT ![c] = "active"]
  /\ UNCHANGED <<buffVars, hand, lvl, queue, ptrlock, evt, thrVars, stopVars>>

(* tls_transmit_active: set the event; the push returns and its local      *)
(* variable is gone.                                                       *)
TransmitActive(c) ==
  /\ pc[c] = "active"
  /\ evt' = TRUE
  /\ pc' = [pc EXCEPT ![c] = "idle"]
  /\ lvl' = [lvl EXCEPT ![c] = 0]
  /\ UNCHANGED <<buffVars, hand, queue, ptr, ptrlock, thrVars, stopVars>>

-----------------------------------------------------------------------------
(* The transmit thread.                                                    *)

(* while (transmit->run_)                                                  *)
ThreadLoop ==
  /\ tpc = "loop"
  /\ tpc' = IF run THEN "wait" ELSE "exit"
  /\ UNCHANGED <<buffVars, queue, ptr, ptrlock, evt, prodVars, tbuf, tres, stopVars>>

(* tls_event_wait blocks until the event is set, and leaves it set.        *)
ThreadWake ==
  /\ tpc = "wait" /\ evt
  /\ tpc' = IF run THEN "poll" ELSE "exit"
  /\ UNCHANGED <<buffVars, queue, ptr, ptrlock, evt, prodVars, tbuf, tres, stopVars>>

(* The queue a cleared pointer starts at.                                  *)
FirstQueue == MaxPri

(* tls_transmit_thread_poll takes queue_transmit_lock_ for its whole run.  *)
PollLock ==
  /\ tpc = "poll" /\ ~ptrlock
  /\ ptrlock' = TRUE
  /\ ptr' = IF ptr = NoQueue THEN FirstQueue ELSE ptr
  /\ tpc' = "pop"
  /\ UNCHANGED <<buffVars, queue, evt, prodVars, tbuf, tres, stopVars>>

(* tls_transmit_handle, under the list lock: remove the head and note      *)
(* whether the list is empty now.                                          *)
HandlePop ==
  /\ tpc = "pop"
  /\ IF queue[ptr] = << >>
     THEN /\ tres' = "empty" /\ tpc' = "settle"
          /\ UNCHANGED <<queue, tbuf>>
     ELSE /\ tbuf' = Head(queue[ptr])
          /\ queue' = [queue EXCEPT ![ptr] = Tail(@)]
          /\ tres' = IF Tail(queue[ptr]) = << >> THEN "empty" ELSE "more"
          /\ tpc' = "send"
  /\ UNCHANGED <<buffVars, ptr, ptrlock, evt, prodVars, stopVars>>

(* The pool a buffer goes back to (slip: >= for >).                        *)
PoolOfOffByOne(b) == IF prio[b] >= MaxPri THEN 0 ELSE prio[b]
PoolOf(b)         == IF prio[b] > MaxPri THEN 0 ELSE prio[b]

(* Slip: the buffer is recycled before sendto has read it.                 *)
HandleSendAfterRelease ==
  /\ tpc = "send"
  /\ pool' = [pool EXCEPT ![PoolOf(tbuf)] = @ \cup {tbuf}]
  /\ tpc' = "release"
  /\ UNCHANGED <<heap, prio, mode, queue, ptr, ptrlock, evt, prodVars, tbuf, tres, stopVars>>

(* sendto for TLS_UDP, whose failure is ignored; nothing for TLS_VSOA.     *)
HandleSend ==
  /\ tpc = "send"
  /\ tpc' = "release"
  /\ UNCHANGED <<buffVars, queue, ptr, ptrlock, evt, prodVars, tbuf, tres, stopVars>>

(* tls_server_release_buff: back to the pool of the buffer's own priority. *)
HandleRelease ==
  /\ tpc = "release"
  /\ pool' = [pool EXCEPT ![PoolOf(tbuf)] = @ \cup {tbuf}]
  /\ tbuf' = NoBuff
  /\ tpc' = "settle"
  /\ UNCHANGED <<heap, prio, mode, queue, ptr, ptrlock, evt, prodVars, tres, stopVars>>

(* When the poll clears the event (slip: on every emptied queue).          *)
AnyEmpty    == tres = "empty"
LowestEmpty == tres = "empty" /\ ptr = 0

(* After an empty queue: go one priority down, or clear the event when it  *)
(* was the lowest; then unlock.                                            *)
PollSettle ==
  /\ tpc = "settle"
  /\ ptr' = IF tres = "empty" /\ ptr > 0 THEN ptr - 1 ELSE ptr
  /\ evt' = (evt /\ ~LowestEmpty)
  /\ ptrlock' = FALSE
  /\ tpc' = "loop"
  /\ UNCHANGED <<buffVars, queue, prodVars, tbuf, tres, stopVars>>

-----------------------------------------------------------------------------
(* Stopping: tls_server_stop, tls_transmit_stop, tls_transmit_release_buff. *)

(* Slip: server->start_ stays set.                                         *)
StopServerOpen ==
  /\ spc = "running"
  /\ spc' = "transmit"
  /\ UNCHANGED <<buffVars, queue, ptr, ptrlock, evt, prodVars, thrVars, serving, start, run>>

StopServer ==
  /\ spc = "running"
  /\ serving' = FALSE
  /\ spc' = "transmit"
  /\ UNCHANGED <<buffVars, queue, ptr, ptrlock, evt, prodVars, thrVars, start, run>>

(* start_ is for the producers, run_ for the thread.                       *)
StopTransmit ==
  /\ spc = "transmit"
  /\ start' = FALSE /\ run' = FALSE
  /\ spc' = "signal"
  /\ UNCHANGED <<buffVars, queue, ptr, ptrlock, evt, prodVars, thrVars, serving>>

(* Slip: the sleeping thread is not signalled.                             *)
StopSignalMissing ==
  /\ spc = "signal"
  /\ spc' = "join"
  /\ UNCHANGED <<buffVars, queue, ptr, ptrlock, evt, prodVars, thrVars, serving, start, run>>

StopSignal ==
  /\ spc = "signal"
  /\ evt' = TRUE
  /\ spc' = "join"
  /\ UNCHANGED <<buffVars, queue, ptr, ptrlock, prodVars, thrVars, serving, start, run>>

(* tls_event_timewait(evt_stop_, 2000) and tls_thread_stop.  The thread    *)
(* has left its loop; or two seconds have passed with the thread inside    *)
(* sendto, a cancellation point, and pthread_cancel kills it there with    *)
(* the pointer lock and a buffer in its hands.                             *)
StopJoin ==
  /\ spc = "join"
  /\ \/ tpc = "exit" /\ UNCHANGED tpc
     \/ tpc = "send" /\ mode[tbuf] = "udp" /\ tpc' = "dead"
  /\ ptr' = NoQueue
  /\ spc' = "drain"
  /\ UNCHANGED <<buffVars, queue, ptrlock, evt, prodVars, tbuf, tres, serving, start, run>>

(* tls_transmit_release_buff takes no lock.                                *)
StopDrain ==
  /\ spc = "drain"
  /\ pool' = [p \in Pri |-> pool[p] \cup
                {b \in Buff : prio[b] = p /\ \E q \in Pri : \E i \in 1 .. Len(queue[q]) :
                                                queue[q][i] = b}]
  /\ queue' = [p \in Pri |-> << >>]
  /\ spc' = "stopped"
  /\ UNCHANGED <<heap, prio, mode, ptr, ptrlock, evt, prodVars, thrVars, serving, start, run>>

-----------------------------------------------------------------------------
Push(c) == \/ PushCheckStart(c) \/ PushInsert(c)
           \/ UpdateTransmitQueue(c) \/ TransmitActive(c)

Produce(c) == \E p \in Pri, publish \in BOOLEAN : AcquireTransmitBuff(c, p, publish)

Thread == \/ ThreadLoop \/ ThreadWake \/ PollLock \/ HandlePop
          \/ HandleSend \/ HandleRelease \/ PollSettle

Stop == StopServer \/ StopTransmit \/ StopSignal \/ StopJoin \/ StopDrain

Next == \/ \E c \in Producer : Produce(c) \/ Push(c)
        \/ Thread
        \/ Stop

Spec == Init /\ [][Next]_vars

(* A push that has begun and the thread keep taking steps; nothing obliges *)
(* a producer to publish or the server to stop.                            *)
Fairness == (\A c \in Producer : WF_vars(Push(c))) /\ WF_vars(Thread)

FairSpec == Spec /\ Fairness

(* The thread may retake queue_transmit_lock_ before a waiting producer    *)
(* runs.  That a producer is not overtaken for ever is a property of the   *)
(* mutex, assumed by the property that depends on it.                      *)
LockFair == \A c \in Producer : SF_vars(UpdateTransmitQueue(c))

-----------------------------------------------------------------------------
Posting(p)   == {c \in Producer : pc[c] = "update" /\ lvl[c] = p}
ThreadAlive  == tpc \notin {"exit", "dead"}

(* The types of the variables. *)
TypeOK ==
  /\ pool \in [Pri -> SUBSET Buff]
  /\ heap \in SUBSET Buff
  /\ prio \in [Buff -> Pri]
  /\ mode \in [Buff -> {"udp", "vsoa"}]
  /\ queue \in [Pri -> Seq(Buff)]
  /\ ptr \in Pri \cup {NoQueue}
  /\ ptrlock \in BOOLEAN /\ evt \in BOOLEAN
  /\ pc \in [Producer -> Outside \cup {"check", "insert", "update", "active"}]
  /\ hand \in [Producer -> Buff \cup {NoBuff}]
  /\ lvl \in [Producer -> Pri]
  /\ tpc \in {"loop", "wait", "poll", "pop", "send", "release", "settle", "exit", "dead"}
  /\ tbuf \in Buff \cup {NoBuff}
  /\ tres \in {"empty", "more"}
  /\ serving \in BOOLEAN /\ start \in BOOLEAN /\ run \in BOOLEAN
  /\ spc \in {"running", "transmit", "signal", "join", "drain", "stopped"}

-----------------------------------------------------------------------------
(* Who holds buffer b: a free list, the allocator, a list position, a      *)
(* producer or the transmit thread.                                        *)
Owners(b) ==
  {<<"pool", p, 0>> : p \in {q \in Pri : b \in pool[q]}}
  \cup (IF b \in heap THEN {<<"heap", 0, 0>>} ELSE {})
  \cup (UNION {{<<"queue", p, i>> : i \in {j \in 1 .. Len(queue[p]) : queue[p][j] = b}} : p \in Pri})
  \cup {<<"hand", c, 0>> : c \in {d \in Producer : hand[d] = b}}
  \cup (IF tbuf = b THEN {<<"thread", 0, 0>>} ELSE {})

(* No buffer is on two lists, or on a list and in somebody's hands: the    *)
(* intrusive list_node_ of tls_buff_t would corrupt both lists, and two    *)
(* threads would write one datagram.                                       *)
OneOwner == \A b \in Buff : Cardinality(Owners(b)) <= 1

(* While the transmit entry accepts pushes no buffer is lost: what was     *)
(* acquired is on its way or back in a pool.  Stopping loses at most one   *)
(* per producer, that of the push that found start_ cleared: server->start_*)
(* is cleared earlier and turns the next publish away before it acquires.  *)
StopLeak == Cardinality({b \in Buff : Owners(b) = {}}) <= Cardinality({c \in Producer : pc[c] = "refused"})

(* A buffer waits and is freed under its own priority, the only one its    *)
(* pool's buffer size and count were configured for.                       *)
OwnPriority ==
  \A p \in Pri : /\ \A b \in pool[p] : prio[b] = p
                 /\ \A i \in 1 .. Len(queue[p]) : prio[queue[p][i]] = p

(* The buffers are kept: none in two places, none lost but by a refused    *)
(* push, each in the pool and the queue of its priority.                   *)
BuffersKept == OneOwner /\ StopLeak /\ OwnPriority

(* Nothing waits behind the pointer: a non-empty queue is at or below the  *)
(* queue the thread looks at, or a push to it has yet to raise the         *)
(* pointer.  This is what lets the thread scan downwards only.             *)
PointerCovers ==
  ThreadAlive => \A p \in Pri : queue[p] # << >> => ptr >= p \/ Posting(p) # {}

(* No lost wakeup: the thread never sleeps on a clear event while a buffer *)
(* waits and every push has done its part, and it does not sleep when the  *)
(* stopping thread waits for it, though its own last poll may have cleared *)
(* the event after the signal.                                             *)
PushWakes ==
  (run /\ ThreadAlive /\ \E p \in Pri : queue[p] # << >>)
    => evt \/ \E c \in Producer : pc[c] \in {"update", "active"}
StopWakes == spc = "join" => ~(tpc = "wait" /\ ~evt)

NoLostWakeup == PushWakes /\ StopWakes

-----------------------------------------------------------------------------
(* The mailbox implements its promise: same FIFOs; a push is posted when   *)
(* it leaves tls_transmit_update_transmit_queue; closed when run_ is 0.    *)
Outbox == INSTANCE TlsOutbox WITH
            posting <- [p \in Pri |-> Posting(p)],
            open    <- run

ImplementsOutbox == Outbox!FairSpec

(* A datagram of the highest priority is sent however many others are      *)
(* pushed meanwhile (lower ones may starve), if the lock is fair.          *)
TopServed ==
  LockFair =>
  \A b \in Buff : (b \in {queue[MaxPri][i] : i \in 1 .. Len(queue[MaxPri])})
                    ~> (b \notin {queue[MaxPri][i] : i \in 1 .. Len(queue[MaxPri])} \/ ~run)

(* The stopping thread's signal ends the transmit thread: it is never left *)
(* asleep on an event that its own last poll cleared.                      *)
StopTerminates == (spc = "join") ~> (tpc \in {"exit", "dead"})
=============================================================================
