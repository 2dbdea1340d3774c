---------------------------- MODULE TlsReceive ----------------------------
(***************************************************************************)
(* The receive path of the TLS server: the receive thread                  *)
(* (server/tls_receive.c) that fills buffers from the UDP socket, the work *)
(* thread (server/tls_server.c) that takes them off the receive list, the  *)
(* event evt_work_loop_ between the two, and the part of the stop sequence *)
(* that concerns them.                                                     *)
(*                                                                         *)
(* Grain: one action per critical section or per read or write of a shared *)
(* field.  What tls_server_parsedata makes of a datagram is left to the    *)
(* application; here it is one step that may also block.  The event is a   *)
(* pipe that holds at most one token, i.e. a Boolean.                      *)
(***************************************************************************)
EXTENDS Integers, Sequences, FiniteSets

CONSTANTS
  Buff,       \* the receive buffers there is memory for
  NoBuff,     \* the NULL buffer
  InitPool    \* the TLS_RECEIVE_BUFF_COUNT preallocated ones

ASSUME BuffAssumption == NoBuff \notin Buff
ASSUME PoolAssumption == InitPool \subseteq Buff

VARIABLES
  pool,       \* queue_recv_buff_
  heap,       \* buffers tls_buff_create has not allocated yet
  queue,      \* queue_receive_: received, not yet taken
  evt,        \* evt_work_loop_ is signalled
  serving,    \* server->start_
  bound,      \* the UDP socket is open
  rrun, wrun, \* receive->run_, server->work_run_
  rpc, rbuf,  \* the receive thread and the buffer it receives into
  wpc, wbuf,  \* the work thread and the datagram it handles
  spc,        \* the thread that starts and stops the server
  late        \* history: pushed after the worker found the list empty and
              \* before it cleared the event

rxVars   == <<rpc, rbuf>>
workVars == <<wpc, wbuf>>
ctlVars  == <<serving, bound, rrun, wrun, spc>>
vars     == <<pool, heap, queue, evt, rxVars, workVars, ctlVars, late>>

(* tls_server_start has started the receive thread, not yet the worker.    *)
Init ==
  /\ pool = InitPool /\ heap = Buff \ InitPool
  /\ queue = << >> /\ evt = FALSE
  /\ serving = TRUE /\ bound = TRUE /\ rrun = TRUE /\ wrun = FALSE
  /\ rpc = "loop" /\ rbuf = NoBuff
  /\ wpc = "off" /\ wbuf = NoBuff
  /\ spc = "starting" /\ late = {}

-----------------------------------------------------------------------------
(* The receive thread, tls_receive_thread_work.                            *)

ReceiveLoop ==
  /\ rpc = "loop"
  /\ rpc' = IF rrun THEN "acquire" ELSE "exit"
  /\ UNCHANGED <<pool, heap, queue, evt, rbuf, workVars, ctlVars, late>>

(* tls_server_acquire_recv_buff: a free buffer, else a new one, else there *)
(* is no memory, and the loop tries again (slip: it goes on without one).  *)
RetryWithout == "receive"
Retry        == "loop"

AcquireRecvBuff ==
  /\ rpc = "acquire"
  /\ \/ \E b \in pool : rbuf' = b /\ pool' = pool \ {b} /\ rpc' = "receive" /\ UNCHANGED heap
     \/ /\ pool = {}
        /\ \E b \in heap : rbuf' = b /\ heap' = heap \ {b}
        /\ rpc' = "receive" /\ UNCHANGED pool
     \/ /\ pool = {} /\ heap = {}
        /\ rpc' = Retry /\ UNCHANGED <<pool, heap, rbuf>>
  /\ UNCHANGED <<queue, evt, workVars, ctlVars, late>>

(* recvfrom: a datagram, or nothing (an error, an empty datagram, or the   *)
(* socket was shut down and closed).                                       *)
SocketReceive ==
  /\ rpc = "receive"
  /\ \/ bound /\ rpc' = "push"
     \/ rpc' = "release"
  /\ UNCHANGED <<pool, heap, queue, evt, rbuf, workVars, ctlVars, late>>

ReceiveRelease ==
  /\ rpc = "release"
  /\ pool' = pool \cup {rbuf}
  /\ rbuf' = NoBuff
  /\ rpc' = "loop"
  /\ UNCHANGED <<heap, queue, evt, workVars, ctlVars, late>>

(* Whether a push goes on to signal the worker (slip: only when it found   *)
(* the list empty).                                                        *)
SignalsFirst  == queue = << >>
SignalsAlways == TRUE

(* tls_receive_push: the insertion, under the list lock...                 *)
ReceivePush ==
  /\ rpc = "push"
  /\ queue' = Append(queue, rbuf)
  /\ late' = IF wpc \in {"deactive", "reset"} THEN late \cup {rbuf} ELSE late
  /\ rbuf' = NoBuff
  /\ rpc' = IF SignalsAlways THEN "active" ELSE "loop"
  /\ UNCHANGED <<pool, heap, evt, workVars, ctlVars>>

(* ... then tls_server_active: start_ is read...                           *)
ActiveCheck ==
  /\ rpc = "active"
  /\ rpc' = IF serving THEN "signal" ELSE "loop"
  /\ UNCHANGED <<pool, heap, queue, evt, rbuf, workVars, ctlVars, late>>

(* ... and the event set.                                                  *)
ActiveSet ==
  /\ rpc = "signal"
  /\ evt' = TRUE
  /\ rpc' = "loop"
  /\ UNCHANGED <<pool, heap, queue, rbuf, workVars, ctlVars, late>>

-----------------------------------------------------------------------------
(* The work thread, tls_server_thread_work and tls_server_work_poll.       *)

WorkLoop ==
  /\ wpc = "loop"
  /\ wpc' = IF wrun THEN "wait" ELSE "exit"
  /\ UNCHANGED <<pool, heap, queue, evt, rxVars, wbuf, ctlVars, late>>

WorkWake ==
  /\ wpc = "wait" /\ evt
  /\ wpc' = IF wrun THEN "pop" ELSE "exit"
  /\ UNCHANGED <<pool, heap, queue, evt, rxVars, wbuf, ctlVars, late>>

(* What remains of the list after a pop (slip: the head is only read).     *)
AfterPeek == queue
AfterPop  == Tail(queue)

(* tls_receive_pop.                                                        *)
WorkPop ==
  /\ wpc = "pop"
  /\ IF queue = << >>
     THEN /\ wpc' = "deactive" /\ late' = {}
          /\ UNCHANGED <<queue, wbuf>>
     ELSE /\ wbuf' = Head(queue) /\ queue' = AfterPop
          /\ wpc' = "handle"
          /\ UNCHANGED late
  /\ UNCHANGED <<pool, heap, evt, rxVars, ctlVars>>

(* tls_server_parsedata: the application's callback has run.               *)
WorkHandle ==
  /\ wpc = "handle"
  /\ wpc' = "release"
  /\ UNCHANGED <<pool, heap, queue, evt, rxVars, wbuf, ctlVars, late>>

WorkRelease ==
  /\ wpc = "release"
  /\ pool' = pool \cup {wbuf}
  /\ wbuf' = NoBuff
  /\ wpc' = "loop"
  /\ UNCHANGED <<heap, queue, evt, rxVars, ctlVars, late>>

(* tls_server_deactive: start_ is read, then the event reset.              *)
DeactiveCheck ==
  /\ wpc = "deactive"
  /\ wpc' = IF serving THEN "reset" ELSE "loop"
  /\ UNCHANGED <<pool, heap, queue, evt, rxVars, wbuf, ctlVars, late>>

DeactiveReset ==
  /\ wpc = "reset"
  /\ evt' = FALSE
  /\ wpc' = "loop"
  /\ UNCHANGED <<pool, heap, queue, rxVars, wbuf, ctlVars, late>>

-----------------------------------------------------------------------------
(* Starting the worker, and tls_server_stop.  Between StopWorkJoin and     *)
(* StopSocket the transmit path is stopped (module TlsTransmit).           *)

StartWork ==
  /\ spc = "starting"
  /\ wrun' = TRUE /\ evt' = TRUE /\ wpc' = "loop"
  /\ spc' = "running"
  /\ UNCHANGED <<pool, heap, queue, rxVars, wbuf, serving, bound, rrun, late>>

StopServer ==
  /\ spc = "running"
  /\ serving' = FALSE
  /\ spc' = "work"
  /\ UNCHANGED <<pool, heap, queue, evt, rxVars, workVars, bound, rrun, wrun, late>>

StopWork ==
  /\ spc = "work"
  /\ wrun' = FALSE
  /\ spc' = "signal"
  /\ UNCHANGED <<pool, heap, queue, evt, rxVars, workVars, serving, bound, rrun, late>>

(* Slip: the sleeping worker is not signalled.                             *)
StopWorkSilent ==
  /\ spc = "signal"
  /\ spc' = "joinwork"
  /\ UNCHANGED <<pool, heap, queue, evt, rxVars, workVars, serving, bound, rrun, wrun, late>>

StopWorkSignal ==
  /\ spc = "signal"
  /\ evt' = TRUE
  /\ spc' = "joinwork"
  /\ UNCHANGED <<pool, heap, queue, rxVars, workVars, serving, bound, rrun, wrun, late>>

(* The worker has left its loop, or after one second it is cancelled       *)
(* inside the application's callback, and its buffer with it.              *)
StopWorkJoin ==
  /\ spc = "joinwork"
  /\ \/ wpc = "exit" /\ UNCHANGED wpc
     \/ wpc = "handle" /\ wpc' = "dead"
  /\ spc' = "socket"
  /\ UNCHANGED <<pool, heap, queue, evt, rxVars, wbuf, serving, bound, rrun, wrun, late>>

(* tls_udp_socket_close: shutdown wakes a blocked recvfrom.                *)
StopSocket ==
  /\ spc = "socket"
  /\ bound' = FALSE
  /\ spc' = "receive"
  /\ UNCHANGED <<pool, heap, queue, evt, rxVars, workVars, serving, rrun, wrun, late>>

StopReceive ==
  /\ spc = "receive"
  /\ rrun' = FALSE
  /\ spc' = "joinreceive"
  /\ UNCHANGED <<pool, heap, queue, evt, rxVars, workVars, serving, bound, wrun, late>>

StopReceiveJoin ==
  /\ spc = "joinreceive" /\ rpc = "exit"
  /\ spc' = "drain"
  /\ UNCHANGED <<pool, heap, queue, evt, rxVars, workVars, serving, bound, rrun, wrun, late>>

(* What the drain returns to the pool (slip: the list is just emptied, as  *)
(* tls_list_initialize would).                                             *)
NoneDrained == {}
Drained     == {queue[i] : i \in 1 .. Len(queue)}

(* tls_server_uninit_receive: tls_receive_release_buff.                    *)
StopDrain ==
  /\ spc = "drain"
  /\ pool' = pool \cup Drained
  /\ queue' = << >>
  /\ spc' = "down"
  /\ UNCHANGED <<heap, evt, rxVars, workVars, serving, bound, rrun, wrun, late>>

-----------------------------------------------------------------------------
Receiver == \/ ReceiveLoop \/ AcquireRecvBuff \/ SocketReceive \/ ReceiveRelease
            \/ ReceivePush \/ ActiveCheck \/ ActiveSet

Worker == \/ WorkLoop \/ WorkWake \/ WorkPop \/ WorkHandle \/ WorkRelease
          \/ DeactiveCheck \/ DeactiveReset

Control == \/ StartWork \/ StopServer \/ StopWork \/ StopWorkSignal \/ StopWorkJoin
           \/ StopSocket \/ StopReceive \/ StopReceiveJoin \/ StopDrain

Next == Receiver \/ Worker \/ Control

Spec == Init /\ [][Next]_vars

(* Both threads run; a recvfrom on an open socket may block for ever, and  *)
(* nothing obliges the server to stop once it runs.                        *)
Fairness ==
  /\ WF_vars(Worker)
  /\ WF_vars(Receiver /\ (rpc = "receive" => ~bound))
  /\ WF_vars(Control /\ spc # "running")

FairSpec == Spec /\ Fairness

-----------------------------------------------------------------------------
(* The types of the variables; a thread that uses a buffer has one. *)
TypeOK ==
  /\ pool \in SUBSET Buff /\ heap \in SUBSET Buff /\ queue \in Seq(Buff)
  /\ evt \in BOOLEAN /\ serving \in BOOLEAN /\ bound \in BOOLEAN
  /\ rrun \in BOOLEAN /\ wrun \in BOOLEAN
  /\ rpc \in {"loop", "acquire", "receive", "release", "push", "active", "signal", "exit"}
  /\ wpc \in {"off", "loop", "wait", "pop", "handle", "release", "deactive", "reset",
              "exit", "dead"}
  /\ rbuf \in (IF rpc \in {"receive", "release", "push"} THEN Buff ELSE {NoBuff})
  /\ wbuf \in (IF wpc \in {"handle", "release", "dead"} THEN Buff ELSE {NoBuff})
  /\ spc \in {"starting", "running", "work", "signal", "joinwork", "socket", "receive",
              "joinreceive", "drain", "down"}
  /\ late \in SUBSET Buff

-----------------------------------------------------------------------------
InQueue(b) == {i \in 1 .. Len(queue) : queue[i] = b}

Owners(b) ==
  (IF b \in pool THEN {<<"pool", 0>>} ELSE {}) \cup (IF b \in heap THEN {<<"heap", 0>>} ELSE {})
  \cup {<<"queue", i>> : i \in InQueue(b)}
  \cup (IF rbuf = b THEN {<<"receiver", 0>>} ELSE {}) \cup (IF wbuf = b THEN {<<"worker", 0>>} ELSE {})

(* Every receive buffer is in exactly one place at any time, the stop      *)
(* sequence included: none is lost, and the intrusive list node of none is *)
(* in two lists.                                                           *)
OneOwner == \A b \in Buff : Cardinality(Owners(b)) = 1

(* When the server is down only the buffer a cancelled worker held is      *)
(* missing from the pool.                                                  *)
AllReturned == spc = "down" => \A b \in Buff \ (pool \cup heap) : wpc = "dead" /\ wbuf = b

(* The buffers are kept: each in one place, in use by the thread that says *)
(* so (TypeOK), and back in the pool when the server is down.              *)
BuffersKept == TypeOK /\ OneOwner /\ AllReturned

Asleep == wpc = "wait" /\ ~evt

(* The only datagrams a sleeping worker leaves behind are those that came  *)
(* between its last look at the list and the reset of the event: whatever  *)
(* came earlier or comes later wakes it.  And it does not sleep when the   *)
(* server waits for it to end, though a reset it had decided on may have   *)
(* come after work_run_ was cleared.                                       *)
StrandedOnlyLate ==
  /\ (serving /\ Asleep /\ rpc \notin {"active", "signal"}) => \A b \in Buff : InQueue(b) # {} => b \in late
  /\ spc = "joinwork" => ~Asleep

-----------------------------------------------------------------------------
(* The receive list is a mailbox of the same kind as the transmit path's,  *)
(* with one producer and one priority: a datagram is submitted by the push *)
(* and posted when tls_server_active returns; closed when start_ is 0.     *)
Receiving == {"receiver"}
Inbox == INSTANCE TlsOutbox WITH
           Producer <- Receiving, MaxPri <- 0,
           queue    <- [p \in 0 .. 0 |-> queue],
           posting  <- [p \in 0 .. 0 |-> IF rpc \in {"active", "signal"} THEN Receiving ELSE {}],
           open     <- serving

(* While the server runs every datagram is taken in the end, however busy  *)
(* the receiver is, but for one that slipped into the reset: that one goes *)
(* with the next arrival, which stands behind it in the list.              *)
EventuallyTaken ==
  \A b \in Buff : (InQueue(b) # {} /\ b \notin late) ~> (InQueue(b) = {} \/ ~serving)

(* Datagrams leave the list one at a time and in the order of arrival,     *)
(* until the stopped server drops the rest, and none but a late one waits  *)
(* for ever.  (TlsOutbox promises also of a late one that it is taken,     *)
(* which is why this is not Inbox!FairSpec.)                               *)
InboxServed == Inbox!Spec /\ EventuallyTaken

(* The stop sequence ends both threads and runs to its end: the worker is  *)
(* not left on an event that its own late reset cleared.                   *)
StopCompletes == (spc = "work") ~> (spc = "down")
=============================================================================
