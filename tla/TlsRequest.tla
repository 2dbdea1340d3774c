---------------------------- MODULE TlsRequest -----------------------------
(***************************************************************************)
(* Link status requests (server/tls_request.c): a caller puts a command on *)
(* the wait list, publishes the request and waits for the command's event; *)
(* the command thread walks the list every millisecond and times out the   *)
(* commands that are two seconds old; the caller gives up after three.     *)
(* The code that would take an answer to a command, tls_request_on_response*)
(* is compiled out of vsoa_on_subscribe_message, so no command is answered.*)
(* A caller is a thread of an RPC server.  Those are stopped before the    *)
(* requests are: told to end, given three seconds, and then cancelled,     *)
(* wherever they are.                                                      *)
(*                                                                         *)
(* Grain: one action per critical section, with the walk of the command    *)
(* thread broken up at every node, since the event of a node is seen       *)
(* outside of the lock.  Time is counted in seconds.  A thread that is     *)
(* cancelled dies in the calls that POSIX makes cancellation points; to    *)
(* take a mutex is not one.                                                *)
(***************************************************************************)
EXTENDS Integers, FiniteSets

CONSTANTS
  Caller,       \* threads in tls_request_link_info
  Cmd,          \* addresses of commands
  Head,         \* &req->queue_wait_cmd_
  NoCmd,        \* NULL
  U64,          \* how many values the type of a time has
  MaxSteps,     \* bound: how often somebody sets the clock back
  Together      \* bound: whether that may happen in a run that has a stop

ASSUME CmdAssumption  == /\ Head \notin Cmd /\ NoCmd \notin Cmd \cup {Head}
                         /\ IsFiniteSet(Cmd)
ASSUME U64Assumption  == U64 \in Nat /\ U64 > 4

L == INSTANCE TlsList
E == INSTANCE TlsEvent

PollTimeout == 2      \* cmd_timeout_
CallTimeout == 3      \* of tls_event_timewait in tls_request_link_info

VARIABLES
  heap,         \* commands that are not allocated
  link,         \* the list nodes of the commands and the head of the wait list
  event,        \* cmd_event_
  failed,       \* commands whose cmd_result_ is -1 (of the others it is 0)
  tick,         \* cmd_tv_tick_ - cmd_tv_start_
  wall, age,    \* the time since cmd_tv_start_, by the clock and really
  lock,         \* who has queue_wait_cmd_lock_
  pc, mine,     \* a caller and its command
  outcome,      \* of its last call: no answer, or data copied from the command
  tpc, at,      \* the command thread and the node its walk has reached
  run, loop,    \* thread_run_ and evt_thread_loop_
  stop, spc,    \* evt_thread_stop_, the thread that stops servers and requests
  steps         \* history: how often the clock was set back

cmdVars  == <<heap, event, failed, tick, wall, age>>
callVars == <<pc, mine, outcome>>
thrVars  == <<tpc, at, run, loop, stop, spc>>
vars     == <<cmdVars, link, lock, callVars, thrVars, steps>>

Free    == "free"
Poller  == "poller"
Queued  == L!Walk(link, Head)

(* tls_request_start has started the command thread, or failed to create   *)
(* it and not noticed.  The memory of req comes from malloc, and with it   *)
(* the flags of the events; evt_thread_stop_ is waited for only once.      *)
Init ==
  /\ heap = Cmd
  /\ link = [n \in Cmd \cup {Head} |-> L!Alone(n)]
  /\ event = [c \in Cmd |-> E!Cleared] /\ failed = {}
  /\ tick = [c \in Cmd |-> 0] /\ wall = [c \in Cmd |-> 0] /\ age = [c \in Cmd |-> 0]
  /\ lock = Free
  /\ pc = [t \in Caller |-> "idle"] /\ mine = [t \in Caller |-> NoCmd]
  /\ outcome = [t \in Caller |-> "none"]
  /\ tpc \in {"start", "absent"} /\ at = Head
  /\ run = TRUE
  /\ loop \in {E!Set(e) : e \in E!Uninitialised} /\ stop \in {e \in E!Uninitialised : ~e.auto}
  /\ spc = "running" /\ steps = 0

Acquire(t) == lock = Free /\ lock' = t
Release(t) == lock = t /\ lock' = Free

-----------------------------------------------------------------------------
(* A caller: tls_request_link_info.                                        *)

(* tls_command_allocate and _initialize, and the start time that           *)
(* tls_command_push_queue notes before it takes the lock.                  *)
Blank(c) ==
  /\ event' = [event EXCEPT ![c] = E!Cleared]
  /\ failed' = failed \ {c}
  /\ tick' = [tick EXCEPT ![c] = 0]
  /\ wall' = [wall EXCEPT ![c] = 0] /\ age' = [age EXCEPT ![c] = 0]

NewCommand(t) ==
  /\ pc[t] = "idle" /\ spc = "running"
  /\ \E c \in heap :
       /\ heap' = heap \ {c} /\ mine' = [mine EXCEPT ![t] = c]
       /\ link' = L!Initialize(link, c) /\ Blank(c)
  /\ pc' = [pc EXCEPT ![t] = "push"]
  /\ UNCHANGED <<lock, outcome, thrVars, steps>>

(* tls_command_push_queue, then the request is published; whether that     *)
(* worked is not looked at.                                                *)
PushQueue(t) ==
  /\ pc[t] = "push" /\ lock = Free
  /\ link' = L!InsertTail(link, Head, mine[t])
  /\ pc' = [pc EXCEPT ![t] = "wait"]
  /\ UNCHANGED <<cmdVars, lock, mine, outcome, thrVars, steps>>

(* tls_event_timewait returns 1 for the event and 0 for the time (slip:    *)
(* tls_event_wait, which has no time).                                     *)
WakeForEvent(t) ==
  /\ pc[t] = "wait" /\ E!Signalled(event[mine[t]])
  /\ pc' = [pc EXCEPT ![t] = "woken"]
  /\ UNCHANGED <<cmdVars, link, lock, mine, outcome, thrVars, steps>>

Wake(t) ==
  /\ pc[t] = "wait"
  /\ \/ E!Signalled(event[mine[t]]) /\ pc' = [pc EXCEPT ![t] = "woken"]
     \/ age[mine[t]] >= CallTimeout /\ ~E!Signalled(event[mine[t]])
        /\ pc' = [pc EXCEPT ![t] = "expired"]
  /\ UNCHANGED <<cmdVars, link, lock, mine, outcome, thrVars, steps>>

(* tls_command_remove_queue; then the result is read.  Slip: without the   *)
(* lock.                                                                   *)
Answered(t) == pc[t] = "woken" /\ mine[t] \notin failed

RemoveUnlocked(t) ==
  /\ pc[t] \in {"woken", "expired"}
  /\ link' = L!RemoveNode(link, Head, mine[t])
  /\ outcome' = [outcome EXCEPT ![t] = IF Answered(t) THEN "copied" ELSE "none"]
  /\ pc' = [pc EXCEPT ![t] = "free"]
  /\ UNCHANGED <<cmdVars, lock, mine, thrVars, steps>>

RemoveQueue(t) ==
  /\ pc[t] \in {"woken", "expired"} /\ lock = Free
  /\ link' = L!RemoveNode(link, Head, mine[t])
  /\ outcome' = [outcome EXCEPT ![t] = IF Answered(t) THEN "copied" ELSE "none"]
  /\ pc' = [pc EXCEPT ![t] = "free"]
  /\ UNCHANGED <<cmdVars, lock, mine, thrVars, steps>>

(* tls_command_uninitialize, tls_command_free; the RPC is replied to.  The *)
(* contents of free memory do not matter, as NewCommand writes them.       *)
FreeCommand(t) ==
  /\ pc[t] = "free"
  /\ heap' = heap \cup {mine[t]} /\ Blank(mine[t])
  /\ mine' = [mine EXCEPT ![t] = NoCmd]
  /\ pc' = [pc EXCEPT ![t] = "idle"]
  /\ UNCHANGED <<link, lock, outcome, thrVars, steps>>

-----------------------------------------------------------------------------
(* The command thread.                                                     *)

ThreadStart ==
  /\ tpc = "start" /\ tpc' = IF run THEN "wait" ELSE "leave"
  /\ stop' = E!Reset(stop)
  /\ UNCHANGED <<cmdVars, link, lock, callVars, at, run, loop, spc, steps>>

ThreadWait ==
  /\ tpc = "wait" /\ E!Signalled(loop)
  /\ loop' = E!Waited(loop)
  /\ tpc' = IF run THEN "poll" ELSE "leave"
  /\ UNCHANGED <<cmdVars, link, lock, callVars, at, run, stop, spc, steps>>

(* tls_request_command_poll.                                               *)
PollLock ==
  /\ tpc = "poll" /\ Acquire(Poller)
  /\ at' = link[Head].next /\ tpc' = "visit"
  /\ UNCHANGED <<cmdVars, link, callVars, run, loop, stop, spc, steps>>

(* The difference is that of unsigned numbers: a clock that went backwards *)
(* makes it huge (slip: one second less).                                  *)
TooOldOffByOne(c) == tick[c] % U64 >= PollTimeout - 1
TooOld(c)         == tick[c] % U64 >= PollTimeout

(* tls_command_call_cb.                                                    *)
CallBack(c) == event' = [event EXCEPT ![c] = E!Set(@)] /\ failed' = failed \cup {c}

PollVisit ==
  /\ tpc = "visit" /\ at # Head
  /\ IF at \in failed THEN UNCHANGED <<event, failed, tick>>
     ELSE /\ IF TooOld(at) THEN CallBack(at) ELSE UNCHANGED <<event, failed>>
          /\ tick' = [tick EXCEPT ![at] = wall[at]]
  /\ tpc' = "next"
  /\ UNCHANGED <<heap, wall, age, link, lock, callVars, at, run, loop, stop, spc, steps>>

PollNext ==
  /\ tpc = "next"
  /\ at' = link[at].next /\ tpc' = "visit"
  /\ UNCHANGED <<cmdVars, link, lock, callVars, run, loop, stop, spc, steps>>

(* Unlock and sleep for a millisecond.                                     *)
PollUnlock ==
  /\ tpc = "visit" /\ at = Head
  /\ Release(Poller) /\ tpc' = "sleep"
  /\ UNCHANGED <<cmdVars, link, callVars, at, run, loop, stop, spc, steps>>

ThreadSleep ==
  /\ tpc = "sleep" /\ tpc' = IF run THEN "wait" ELSE "leave"
  /\ UNCHANGED <<cmdVars, link, lock, callVars, at, run, loop, stop, spc, steps>>

ThreadLeave ==
  /\ tpc = "leave" /\ tpc' = "exit"
  /\ stop' = E!Set(stop)
  /\ UNCHANGED <<cmdVars, link, lock, callVars, at, run, loop, spc, steps>>

-----------------------------------------------------------------------------
(* app_vsoa_rpc_server_stop_thread.  The server is told to end, but first  *)
(* handles what has come in; the three seconds it is given may be over at  *)
(* any time, and then it is cancelled.                                     *)

StopRpc ==
  /\ spc = "running" /\ spc' = "rpc"
  /\ steps = 0 \/ Together
  /\ UNCHANGED <<cmdVars, link, lock, callVars, tpc, at, run, loop, stop, steps>>

(* A cancelled caller dies when it publishes or waits, its command on the  *)
(* list, or when it closes the pipe of the event of a command that is off  *)
(* the list; neither is freed.  Between calls it ends without a trace.     *)
CallerCancelled(t) ==
  /\ spc = "rpc"
  /\ \/ pc[t] = "wait" /\ pc' = [pc EXCEPT ![t] = "cutwait"]
     \/ pc[t] = "free" /\ pc' = [pc EXCEPT ![t] = "cutfree"]
  /\ UNCHANGED <<cmdVars, link, lock, mine, outcome, thrVars, steps>>

Ended(t) == pc[t] \in {"idle", "cutwait", "cutfree"}

(* pthread_join, then tls_request_stop begins (slip: no join).             *)
StopUnjoinedRpc ==
  /\ spc = "rpc"
  /\ run' = FALSE /\ spc' = "signal"
  /\ UNCHANGED <<cmdVars, link, lock, callVars, tpc, at, loop, stop, steps>>

Stop ==
  /\ spc = "rpc" /\ \A t \in Caller : Ended(t)
  /\ run' = FALSE /\ spc' = "signal"
  /\ UNCHANGED <<cmdVars, link, lock, callVars, tpc, at, loop, stop, steps>>

StopSignal ==
  /\ spc = "signal" /\ spc' = "wait"
  /\ loop' = E!Set(loop)
  /\ UNCHANGED <<cmdVars, link, lock, callVars, tpc, at, run, stop, steps>>

(* The three seconds may be over at any time, and evt_thread_stop_ may be  *)
(* set from the start.                                                     *)
StopWait ==
  /\ spc = "wait" /\ spc' = "cancel"
  /\ UNCHANGED <<cmdVars, link, lock, callVars, tpc, at, run, loop, stop, steps>>

(* A cancelled thread ends where it sleeps or waits, or in the write of an *)
(* event's message.                                                        *)
Cancelled ==
  /\ spc = "cancel"
  /\ tpc \in {"wait", "sleep"} \/ (tpc = "visit" /\ at # Head /\ at \notin failed /\ TooOld(at))
     \/ (tpc = "leave" /\ ~stop.state)
  /\ tpc' = "dead"
  /\ UNCHANGED <<cmdVars, link, lock, callVars, at, run, loop, stop, spc, steps>>

Gone == tpc \in {"absent", "exit", "dead"}

(* pthread_join, then tls_request_free (slip: no join).                    *)
StopUnjoined ==
  /\ spc = "cancel" /\ spc' = "freed"
  /\ UNCHANGED <<cmdVars, link, lock, callVars, tpc, at, run, loop, stop, steps>>

StopJoin ==
  /\ spc = "cancel" /\ Gone /\ spc' = "freed"
  /\ UNCHANGED <<cmdVars, link, lock, callVars, tpc, at, run, loop, stop, steps>>

-----------------------------------------------------------------------------
(* Time passes; somebody sets the clock back by a second.  The times of a  *)
(* command that is timed out stand still, as nobody looks at them again.   *)
Live == Cmd \ (heap \cup failed)

Second ==
  /\ \E c \in Live : age[c] < CallTimeout
  /\ age'  = [c \in Cmd |-> IF c \in Live /\ age[c] < CallTimeout THEN age[c] + 1 ELSE age[c]]
  /\ wall' = [c \in Cmd |-> IF c \in Live /\ age[c] < CallTimeout THEN wall[c] + 1 ELSE wall[c]]
  /\ UNCHANGED <<heap, event, failed, tick, link, lock, callVars, thrVars, steps>>

SetBack ==
  /\ steps < MaxSteps /\ Live # {}
  /\ spc = "running" \/ Together
  /\ wall' = [c \in Cmd |-> IF c \in Live THEN wall[c] - 1 ELSE wall[c]]
  /\ steps' = steps + 1
  /\ UNCHANGED <<heap, event, failed, tick, age, link, lock, callVars, thrVars>>

Call(t) == Wake(t) \/ FreeCommand(t) \/ CallerCancelled(t)
Locks(t) == PushQueue(t) \/ RemoveQueue(t)
Thread  == \/ ThreadStart \/ ThreadWait \/ PollLock \/ PollVisit \/ PollNext
           \/ PollUnlock \/ ThreadSleep \/ ThreadLeave \/ Cancelled
Stopper == Stop \/ StopSignal \/ StopWait \/ StopJoin

Next == \/ \E t \in Caller : NewCommand(t) \/ Call(t) \/ Locks(t)
        \/ Thread \/ StopRpc \/ Stopper \/ Second \/ SetBack

Spec == Init /\ [][Next]_vars

(* Threads that can run do, and time passes.  The command thread gives the *)
(* lock up and sleeps before it takes it again, so a caller gets it.       *)
FairSpec == /\ Spec
            /\ WF_vars(Thread) /\ WF_vars(Stopper) /\ WF_vars(Second)
            /\ \A t \in Caller : WF_vars(Call(t)) /\ SF_vars(Locks(t))

-----------------------------------------------------------------------------
Cut     == {t \in Caller : pc[t] \in {"cutwait", "cutfree"}}
Waiting == {t \in Caller : pc[t] \in {"wait", "woken", "expired", "cutwait"}}

(* The wait list is a ring of exactly the commands whose callers wait, or  *)
(* died waiting, and the walk is on it: a caller that wakes up in the      *)
(* middle of a walk never frees the node the walk stands on.               *)
WalkSound ==
  /\ L!Ring(link, Queued \cup {Head})
  /\ Queued = {mine[t] : t \in Waiting} /\ Queued \cap heap = {}
  /\ lock = Poller => at \in Queued \cup {Head}

(* A command is timed out after its two seconds, and not before unless the *)
(* clock was set back; and a caller never takes the data of a command,     *)
(* since nobody answers one.                                               *)
OnlyTimeouts ==
  /\ steps = 0 => \A c \in failed \ heap : age[c] >= PollTimeout
  /\ \A t \in Caller : outcome[t] = "none"

(* Every call comes back, even if the command thread does not run or sleeps*)
(* for ever on an event that resets itself; or its caller is cancelled.    *)
CallReturns == \A t \in Caller : (pc[t] = "push") ~> Ended(t)

(* What a stop leaves behind, whenever it comes.  Once the requests are    *)
(* being stopped nobody wants the lock that a cancelled walk keeps for     *)
(* ever: each caller has ended.  What is never freed is the one command in *)
(* which a caller was cut short, and of those what stays on the list is    *)
(* the commands of callers that were cut while they waited.                *)
LeftBehind ==
  spc \notin {"running", "rpc"} =>
    /\ \A t \in Caller : Ended(t)
    /\ Cmd \ heap = {mine[t] : t \in Cut}
    /\ \A t, u \in Cut : mine[t] = mine[u] => t = u
    /\ Queued = {mine[t] : t \in Cut \cap Waiting}

(* And once the memory of the request is freed, nobody takes another step  *)
(* on it: not the command thread, nor a caller.                            *)
Untouched == spc = "freed" => UNCHANGED <<link, lock, callVars, thrVars>>

(* Both hold of every stop, and a stop that has begun comes to its end.    *)
StopEnds == /\ [][LeftBehind' /\ Untouched]_vars
            /\ (spc = "rpc") ~> (spc = "freed")
=============================================================================
