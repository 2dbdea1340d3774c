------------------------- MODULE DaemonLifecycle -------------------------
(***************************************************************************)
(* How the 722 daemon comes up and goes down.  main builds the parts of    *)
(* the program one after the other (api_transmit_initialize); the first    *)
(* part that fails to start sends it through that part's own clean-up and  *)
(* then through api_transmit_uninitialize, after which the process exits.  *)
(* Every part that is up has a thread, or a client of the VSOA library,    *)
(* that already calls back into other parts while main goes on.            *)
(*                                                                         *)
(* main is a program, the sequence todo of its remaining operations; each  *)
(* function is a sequence of its own.  Allocation succeeds.  The VSOA      *)
(* library is external: stopping a client of it waits for the callback     *)
(* that runs.  A thread of the program is waited for and then cancelled,   *)
(* which ends its callback as well.                                        *)
(***************************************************************************)
EXTENDS Naturals, Sequences

VARIABLES
  todo,      \* what main has still to do
  live,      \* the threads and library clients that run
  alloc,     \* the objects that exist
  ptr,       \* the pointers of app_transmit_t that are set
  copied,    \* the net proxy has its copy of app_publish_
  holds,     \* holds[a]: the objects the callback of a works on
  failed,    \* the part that failed to start, or "none"
  phase      \* "up", "booted", "exited" or "crashed"

vars == <<todo, live, alloc, ptr, copied, holds, failed, phase>>
agents == <<live, holds>>
memory == <<alloc, ptr, copied>>

Clients == {"tsub", "fsub", "asub"}
Threads == {"tpub", "transmit", "receive", "work", "poll", "apub", "rpc",
            "fwork", "rate", "proxy"}
Agents == Clients \cup Threads
Parts == {"server", "apub", "rpc", "file", "rate", "asub"}
Objects == Parts \cup {"server_parts", "socket", "request", "file_parts"}

(* The object an agent runs on; the proxy's is static. *)
Home ==
  [a \in Agents \ {"proxy"} |->
     CASE a \in {"tpub", "tsub", "work"} -> {"server", "server_parts"}
       [] a \in {"transmit", "receive"} -> {"server", "server_parts", "socket"}
       [] a = "poll" -> {"request"}
       [] a \in {"fwork", "fsub"} -> {"file", "file_parts"}
       [] OTHER -> {a}]

(***************************************************************************)
(* The programs                                                            *)
(***************************************************************************)
tls_server_start ==
  << <<"make", "socket">>, <<"check", "udp">>, <<"start", "tpub">>,
     <<"start", "tsub">>, <<"spawn", "transmit">>, <<"spawn", "receive">>,
     <<"spawn", "work">> >>

SocketFreedFirst ==
  << <<"stop", "work">>, <<"stop", "transmit">>, <<"free", "socket">>,
     <<"stop", "receive">>, <<"stop", "tsub">>, <<"stop", "tpub">> >>

tls_server_stop ==
  << <<"stop", "work">>, <<"stop", "transmit">>, <<"stop", "receive">>,
     <<"free", "socket">>, <<"stop", "tsub">>, <<"stop", "tpub">> >>

(* It stops everything but the work thread once more before freeing it.    *)
tls_server_uninitialize ==
  << <<"stop", "receive">>, <<"free", "server_parts">>,
     <<"stop", "transmit">>, <<"stop", "tpub">>, <<"stop", "tsub">> >>

api_transmit_start_tls_server ==
  << <<"make", "server">>, <<"make", "server_parts">>, <<"check", "server">> >>
  \o tls_server_start
  \o << <<"make", "request">>, <<"spawn?", "poll">>, <<"set", "server">> >>

PublishNotSet == << <<"make", "apub">>, <<"start", "apub">> >>

(* The pointer of a part is set when its start has succeeded. *)
api_transmit_start_app_publish ==
  << <<"make", "apub">>, <<"start", "apub">>, <<"set", "apub">> >>

api_transmit_start_app_rpc_server ==
  << <<"make", "rpc">>, <<"start", "rpc">>, <<"set", "rpc">> >>

file_transmit_start_service == << <<"spawn", "fwork">>, <<"start", "fsub">> >>

FileSetFirst ==
  << <<"make", "file">>, <<"set", "file">>, <<"make", "file_parts">>,
     <<"check", "file">> >> \o file_transmit_start_service

api_transmit_start_file_transmit ==
  << <<"make", "file">>, <<"make", "file_parts">>, <<"check", "file">> >>
  \o file_transmit_start_service \o << <<"set", "file">> >>

api_transmit_start_statis_rate ==
  << <<"make", "rate">>, <<"spawn", "rate">>, <<"set", "rate">> >>

api_transmit_start_app_subscribe ==
  << <<"make", "asub">>, <<"start", "asub">>, <<"set", "asub">> >>

api_transmit_start_net_proxy ==
  << <<"check", "link_map">>, <<"copy", "apub">>, <<"start", "proxy">> >>

api_transmit_initialize ==
  << <<"check", "config">> >> \o api_transmit_start_tls_server
  \o api_transmit_start_app_publish \o api_transmit_start_app_rpc_server
  \o api_transmit_start_file_transmit \o api_transmit_start_statis_rate
  \o api_transmit_start_app_subscribe \o api_transmit_start_net_proxy

SubscribeStoppedOnly == << <<"stop", "fsub">> >>

file_transmit_stop_service == << <<"stop", "fsub">>, <<"stop", "fwork">> >>

(* What a part does itself when its start fails at x. *)
CleanUp(x) ==
  CASE x = "server" -> tls_server_uninitialize
    [] x \in {"udp", "tpub", "tsub"} -> tls_server_stop \o tls_server_uninitialize
    [] x = "file" -> << <<"free", "file_parts">> >>
    [] x = "fsub" -> file_transmit_stop_service
    [] OTHER -> <<>>

ServerBeforeRpc ==
  << <<"down", "file">>, <<"down", "apub">>, <<"down", "server">>,
     <<"down", "rpc">>, <<"down", "rate">> >>

api_transmit_uninitialize ==
  << <<"down", "file">>, <<"down", "apub">>, <<"down", "rpc">>,
     <<"down", "server">>, <<"down", "rate">> >>

(* The api_transmit_stop_ function of a part. *)
StopOf(x) ==
  ( CASE x = "file" -> file_transmit_stop_service \o << <<"free", "file_parts">> >>
      [] x = "server" -> << <<"stop", "poll">>, <<"free", "request">> >>
                         \o tls_server_stop \o tls_server_uninitialize
      [] x = "rate" -> << <<"wild", "rate">> >>
      [] OTHER -> << <<"stop", x>> >> )
  \o << <<"free", x>>, <<"clear", x>> >>

(***************************************************************************)
(* main                                                                    *)
(***************************************************************************)
Running == phase \in {"up", "booted"}

Init ==
  /\ todo = api_transmit_initialize
  /\ live = {} /\ alloc = {} /\ ptr = {} /\ copied = FALSE
  /\ holds = [a \in Agents |-> {}]
  /\ failed = "none"
  /\ phase = "up"

Do(op, x) ==
  /\ phase = "up"
  /\ todo # <<>>
  /\ Head(todo) = <<op, x>>

Next1 == todo' = Tail(todo)

Make(x) ==
  /\ Do("make", x)
  /\ Next1
  /\ alloc' = alloc \cup {x}
  /\ UNCHANGED <<agents, ptr, copied, failed, phase>>

Free(x) ==
  /\ Do("free", x)
  /\ Next1
  /\ alloc' = alloc \ {x}
  /\ UNCHANGED <<agents, ptr, copied, failed, phase>>

SetPtr(x) ==
  /\ Do("set", x)
  /\ Next1
  /\ ptr' = ptr \cup {x}
  /\ UNCHANGED <<agents, alloc, copied, failed, phase>>

ClearPtr(x) ==
  /\ Do("clear", x)
  /\ Next1
  /\ ptr' = ptr \ {x}
  /\ UNCHANGED <<agents, alloc, copied, failed, phase>>

Check(x) ==
  /\ Do("check", x)
  /\ Next1
  /\ UNCHANGED <<agents, memory, failed, phase>>

Runs(a) ==
  /\ Next1
  /\ live' = live \cup {a}
  /\ UNCHANGED <<memory, holds, failed, phase>>

(* A thread that cannot fail to start, a server of the VSOA library with   *)
(* its thread, and a client of the library.                                *)
SpawnThread(a) == (Do("spawn", a) \/ Do("spawn?", a)) /\ Runs(a)

StartServer(a) == a \in Threads /\ Do("start", a) /\ Runs(a)

StartClient(a) == a \in Clients /\ Do("start", a) /\ Runs(a)

(* tls_request_start tests start_ in memory that malloc did not clear. *)
PollTakenForStarted ==
  /\ Do("spawn?", "poll")
  /\ Next1
  /\ UNCHANGED <<agents, memory, failed, phase>>

(* A part fails; net proxy sockets are opened with their threads running.  *)
Fail(x) ==
  /\ Do("check", x) \/ Do("start", x)
  /\ failed' = x
  /\ todo' = CleanUp(x) \o api_transmit_uninitialize
  /\ live' \in IF x = "proxy" THEN {live, live \cup {x}} ELSE {live}
  /\ UNCHANGED <<memory, holds, phase>>

Ends(a) ==
  /\ Do("stop", a)
  /\ Next1
  /\ live' = live \ {a}
  /\ holds' = [holds EXCEPT ![a] = {}]
  /\ UNCHANGED <<memory, failed, phase>>

StopThread(a) == a \in Threads /\ Ends(a)

StopClient(a) == a \in Clients /\ holds[a] = {} /\ Ends(a)

(* tls_statis_rate_stop hands the address of its local pointer to the      *)
(* functions that stop the threads: they write over the stack and join a   *)
(* thread whose id they find there, or none (or never come back).          *)
StopWild ==
  /\ Do("wild", "rate")
  /\ Next1
  /\ phase' \in {phase, "crashed"}
  /\ UNCHANGED <<agents, memory, failed>>

Down(x) ==
  /\ Do("down", x)
  /\ todo' = (IF x \in ptr THEN StopOf(x) ELSE <<>>) \o Tail(todo)
  /\ UNCHANGED <<agents, memory, failed, phase>>

CopyPointers ==
  /\ Do("copy", "apub")
  /\ Next1
  /\ copied' = ("apub" \in ptr)
  /\ UNCHANGED <<agents, alloc, ptr, failed, phase>>

(* Everything is up, and main polls for ever. *)
Booted ==
  /\ phase = "up" /\ todo = <<>> /\ failed = "none"
  /\ phase' = "booted"
  /\ UNCHANGED <<todo, agents, memory, failed>>

(* main has cleaned up; it clears app_transmit_t and calls exit. *)
Exit ==
  /\ phase = "up" /\ todo = <<>> /\ failed # "none"
  /\ phase' = "exited"
  /\ ptr' = {}
  /\ UNCHANGED <<todo, agents, alloc, copied, failed>>

Main ==
  \/ \E x \in Objects : Make(x) \/ Free(x) \/ SetPtr(x) \/ ClearPtr(x)
  \/ \E x \in Objects \cup Agents \cup {"config", "udp", "link_map"} :
       Check(x) \/ Fail(x)
  \/ \E a \in Threads : SpawnThread(a) \/ StartServer(a) \/ StopThread(a)
  \/ \E a \in Clients : StartClient(a) \/ StopClient(a)
  \/ \E x \in Parts : Down(x)
  \/ PollTakenForStarted \/ StopWild \/ CopyPointers \/ Booted \/ Exit

(***************************************************************************)
(* The callbacks that reach into other parts                               *)
(***************************************************************************)
Idle(a) == Running /\ a \in live /\ holds[a] = {}

Begin(a, objects) ==
  /\ Idle(a)
  /\ holds' = [holds EXCEPT ![a] = objects]
  /\ UNCHANGED <<todo, live, memory, failed, phase>>

(* api_transmit_callback_on_tls_subscribe_message reads app_publish_ and   *)
(* looks into it without asking whether it is NULL.                        *)
TlsMessage == "apub" \in ptr /\ Begin("tsub", {"apub"})

TlsMessageNull ==
  /\ Idle("tsub")
  /\ "apub" \notin ptr
  /\ phase' = "crashed"
  /\ UNCHANGED <<todo, agents, memory, failed>>

(* A link status request goes through the server and its request queue,    *)
(* whose lock was never initialised when the poll thread was not started.  *)
LinkInfo == Begin("rpc", {"server", "server_parts", "request"})

LinkInfoUninitialised ==
  /\ Idle("rpc")
  /\ "poll" \notin live
  /\ phase' = "crashed"
  /\ UNCHANGED <<todo, agents, memory, failed>>

(* A command starts the net proxy when it finds no link map loaded. *)
CommandStartsProxy ==
  /\ Idle("rpc")
  /\ copied' = ("apub" \in ptr)
  /\ live' \in {live, live \cup {"proxy"}}
  /\ UNCHANGED <<todo, alloc, ptr, holds, failed, phase>>

FilePublish == "server" \in ptr /\ Begin("fwork", {"server", "server_parts"})

(* s_tsr_tx is set and cleared with the pointer to the rate statistics. *)
AppMessage ==
  Begin("asub", (ptr \cap {"rate"})
                \cup IF "server" \in ptr THEN {"server", "server_parts"} ELSE {})

ProxyData == copied /\ Begin("proxy", {"apub"})

Return(a) ==
  /\ Running
  /\ holds[a] # {}
  /\ holds' = [holds EXCEPT ![a] = {}]
  /\ UNCHANGED <<todo, live, memory, failed, phase>>

Callback ==
  \/ TlsMessage \/ TlsMessageNull
  \/ LinkInfo \/ LinkInfoUninitialised \/ CommandStartsProxy
  \/ FilePublish \/ AppMessage \/ ProxyData
  \/ \E a \in Agents : Return(a)

Next == Main \/ Callback

Spec == Init /\ [][Next]_vars

(***************************************************************************)
(* Properties                                                              *)
(***************************************************************************)
(* No thread or client outlives the memory of its own part, whichever part *)
(* fails: the order of every clean-up in tls_server.c, file_transmit.c and *)
(* app_transmit.c.  The exception is tls_statis_rate_stop, which stops the *)
(* wrong threads.                                                          *)
OwnMemory ==
  \A a \in live \ {"proxy", "rate"} : Home[a] \subseteq alloc

(* A callback that works on freed memory does so while main cleans up, and *)
(* it is one of these: main frees app_publish under the TLS subscriber and *)
(* the proxy, and never stops the app subscriber.                          *)
StaleUse ==
  \A a \in Agents : \A x \in holds[a] \ alloc :
    /\ failed # "none"
    /\ <<a, x>> \in {<<"tsub", "apub">>, <<"proxy", "apub">>, <<"asub", "rate">>,
                     <<"asub", "server">>, <<"asub", "server_parts">>}

(* Once the daemon has come up, no message finds app_publish_ not set, as  *)
(* one that arrives while main still starts the parts may.  Of the crashes *)
(* of this module, all of them from the order of the starts, only the one  *)
(* of a request queue that was taken for started is left; crashes that the *)
(* contents of a message may cause are not in it.                          *)
StaysUp ==
  [][phase = "booted" /\ phase' = "crashed" => "poll" \notin live]_vars

(* When a daemon that could not start exits, what still runs is the app    *)
(* subscriber, the rate statistics and the proxy, and what is still        *)
(* allocated is the structure of the part that failed and the app          *)
(* subscriber's.                                                           *)
ExitLeaves ==
  phase = "exited" =>
    /\ live \subseteq {"asub", "rate", "proxy"}
    /\ alloc \subseteq
         {"asub"} \cup
         CASE failed \in {"server", "udp", "tpub", "tsub"} -> {"server"}
           [] failed \in {"file", "fsub"} -> {"file", "file_parts"}
           [] OTHER -> {failed}

(* Memory is freed neither too early nor, but for that, not at all.        *)
MemoryKept == OwnMemory /\ ExitLeaves

(* main frees nothing twice and nothing that it has not allocated, though  *)
(* a part's own clean-up and api_transmit_uninitialize both release it.    *)
FreedOnce == [][\A x \in Objects : Free(x) => x \in alloc]_vars
=============================================================================
