--------------------------- MODULE NetProxyBoot ---------------------------
(***************************************************************************)
(* Start of the network proxy (722device/network/tls_net_proxy.c and its   *)
(* two callers in app/app_transmit.c).  Two threads initialise the one     *)
(* global g_net_proxy and open its sockets: main, as the last step of      *)
(* api_transmit_initialize, and the RPC server's thread, which is already  *)
(* running then, from its callback whenever its own copy of the link map   *)
(* has no entries.  Neither takes a lock, and each step works on whatever  *)
(* proxy->tcp_fd or udp_fd holds at that moment.                           *)
(*                                                                         *)
(* Grain: one action per system call, with the read of the field that is   *)
(* its argument and the store of the descriptor that is its result; one    *)
(* per other store to a shared field.  The eight rings count as one and    *)
(* are initialised in one step; that this also sets up a mutex which a     *)
(* push or the transmit thread may hold is undefined and not modelled.     *)
(* Both starts copy the same configuration, and stop_listening_ stays      *)
(* false.  The configuration names both listening ports, as the shipped    *)
(* one does.  Threads can always be created, and the ports are nobody      *)
(* else's.  Listener threads that see no descriptor leave their loop;      *)
(* several may share one descriptor.                                       *)
(***************************************************************************)
EXTENDS Integers, FiniteSets

CONSTANTS
  Fd,         \* file descriptors, 0 .. k: socket() takes the lowest free one
  Counts      \* what the configuration file may say: 0 entries, or some

NoFd == -1
ASSUME FdAssumption     == Fd \subseteq Nat /\ IsFiniteSet(Fd)
ASSUME CountsAssumption == Counts \subseteq Nat

Actor == {"main", "rpc"}

VARIABLES
  file,             \* number of entries in link_map.json
  loaded,           \* s_link_map_config.count, the callback's static copy
  pc,               \* where main and the RPC thread are
  sock,             \* kernel: the state of each descriptor
  tcpfd, udpfd,     \* proxy->tcp_fd, proxy->udp_fd
  publish,          \* proxy->app_publish_ is set
  waiting,          \* a message waits in a ring
  emptied,          \* whose starts have emptied rings in which one waited
  tcps, udps, txs   \* how many TCP, UDP and transmit threads run

proxyVars  == <<tcpfd, udpfd, publish>>
ringVars   == <<waiting, emptied>>
threadVars == <<tcps, udps, txs>>
cfgVars    == <<file, loaded>>
vars       == <<cfgVars, pc, sock, proxyVars, ringVars, threadVars>>

(* A descriptor: closed; a TCP socket that is new, bound to the port,      *)
(* listening on it, or listening elsewhere; a UDP socket, new or bound.    *)
SockState == {"closed", "tcp", "tcpbound", "listening", "astray", "udp", "udpbound"}

(* The RPC server runs, the proxy does not.                                *)
Init ==
  /\ file \in Counts /\ loaded = 0
  /\ pc = [a \in Actor |-> IF a = "main" THEN "load" ELSE "idle"]
  /\ sock = [f \in Fd |-> "closed"]
  /\ tcpfd = NoFd /\ udpfd = NoFd /\ publish = FALSE
  /\ waiting = FALSE /\ emptied = {}
  /\ tcps = 0 /\ udps = 0 /\ txs = 0

Goto(a, l) == pc' = [pc EXCEPT ![a] = l]

(* Where tls_net_proxy_start_listening returns to: main gives up when it   *)
(* failed, the callback does not look.                                     *)
Return(a, ok) == Goto(a, IF a = "rpc" THEN "idle" ELSE IF ok THEN "up" ELSE "failed")

FreeFds   == {f \in Fd : sock[f] = "closed"}
LowestFree == CHOOSE f \in FreeFds : \A g \in FreeFds : f <= g

-----------------------------------------------------------------------------
(* Who starts.                                                             *)

MainStart ==
  /\ pc["main"] = "load"
  /\ Goto("main", "init")
  /\ UNCHANGED <<cfgVars, sock, proxyVars, ringVars, threadVars>>

(* The callback without entries: load them and start over (slip: whether   *)
(* or not it has them).                                                    *)
RpcReceiveAnew ==
  /\ pc["rpc"] = "idle" /\ pc["main"] # "gone"
  /\ loaded' = file
  /\ Goto("rpc", "init")
  /\ UNCHANGED <<file, sock, proxyVars, ringVars, threadVars>>

RpcReceive ==
  /\ pc["rpc"] = "idle" /\ pc["main"] # "gone"
  /\ loaded = 0
  /\ loaded' = file
  /\ Goto("rpc", "init")
  /\ UNCHANGED <<file, sock, proxyVars, ringVars, threadVars>>

(* The callback once it has entries pushes its message to a ring; the      *)
(* transmit thread takes what waits.                                       *)
RpcPush ==
  /\ pc["rpc"] = "idle" /\ pc["main"] # "gone"
  /\ loaded # 0
  /\ waiting' = TRUE
  /\ UNCHANGED <<cfgVars, pc, sock, proxyVars, emptied, threadVars>>

Transmit ==
  /\ txs > 0 /\ waiting
  /\ waiting' = FALSE
  /\ UNCHANGED <<cfgVars, pc, sock, proxyVars, emptied, threadVars>>

(* tls_net_proxy_init, one store after the other; tls_net_proxy_set_publish. *)
InitTcp(a) ==
  /\ pc[a] = "init"
  /\ tcpfd' = NoFd
  /\ Goto(a, "initudp")
  /\ UNCHANGED <<cfgVars, sock, udpfd, publish, ringVars, threadVars>>

InitUdp(a) ==
  /\ pc[a] = "initudp"
  /\ udpfd' = NoFd
  /\ Goto(a, "initpublish")
  /\ UNCHANGED <<cfgVars, sock, tcpfd, publish, ringVars, threadVars>>

InitPublish(a) ==
  /\ pc[a] = "initpublish"
  /\ publish' = FALSE
  /\ Goto(a, "initrings")
  /\ UNCHANGED <<cfgVars, sock, tcpfd, udpfd, ringVars, threadVars>>

(* net_proxy_prio_queue_init for every ring, whatever waits in it.         *)
InitRings(a) ==
  /\ pc[a] = "initrings"
  /\ waiting' = FALSE
  /\ emptied' = IF waiting THEN emptied \cup {a} ELSE emptied
  /\ Goto(a, "publish")
  /\ UNCHANGED <<cfgVars, sock, proxyVars, threadVars>>

ProxyInit(a) == InitTcp(a) \/ InitUdp(a) \/ InitPublish(a) \/ InitRings(a)

SetPublish(a) ==
  /\ pc[a] = "publish"
  /\ publish' = TRUE
  /\ Goto(a, "tcpsocket")
  /\ UNCHANGED <<cfgVars, sock, tcpfd, udpfd, ringVars, threadVars>>

-----------------------------------------------------------------------------
(* tls_net_proxy_start_listening, the TCP half.                            *)

TcpSocket(a) ==
  /\ pc[a] = "tcpsocket"
  /\ IF FreeFds = {}
     THEN /\ tcpfd' = NoFd /\ Return(a, FALSE)
          /\ UNCHANGED sock
     ELSE /\ tcpfd' = LowestFree
          /\ sock' = [sock EXCEPT ![LowestFree] = "tcp"]
          /\ Goto(a, "tcpbind")
  /\ UNCHANGED <<cfgVars, udpfd, publish, ringVars, threadVars>>

(* bind: SO_REUSEADDR shares the port until somebody listens on it.        *)
TcpBindable(f) == f # NoFd /\ sock[f] = "tcp" /\ \A g \in Fd : sock[g] # "listening"

TcpBind(a) ==
  /\ pc[a] = "tcpbind"
  /\ IF TcpBindable(tcpfd)
     THEN sock' = [sock EXCEPT ![tcpfd] = "tcpbound"] /\ Goto(a, "tcplisten")
     ELSE Goto(a, "tcpfail") /\ UNCHANGED sock
  /\ UNCHANGED <<cfgVars, proxyVars, ringVars, threadVars>>

(* listen: one listener per port; a socket the other thread has not bound  *)
(* yet gets a port of the kernel's choice.                                 *)
TcpListen(a) ==
  /\ pc[a] = "tcplisten"
  /\ LET ok == /\ tcpfd # NoFd
               /\ \/ sock[tcpfd] \in {"tcp", "listening", "astray"}
                  \/ sock[tcpfd] = "tcpbound" /\ \A g \in Fd : sock[g] # "listening"
     IN IF ok
        THEN /\ sock' = [sock EXCEPT ![tcpfd] = CASE @ = "tcp"      -> "astray"
                                                  [] @ = "tcpbound" -> "listening"
                                                  [] OTHER          -> @]
             /\ Goto(a, "tcpthread")
        ELSE Goto(a, "tcpfail") /\ UNCHANGED sock
  /\ UNCHANGED <<cfgVars, proxyVars, ringVars, threadVars>>

(* close(proxy->tcp_fd), whosever it is by now (slip: it is not closed).   *)
TcpFailForgets(a) ==
  /\ pc[a] = "tcpfail"
  /\ Goto(a, "tcpclear")
  /\ UNCHANGED <<cfgVars, sock, proxyVars, ringVars, threadVars>>

TcpFail(a) ==
  /\ pc[a] = "tcpfail"
  /\ sock' = IF tcpfd = NoFd THEN sock ELSE [sock EXCEPT ![tcpfd] = "closed"]
  /\ Goto(a, "tcpclear")
  /\ UNCHANGED <<cfgVars, proxyVars, ringVars, threadVars>>

(* proxy->tcp_fd = -1, whatever it holds by now (slip: it is kept).        *)
TcpClearKeeps(a) ==
  /\ pc[a] = "tcpclear"
  /\ Return(a, FALSE)
  /\ UNCHANGED <<cfgVars, sock, proxyVars, ringVars, threadVars>>

TcpClear(a) ==
  /\ pc[a] = "tcpclear"
  /\ tcpfd' = NoFd
  /\ Return(a, FALSE)
  /\ UNCHANGED <<cfgVars, sock, udpfd, publish, ringVars, threadVars>>

TcpThread(a) ==
  /\ pc[a] = "tcpthread"
  /\ tcps' = tcps + 1
  /\ Goto(a, "udpsocket")
  /\ UNCHANGED <<cfgVars, sock, proxyVars, ringVars, udps, txs>>

-----------------------------------------------------------------------------
(* The UDP half, and the transmit thread.                                  *)

UdpSocket(a) ==
  /\ pc[a] = "udpsocket"
  /\ IF FreeFds = {}
     THEN /\ udpfd' = NoFd /\ Return(a, FALSE)
          /\ UNCHANGED sock
     ELSE /\ udpfd' = LowestFree
          /\ sock' = [sock EXCEPT ![LowestFree] = "udp"]
          /\ Goto(a, "udpbind")
  /\ UNCHANGED <<cfgVars, tcpfd, publish, ringVars, threadVars>>

(* bind without SO_REUSEADDR (slip: with it).                              *)
UdpShared(f)   == f # NoFd /\ sock[f] = "udp"
UdpBindable(f) == f # NoFd /\ sock[f] = "udp" /\ \A g \in Fd : sock[g] # "udpbound"

UdpBind(a) ==
  /\ pc[a] = "udpbind"
  /\ IF UdpBindable(udpfd)
     THEN sock' = [sock EXCEPT ![udpfd] = "udpbound"] /\ Goto(a, "udpthread")
     ELSE Goto(a, "udpfail") /\ UNCHANGED sock
  /\ UNCHANGED <<cfgVars, proxyVars, ringVars, threadVars>>

UdpFail(a) ==
  /\ pc[a] = "udpfail"
  /\ sock' = IF udpfd = NoFd THEN sock ELSE [sock EXCEPT ![udpfd] = "closed"]
  /\ Goto(a, "udpclear")
  /\ UNCHANGED <<cfgVars, proxyVars, ringVars, threadVars>>

UdpClear(a) ==
  /\ pc[a] = "udpclear"
  /\ udpfd' = NoFd
  /\ Return(a, FALSE)
  /\ UNCHANGED <<cfgVars, sock, tcpfd, publish, ringVars, threadVars>>

UdpThread(a) ==
  /\ pc[a] = "udpthread"
  /\ udps' = udps + 1
  /\ Goto(a, "transmit")
  /\ UNCHANGED <<cfgVars, sock, proxyVars, ringVars, tcps, txs>>

TransmitThread(a) ==
  /\ pc[a] = "transmit"
  /\ txs' = txs + 1
  /\ Return(a, TRUE)
  /\ UNCHANGED <<cfgVars, sock, proxyVars, ringVars, tcps, udps>>

-----------------------------------------------------------------------------
(* A listener thread that reads a negative descriptor leaves its loop.     *)
TcpListenerExit ==
  /\ tcps > 0 /\ tcpfd = NoFd
  /\ tcps' = tcps - 1
  /\ UNCHANGED <<cfgVars, pc, sock, proxyVars, ringVars, udps, txs>>

UdpListenerExit ==
  /\ udps > 0 /\ udpfd = NoFd
  /\ udps' = udps - 1
  /\ UNCHANGED <<cfgVars, pc, sock, proxyVars, ringVars, tcps, txs>>

(* api_transmit_initialize failed: main stops the RPC server, closes what  *)
(* tls_net_proxy_uninit finds, and the process exits.                      *)
MainExit ==
  /\ pc["main"] = "failed" /\ pc["rpc"] = "idle"
  /\ Goto("main", "gone")
  /\ sock' = [f \in Fd |-> "closed"]
  /\ tcpfd' = NoFd /\ udpfd' = NoFd
  /\ tcps' = 0 /\ udps' = 0 /\ txs' = 0
  /\ UNCHANGED <<cfgVars, publish, ringVars>>

-----------------------------------------------------------------------------
StartListening(a) ==
  \/ TcpSocket(a) \/ TcpBind(a) \/ TcpListen(a) \/ TcpFail(a) \/ TcpClear(a) \/ TcpThread(a)
  \/ UdpSocket(a) \/ UdpBind(a) \/ UdpFail(a) \/ UdpClear(a) \/ UdpThread(a)
  \/ TransmitThread(a)

Next == \/ MainStart \/ RpcReceive \/ RpcPush \/ Transmit \/ MainExit
        \/ \E a \in Actor : ProxyInit(a) \/ SetPublish(a) \/ StartListening(a)
        \/ TcpListenerExit \/ UdpListenerExit

Spec == Init /\ [][Next]_vars

-----------------------------------------------------------------------------
Settled == pc["main"] = "up" /\ pc["rpc"] = "idle"

(* However often the proxy is started over, and although nothing guards    *)
(* the start, the rings have one consumer: two starts never both get past  *)
(* the UDP port.  Module NetProxyQueue relies on this.                     *)
OneTransmitter == txs <= 1 /\ (pc["main"] = "up" => txs = 1)

(* When no start is under way, a descriptor the proxy has is a socket on   *)
(* the configured port with a thread to serve it: a start that lost a race *)
(* never leaves a stray or a dead descriptor in the field.                 *)
SettledServed ==
  Settled => /\ tcpfd # NoFd => sock[tcpfd] = "listening" /\ tcps > 0
             /\ udpfd # NoFd => sock[udpfd] = "udpbound" /\ udps > 0

(* Starting over forgets open sockets, but not one more with every RPC:    *)
(* the forgotten ones hold the ports, so later starts fail and clean up.   *)
(* The seventh is one that the RPC thread opened between main's close of   *)
(* its own and the store of -1.                                            *)
Forgotten   == {f \in Fd : sock[f] # "closed" /\ f \notin {tcpfd, udpfd}}
LeakBounded == Cardinality(Forgotten) <= 7

(* A start over drops what waits in the rings, but only main's, of which   *)
(* there is one: the RPC thread, which puts messages there, does not drop  *)
(* its own.                                                                *)
RingsKept == emptied \subseteq {"main"}

(* What starting the proxy over, again and again, may not spoil.           *)
RestartsContained == SettledServed /\ LeakBounded /\ RingsKept
=============================================================================
