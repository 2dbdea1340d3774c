------------------------- MODULE NetProxyBootProofs -------------------------
(***************************************************************************)
(* The start of the network proxy: the rings never get a second consumer,  *)
(* for any number of descriptors and however often the proxy is started    *)
(* over.  Nothing guards the start; what keeps a second one from its end   *)
(* is that one of the two ports is taken.  Usually it is the UDP port.     *)
(* But a start that finds the other's socket in proxy->udp_fd closes it    *)
(* when its own bind fails; then the TCP port must be taken, and by a      *)
(* socket that no start under way can close.                               *)
(*                                                                         *)
(* And the sockets that a start over forgets: only main's start, and there *)
(* is one, can make the loss grow; the RPC thread's starts, of which there *)
(* may be any number, clear up what they open.  The proof keeps an account *)
(* of what main's start can still cost.                                    *)
(*                                                                         *)
(* Between a close and the store of -1 a field may hold a closed           *)
(* descriptor, and even one that has become a socket of the other kind; in *)
(* the latter case the only thread that still looks at the field is the    *)
(* one that will store the -1.                                             *)
(***************************************************************************)
EXTENDS NetProxyBoot, WellFoundedInduction, FiniteSetTheorems, TLAPS

Other(a) == IF a = "main" THEN "rpc" ELSE "main"

Inits   == {"init", "initudp", "initpublish", "initrings", "publish"}
TcpPart == {"tcpsocket", "tcpbind", "tcplisten", "tcpfail", "tcpclear"}
UdpPart == {"tcpthread", "udpsocket", "udpbind", "udpfail", "udpthread", "transmit"}
Start   == Inits \cup TcpPart \cup UdpPart \cup {"udpclear"}

Types ==
  /\ pc \in [Actor -> Start \cup {"load", "up", "failed", "gone", "idle"}]
  /\ pc["main"] # "idle" /\ pc["rpc"] \notin {"load", "up", "failed", "gone"}
  /\ pc["main"] = "gone" => pc["rpc"] = "idle"
  /\ sock \in [Fd -> SockState]
  /\ tcpfd \in Fd \cup {NoFd} /\ udpfd \in Fd \cup {NoFd}
  /\ txs \in {0, 1}

(* The fields refer to open sockets of their kind, but for what a thread    *)
(* has closed and is about to clear: that may be open again as a socket of *)
(* the other kind, which the other thread opened and keeps elsewhere.      *)
TcpKind == {"tcp", "tcpbound", "listening", "astray"}
UdpKind == {"udp", "udpbound"}

Fields ==
  /\ tcpfd # NoFd /\ sock[tcpfd] \notin TcpKind =>
       \E a \in Actor :
         /\ pc[a] = "tcpclear"
         /\ \/ sock[tcpfd] = "closed"
            \/ pc[Other(a)] \notin {"tcpbind", "tcplisten", "tcpfail", "tcpclear"}
  /\ udpfd # NoFd /\ sock[udpfd] \notin UdpKind =>
       \E a \in Actor :
         /\ pc[a] = "udpclear"
         /\ \/ sock[udpfd] = "closed"
            \/ pc[Other(a)] \notin {"udpbind", "udpfail", "udpclear"}

Listening == \E f \in Fd : sock[f] = "listening"
UdpTaken  == \E f \in Fd : sock[f] = "udpbound"
CurrentTaken == udpfd # NoFd /\ sock[udpfd] = "udpbound"

(* Past the UDP bind, and past it or done. *)
Won(a)  == pc[a] \in {"udpthread", "transmit"}
Started == txs = 1 \/ \E a \in Actor : Won(a)

(* About to listen on a socket that is not bound: the other opened it, and *)
(* has yet to bind it, or to find that it cannot. *)
ListenRace ==
  \A a \in Actor :
    pc[a] = "tcplisten" /\ tcpfd # NoFd /\ sock[tcpfd] \in {"tcp", "astray"}
      => pc[Other(a)] \in {"tcpbind", "tcpfail"}

(* Two starts get past the TCP part only if one of them listens. *)
BothListen == (\A a \in Actor : pc[a] \in UdpPart) => Listening

(* The one that may close the socket the other has bound: the TCP port is  *)
(* taken then, and stays so. *)
CloseRace ==
  \A a \in Actor :
    pc[a] \in {"udpbind", "udpfail"} /\ CurrentTaken
      => /\ Listening
         /\ pc[Other(a)] \in {"udpthread", "transmit"} \cup (IF a = "main" THEN {"idle", "init", "initudp"} ELSE {"up"})

(* When it has closed it, no start gets past the TCP part. *)
Barred ==
  Started /\ ~UdpTaken =>
    /\ Listening
    /\ pc["main"] \in {"udpthread", "transmit", "up", "udpclear", "failed"}
    /\ pc["rpc"] \in Inits \cup {"idle", "tcpsocket", "tcpbind", "tcpfail", "tcpclear",
                               "udpthread", "transmit", "udpclear"}
    /\ pc["rpc"] \in {"tcpbind", "tcpfail"} /\ tcpfd # NoFd => sock[tcpfd] = "tcp"

OneWins ==
  /\ \A a \in Actor : Won(a) => txs = 0 /\ ~Won(Other(a))
  /\ pc["main"] = "up" => txs = 1

IInv == Types /\ Fields /\ ListenRace /\ BothListen /\ CloseRace /\ Barred /\ OneWins

-----------------------------------------------------------------------------
(* A set of descriptors that is not empty has a lowest. *)
LEMMA LowestIsFree == FreeFds # {} => LowestFree \in FreeFds
<1> SUFFICES ASSUME FreeFds # {} PROVE LowestFree \in FreeFds
  OBVIOUS
<1>1. FreeFds \subseteq Nat
  BY FdAssumption DEF FreeFds
<1> DEFINE R == {ss \in Nat \X Nat : ss[1] < ss[2]}
<1>2. PICK f \in FreeFds : \A g \in FreeFds : ~(<<g, f>> \in R)
  <2>1. IsWellFoundedOn(R, Nat)
    BY NatLessThanWellFounded, Zenon DEF OpToRel
  <2> HIDE DEF R
  <2> QED
    BY <1>1, <2>1, WFMin
<1>3. \A g \in FreeFds : f <= g
  <2> SUFFICES ASSUME NEW g \in FreeFds PROVE f <= g
    OBVIOUS
  <2>1. f \in Nat /\ g \in Nat
    BY <1>1
  <2>2. ~(g < f)
    BY <1>2, <2>1
  <2> QED
    BY <2>1, <2>2
<1> QED
  BY <1>3 DEF LowestFree

LEMMA Others ==
  ASSUME NEW a \in Actor
  PROVE  /\ Other(a) \in Actor /\ Other(a) # a /\ Other(Other(a)) = a
         /\ \A b \in Actor : b = a \/ b = Other(a)
  BY DEF Actor, Other

(* What a thread binds, listens on or closes is a socket of the right kind,  *)
(* or closed already. *)
LEMMA RightKind ==
  ASSUME Fields, NEW a \in Actor
  PROVE  /\ pc[a] \in {"tcpbind", "tcplisten", "tcpfail"} /\ tcpfd # NoFd
              => sock[tcpfd] \in TcpKind \cup {"closed"}
         /\ pc[a] \in {"udpbind", "udpfail"} /\ udpfd # NoFd
              => sock[udpfd] \in UdpKind \cup {"closed"}
<1>1. \A b \in Actor : b = a \/ a = Other(b)
  BY DEF Actor, Other
<1> QED
  BY <1>1 DEF Fields

LEMMA InitInv == Init => IInv
<1> SUFFICES ASSUME Init PROVE IInv
  OBVIOUS
<1>1. Types
  BY DEF Init, Types, Actor, SockState, Start
<1>2. /\ \A a \in Actor : pc[a] \in {"load", "idle"}
      /\ "main" \in Actor /\ pc["main"] = "load" /\ txs = 0 /\ tcpfd = NoFd /\ udpfd = NoFd
  BY DEF Init, Actor
<1>3. Fields /\ ListenRace /\ CloseRace
  BY <1>2 DEF Fields, ListenRace, CloseRace
<1>4. BothListen
  BY <1>2 DEF BothListen, UdpPart
<1>5. \A a \in Actor : ~Won(a)
  BY <1>2 DEF Won
<1>6. Barred /\ OneWins
  BY <1>2, <1>5 DEF Barred, Started, OneWins
<1> QED
  BY <1>1, <1>3, <1>4, <1>6 DEF IInv

(* Steps that go from one label to another and open or close no socket. *)
LEMMA GotoInv ==
  ASSUME IInv, NEW a \in Actor, NEW l, pc' = [pc EXCEPT ![a] = l],
         UNCHANGED <<sock, tcpfd, udpfd, txs>>,
         \/ pc[a] = "load" /\ a = "main" /\ l = "init"
         \/ pc[a] = "idle" /\ a = "rpc" /\ l = "init" /\ pc["main"] # "gone"
         \/ pc[a] = "initpublish" /\ l = "initrings"
         \/ pc[a] = "initrings" /\ l = "publish"
         \/ pc[a] = "publish" /\ l = "tcpsocket"
         \/ pc[a] = "tcpthread" /\ l = "udpsocket"
         \/ pc[a] = "udpthread" /\ l = "transmit"
  PROVE  IInv'
<1>1. /\ Other(a) \in Actor /\ Other(a) # a /\ \A b \in Actor : b = a \/ b = Other(a)
      /\ Other(Other(a)) = a /\ "main" \in Actor /\ "rpc" \in Actor
      /\ (a = "main" /\ Other(a) = "rpc") \/ (a = "rpc" /\ Other(a) = "main")
  BY Others DEF Actor, Other
<1>2. /\ pc'[a] = l /\ pc'[Other(a)] = pc[Other(a)]
      /\ pc \in [Actor -> Start \cup {"load", "up", "failed", "gone", "idle"}]
  BY <1>1 DEF IInv, Types
<1>3. Types'
  BY <1>1, <1>2 DEF IInv, Types, Start, Inits, TcpPart, UdpPart
<1>4. Fields'
  BY <1>1, <1>2 DEF IInv, Fields
<1>5. ListenRace'
  BY <1>1, <1>2 DEF IInv, ListenRace
<1>6. BothListen'
  BY <1>1, <1>2 DEF IInv, BothListen, Listening, UdpPart
<1>7. CloseRace'
  BY <1>1, <1>2 DEF IInv, CloseRace, CurrentTaken, Listening
<1>8. \A b \in Actor : Won(b)' <=> Won(b)
  BY <1>1, <1>2 DEF Won
<1>9. Barred'
  BY <1>1, <1>2, <1>8 DEF IInv, Barred, Started, UdpTaken, Listening, Inits
<1>10. OneWins'
  BY <1>1, <1>2, <1>8 DEF IInv, OneWins
<1> QED
  BY <1>3, <1>4, <1>5, <1>6, <1>7, <1>9, <1>10 DEF IInv

(* The start over forgets both descriptors, one after the other. *)
LEMMA InitTcpInv ==
  ASSUME IInv, NEW a \in Actor, InitTcp(a)
  PROVE  IInv'
<1>1. /\ Other(a) \in Actor /\ Other(a) # a /\ \A b \in Actor : b = a \/ b = Other(a)
      /\ Other(Other(a)) = a /\ "main" \in Actor /\ "rpc" \in Actor
      /\ (a = "main" /\ Other(a) = "rpc") \/ (a = "rpc" /\ Other(a) = "main")
  BY Others DEF Actor, Other
<1>2. /\ pc[a] = "init" /\ pc'[a] = "initudp" /\ pc'[Other(a)] = pc[Other(a)]
      /\ pc' = [pc EXCEPT ![a] = "initudp"]
      /\ tcpfd' = NoFd /\ UNCHANGED <<sock, udpfd, txs>>
  BY <1>1 DEF IInv, Types, InitTcp, Goto, threadVars
<1>3. Types'
  BY <1>1, <1>2 DEF IInv, Types, Start, Inits
<1>4. Fields' /\ ListenRace'
  BY <1>1, <1>2 DEF IInv, Fields, ListenRace
<1>5. BothListen'
  BY <1>1, <1>2 DEF BothListen, UdpPart
<1>6. CloseRace'
  BY <1>1, <1>2 DEF IInv, CloseRace, CurrentTaken, Listening
<1>7. \A b \in Actor : Won(b)' <=> Won(b)
  BY <1>1, <1>2 DEF Won
<1>8. Barred'
  BY <1>1, <1>2, <1>7 DEF IInv, Barred, Started, UdpTaken, Listening, Inits
<1>9. OneWins'
  BY <1>1, <1>2, <1>7 DEF IInv, OneWins
<1> QED
  BY <1>3, <1>4, <1>5, <1>6, <1>8, <1>9 DEF IInv

LEMMA InitUdpInv ==
  ASSUME IInv, NEW a \in Actor, InitUdp(a)
  PROVE  IInv'
<1>1. /\ Other(a) \in Actor /\ Other(a) # a /\ \A b \in Actor : b = a \/ b = Other(a)
      /\ Other(Other(a)) = a /\ "main" \in Actor /\ "rpc" \in Actor
      /\ (a = "main" /\ Other(a) = "rpc") \/ (a = "rpc" /\ Other(a) = "main")
  BY Others DEF Actor, Other
<1>2. /\ pc[a] = "initudp" /\ pc'[a] = "initpublish" /\ pc'[Other(a)] = pc[Other(a)]
      /\ pc' = [pc EXCEPT ![a] = "initpublish"]
      /\ udpfd' = NoFd /\ UNCHANGED <<sock, tcpfd, txs>>
  BY <1>1 DEF IInv, Types, InitUdp, Goto, threadVars
<1>3. Types'
  BY <1>1, <1>2 DEF IInv, Types, Start, Inits
<1>4. Fields' /\ ListenRace' /\ CloseRace'
  BY <1>1, <1>2 DEF IInv, Fields, ListenRace, CloseRace, CurrentTaken
<1>5. BothListen'
  BY <1>1, <1>2 DEF BothListen, UdpPart
<1>6. \A b \in Actor : Won(b)' <=> Won(b)
  BY <1>1, <1>2 DEF Won
<1>7. Barred'
  BY <1>1, <1>2, <1>6 DEF IInv, Barred, Started, UdpTaken, Listening, Inits
<1>8. OneWins'
  BY <1>1, <1>2, <1>6 DEF IInv, OneWins
<1> QED
  BY <1>3, <1>4, <1>5, <1>7, <1>8 DEF IInv

LEMMA TcpSocketInv ==
  ASSUME IInv, NEW a \in Actor, TcpSocket(a)
  PROVE  IInv'
<1>1. /\ Other(a) \in Actor /\ Other(a) # a /\ \A b \in Actor : b = a \/ b = Other(a)
      /\ Other(Other(a)) = a /\ "main" \in Actor /\ "rpc" \in Actor
      /\ (a = "main" /\ Other(a) = "rpc") \/ (a = "rpc" /\ Other(a) = "main")
  BY Others DEF Actor, Other
<1>2. CASE FreeFds = {}
  <2>1. /\ pc[a] = "tcpsocket" /\ pc'[a] = (IF a = "rpc" THEN "idle" ELSE "failed") /\ pc'[Other(a)] = pc[Other(a)]
        /\ pc' = [pc EXCEPT ![a] = IF a = "rpc" THEN "idle" ELSE "failed"]
        /\ tcpfd' = NoFd /\ UNCHANGED <<sock, udpfd, txs>>
    BY <1>1, <1>2 DEF IInv, Types, TcpSocket, Goto, Return, threadVars
  <2>2. Types'
    BY <1>1, <2>1 DEF IInv, Types
  <2>3. Fields' /\ ListenRace'
    BY <1>1, <2>1 DEF IInv, Fields, ListenRace
  <2>4. BothListen'
    BY <1>1, <2>1 DEF BothListen, UdpPart
  <2>5. CloseRace'
    BY <1>1, <2>1 DEF IInv, CloseRace, CurrentTaken, Listening
  <2>6. \A b \in Actor : Won(b)' <=> Won(b)
    BY <1>1, <2>1 DEF Won
  <2>7. Barred'
    BY <1>1, <2>1, <2>6 DEF IInv, Barred, Started, UdpTaken, Listening
  <2>8. OneWins'
    BY <1>1, <2>1, <2>6 DEF IInv, OneWins
  <2> QED
    BY <2>2, <2>3, <2>4, <2>5, <2>7, <2>8 DEF IInv
<1>3. CASE FreeFds # {}
  <2>1. PICK f \in Fd : f = LowestFree /\ sock[f] = "closed"
    BY <1>3, LowestIsFree DEF FreeFds
  <2>2. /\ pc[a] = "tcpsocket" /\ pc'[a] = "tcpbind" /\ pc'[Other(a)] = pc[Other(a)]
        /\ pc' = [pc EXCEPT ![a] = "tcpbind"]
        /\ tcpfd' = f /\ sock' = [sock EXCEPT ![f] = "tcp"] /\ UNCHANGED <<udpfd, txs>>
    BY <1>1, <1>3, <2>1 DEF IInv, Types, TcpSocket, Goto, threadVars
  <2>3. sock'[f] = "tcp" /\ (\A g \in Fd : g # f => sock'[g] = sock[g]) /\ tcpfd' # NoFd
    BY <2>1, <2>2, FdAssumption DEF IInv, Types, NoFd
  <2>4. Types'
    BY <1>1, <2>1, <2>2 DEF IInv, Types, Start, TcpPart, SockState
  <2>5. udpfd = f => pc[Other(a)] = "udpclear"
    BY <1>1, <2>1, <2>2, <2>3 DEF IInv, Fields, UdpKind
  <2>6. Fields'
    <3>1. sock'[tcpfd'] \in TcpKind
      BY <2>2, <2>3 DEF TcpKind
    <3>2. CASE udpfd = f
      BY <1>1, <2>2, <2>5, <3>1, <3>2 DEF Fields
    <3>3. CASE udpfd # f
      BY <1>1, <2>2, <2>3, <3>1, <3>3 DEF IInv, Fields, Types
    <3> QED
      BY <3>2, <3>3
  <2>7. (Listening => Listening') /\ (UdpTaken => UdpTaken') /\ (UdpTaken' => UdpTaken) /\ (CurrentTaken' => CurrentTaken)
    BY <2>1, <2>2, <2>3 DEF Listening, UdpTaken, CurrentTaken, IInv, Types
  <2>8. ListenRace'
    BY <1>1, <2>2 DEF ListenRace
  <2>9. BothListen'
    BY <1>1, <2>2 DEF BothListen, UdpPart
  <2>10. CloseRace'
    BY <1>1, <2>2, <2>7 DEF IInv, CloseRace
  <2>11. \A b \in Actor : Won(b)' <=> Won(b)
    BY <1>1, <2>2 DEF Won
  <2>12. Barred'
    BY <1>1, <2>2, <2>3, <2>7, <2>11 DEF IInv, Barred, Started
  <2>13. OneWins'
    BY <1>1, <2>2, <2>11 DEF IInv, OneWins
  <2> QED
    BY <2>4, <2>6, <2>8, <2>9, <2>10, <2>12, <2>13 DEF IInv
<1> QED
  BY <1>2, <1>3

LEMMA TcpBindInv ==
  ASSUME IInv, NEW a \in Actor, TcpBind(a)
  PROVE  IInv'
<1>1. /\ Other(a) \in Actor /\ Other(a) # a /\ \A b \in Actor : b = a \/ b = Other(a)
      /\ Other(Other(a)) = a /\ "main" \in Actor /\ "rpc" \in Actor
      /\ (a = "main" /\ Other(a) = "rpc") \/ (a = "rpc" /\ Other(a) = "main")
  BY Others DEF Actor, Other
<1>2. CASE TcpBindable(tcpfd)
  <2>1. tcpfd \in Fd /\ tcpfd # NoFd /\ sock[tcpfd] = "tcp" /\ ~Listening
    BY <1>2 DEF TcpBindable, Listening, IInv, Types
  <2>2. /\ pc[a] = "tcpbind" /\ pc'[a] = "tcplisten" /\ pc'[Other(a)] = pc[Other(a)]
        /\ pc' = [pc EXCEPT ![a] = "tcplisten"]
        /\ sock' = [sock EXCEPT ![tcpfd] = "tcpbound"] /\ UNCHANGED <<tcpfd, udpfd, txs>>
    BY <1>1, <1>2 DEF IInv, Types, TcpBind, Goto, threadVars, proxyVars
  <2>3. sock'[tcpfd] = "tcpbound" /\ \A g \in Fd : g # tcpfd => sock'[g] = sock[g]
    BY <2>1, <2>2 DEF IInv, Types
  <2>4. Types'
    BY <1>1, <2>1, <2>2 DEF IInv, Types, Start, TcpPart, SockState
  <2>5. Fields'
    BY <1>1, <2>1, <2>2, <2>3 DEF IInv, Fields, Types, TcpKind, UdpKind
  <2>6. (UdpTaken' => UdpTaken) /\ (UdpTaken => UdpTaken') /\ (CurrentTaken' => CurrentTaken)
    BY <2>1, <2>2, <2>3 DEF UdpTaken, CurrentTaken, IInv, Types
  <2>7. ListenRace'
    BY <2>2, <2>3 DEF ListenRace
  <2>8. BothListen'
    BY <1>1, <2>2 DEF BothListen, UdpPart
  <2>9. CloseRace'
    BY <1>1, <2>1, <2>2, <2>6 DEF IInv, CloseRace
  <2>10. \A b \in Actor : Won(b)' <=> Won(b)
    BY <1>1, <2>2 DEF Won
  <2>11. Barred'
    BY <1>1, <2>1, <2>2, <2>6, <2>10 DEF IInv, Barred, Started
  <2>12. OneWins'
    BY <1>1, <2>2, <2>10 DEF IInv, OneWins
  <2> QED
    BY <2>4, <2>5, <2>7, <2>8, <2>9, <2>11, <2>12 DEF IInv
<1>3. CASE ~TcpBindable(tcpfd)
  <2>1. /\ pc[a] = "tcpbind" /\ pc'[a] = "tcpfail" /\ pc'[Other(a)] = pc[Other(a)]
        /\ pc' = [pc EXCEPT ![a] = "tcpfail"] /\ UNCHANGED <<sock, tcpfd, udpfd, txs>>
    BY <1>1, <1>3 DEF IInv, Types, TcpBind, Goto, threadVars, proxyVars
  <2>2. Types'
    BY <1>1, <2>1 DEF IInv, Types, Start, TcpPart
  <2>3. Fields'
    BY <1>1, <2>1 DEF IInv, Fields
  <2>4. ListenRace'
    BY <1>1, <2>1 DEF IInv, ListenRace
  <2>5. BothListen'
    BY <1>1, <2>1 DEF BothListen, UdpPart
  <2>6. CloseRace'
    BY <1>1, <2>1 DEF IInv, CloseRace, CurrentTaken, Listening
  <2>7. \A b \in Actor : Won(b)' <=> Won(b)
    BY <1>1, <2>1 DEF Won
  <2>8. Barred'
    BY <1>1, <2>1, <2>7 DEF IInv, Barred, Started, UdpTaken, Listening
  <2>9. OneWins'
    BY <1>1, <2>1, <2>7 DEF IInv, OneWins
  <2> QED
    BY <2>2, <2>3, <2>4, <2>5, <2>6, <2>8, <2>9 DEF IInv
<1> QED
  BY <1>2, <1>3

LEMMA TcpListenInv ==
  ASSUME IInv, NEW a \in Actor, TcpListen(a)
  PROVE  IInv'
<1>1. /\ Other(a) \in Actor /\ Other(a) # a /\ \A b \in Actor : b = a \/ b = Other(a)
      /\ Other(Other(a)) = a /\ "main" \in Actor /\ "rpc" \in Actor
      /\ (a = "main" /\ Other(a) = "rpc") \/ (a = "rpc" /\ Other(a) = "main")
  BY Others DEF Actor, Other
<1> DEFINE ok == /\ tcpfd # NoFd
                 /\ \/ sock[tcpfd] \in {"tcp", "listening", "astray"}
                    \/ sock[tcpfd] = "tcpbound" /\ \A g \in Fd : sock[g] # "listening"
<1>2. CASE ok
  <2>1. tcpfd \in Fd /\ tcpfd # NoFd /\ sock[tcpfd] \in {"tcp", "listening", "astray", "tcpbound"}
    BY <1>2 DEF IInv, Types
  <2>2. /\ pc[a] = "tcplisten" /\ pc'[a] = "tcpthread" /\ pc'[Other(a)] = pc[Other(a)]
        /\ pc' = [pc EXCEPT ![a] = "tcpthread"] /\ UNCHANGED <<tcpfd, udpfd, txs>>
        /\ sock' = [sock EXCEPT ![tcpfd] = CASE sock[tcpfd] = "tcp"      -> "astray"
                                             [] sock[tcpfd] = "tcpbound" -> "listening"
                                             [] OTHER                    -> sock[tcpfd]]
    BY <1>1, <1>2, <2>1 DEF IInv, Types, TcpListen, Goto, threadVars, proxyVars
  <2>3. /\ \A g \in Fd : g # tcpfd => sock'[g] = sock[g]
        /\ sock'[tcpfd] \in {"listening", "astray"}
        /\ sock[tcpfd] \in {"tcpbound", "listening"} => sock'[tcpfd] = "listening"
        /\ sock' \in [Fd -> SockState]
    BY <2>1, <2>2 DEF IInv, Types, SockState
  <2>4. Types'
    BY <1>1, <2>2, <2>3 DEF IInv, Types, Start, UdpPart
  <2>5. Fields'
    BY <1>1, <2>1, <2>2, <2>3 DEF IInv, Fields, Types, TcpKind, UdpKind
  <2>6. (Listening => Listening') /\ (UdpTaken' <=> UdpTaken) /\ (CurrentTaken' => CurrentTaken)
    BY <2>1, <2>2, <2>3 DEF Listening, UdpTaken, CurrentTaken, IInv, Types
  <2>7. ListenRace'
    <3>1. pc[Other(a)] = "tcplisten" => sock'[tcpfd] = "listening"
      BY <1>1, <2>1, <2>2, <2>3 DEF IInv, ListenRace
    <3> QED
      BY <1>1, <2>2, <3>1 DEF ListenRace
  <2>8. BothListen'
    <3>1. pc[Other(a)] \in UdpPart => sock'[tcpfd] = "listening"
      BY <1>1, <2>1, <2>2, <2>3 DEF IInv, ListenRace, UdpPart
    <3> QED
      BY <1>1, <2>1, <2>2, <3>1 DEF BothListen, Listening
  <2>9. CloseRace'
    BY <1>1, <2>2, <2>6 DEF IInv, CloseRace
  <2>10. \A b \in Actor : Won(b)' <=> Won(b)
    BY <1>1, <2>2 DEF Won
  <2>11. Barred'
    BY <1>1, <2>2, <2>6, <2>10 DEF IInv, Barred, Started, Inits
  <2>12. OneWins'
    BY <1>1, <2>2, <2>10 DEF IInv, OneWins
  <2> QED
    BY <2>4, <2>5, <2>7, <2>8, <2>9, <2>11, <2>12 DEF IInv
<1>3. CASE ~ok
  <2>1. /\ pc[a] = "tcplisten" /\ pc'[a] = "tcpfail" /\ pc'[Other(a)] = pc[Other(a)]
        /\ pc' = [pc EXCEPT ![a] = "tcpfail"] /\ UNCHANGED <<sock, tcpfd, udpfd, txs>>
    BY <1>1, <1>3 DEF IInv, Types, TcpListen, Goto, threadVars, proxyVars
  <2>2. Types'
    BY <1>1, <2>1 DEF IInv, Types, Start, TcpPart
  <2>3. Fields'
    BY <1>1, <2>1 DEF IInv, Fields
  <2>4. ListenRace'
    BY <1>1, <2>1 DEF IInv, ListenRace
  <2>5. BothListen'
    BY <1>1, <2>1 DEF BothListen, UdpPart
  <2>6. CloseRace'
    BY <1>1, <2>1 DEF IInv, CloseRace, CurrentTaken, Listening
  <2>7. \A b \in Actor : Won(b)' <=> Won(b)
    BY <1>1, <2>1 DEF Won
  <2>8. Barred'
    BY <1>1, <2>1, <2>7 DEF IInv, Barred, Started, UdpTaken, Listening, Inits
  <2>9. OneWins'
    BY <1>1, <2>1, <2>7 DEF IInv, OneWins
  <2> QED
    BY <2>2, <2>3, <2>4, <2>5, <2>6, <2>8, <2>9 DEF IInv
<1> QED
  BY <1>2, <1>3

(* The close, whosever socket it is. *)
LEMMA TcpFailInv ==
  ASSUME IInv, NEW a \in Actor, TcpFail(a)
  PROVE  IInv'
<1>1. /\ Other(a) \in Actor /\ Other(a) # a /\ \A b \in Actor : b = a \/ b = Other(a)
      /\ Other(Other(a)) = a /\ "main" \in Actor /\ "rpc" \in Actor
      /\ (a = "main" /\ Other(a) = "rpc") \/ (a = "rpc" /\ Other(a) = "main")
  BY Others DEF Actor, Other
<1>2. /\ pc[a] = "tcpfail" /\ pc'[a] = "tcpclear" /\ pc'[Other(a)] = pc[Other(a)]
      /\ pc' = [pc EXCEPT ![a] = "tcpclear"]
      /\ sock' = (IF tcpfd = NoFd THEN sock ELSE [sock EXCEPT ![tcpfd] = "closed"])
      /\ UNCHANGED <<tcpfd, udpfd, txs>>
  BY <1>1 DEF IInv, Types, TcpFail, Goto, threadVars, proxyVars
<1>3. /\ sock' \in [Fd -> SockState]
      /\ \A g \in Fd : sock'[g] = IF g = tcpfd THEN "closed" ELSE sock[g]
  BY <1>2, FdAssumption DEF IInv, Types, SockState, NoFd
<1>4. Types'
  BY <1>1, <1>2, <1>3 DEF IInv, Types, Start, TcpPart
<1>5. tcpfd # NoFd => sock[tcpfd] \in TcpKind \cup {"closed"}
  BY <1>2, RightKind DEF IInv
<1>6. Fields'
  <2>1. tcpfd # NoFd => sock'[tcpfd] = "closed"
    BY <1>3 DEF IInv, Types
  <2>2. udpfd # NoFd /\ sock'[udpfd] \notin UdpKind
          => \E b \in Actor :
               /\ pc'[b] = "udpclear"
               /\ sock'[udpfd] = "closed" \/ pc'[Other(b)] \notin {"udpbind", "udpfail", "udpclear"}
    BY <1>1, <1>2, <1>3, <1>5 DEF IInv, Types, Fields, TcpKind, UdpKind
  <2> QED
    BY <1>2, <2>1, <2>2 DEF Fields
<1>7. ListenRace'
  BY <1>1, <1>2, <1>3 DEF IInv, Types, ListenRace
<1>8. BothListen'
  BY <1>1, <1>2 DEF BothListen, UdpPart
<1>9. (UdpTaken' <=> UdpTaken) /\ (CurrentTaken' => CurrentTaken)
  BY <1>2, <1>3, <1>5 DEF UdpTaken, CurrentTaken, IInv, Types, TcpKind
<1>10. CloseRace'
  BY <1>1, <1>2, <1>9 DEF IInv, CloseRace
<1>11. \A b \in Actor : Won(b)' <=> Won(b)
  BY <1>1, <1>2 DEF Won
<1>12. Barred'
  <2> SUFFICES ASSUME Started, ~UdpTaken
               PROVE  /\ Listening'
                      /\ pc'["main"] \in {"udpthread", "transmit", "up", "udpclear", "failed"}
                      /\ pc'["rpc"] = "tcpclear"
    BY <1>2, <1>9, <1>11 DEF Barred, Started
  <2>1. a = "rpc" /\ Listening /\ (tcpfd # NoFd => sock[tcpfd] = "tcp")
    BY <1>1, <1>2 DEF IInv, Barred
  <2>2. Listening'
    BY <1>3, <2>1, FdAssumption DEF Listening, NoFd
  <2> QED
    BY <1>1, <1>2, <2>1, <2>2 DEF IInv, Barred
<1>13. OneWins'
  BY <1>1, <1>2, <1>11 DEF IInv, OneWins
<1> QED
  BY <1>4, <1>6, <1>7, <1>8, <1>10, <1>12, <1>13 DEF IInv

LEMMA TcpClearInv ==
  ASSUME IInv, NEW a \in Actor, TcpClear(a)
  PROVE  IInv'
<1>1. /\ Other(a) \in Actor /\ Other(a) # a /\ \A b \in Actor : b = a \/ b = Other(a)
      /\ Other(Other(a)) = a /\ "main" \in Actor /\ "rpc" \in Actor
      /\ (a = "main" /\ Other(a) = "rpc") \/ (a = "rpc" /\ Other(a) = "main")
  BY Others DEF Actor, Other
<1>2. /\ pc[a] = "tcpclear" /\ pc'[a] = (IF a = "rpc" THEN "idle" ELSE "failed") /\ pc'[Other(a)] = pc[Other(a)]
      /\ pc' = [pc EXCEPT ![a] = IF a = "rpc" THEN "idle" ELSE "failed"]
      /\ tcpfd' = NoFd /\ UNCHANGED <<sock, udpfd, txs>>
  BY <1>1 DEF IInv, Types, TcpClear, Goto, Return, threadVars
<1>3. Types'
  BY <1>1, <1>2 DEF IInv, Types
<1>4. Fields' /\ ListenRace'
  BY <1>1, <1>2 DEF IInv, Fields, ListenRace
<1>5. BothListen'
  BY <1>1, <1>2 DEF BothListen, UdpPart
<1>6. CloseRace'
  BY <1>1, <1>2 DEF IInv, CloseRace, CurrentTaken, Listening
<1>7. \A b \in Actor : Won(b)' <=> Won(b)
  BY <1>1, <1>2 DEF Won
<1>8. Barred'
  BY <1>1, <1>2, <1>7 DEF IInv, Barred, Started, UdpTaken, Listening
<1>9. OneWins'
  BY <1>1, <1>2, <1>7 DEF IInv, OneWins
<1> QED
  BY <1>3, <1>4, <1>5, <1>6, <1>8, <1>9 DEF IInv

LEMMA UdpSocketInv ==
  ASSUME IInv, NEW a \in Actor, UdpSocket(a)
  PROVE  IInv'
<1>1. /\ Other(a) \in Actor /\ Other(a) # a /\ \A b \in Actor : b = a \/ b = Other(a)
      /\ Other(Other(a)) = a /\ "main" \in Actor /\ "rpc" \in Actor
      /\ (a = "main" /\ Other(a) = "rpc") \/ (a = "rpc" /\ Other(a) = "main")
  BY Others DEF Actor, Other
<1>2. pc[a] = "udpsocket" /\ ~(Started /\ ~UdpTaken)
  BY <1>1 DEF UdpSocket, IInv, Barred, Inits
<1>3. CASE FreeFds = {}
  <2>1. /\ pc'[a] = (IF a = "rpc" THEN "idle" ELSE "failed") /\ pc'[Other(a)] = pc[Other(a)]
        /\ pc' = [pc EXCEPT ![a] = IF a = "rpc" THEN "idle" ELSE "failed"]
        /\ udpfd' = NoFd /\ UNCHANGED <<sock, tcpfd, txs>>
    BY <1>1, <1>3 DEF IInv, Types, UdpSocket, Goto, Return, threadVars
  <2>2. Types'
    BY <1>1, <1>2, <2>1 DEF IInv, Types
  <2>3. Fields' /\ CloseRace'
    BY <1>1, <1>2, <2>1 DEF IInv, Fields, CloseRace, CurrentTaken
  <2>4. ListenRace'
    BY <1>1, <1>2, <2>1 DEF IInv, ListenRace
  <2>5. BothListen'
    BY <1>1, <2>1 DEF BothListen, UdpPart
  <2>6. \A b \in Actor : Won(b)' <=> Won(b)
    BY <1>1, <1>2, <2>1 DEF Won
  <2>7. Barred'
    BY <1>2, <2>1, <2>6 DEF Barred, Started, UdpTaken
  <2>8. OneWins'
    BY <1>1, <2>1, <2>6 DEF IInv, OneWins
  <2> QED
    BY <2>2, <2>3, <2>4, <2>5, <2>7, <2>8 DEF IInv
<1>4. CASE FreeFds # {}
  <2>1. PICK f \in Fd : f = LowestFree /\ sock[f] = "closed"
    BY <1>4, LowestIsFree DEF FreeFds
  <2>2. /\ pc'[a] = "udpbind" /\ pc'[Other(a)] = pc[Other(a)] /\ pc' = [pc EXCEPT ![a] = "udpbind"]
        /\ udpfd' = f /\ sock' = [sock EXCEPT ![f] = "udp"] /\ UNCHANGED <<tcpfd, txs>>
    BY <1>1, <1>4, <2>1 DEF IInv, Types, UdpSocket, Goto, threadVars
  <2>3. sock'[f] = "udp" /\ \A g \in Fd : g # f => sock'[g] = sock[g]
    BY <2>1, <2>2 DEF IInv, Types
  <2>4. Types'
    BY <1>1, <1>2, <2>1, <2>2 DEF IInv, Types, Start, UdpPart, SockState
  <2>5. tcpfd = f => pc[Other(a)] = "tcpclear"
    BY <1>1, <1>2, <2>1, FdAssumption DEF IInv, Fields, TcpKind, NoFd
  <2>6. Fields'
    <3>1. sock'[udpfd'] \in UdpKind
      BY <2>2, <2>3 DEF UdpKind
    <3>2. CASE tcpfd = f
      BY <1>1, <2>2, <2>5, <3>1, <3>2 DEF Fields
    <3>3. CASE tcpfd # f
      BY <1>1, <1>2, <2>2, <2>3, <3>1, <3>3 DEF IInv, Fields, Types
    <3> QED
      BY <3>2, <3>3
  <2>7. (Listening => Listening') /\ (UdpTaken => UdpTaken') /\ ~CurrentTaken'
    BY <2>1, <2>2, <2>3 DEF Listening, UdpTaken, CurrentTaken
  <2>8. ListenRace'
    BY <1>1, <1>2, <2>2, <2>3, <2>5 DEF IInv, ListenRace, Types
  <2>9. BothListen'
    BY <1>1, <1>2, <2>2, <2>7 DEF IInv, BothListen, UdpPart
  <2>10. CloseRace'
    BY <2>7 DEF CloseRace
  <2>11. \A b \in Actor : Won(b)' <=> Won(b)
    BY <1>1, <1>2, <2>2 DEF Won
  <2>12. Barred'
    BY <1>2, <2>2, <2>7, <2>11 DEF Barred, Started
  <2>13. OneWins'
    BY <1>1, <2>2, <2>11 DEF IInv, OneWins
  <2> QED
    BY <2>4, <2>6, <2>8, <2>9, <2>10, <2>12, <2>13 DEF IInv
<1> QED
  BY <1>3, <1>4

(* The bind that succeeds: no start has won before it. *)
LEMMA UdpBindInv ==
  ASSUME IInv, NEW a \in Actor, UdpBind(a)
  PROVE  IInv'
<1>1. /\ Other(a) \in Actor /\ Other(a) # a /\ \A b \in Actor : b = a \/ b = Other(a)
      /\ Other(Other(a)) = a /\ "main" \in Actor /\ "rpc" \in Actor
      /\ (a = "main" /\ Other(a) = "rpc") \/ (a = "rpc" /\ Other(a) = "main")
  BY Others DEF Actor, Other
<1>2. pc[a] = "udpbind" /\ ~(Started /\ ~UdpTaken)
  BY <1>1 DEF UdpBind, IInv, Barred, Inits
<1>3. CASE UdpBindable(udpfd)
  <2>1. udpfd \in Fd /\ udpfd # NoFd /\ sock[udpfd] = "udp" /\ ~UdpTaken
    BY <1>3 DEF UdpBindable, UdpTaken, IInv, Types
  <2>2. /\ pc'[a] = "udpthread" /\ pc'[Other(a)] = pc[Other(a)] /\ pc' = [pc EXCEPT ![a] = "udpthread"]
        /\ sock' = [sock EXCEPT ![udpfd] = "udpbound"] /\ UNCHANGED <<tcpfd, udpfd, txs>>
    BY <1>1, <1>3 DEF IInv, Types, UdpBind, Goto, threadVars, proxyVars
  <2>3. sock'[udpfd] = "udpbound" /\ \A g \in Fd : g # udpfd => sock'[g] = sock[g]
    BY <2>1, <2>2 DEF IInv, Types
  <2>4. Types'
    BY <1>1, <1>2, <2>1, <2>2 DEF IInv, Types, Start, UdpPart, SockState
  <2>5. tcpfd = udpfd => pc[Other(a)] = "tcpclear"
    BY <1>1, <1>2, <2>1 DEF IInv, Fields, TcpKind
  <2>6. Fields'
    BY <1>1, <1>2, <2>1, <2>2, <2>3, <2>5 DEF IInv, Fields, Types, UdpKind
  <2>7. (Listening => Listening') /\ UdpTaken'
    BY <2>1, <2>3 DEF Listening, UdpTaken
  <2>8. ListenRace'
    BY <1>1, <1>2, <2>2, <2>3, <2>5 DEF IInv, ListenRace, Types
  <2>9. BothListen'
    BY <1>1, <1>2, <2>2, <2>7 DEF IInv, BothListen, UdpPart
  <2>10. CloseRace'
    BY <1>1, <1>2, <2>2, <2>7 DEF IInv, BothListen, UdpPart, CloseRace
  <2>11. Barred'
    BY <2>7 DEF Barred
  <2>12. txs = 0 /\ \A b \in Actor : ~Won(b)
    BY <1>2, <2>1 DEF Started, IInv, Types
  <2>13. OneWins'
    BY <1>1, <2>2, <2>12 DEF IInv, OneWins, Won
  <2> QED
    BY <2>4, <2>6, <2>8, <2>9, <2>10, <2>11, <2>13 DEF IInv
<1>4. CASE ~UdpBindable(udpfd)
  <2>1. /\ pc'[a] = "udpfail" /\ pc'[Other(a)] = pc[Other(a)] /\ pc' = [pc EXCEPT ![a] = "udpfail"]
        /\ UNCHANGED <<sock, tcpfd, udpfd, txs>>
    BY <1>1, <1>4 DEF IInv, Types, UdpBind, Goto, threadVars, proxyVars
  <2>2. Types'
    BY <1>1, <1>2, <2>1 DEF IInv, Types, Start, UdpPart
  <2>3. Fields'
    BY <1>1, <1>2, <2>1 DEF IInv, Fields
  <2>4. ListenRace'
    BY <1>1, <1>2, <2>1 DEF IInv, ListenRace
  <2>5. BothListen'
    BY <1>1, <1>2, <2>1 DEF IInv, BothListen, Listening, UdpPart
  <2>6. CloseRace'
    BY <1>1, <1>2, <2>1 DEF IInv, CloseRace, CurrentTaken, Listening
  <2>7. \A b \in Actor : Won(b)' <=> Won(b)
    BY <1>1, <1>2, <2>1 DEF Won
  <2>8. Barred'
    BY <1>2, <2>1, <2>7 DEF Barred, Started, UdpTaken
  <2>9. OneWins'
    BY <1>1, <2>1, <2>7 DEF IInv, OneWins
  <2> QED
    BY <2>2, <2>3, <2>4, <2>5, <2>6, <2>8, <2>9 DEF IInv
<1> QED
  BY <1>3, <1>4

(* The close that may hit the other's socket. *)
LEMMA UdpFailInv ==
  ASSUME IInv, NEW a \in Actor, UdpFail(a)
  PROVE  IInv'
<1>1. /\ Other(a) \in Actor /\ Other(a) # a /\ \A b \in Actor : b = a \/ b = Other(a)
      /\ Other(Other(a)) = a /\ "main" \in Actor /\ "rpc" \in Actor
      /\ (a = "main" /\ Other(a) = "rpc") \/ (a = "rpc" /\ Other(a) = "main")
  BY Others DEF Actor, Other
<1>2. /\ pc[a] = "udpfail" /\ pc'[a] = "udpclear" /\ pc'[Other(a)] = pc[Other(a)]
      /\ pc' = [pc EXCEPT ![a] = "udpclear"]
      /\ sock' = (IF udpfd = NoFd THEN sock ELSE [sock EXCEPT ![udpfd] = "closed"])
      /\ UNCHANGED <<tcpfd, udpfd, txs>>
  BY <1>1 DEF IInv, Types, UdpFail, Goto, threadVars, proxyVars
<1>3. /\ sock' \in [Fd -> SockState]
      /\ \A g \in Fd : sock'[g] = IF g = udpfd THEN "closed" ELSE sock[g]
  BY <1>2, FdAssumption DEF IInv, Types, SockState, NoFd
<1>4. Types'
  BY <1>1, <1>2, <1>3 DEF IInv, Types, Start
<1>5. udpfd # NoFd => sock[udpfd] \in UdpKind \cup {"closed"}
  BY <1>2, RightKind DEF IInv
<1>6. Fields'
  <2>1. udpfd # NoFd => sock'[udpfd] = "closed"
    BY <1>3 DEF IInv, Types
  <2>2. tcpfd # NoFd /\ sock'[tcpfd] \notin TcpKind
          => \E b \in Actor :
               /\ pc'[b] = "tcpclear"
               /\ \/ sock'[tcpfd] = "closed"
                  \/ pc'[Other(b)] \notin {"tcpbind", "tcplisten", "tcpfail", "tcpclear"}
    BY <1>1, <1>2, <1>3, <1>5 DEF IInv, Types, Fields, TcpKind, UdpKind
  <2> QED
    BY <1>2, <2>1, <2>2 DEF Fields
<1>7. CloseRace'
  BY <1>1, <1>2, <1>3 DEF IInv, Types, CloseRace, CurrentTaken
<1>8. ListenRace'
  BY <1>1, <1>2, <1>3 DEF IInv, Types, ListenRace
<1>9. BothListen'
  BY <1>1, <1>2 DEF BothListen, UdpPart
<1>10. \A b \in Actor : Won(b)' <=> Won(b)
  BY <1>1, <1>2 DEF Won
<1>11. Barred'
  <2>1. CASE CurrentTaken
    <3>1. /\ Listening
          /\ pc[Other(a)] \in {"udpthread", "transmit"}
                \cup (IF a = "main" THEN {"idle", "init", "initudp"} ELSE {"up"})
      BY <1>2, <2>1 DEF IInv, CloseRace
    <3>2. Listening'
      BY <1>3, <2>1, <3>1, FdAssumption DEF Listening, CurrentTaken, NoFd
    <3> QED
      BY <1>1, <1>2, <3>1, <3>2 DEF Barred, Inits
  <2>2. CASE ~CurrentTaken
    <3>1. UdpTaken => UdpTaken'
      BY <1>3, <2>2, FdAssumption DEF UdpTaken, CurrentTaken, NoFd
    <3>2. ~(Started /\ ~UdpTaken)
      BY <1>1, <1>2 DEF IInv, Barred, Inits
    <3> QED
      BY <1>2, <1>10, <3>1, <3>2 DEF Barred, Started
  <2> QED
    BY <2>1, <2>2
<1>12. OneWins'
  BY <1>1, <1>2, <1>10 DEF IInv, OneWins
<1> QED
  BY <1>4, <1>6, <1>7, <1>8, <1>9, <1>11, <1>12 DEF IInv

LEMMA UdpClearInv ==
  ASSUME IInv, NEW a \in Actor, UdpClear(a)
  PROVE  IInv'
<1>1. /\ Other(a) \in Actor /\ Other(a) # a /\ \A b \in Actor : b = a \/ b = Other(a)
      /\ Other(Other(a)) = a /\ "main" \in Actor /\ "rpc" \in Actor
      /\ (a = "main" /\ Other(a) = "rpc") \/ (a = "rpc" /\ Other(a) = "main")
  BY Others DEF Actor, Other
<1>2. /\ pc[a] = "udpclear" /\ pc'[a] = (IF a = "rpc" THEN "idle" ELSE "failed") /\ pc'[Other(a)] = pc[Other(a)]
      /\ pc' = [pc EXCEPT ![a] = IF a = "rpc" THEN "idle" ELSE "failed"]
      /\ udpfd' = NoFd /\ UNCHANGED <<sock, tcpfd, txs>>
  BY <1>1 DEF IInv, Types, UdpClear, Goto, Return, threadVars
<1>3. Types'
  BY <1>1, <1>2 DEF IInv, Types
<1>4. Fields' /\ ListenRace' /\ CloseRace'
  BY <1>1, <1>2 DEF IInv, Fields, ListenRace, CloseRace, CurrentTaken
<1>5. BothListen'
  BY <1>1, <1>2 DEF BothListen, UdpPart
<1>6. \A b \in Actor : Won(b)' <=> Won(b)
  BY <1>1, <1>2 DEF Won
<1>7. Barred'
  BY <1>1, <1>2, <1>6 DEF IInv, Barred, Started, UdpTaken, Listening
<1>8. OneWins'
  BY <1>1, <1>2, <1>6 DEF IInv, OneWins
<1> QED
  BY <1>3, <1>4, <1>5, <1>7, <1>8 DEF IInv

LEMMA TransmitThreadInv ==
  ASSUME IInv, NEW a \in Actor, TransmitThread(a)
  PROVE  IInv'
<1>1. /\ Other(a) \in Actor /\ Other(a) # a /\ \A b \in Actor : b = a \/ b = Other(a)
      /\ Other(Other(a)) = a /\ "main" \in Actor /\ "rpc" \in Actor
      /\ (a = "main" /\ Other(a) = "rpc") \/ (a = "rpc" /\ Other(a) = "main")
  BY Others DEF Actor, Other
<1>2. /\ pc[a] = "transmit" /\ pc'[a] = (IF a = "rpc" THEN "idle" ELSE "up") /\ pc'[Other(a)] = pc[Other(a)]
      /\ pc' = [pc EXCEPT ![a] = IF a = "rpc" THEN "idle" ELSE "up"]
      /\ txs' = txs + 1 /\ UNCHANGED <<sock, tcpfd, udpfd>>
  BY <1>1 DEF IInv, Types, TransmitThread, Goto, Return, proxyVars
<1>3. txs = 0 /\ ~Won(Other(a)) /\ Won(a)
  BY <1>2 DEF IInv, OneWins, Won
<1>4. txs' = 1
  BY <1>2, <1>3
<1>5. Types'
  BY <1>1, <1>2, <1>4 DEF IInv, Types
<1>6. Fields'
  BY <1>1, <1>2 DEF IInv, Fields
<1>7. ListenRace'
  BY <1>1, <1>2 DEF IInv, ListenRace
<1>8. BothListen'
  BY <1>1, <1>2 DEF BothListen, UdpPart
<1>9. CloseRace'
  BY <1>1, <1>2 DEF IInv, CloseRace, CurrentTaken, Listening
<1>10. Barred'
  <2>1. Started
    BY <1>3 DEF Started
  <2> QED
    BY <1>1, <1>2, <2>1 DEF IInv, Barred, UdpTaken, Listening
<1>11. \A b \in Actor : ~Won(b)'
  BY <1>1, <1>2, <1>3 DEF Won
<1>12. OneWins'
  BY <1>4, <1>11 DEF OneWins
<1> QED
  BY <1>5, <1>6, <1>7, <1>8, <1>9, <1>10, <1>12 DEF IInv

LEMMA MainExitInv ==
  ASSUME IInv, MainExit
  PROVE  IInv'
<1>1. /\ pc["rpc"] = "idle" /\ pc' = [pc EXCEPT !["main"] = "gone"] /\ sock' = [f \in Fd |-> "closed"]
      /\ tcpfd' = NoFd /\ udpfd' = NoFd /\ txs' = 0
  BY DEF MainExit, Goto
<1>2. Types'
  BY <1>1 DEF IInv, Types, Actor, SockState
<1>3. pc'["main"] = "gone" /\ pc'["rpc"] = "idle" /\ \A a \in Actor : a = "main" \/ a = "rpc"
  BY <1>1 DEF IInv, Types, Actor
<1>4. \A a \in Actor : pc'[a] \notin UdpPart /\ ~Won(a)'
  BY <1>3 DEF UdpPart, Won
<1>5. Fields' /\ ListenRace' /\ CloseRace'
  BY <1>1 DEF Fields, ListenRace, CloseRace, CurrentTaken
<1>6. BothListen'
  BY <1>4 DEF BothListen, Actor
<1>7. Barred' /\ OneWins'
  BY <1>1, <1>3, <1>4 DEF Barred, Started, OneWins
<1> QED
  BY <1>2, <1>5, <1>6, <1>7 DEF IInv

LEMMA NextInv == IInv /\ [Next]_vars => IInv'
<1> SUFFICES ASSUME IInv, Next \/ UNCHANGED vars PROVE IInv'
  OBVIOUS
<1> "main" \in Actor /\ "rpc" \in Actor
  BY DEF Actor
<1>1. CASE MainStart
  BY <1>1, GotoInv DEF MainStart, Goto, proxyVars, threadVars
<1>2. CASE RpcReceive
  BY <1>2, GotoInv DEF RpcReceive, Goto, proxyVars, threadVars
<1>3. CASE MainExit
  BY <1>3, MainExitInv
<1>4. ASSUME NEW a \in Actor, SetPublish(a) \/ TcpThread(a) \/ UdpThread(a) PROVE IInv'
  <2>1. CASE SetPublish(a)
    BY <2>1, GotoInv DEF SetPublish, Goto, threadVars
  <2>2. CASE TcpThread(a)
    BY <2>2, GotoInv DEF TcpThread, Goto, proxyVars
  <2>3. CASE UdpThread(a)
    BY <2>3, GotoInv DEF UdpThread, Goto, proxyVars
  <2> QED
    BY <1>4, <2>1, <2>2, <2>3
<1>5. ASSUME NEW a \in Actor, ProxyInit(a) PROVE IInv'
  <2>1. CASE InitPublish(a)
    BY <2>1, GotoInv DEF InitPublish, Goto, threadVars
  <2>2. CASE InitRings(a)
    BY <2>2, GotoInv DEF InitRings, Goto, proxyVars, threadVars
  <2> QED
    BY <1>5, <2>1, <2>2, InitTcpInv, InitUdpInv DEF ProxyInit
<1>6. ASSUME NEW a \in Actor, TcpSocket(a) \/ TcpBind(a) \/ TcpListen(a) \/ TcpFail(a) \/ TcpClear(a) PROVE IInv'
  BY <1>6, TcpSocketInv, TcpBindInv, TcpListenInv, TcpFailInv, TcpClearInv
<1>7. ASSUME NEW a \in Actor, UdpSocket(a) \/ UdpBind(a) \/ UdpFail(a) \/ UdpClear(a) \/ TransmitThread(a) PROVE IInv'
  BY <1>7, UdpSocketInv, UdpBindInv, UdpFailInv, UdpClearInv, TransmitThreadInv
<1>8. CASE RpcPush \/ Transmit \/ TcpListenerExit \/ UdpListenerExit \/ UNCHANGED vars
  <2>1. UNCHANGED <<pc, sock, tcpfd, udpfd, txs>>
    BY <1>8 DEF RpcPush, Transmit, TcpListenerExit, UdpListenerExit, vars, proxyVars, threadVars
  <2> QED
    BY <2>1 DEF IInv, Types, Fields, ListenRace, BothListen, CloseRace, Barred, OneWins,
                Listening, UdpTaken, CurrentTaken, Started, Won
<1> QED
  BY <1>1, <1>2, <1>3, <1>4, <1>5, <1>6, <1>7, <1>8 DEF Next, StartListening

LEMMA Invariant == Spec => []IInv
  BY InitInv, NextInv, PTL DEF Spec

(* Although two threads may start the proxy at once, and one of them again *)
(* and again, the rings have one consumer, and main does not come up       *)
(* without it: for every set of descriptors, exhausted or not.             *)
THEOREM OneConsumer == Spec => []OneTransmitter
<1>1. IInv => OneTransmitter
  BY DEF IInv, Types, OneWins, OneTransmitter
<1> QED
  BY Invariant, <1>1, PTL

-----------------------------------------------------------------------------
(* What a start over leaves behind. *)

(* The RPC thread is where it will bind or close the TCP socket f of the   *)
(* proxy, or listen on it; and the same for the UDP socket.                *)
RpcTcp(f) == \/ pc["rpc"] \in {"tcpbind", "tcpfail"}
             \/ pc["rpc"] = "tcplisten" /\ sock[f] = "tcpbound"
RpcUdp == pc["rpc"] \in {"udpbind", "udpfail"}

Loose == {f \in Fd : sock[f] \in {"tcp", "tcpbound", "astray"}}

(* A descriptor in a field has its thread, or a start that will create it, *)
(* or close the descriptor, or clear the field.                            *)
Served ==
  /\ tcps \in Nat /\ udps \in Nat
  /\ tcpfd # NoFd => tcps > 0 \/ \E a \in Actor : pc[a] \in {"tcpbind", "tcplisten", "tcpfail", "tcpclear", "tcpthread"}
  /\ udpfd # NoFd => udps > 0 \/ \E a \in Actor : pc[a] \in {"udpbind", "udpfail", "udpclear", "udpthread"}
  /\ tcpfd \in Loose =>
       RpcTcp(tcpfd) \/ pc["rpc"] = "tcpclear" \/ pc["main"] \in {"tcpbind", "tcplisten", "tcpfail", "tcpclear"}
  /\ udpfd # NoFd /\ sock[udpfd] = "udp" =>
       RpcUdp \/ pc["rpc"] = "udpclear" \/ pc["main"] \in {"udpbind", "udpfail", "udpclear"}

(* One socket per port. *)
Ports ==
  \A f, g \in Fd : sock[f] = sock[g] /\ sock[f] \in {"listening", "udpbound"} => f = g

(* Until main has bound its socket, the RPC thread starts the proxy alone. *)
Early == {"load"} \cup Inits \cup {"tcpsocket", "tcpbind"}

RpcAlone ==
  /\ pc["main"] \in Early =>
       /\ pc["rpc"] = "tcplisten" => ~Listening
       /\ pc["rpc"] \in {"tcpbind", "tcpfail"} /\ tcpfd # NoFd => sock[tcpfd] = "tcp"
  /\ pc["main"] \in {"load", "init", "initudp"} /\ pc["rpc"] \in UdpPart => Listening

(* The sockets that hold no port for good and that the RPC thread will not *)
(* close; and how many more of them main's start can still cause.  The RPC *)
(* thread alone causes none, so its many starts cost nothing.              *)
LostTcp == {f \in Loose : ~(f = tcpfd /\ RpcTcp(f))}
LostUdp == {f \in Fd : sock[f] = "udp" /\ ~(f = udpfd /\ RpcUdp)}

TcpCredit ==
  IF pc["main"] \in {"load", "init"} THEN IF Listening THEN 2 ELSE 3
  ELSE IF pc["main"] \in Inits \cup {"tcpsocket"} THEN IF Listening THEN 1 ELSE 2
  ELSE 0

UdpCredit ==
  IF \/ pc["main"] \in {"load", "init", "initudp"} /\ (~Listening \/ pc["rpc"] \in UdpPart)
     \/ pc["main"] \in {"initpublish", "initrings", "publish", "tcpsocket", "tcpbind"} /\ ~Listening
     \/ pc["main"] \in {"tcplisten", "tcpthread", "udpsocket"}
  THEN 1 ELSE 0

(* Once, at its end, main's start may store -1 over a socket that the RPC  *)
(* thread has opened since main's close. *)
Returned   == pc["main"] \in {"up", "failed", "gone"}
FailCredit == IF Returned THEN 0 ELSE 1

TcpAccount == Cardinality(LostTcp) + TcpCredit
UdpAccount == Cardinality(LostUdp) + UdpCredit
Debt == TcpAccount + UdpAccount + FailCredit <= 5

RInv == Served /\ Ports /\ RpcAlone /\ Debt

-----------------------------------------------------------------------------
LEMMA Smaller ==
  ASSUME NEW S, IsFiniteSet(S), NEW T, T \subseteq S
  PROVE  IsFiniteSet(T) /\ Cardinality(T) \in Nat /\ Cardinality(S) \in Nat /\ Cardinality(T) <= Cardinality(S)
  BY FS_Subset, FS_CardinalityType

LEMMA OneMore ==
  ASSUME NEW S, IsFiniteSet(S), NEW T, NEW x, T \subseteq S \cup {x}
  PROVE  IsFiniteSet(T) /\ Cardinality(T) \in Nat /\ Cardinality(S) \in Nat /\ Cardinality(T) <= Cardinality(S) + 1
<1>1. Cardinality(S) \in Nat
  BY FS_CardinalityType
<1>2. /\ IsFiniteSet(S \cup {x})
      /\ Cardinality(S \cup {x}) = IF x \in S THEN Cardinality(S) ELSE Cardinality(S) + 1
  BY FS_AddElement, Zenon
<1>3. IsFiniteSet(T) /\ Cardinality(T) \in Nat /\ Cardinality(T) <= Cardinality(S \cup {x})
  BY <1>2, Smaller
<1> QED
  BY <1>1, <1>2, <1>3

LEMMA Sums ==
  ASSUME NEW m \in Nat, NEW n \in Nat, NEW k \in Nat, NEW kk \in Nat
  PROVE  /\ m <= n /\ kk <= k => m + kk <= n + k
         /\ m <= n + 1 /\ kk + 1 <= k => m + kk <= n + k
         /\ m <= n + 2 /\ kk + 2 <= k => m + kk <= n + k
         /\ m <= n + 1 /\ kk <= k => m + kk <= n + k + 1
  OBVIOUS

(* A step forgets at most as many sockets as it uses up credit. *)
TcpPaid ==
  \/ LostTcp' \subseteq LostTcp /\ TcpCredit' <= TcpCredit
  \/ TcpCredit' + 1 <= TcpCredit /\ \E x \in Fd : LostTcp' \subseteq LostTcp \cup {x}
  \/ TcpCredit' + 2 <= TcpCredit /\ \E x, y \in Fd : LostTcp' \subseteq (LostTcp \cup {x}) \cup {y}

UdpPaid ==
  \/ LostUdp' \subseteq LostUdp /\ UdpCredit' <= UdpCredit
  \/ UdpCredit' + 1 <= UdpCredit /\ \E x \in Fd : LostUdp' \subseteq LostUdp \cup {x}

LEMMA Finite == IsFiniteSet(LostTcp) /\ IsFiniteSet(LostUdp) /\ TcpCredit \in Nat /\ UdpCredit \in Nat
<1>1. LostTcp \subseteq Fd /\ LostUdp \subseteq Fd
  BY DEF LostTcp, LostUdp, Loose
<1>2. TcpCredit \in Nat /\ UdpCredit \in Nat
  BY DEF TcpCredit, UdpCredit
<1> QED
  BY <1>1, <1>2, FdAssumption, FS_Subset

LEMMA Owed ==
  ASSUME NEW t \in Nat, NEW u \in Nat, NEW c \in Nat, NEW tt \in Nat, NEW uu \in Nat, NEW cc \in Nat,
         t + u + c <= 5
  PROVE  /\ tt <= t /\ uu <= u /\ cc <= c => tt + uu + cc <= 5
         /\ tt <= t + 1 /\ uu <= u /\ cc + 1 <= c => tt + uu + cc <= 5
         /\ tt <= t /\ uu <= u + 1 /\ cc + 1 <= c => tt + uu + cc <= 5
  OBVIOUS

LEMMA Accounts ==
  /\ Cardinality(LostTcp) \in Nat /\ Cardinality(LostUdp) \in Nat /\ TcpCredit \in Nat /\ UdpCredit \in Nat
  /\ TcpAccount \in Nat /\ UdpAccount \in Nat /\ FailCredit \in {0, 1}
  /\ TcpCredit' \in Nat /\ UdpCredit' \in Nat /\ FailCredit' \in {0, 1}
<1>1. Cardinality(LostTcp) \in Nat /\ Cardinality(LostUdp) \in Nat /\ TcpCredit \in Nat /\ UdpCredit \in Nat
  BY Finite, FS_CardinalityType
<1>2. TcpAccount \in Nat /\ UdpAccount \in Nat
  BY <1>1 DEF TcpAccount, UdpAccount
<1>3. TcpCredit' \in Nat /\ UdpCredit' \in Nat
  BY DEF TcpCredit, UdpCredit
<1>4. FailCredit \in {0, 1} /\ FailCredit' \in {0, 1}
  BY DEF FailCredit
<1> QED
  BY <1>1, <1>2, <1>3, <1>4

LEMMA TcpKept ==
  ASSUME TcpPaid
  PROVE  TcpAccount' \in Nat /\ TcpAccount' <= TcpAccount
<1>1. IsFiniteSet(LostTcp) /\ TcpCredit \in Nat /\ TcpCredit' \in Nat /\ Cardinality(LostTcp) \in Nat
  BY Finite, Accounts
<1> SUFFICES /\ Cardinality(LostTcp') \in Nat
             /\ Cardinality(LostTcp') + TcpCredit' <= Cardinality(LostTcp) + TcpCredit
  BY <1>1 DEF TcpAccount
<1>2. CASE LostTcp' \subseteq LostTcp /\ TcpCredit' <= TcpCredit
  <2>1. Cardinality(LostTcp') \in Nat /\ Cardinality(LostTcp') <= Cardinality(LostTcp)
    BY <1>1, <1>2, Smaller
  <2> QED
    BY <1>1, <1>2, <2>1, Sums
<1>3. CASE TcpCredit' + 1 <= TcpCredit /\ \E x \in Fd : LostTcp' \subseteq LostTcp \cup {x}
  <2>1. PICK x \in Fd : LostTcp' \subseteq LostTcp \cup {x}
    BY <1>3
  <2>2. Cardinality(LostTcp') \in Nat /\ Cardinality(LostTcp') <= Cardinality(LostTcp) + 1
    BY <1>1, <2>1, OneMore
  <2>3. TcpCredit' + 1 <= TcpCredit
    BY <1>3
  <2> QED
    BY <1>1, <2>2, <2>3, Sums
<1>4. CASE TcpCredit' + 2 <= TcpCredit /\ \E x, y \in Fd : LostTcp' \subseteq (LostTcp \cup {x}) \cup {y}
  <2>1. PICK x \in Fd, y \in Fd : LostTcp' \subseteq (LostTcp \cup {x}) \cup {y}
    BY <1>4
  <2> DEFINE U == LostTcp \cup {x}
  <2>2. IsFiniteSet(U) /\ Cardinality(U) \in Nat /\ Cardinality(U) <= Cardinality(LostTcp) + 1
    BY <1>1, OneMore
  <2>3. LostTcp' \subseteq U \cup {y}
    BY <2>1
  <2> HIDE DEF U
  <2>4. Cardinality(LostTcp') \in Nat /\ Cardinality(LostTcp') <= Cardinality(U) + 1
    BY <2>2, <2>3, OneMore
  <2>5. Cardinality(LostTcp') <= Cardinality(LostTcp) + 2
    BY <1>1, <2>2, <2>4
  <2>6. TcpCredit' + 2 <= TcpCredit
    BY <1>4
  <2> QED
    BY <1>1, <2>4, <2>5, <2>6, Sums
<1> QED
  BY <1>2, <1>3, <1>4 DEF TcpPaid

LEMMA UdpKept ==
  ASSUME UdpPaid
  PROVE  UdpAccount' \in Nat /\ UdpAccount' <= UdpAccount
<1>1. IsFiniteSet(LostUdp) /\ UdpCredit \in Nat /\ UdpCredit' \in Nat /\ Cardinality(LostUdp) \in Nat
  BY Finite, Accounts
<1> SUFFICES /\ Cardinality(LostUdp') \in Nat
             /\ Cardinality(LostUdp') + UdpCredit' <= Cardinality(LostUdp) + UdpCredit
  BY <1>1 DEF UdpAccount
<1>2. CASE LostUdp' \subseteq LostUdp /\ UdpCredit' <= UdpCredit
  <2>1. Cardinality(LostUdp') \in Nat /\ Cardinality(LostUdp') <= Cardinality(LostUdp)
    BY <1>1, <1>2, Smaller
  <2> QED
    BY <1>1, <1>2, <2>1, Sums
<1>3. CASE UdpCredit' + 1 <= UdpCredit /\ \E x \in Fd : LostUdp' \subseteq LostUdp \cup {x}
  <2>1. PICK x \in Fd : LostUdp' \subseteq LostUdp \cup {x}
    BY <1>3
  <2>2. Cardinality(LostUdp') \in Nat /\ Cardinality(LostUdp') <= Cardinality(LostUdp) + 1
    BY <1>1, <2>1, OneMore
  <2>3. UdpCredit' + 1 <= UdpCredit
    BY <1>3
  <2> QED
    BY <1>1, <2>2, <2>3, Sums
<1> QED
  BY <1>2, <1>3 DEF UdpPaid

LEMMA DebtPaid ==
  ASSUME Debt, TcpPaid, UdpPaid, Returned => Returned'
  PROVE  Debt'
<1>1. /\ TcpAccount' \in Nat /\ TcpAccount' <= TcpAccount
      /\ UdpAccount' \in Nat /\ UdpAccount' <= UdpAccount
  BY TcpKept, UdpKept
<1>2. FailCredit' \in Nat /\ FailCredit' <= FailCredit
  BY DEF FailCredit
<1>3. TcpAccount \in Nat /\ UdpAccount \in Nat /\ FailCredit \in Nat
  BY Accounts
<1>4. TcpAccount + UdpAccount + FailCredit <= 5
  BY DEF Debt
<1> QED
  BY <1>1, <1>2, <1>3, <1>4, Owed DEF Debt

(* The end of main's start pays for one more socket, of either kind. *)
LEMMA DebtSettled ==
  ASSUME Debt, ~Returned, Returned',
         \/ /\ UdpPaid /\ TcpCredit' <= TcpCredit
            /\ \E x \in Fd \cup {NoFd} : LostTcp' \subseteq LostTcp \cup {x}
         \/ /\ TcpPaid /\ UdpCredit' <= UdpCredit
            /\ \E x \in Fd \cup {NoFd} : LostUdp' \subseteq LostUdp \cup {x}
  PROVE  Debt'
<1>1. FailCredit \in Nat /\ FailCredit' \in Nat /\ FailCredit' + 1 <= FailCredit
  BY DEF FailCredit
<1>2. TcpAccount \in Nat /\ UdpAccount \in Nat /\ TcpAccount + UdpAccount + FailCredit <= 5
  BY Accounts DEF Debt
<1>3. CASE /\ UdpPaid /\ TcpCredit' <= TcpCredit
           /\ \E x \in Fd \cup {NoFd} : LostTcp' \subseteq LostTcp \cup {x}
  <2>1. UdpAccount' \in Nat /\ UdpAccount' <= UdpAccount
    BY <1>3, UdpKept
  <2>2. PICK x \in Fd \cup {NoFd} : LostTcp' \subseteq LostTcp \cup {x}
    BY <1>3
  <2>3. /\ Cardinality(LostTcp) \in Nat /\ Cardinality(LostTcp') \in Nat
        /\ Cardinality(LostTcp') <= Cardinality(LostTcp) + 1
    BY <2>2, Finite, OneMore
  <2>4. TcpAccount' \in Nat /\ TcpAccount' <= TcpAccount + 1
    BY <1>3, <2>3, Accounts, Sums DEF TcpAccount
  <2> QED
    BY <1>1, <1>2, <2>1, <2>4, Owed DEF Debt
<1>4. CASE /\ TcpPaid /\ UdpCredit' <= UdpCredit
           /\ \E x \in Fd \cup {NoFd} : LostUdp' \subseteq LostUdp \cup {x}
  <2>1. TcpAccount' \in Nat /\ TcpAccount' <= TcpAccount
    BY <1>4, TcpKept
  <2>2. PICK x \in Fd \cup {NoFd} : LostUdp' \subseteq LostUdp \cup {x}
    BY <1>4
  <2>3. /\ Cardinality(LostUdp) \in Nat /\ Cardinality(LostUdp') \in Nat
        /\ Cardinality(LostUdp') <= Cardinality(LostUdp) + 1
    BY <2>2, Finite, OneMore
  <2>4. UdpAccount' \in Nat /\ UdpAccount' <= UdpAccount + 1
    BY <1>4, <2>3, Accounts, Sums DEF UdpAccount
  <2> QED
    BY <1>1, <1>2, <2>1, <2>4, Owed DEF Debt
<1> QED
  BY <1>3, <1>4

LEMMA InitRestarts == Init => RInv
<1> SUFFICES ASSUME Init PROVE RInv
  OBVIOUS
<1>1. /\ pc["main"] = "load" /\ pc["rpc"] = "idle" /\ sock = [f \in Fd |-> "closed"]
      /\ tcpfd = NoFd /\ udpfd = NoFd /\ tcps = 0 /\ udps = 0
  BY DEF Init, Actor
<1>2. NoFd \notin Fd
  BY FdAssumption DEF NoFd
<1>3. LostTcp = {} /\ LostUdp = {}
  BY <1>1 DEF LostTcp, LostUdp, Loose
<1>4. Debt
  <2>1. TcpCredit <= 3 /\ UdpCredit <= 1 /\ FailCredit <= 1
    BY DEF TcpCredit, UdpCredit, FailCredit, Inits
  <2>2. TcpAccount <= 3 /\ UdpAccount <= 1
    BY <1>3, <2>1, FS_EmptySet, Accounts DEF TcpAccount, UdpAccount
  <2> QED
    BY <2>1, <2>2, Accounts DEF Debt
<1>5. Served
  BY <1>1, <1>2 DEF Served, Loose
<1>6. Ports /\ RpcAlone
  BY <1>1 DEF Ports, RpcAlone, UdpPart
<1> QED
  BY <1>4, <1>5, <1>6 DEF RInv

(* Steps that only go on, or count a thread. *)
LEMMA GotoRestarts ==
  ASSUME IInv, RInv, NEW a \in Actor, NEW l, pc' = [pc EXCEPT ![a] = l],
         UNCHANGED <<sock, tcpfd, udpfd>>,
         \/ pc[a] = "load" /\ a = "main" /\ l = "init" /\ UNCHANGED <<tcps, udps>>
         \/ pc[a] = "idle" /\ a = "rpc" /\ l = "init" /\ UNCHANGED <<tcps, udps>>
         \/ pc[a] = "initpublish" /\ l = "initrings" /\ UNCHANGED <<tcps, udps>>
         \/ pc[a] = "initrings" /\ l = "publish" /\ UNCHANGED <<tcps, udps>>
         \/ pc[a] = "publish" /\ l = "tcpsocket" /\ UNCHANGED <<tcps, udps>>
         \/ pc[a] = "tcpthread" /\ l = "udpsocket" /\ tcps' = tcps + 1 /\ udps' = udps
         \/ pc[a] = "udpthread" /\ l = "transmit" /\ udps' = udps + 1 /\ tcps' = tcps
         \/ pc[a] = "transmit" /\ l = (IF a = "rpc" THEN "idle" ELSE "up") /\ UNCHANGED <<tcps, udps>>
  PROVE  RInv'
<1>1. /\ pc'["main"] = (IF a = "main" THEN l ELSE pc["main"])
      /\ pc'["rpc"] = (IF a = "rpc" THEN l ELSE pc["rpc"])
      /\ a = "main" \/ a = "rpc"
      /\ \A b \in Actor : b # a => pc'[b] = pc[b]
      /\ pc'[a] = l
  BY DEF IInv, Types, Actor
<1>2. Served'
  <2>1. tcps' \in Nat /\ udps' \in Nat
    BY DEF RInv, Served
  <2>2. tcpfd # NoFd => tcps' > 0 \/ \E b \in Actor : pc'[b] \in {"tcpbind", "tcplisten", "tcpfail", "tcpclear", "tcpthread"}
    BY <1>1 DEF RInv, Served
  <2>3. udpfd # NoFd => udps' > 0 \/ \E b \in Actor : pc'[b] \in {"udpbind", "udpfail", "udpclear", "udpthread"}
    BY <1>1 DEF RInv, Served
  <2>4. tcpfd \in Loose =>
          RpcTcp(tcpfd)' \/ pc'["rpc"] = "tcpclear" \/ pc'["main"] \in {"tcpbind", "tcplisten", "tcpfail", "tcpclear"}
    BY <1>1 DEF RInv, Served, RpcTcp
  <2>5. udpfd # NoFd /\ sock[udpfd] = "udp" =>
          RpcUdp' \/ pc'["rpc"] = "udpclear" \/ pc'["main"] \in {"udpbind", "udpfail", "udpclear"}
    BY <1>1 DEF RInv, Served, RpcUdp
  <2> QED
    BY <2>1, <2>2, <2>3, <2>4, <2>5 DEF Served, Loose
<1>3. Ports'
  BY DEF RInv, Ports
<1>4. RpcAlone'
  BY <1>1 DEF RInv, RpcAlone, Early, Inits, Listening, UdpPart
<1>5. TcpPaid
  <2>1. LostTcp' \subseteq LostTcp
    BY <1>1 DEF LostTcp, Loose, RpcTcp
  <2>2. TcpCredit' <= TcpCredit
    BY <1>1 DEF TcpCredit, Inits, Listening
  <2> QED
    BY <2>1, <2>2 DEF TcpPaid
<1>6. UdpPaid
  <2>1. LostUdp' \subseteq LostUdp
    BY <1>1 DEF LostUdp, RpcUdp
  <2>2. UdpCredit' <= UdpCredit
    BY <1>1 DEF UdpCredit, Listening, UdpPart
  <2> QED
    BY <2>1, <2>2 DEF UdpPaid
<1>7. Debt'
  BY <1>1, <1>5, <1>6, DebtPaid DEF RInv, Returned
<1> QED
  BY <1>2, <1>3, <1>4, <1>7 DEF RInv


(* The start over forgets what the fields hold.  Main's does it once; what *)
(* the RPC thread's forgets, nobody was going to close.                    *)
LEMMA InitTcpRestarts ==
  ASSUME IInv, RInv, NEW a \in Actor, InitTcp(a)
  PROVE  RInv'
<1>1. /\ pc[a] = "init" /\ tcpfd' = NoFd /\ UNCHANGED <<sock, udpfd, tcps, udps>>
      /\ pc'["main"] = (IF a = "main" THEN "initudp" ELSE pc["main"])
      /\ pc'["rpc"] = (IF a = "rpc" THEN "initudp" ELSE pc["rpc"])
      /\ a = "main" \/ a = "rpc"
      /\ \A b \in Actor : b # a => pc'[b] = pc[b]
  BY DEF IInv, Types, Actor, InitTcp, Goto, threadVars
<1>2. NoFd \notin Fd /\ (tcpfd = NoFd \/ tcpfd \in Fd) /\ (udpfd = NoFd \/ udpfd \in Fd)
  BY FdAssumption DEF NoFd, IInv, Types
<1>3. Served'
  <2>1. udpfd # NoFd => udps > 0 \/ \E b \in Actor : pc'[b] \in {"udpbind", "udpfail", "udpclear", "udpthread"}
    BY <1>1 DEF RInv, Served
  <2> QED
    BY <1>1, <1>2, <2>1 DEF RInv, Served, Loose, RpcUdp
<1>4. Ports'
  BY <1>1 DEF RInv, Ports
<1>5. RpcAlone'
  BY <1>1 DEF RInv, RpcAlone, Early, Inits, Listening, UdpPart
<1>6. TcpPaid
  <2>1. CASE a = "rpc"
    <3>1. LostTcp' \subseteq LostTcp
      BY <1>1, <2>1 DEF LostTcp, Loose, RpcTcp
    <3>2. TcpCredit' <= TcpCredit
      BY <1>1, <2>1 DEF TcpCredit, Listening, Inits
    <3> QED
      BY <3>1, <3>2 DEF TcpPaid
  <2>2. CASE a = "main"
    <3>1. TcpCredit' + 1 <= TcpCredit
      BY <1>1, <2>2 DEF TcpCredit, Inits, Listening
    <3>2. LostTcp' \subseteq LostTcp \cup {tcpfd}
      BY <1>1, <2>2 DEF LostTcp, Loose, RpcTcp
    <3>3. CASE tcpfd \in Fd
      BY <3>1, <3>2, <3>3 DEF TcpPaid
    <3>4. CASE tcpfd = NoFd
      <4>1. LostTcp' \subseteq LostTcp
        BY <1>2, <3>2, <3>4 DEF LostTcp, Loose
      <4>2. TcpCredit' <= TcpCredit
        BY <3>1 DEF TcpCredit, Inits
      <4> QED
        BY <4>1, <4>2 DEF TcpPaid
    <3> QED
      BY <1>2, <3>3, <3>4
  <2> QED
    BY <1>1, <2>1, <2>2
<1>7. UdpPaid
  <2>1. LostUdp' \subseteq LostUdp
    BY <1>1 DEF LostUdp, RpcUdp
  <2>2. UdpCredit' <= UdpCredit
    BY <1>1 DEF UdpCredit, Listening, UdpPart
  <2> QED
    BY <2>1, <2>2 DEF UdpPaid
<1>8. Debt'
  BY <1>1, <1>6, <1>7, DebtPaid DEF RInv, Returned
<1> QED
  BY <1>3, <1>4, <1>5, <1>8 DEF RInv

LEMMA InitUdpRestarts ==
  ASSUME IInv, RInv, NEW a \in Actor, InitUdp(a)
  PROVE  RInv'
<1>1. /\ pc[a] = "initudp" /\ udpfd' = NoFd /\ UNCHANGED <<sock, tcpfd, tcps, udps>>
      /\ pc'["main"] = (IF a = "main" THEN "initpublish" ELSE pc["main"])
      /\ pc'["rpc"] = (IF a = "rpc" THEN "initpublish" ELSE pc["rpc"])
      /\ a = "main" \/ a = "rpc"
      /\ \A b \in Actor : b # a => pc'[b] = pc[b]
  BY DEF IInv, Types, Actor, InitUdp, Goto, threadVars
<1>2. NoFd \notin Fd /\ (tcpfd = NoFd \/ tcpfd \in Fd) /\ (udpfd = NoFd \/ udpfd \in Fd)
  BY FdAssumption DEF NoFd, IInv, Types
<1>3. Served'
  <2>1. tcpfd # NoFd => tcps > 0 \/ \E b \in Actor : pc'[b] \in {"tcpbind", "tcplisten", "tcpfail", "tcpclear", "tcpthread"}
    BY <1>1 DEF RInv, Served
  <2> QED
    BY <1>1, <1>2, <2>1 DEF RInv, Served, Loose, RpcTcp
<1>4. Ports'
  BY <1>1 DEF RInv, Ports
<1>5. RpcAlone'
  BY <1>1 DEF RInv, RpcAlone, Early, Inits, Listening, UdpPart
<1>6. TcpPaid
  <2>1. LostTcp' \subseteq LostTcp
    BY <1>1 DEF LostTcp, Loose, RpcTcp
  <2>2. TcpCredit' <= TcpCredit
    BY <1>1 DEF TcpCredit, Inits, Listening
  <2> QED
    BY <2>1, <2>2 DEF TcpPaid
<1>7. UdpPaid
  <2>1. CASE udpfd \in Fd /\ sock[udpfd] = "udp" /\ RpcUdp
    <3>1. a = "main" /\ pc["rpc"] \in UdpPart
      BY <1>1, <2>1 DEF RpcUdp, UdpPart
    <3>2. Listening
      BY <1>1, <3>1 DEF RInv, RpcAlone
    <3>3. UdpCredit' + 1 <= UdpCredit
      BY <1>1, <3>1, <3>2 DEF UdpCredit, Listening
    <3>4. LostUdp' \subseteq LostUdp \cup {udpfd}
      BY <1>1 DEF LostUdp, RpcUdp
    <3> QED
      BY <2>1, <3>3, <3>4 DEF UdpPaid
  <2>2. CASE ~(udpfd \in Fd /\ sock[udpfd] = "udp" /\ RpcUdp)
    <3>1. LostUdp' \subseteq LostUdp
      BY <1>1, <2>2 DEF LostUdp, RpcUdp
    <3>2. UdpCredit' <= UdpCredit
      BY <1>1 DEF UdpCredit, Listening, UdpPart
    <3> QED
      BY <3>1, <3>2 DEF UdpPaid
  <2> QED
    BY <2>1, <2>2
<1>8. Debt'
  BY <1>1, <1>6, <1>7, DebtPaid DEF RInv, Returned
<1> QED
  BY <1>3, <1>4, <1>5, <1>8 DEF RInv

LEMMA TcpSocketRestarts ==
  ASSUME IInv, RInv, NEW a \in Actor, TcpSocket(a)
  PROVE  RInv'
<1>1. NoFd \notin Fd /\ (tcpfd = NoFd \/ tcpfd \in Fd) /\ (udpfd = NoFd \/ udpfd \in Fd)
  BY FdAssumption DEF NoFd, IInv, Types
<1>2. CASE FreeFds = {}
  <2>1. /\ pc[a] = "tcpsocket" /\ tcpfd' = NoFd /\ UNCHANGED <<sock, udpfd, tcps, udps>>
        /\ pc'["main"] = (IF a = "main" THEN "failed" ELSE pc["main"])
        /\ pc'["rpc"] = (IF a = "rpc" THEN "idle" ELSE pc["rpc"])
        /\ a = "main" \/ a = "rpc"
        /\ \A b \in Actor : b # a => pc'[b] = pc[b]
    BY <1>2 DEF IInv, Types, Actor, TcpSocket, Goto, Return, threadVars
  <2>2. Served'
    <3>1. udpfd # NoFd => udps > 0 \/ \E b \in Actor : pc'[b] \in {"udpbind", "udpfail", "udpclear", "udpthread"}
      BY <2>1 DEF RInv, Served
    <3> QED
      BY <1>1, <2>1, <3>1 DEF RInv, Served, Loose, RpcUdp
  <2>3. Ports'
    BY <2>1 DEF RInv, Ports
  <2>4. RpcAlone'
    BY <2>1 DEF RInv, RpcAlone, Early, Inits, Listening, UdpPart
  <2>5. TcpPaid
    <3>1. CASE a = "rpc"
      <4>1. LostTcp' \subseteq LostTcp
        BY <2>1, <3>1 DEF LostTcp, Loose, RpcTcp
      <4>2. TcpCredit' <= TcpCredit
        BY <2>1, <3>1 DEF TcpCredit, Listening, Inits
      <4> QED
        BY <4>1, <4>2 DEF TcpPaid
    <3>2. CASE a = "main"
      <4>1. TcpCredit' + 1 <= TcpCredit
        BY <2>1, <3>2 DEF TcpCredit, Listening, Inits
      <4>2. LostTcp' \subseteq LostTcp \cup {tcpfd}
        BY <2>1, <3>2 DEF LostTcp, Loose, RpcTcp
      <4>3. CASE tcpfd \in Fd
        BY <4>1, <4>2, <4>3 DEF TcpPaid
      <4>4. CASE tcpfd = NoFd
        <5>1. LostTcp' \subseteq LostTcp
          BY <1>1, <4>2, <4>4 DEF LostTcp, Loose
        <5>2. TcpCredit' <= TcpCredit
          BY <4>1 DEF TcpCredit, Inits
        <5> QED
          BY <5>1, <5>2 DEF TcpPaid
      <4> QED
        BY <1>1, <4>3, <4>4
    <3> QED
      BY <2>1, <3>1, <3>2
  <2>6. UdpPaid
    <3>1. LostUdp' \subseteq LostUdp
      BY <2>1 DEF LostUdp, RpcUdp
    <3>2. UdpCredit' <= UdpCredit
      BY <2>1 DEF UdpCredit, Listening, UdpPart
    <3> QED
      BY <3>1, <3>2 DEF UdpPaid
  <2>7. Debt'
    BY <2>1, <2>5, <2>6, DebtPaid DEF RInv, Returned
  <2> QED
    BY <2>2, <2>3, <2>4, <2>7 DEF RInv
<1>3. CASE FreeFds # {}
  <2>1. PICK f \in Fd : f = LowestFree /\ sock[f] = "closed"
    BY <1>3, LowestIsFree DEF FreeFds
  <2>2. /\ pc[a] = "tcpsocket" /\ tcpfd' = f /\ UNCHANGED <<udpfd, tcps, udps>>
        /\ sock' = [sock EXCEPT ![f] = "tcp"]
        /\ pc'["main"] = (IF a = "main" THEN "tcpbind" ELSE pc["main"])
        /\ pc'["rpc"] = (IF a = "rpc" THEN "tcpbind" ELSE pc["rpc"])
        /\ a = "main" \/ a = "rpc"
        /\ pc'[a] = "tcpbind" /\ \A b \in Actor : b # a => pc'[b] = pc[b]
    BY <1>3, <2>1 DEF IInv, Types, Actor, TcpSocket, Goto, threadVars
  <2>3. sock'[f] = "tcp" /\ \A g \in Fd : g # f => sock'[g] = sock[g]
    BY <2>1, <2>2 DEF IInv, Types
  <2>4. udpfd # NoFd /\ sock'[udpfd] = "udp" => sock[udpfd] = "udp"
    BY <1>1, <2>1, <2>3
  <2>5. Listening' <=> Listening
    BY <2>1, <2>3 DEF Listening
  <2>6. Served'
    <3>1. udpfd # NoFd => udps > 0 \/ \E b \in Actor : pc'[b] \in {"udpbind", "udpfail", "udpclear", "udpthread"}
      BY <2>2 DEF RInv, Served
    <3>2. pc'["rpc"] \in {"tcpbind", "tcpfail"} \/ pc'["main"] = "tcpbind"
      BY <2>2
    <3> QED
      BY <2>2, <2>4, <3>1, <3>2 DEF RInv, Served, Loose, RpcTcp, RpcUdp
  <2>7. Ports'
    BY <2>1, <2>3 DEF RInv, Ports
  <2>8. RpcAlone'
    BY <2>2, <2>3, <2>5 DEF RInv, RpcAlone, Early, Inits, UdpPart
  <2>9. TcpPaid
    <3>1. CASE a = "rpc"
      <4>1. LostTcp' \subseteq LostTcp
        BY <2>2, <2>3, <3>1 DEF LostTcp, Loose, RpcTcp
      <4>2. TcpCredit' <= TcpCredit
        BY <2>2, <2>5, <3>1 DEF TcpCredit, Inits
      <4> QED
        BY <4>1, <4>2 DEF TcpPaid
    <3>2. CASE a = "main" /\ pc["rpc"] \in {"tcpbind", "tcpfail"}
      <4>1. TcpCredit' + 1 <= TcpCredit
        BY <2>2, <2>5, <3>2 DEF TcpCredit, Inits
      <4>2. LostTcp' \subseteq LostTcp \cup {tcpfd}
        BY <2>2, <2>3, <3>2 DEF LostTcp, Loose, RpcTcp
      <4>3. CASE tcpfd \in Fd
        BY <4>1, <4>2, <4>3 DEF TcpPaid
      <4>4. CASE tcpfd = NoFd
        <5>1. LostTcp' \subseteq LostTcp
          BY <1>1, <4>2, <4>4 DEF LostTcp, Loose
        <5>2. TcpCredit' <= TcpCredit
          BY <4>1 DEF TcpCredit, Inits
        <5> QED
          BY <5>1, <5>2 DEF TcpPaid
      <4> QED
        BY <1>1, <4>3, <4>4
    <3>3. CASE a = "main" /\ pc["rpc"] = "tcplisten"
      <4>1. ~Listening
        BY <2>2, <3>3 DEF RInv, RpcAlone, Early
      <4>2. TcpCredit' + 2 <= TcpCredit
        BY <2>2, <3>3, <4>1 DEF TcpCredit, Inits
      <4>3. LostTcp' \subseteq (LostTcp \cup {tcpfd}) \cup {f}
        BY <2>2, <2>3, <3>3 DEF LostTcp, Loose, RpcTcp
      <4>4. CASE tcpfd \in Fd
        BY <2>1, <4>2, <4>3, <4>4 DEF TcpPaid
      <4>5. CASE tcpfd = NoFd
        <5>1. LostTcp' \subseteq (LostTcp \cup {f}) \cup {f}
          BY <1>1, <4>3, <4>5 DEF LostTcp, Loose
        <5> QED
          BY <2>1, <4>2, <5>1 DEF TcpPaid
      <4> QED
        BY <1>1, <4>4, <4>5
    <3>4. CASE a = "main" /\ pc["rpc"] \notin {"tcpbind", "tcplisten", "tcpfail"}
      <4>1. TcpCredit' + 1 <= TcpCredit
        BY <2>2, <2>5, <3>4 DEF TcpCredit, Inits
      <4>2. LostTcp' \subseteq LostTcp \cup {f}
        BY <2>2, <2>3, <3>4 DEF LostTcp, Loose, RpcTcp
      <4> QED
        BY <2>1, <4>1, <4>2 DEF TcpPaid
    <3> QED
      BY <2>2, <3>1, <3>2, <3>3, <3>4
  <2>10. UdpPaid
    <3>1. LostUdp' \subseteq LostUdp
      BY <2>2, <2>3 DEF LostUdp, RpcUdp
    <3>2. UdpCredit' <= UdpCredit
      BY <2>2, <2>5 DEF UdpCredit, UdpPart
    <3> QED
      BY <3>1, <3>2 DEF UdpPaid
  <2>11. Debt'
    BY <2>2, <2>9, <2>10, DebtPaid DEF RInv, Returned
  <2> QED
    BY <2>6, <2>7, <2>8, <2>11 DEF RInv
<1> QED
  BY <1>2, <1>3

LEMMA TcpBindRestarts ==
  ASSUME IInv, RInv, NEW a \in Actor, TcpBind(a)
  PROVE  RInv'
<1>1. NoFd \notin Fd /\ (tcpfd = NoFd \/ tcpfd \in Fd) /\ (udpfd = NoFd \/ udpfd \in Fd)
  BY FdAssumption DEF NoFd, IInv, Types
<1>2. CASE TcpBindable(tcpfd)
  <2>1. tcpfd \in Fd /\ tcpfd # NoFd /\ sock[tcpfd] = "tcp" /\ ~Listening
    BY <1>1, <1>2 DEF TcpBindable, Listening
  <2>2. /\ pc[a] = "tcpbind" /\ UNCHANGED <<tcpfd, udpfd, tcps, udps>>
        /\ sock' = [sock EXCEPT ![tcpfd] = "tcpbound"]
        /\ pc'["main"] = (IF a = "main" THEN "tcplisten" ELSE pc["main"])
        /\ pc'["rpc"] = (IF a = "rpc" THEN "tcplisten" ELSE pc["rpc"])
        /\ a = "main" \/ a = "rpc"
        /\ pc'[a] = "tcplisten" /\ \A b \in Actor : b # a => pc'[b] = pc[b]
    BY <1>2 DEF IInv, Types, Actor, TcpBind, Goto, threadVars, proxyVars
  <2>3. sock'[tcpfd] = "tcpbound" /\ \A g \in Fd : g # tcpfd => sock'[g] = sock[g]
    BY <2>1, <2>2 DEF IInv, Types
  <2>4. ~Listening'
    BY <2>1, <2>3 DEF Listening
  <2>5. udpfd # NoFd /\ sock'[udpfd] = "udp" => sock[udpfd] = "udp"
    BY <1>1, <2>1, <2>3
  <2>6. Served'
    <3>1. udpfd # NoFd => udps > 0 \/ \E b \in Actor : pc'[b] \in {"udpbind", "udpfail", "udpclear", "udpthread"}
      BY <2>2 DEF RInv, Served
    <3>2. RpcTcp(tcpfd)' \/ pc'["main"] \in {"tcpbind", "tcplisten", "tcpfail"}
      BY <2>2, <2>3 DEF RpcTcp
    <3> QED
      BY <2>2, <2>5, <3>1, <3>2 DEF RInv, Served, RpcUdp
  <2>7. Ports'
    BY <2>1, <2>3 DEF RInv, Ports
  <2>8. RpcAlone'
    BY <2>1, <2>2, <2>4 DEF RInv, RpcAlone, Early, Inits, UdpPart
  <2>9. TcpPaid
    <3>1. LostTcp' \subseteq LostTcp
      BY <2>1, <2>2, <2>3 DEF LostTcp, Loose, RpcTcp
    <3>2. TcpCredit' <= TcpCredit
      BY <2>1, <2>2, <2>4 DEF TcpCredit, Inits
    <3> QED
      BY <3>1, <3>2 DEF TcpPaid
  <2>10. UdpPaid
    <3>1. LostUdp' \subseteq LostUdp
      BY <2>1, <2>2, <2>3 DEF LostUdp, RpcUdp
    <3>2. UdpCredit' <= UdpCredit
      BY <2>1, <2>2, <2>4 DEF UdpCredit
    <3> QED
      BY <3>1, <3>2 DEF UdpPaid
  <2>11. Debt'
    BY <2>2, <2>9, <2>10, DebtPaid DEF RInv, Returned
  <2> QED
    BY <2>6, <2>7, <2>8, <2>11 DEF RInv
<1>3. CASE ~TcpBindable(tcpfd)
  <2>1. /\ pc[a] = "tcpbind" /\ UNCHANGED <<sock, tcpfd, udpfd, tcps, udps>>
        /\ pc'["main"] = (IF a = "main" THEN "tcpfail" ELSE pc["main"])
        /\ pc'["rpc"] = (IF a = "rpc" THEN "tcpfail" ELSE pc["rpc"])
        /\ a = "main" \/ a = "rpc"
        /\ pc'[a] = "tcpfail" /\ \A b \in Actor : b # a => pc'[b] = pc[b]
    BY <1>3 DEF IInv, Types, Actor, TcpBind, Goto, threadVars, proxyVars
  <2>2. Served'
    <3>1. udpfd # NoFd => udps > 0 \/ \E b \in Actor : pc'[b] \in {"udpbind", "udpfail", "udpclear", "udpthread"}
      BY <2>1 DEF RInv, Served
    <3>2. RpcTcp(tcpfd)' \/ pc'["main"] \in {"tcpbind", "tcplisten", "tcpfail"}
      BY <2>1 DEF RpcTcp
    <3> QED
      BY <2>1, <3>1, <3>2 DEF RInv, Served, RpcUdp
  <2>3. Ports'
    BY <2>1 DEF RInv, Ports
  <2>4. RpcAlone'
    BY <2>1 DEF RInv, RpcAlone, Early, Inits, UdpPart, Listening
  <2>5. TcpPaid
    <3>1. LostTcp' \subseteq LostTcp
      BY <2>1 DEF LostTcp, Loose, RpcTcp
    <3>2. TcpCredit' <= TcpCredit
      BY <2>1 DEF TcpCredit, Listening, Inits
    <3> QED
      BY <3>1, <3>2 DEF TcpPaid
  <2>6. UdpPaid
    <3>1. LostUdp' \subseteq LostUdp
      BY <2>1 DEF LostUdp, RpcUdp
    <3>2. UdpCredit' <= UdpCredit
      BY <2>1 DEF UdpCredit, UdpPart, Listening
    <3> QED
      BY <3>1, <3>2 DEF UdpPaid
  <2>7. Debt'
    BY <2>1, <2>5, <2>6, DebtPaid DEF RInv, Returned
  <2> QED
    BY <2>2, <2>3, <2>4, <2>7 DEF RInv
<1> QED
  BY <1>2, <1>3


LEMMA TcpListenRestarts ==
  ASSUME IInv, RInv, NEW a \in Actor, TcpListen(a)
  PROVE  RInv'
<1>1. NoFd \notin Fd /\ (tcpfd = NoFd \/ tcpfd \in Fd) /\ (udpfd = NoFd \/ udpfd \in Fd)
  BY FdAssumption DEF NoFd, IInv, Types
<1> DEFINE ok == /\ tcpfd # NoFd
                 /\ \/ sock[tcpfd] \in {"tcp", "listening", "astray"}
                    \/ sock[tcpfd] = "tcpbound" /\ \A g \in Fd : sock[g] # "listening"
<1>2. CASE ok
  <2>1. tcpfd \in Fd /\ tcpfd # NoFd /\ sock[tcpfd] \in {"tcp", "listening", "astray", "tcpbound"}
    BY <1>1, <1>2
  <2>2. /\ pc[a] = "tcplisten" /\ UNCHANGED <<tcpfd, udpfd, tcps, udps>>
        /\ sock' = [sock EXCEPT ![tcpfd] = CASE sock[tcpfd] = "tcp"      -> "astray"
                                             [] sock[tcpfd] = "tcpbound" -> "listening"
                                             [] OTHER                    -> sock[tcpfd]]
        /\ pc'["main"] = (IF a = "main" THEN "tcpthread" ELSE pc["main"])
        /\ pc'["rpc"] = (IF a = "rpc" THEN "tcpthread" ELSE pc["rpc"])
        /\ a = "main" \/ a = "rpc"
        /\ pc'[a] = "tcpthread" /\ \A b \in Actor : b # a => pc'[b] = pc[b]
    BY <1>2, <2>1 DEF IInv, Types, Actor, TcpListen, Goto, threadVars, proxyVars
  <2>3. /\ \A g \in Fd : g # tcpfd => sock'[g] = sock[g]
        /\ sock'[tcpfd] \in {"listening", "astray"}
        /\ sock[tcpfd] \in {"tcpbound", "listening"} <=> sock'[tcpfd] = "listening"
    BY <2>1, <2>2 DEF IInv, Types, SockState
  <2>4. (Listening => Listening') /\ (sock'[tcpfd] = "listening" => Listening')
    BY <2>1, <2>2, <2>3 DEF Listening
  <2>5. sock'[tcpfd] = "astray" => pc[Other(a)] \in {"tcpbind", "tcpfail"} /\ Other(a) # a
    BY <2>1, <2>2, <2>3, Others DEF IInv, ListenRace
  <2>6. udpfd # NoFd /\ sock'[udpfd] = "udp" => sock[udpfd] = "udp"
    BY <1>1, <2>1, <2>3
  <2>7. Served'
    <3>1. udpfd # NoFd => udps > 0 \/ \E b \in Actor : pc'[b] \in {"udpbind", "udpfail", "udpclear", "udpthread"}
      BY <2>2 DEF RInv, Served
    <3>2. sock'[tcpfd] = "astray" => RpcTcp(tcpfd)' \/ pc'["main"] \in {"tcpbind", "tcpfail"}
      BY <2>2, <2>5 DEF RpcTcp, Other
    <3> QED
      BY <2>2, <2>3, <2>6, <3>1, <3>2 DEF RInv, Served, Loose, RpcUdp
  <2>8. Ports'
    <3> SUFFICES ASSUME NEW f \in Fd, NEW g \in Fd, sock'[f] = sock'[g], sock'[f] \in {"listening", "udpbound"}
                 PROVE  f = g
      BY DEF Ports
    <3>1. CASE sock[tcpfd] = "tcpbound"
      BY <1>2, <2>1, <2>2, <2>3, <3>1 DEF RInv, Ports
    <3>2. CASE sock[tcpfd] # "tcpbound"
      BY <2>1, <2>3, <3>2 DEF RInv, Ports
    <3> QED
      BY <3>1, <3>2
  <2>9. RpcAlone'
    <3>1. pc["main"] \in {"load", "init", "initudp"} /\ a = "rpc" => Listening'
      BY <2>3, <2>4, <2>5 DEF Other
    <3> QED
      BY <2>2, <2>4, <3>1 DEF RInv, RpcAlone, Early, Inits, UdpPart
  <2>10. TcpPaid
    <3>1. LostTcp' \subseteq LostTcp
      BY <2>1, <2>2, <2>3 DEF LostTcp, Loose, RpcTcp
    <3>2. TcpCredit' <= TcpCredit
      BY <2>2, <2>4 DEF TcpCredit, Inits
    <3> QED
      BY <3>1, <3>2 DEF TcpPaid
  <2>11. UdpPaid
    <3>1. LostUdp' \subseteq LostUdp
      BY <2>1, <2>2, <2>3 DEF LostUdp, RpcUdp
    <3>2. a = "rpc" /\ pc["main"] \in Early => ~Listening
      BY <2>2 DEF RInv, RpcAlone
    <3>3. UdpCredit' <= UdpCredit
      BY <2>2, <2>4, <3>2 DEF UdpCredit, Early, Inits
    <3> QED
      BY <3>1, <3>3 DEF UdpPaid
  <2>12. Debt'
    BY <2>2, <2>10, <2>11, DebtPaid DEF RInv, Returned
  <2> QED
    BY <2>7, <2>8, <2>9, <2>12 DEF RInv
<1>3. CASE ~ok
  <2>1. /\ pc[a] = "tcplisten" /\ UNCHANGED <<sock, tcpfd, udpfd, tcps, udps>>
        /\ pc'["main"] = (IF a = "main" THEN "tcpfail" ELSE pc["main"])
        /\ pc'["rpc"] = (IF a = "rpc" THEN "tcpfail" ELSE pc["rpc"])
        /\ a = "main" \/ a = "rpc"
        /\ pc'[a] = "tcpfail" /\ \A b \in Actor : b # a => pc'[b] = pc[b]
    BY <1>3 DEF IInv, Types, Actor, TcpListen, Goto, threadVars, proxyVars
  <2>2. a = "rpc" /\ pc["main"] \in Early => tcpfd = NoFd
    <3>1. tcpfd # NoFd => sock[tcpfd] = "closed" \/ (sock[tcpfd] = "tcpbound" /\ Listening)
      BY <1>3, <2>1, RightKind DEF IInv, TcpKind, Listening
    <3>2. tcpfd # NoFd /\ sock[tcpfd] = "closed" => \E b \in Actor : pc[b] = "tcpclear"
      BY DEF IInv, Fields, TcpKind
    <3>3. a = "rpc" /\ pc["main"] \in Early => \A b \in Actor : pc[b] # "tcpclear"
      BY <2>1 DEF Actor, Early, Inits
    <3>4. a = "rpc" /\ pc["main"] \in Early => ~Listening
      BY <2>1 DEF RInv, RpcAlone
    <3> QED
      BY <3>1, <3>2, <3>3, <3>4
  <2>3. Served'
    <3>1. udpfd # NoFd => udps > 0 \/ \E b \in Actor : pc'[b] \in {"udpbind", "udpfail", "udpclear", "udpthread"}
      BY <2>1 DEF RInv, Served
    <3>2. RpcTcp(tcpfd)' \/ pc'["main"] \in {"tcpbind", "tcplisten", "tcpfail"}
      BY <2>1 DEF RpcTcp
    <3> QED
      BY <2>1, <3>1, <3>2 DEF RInv, Served, RpcUdp
  <2>4. Ports'
    BY <2>1 DEF RInv, Ports
  <2>5. RpcAlone'
    BY <2>1, <2>2 DEF RInv, RpcAlone, Early, Inits, UdpPart, Listening
  <2>6. TcpPaid
    <3>1. LostTcp' \subseteq LostTcp
      BY <2>1 DEF LostTcp, Loose, RpcTcp
    <3>2. TcpCredit' <= TcpCredit
      BY <2>1 DEF TcpCredit, Listening, Inits
    <3> QED
      BY <3>1, <3>2 DEF TcpPaid
  <2>7. UdpPaid
    <3>1. LostUdp' \subseteq LostUdp
      BY <2>1 DEF LostUdp, RpcUdp
    <3>2. UdpCredit' <= UdpCredit
      BY <2>1 DEF UdpCredit, UdpPart, Listening
    <3> QED
      BY <3>1, <3>2 DEF UdpPaid
  <2>8. Debt'
    BY <2>1, <2>6, <2>7, DebtPaid DEF RInv, Returned
  <2> QED
    BY <2>3, <2>4, <2>5, <2>8 DEF RInv
<1> QED
  BY <1>2, <1>3

(* While main's start has yet to bind, the RPC thread closes only what it  *)
(* opened, so that a port, once taken, stays taken. *)
LEMMA TcpFailRestarts ==
  ASSUME IInv, RInv, NEW a \in Actor, TcpFail(a)
  PROVE  RInv'
<1>1. NoFd \notin Fd /\ (tcpfd = NoFd \/ tcpfd \in Fd) /\ (udpfd = NoFd \/ udpfd \in Fd)
  BY FdAssumption DEF NoFd, IInv, Types
<1>2. /\ pc[a] = "tcpfail" /\ UNCHANGED <<tcpfd, udpfd, tcps, udps>>
      /\ sock' = (IF tcpfd = NoFd THEN sock ELSE [sock EXCEPT ![tcpfd] = "closed"])
      /\ pc'["main"] = (IF a = "main" THEN "tcpclear" ELSE pc["main"])
      /\ pc'["rpc"] = (IF a = "rpc" THEN "tcpclear" ELSE pc["rpc"])
      /\ a = "main" \/ a = "rpc"
      /\ pc'[a] = "tcpclear" /\ \A b \in Actor : b # a => pc'[b] = pc[b]
  BY DEF IInv, Types, Actor, TcpFail, Goto, threadVars, proxyVars
<1>3. \A g \in Fd : sock'[g] = IF g = tcpfd THEN "closed" ELSE sock[g]
  BY <1>1, <1>2 DEF IInv, Types
<1>4. (Listening' => Listening) /\ (a = "rpc" /\ pc["main"] \in Early => (Listening' <=> Listening))
  BY <1>1, <1>2, <1>3 DEF Listening, RInv, RpcAlone
<1>5. Served'
  <2>1. udpfd # NoFd => udps > 0 \/ \E b \in Actor : pc'[b] \in {"udpbind", "udpfail", "udpclear", "udpthread"}
    BY <1>2 DEF RInv, Served
  <2>2. tcpfd \notin Loose'
    BY <1>1, <1>3 DEF Loose
  <2>3. udpfd # NoFd /\ sock'[udpfd] = "udp" => sock[udpfd] = "udp"
    BY <1>1, <1>3
  <2> QED
    BY <1>2, <2>1, <2>2, <2>3 DEF RInv, Served, RpcUdp
<1>6. Ports'
  BY <1>3 DEF RInv, Ports
<1>7. RpcAlone'
  BY <1>1, <1>2, <1>3, <1>4 DEF RInv, RpcAlone, Early, Inits, UdpPart
<1>8. TcpPaid
  <2>1. LostTcp' \subseteq LostTcp
    BY <1>2, <1>3 DEF LostTcp, Loose, RpcTcp
  <2>2. TcpCredit' <= TcpCredit
    BY <1>2, <1>4 DEF TcpCredit, Early, Inits
  <2> QED
    BY <2>1, <2>2 DEF TcpPaid
<1>9. UdpPaid
  <2>1. LostUdp' \subseteq LostUdp
    BY <1>2, <1>3 DEF LostUdp, RpcUdp
  <2>2. UdpCredit' <= UdpCredit
    BY <1>2, <1>4 DEF UdpCredit, Early, Inits, UdpPart
  <2> QED
    BY <2>1, <2>2 DEF UdpPaid
<1>10. Debt'
  BY <1>2, <1>8, <1>9, DebtPaid DEF RInv, Returned
<1> QED
  BY <1>5, <1>6, <1>7, <1>10 DEF RInv

(* The store of -1: main's may forget a socket that the RPC thread has     *)
(* opened since; what the RPC thread's forgets, it was not going to close. *)
LEMMA TcpClearRestarts ==
  ASSUME IInv, RInv, NEW a \in Actor, TcpClear(a)
  PROVE  RInv'
<1>1. NoFd \notin Fd /\ (tcpfd = NoFd \/ tcpfd \in Fd)
  BY FdAssumption DEF NoFd, IInv, Types
<1>2. /\ pc[a] = "tcpclear" /\ tcpfd' = NoFd /\ UNCHANGED <<sock, udpfd, tcps, udps>>
      /\ pc'["main"] = (IF a = "main" THEN "failed" ELSE pc["main"])
      /\ pc'["rpc"] = (IF a = "rpc" THEN "idle" ELSE pc["rpc"])
      /\ a = "main" \/ a = "rpc"
      /\ \A b \in Actor : b # a => pc'[b] = pc[b]
  BY DEF IInv, Types, Actor, TcpClear, Goto, Return, threadVars
<1>3. Served'
  <2>1. udpfd # NoFd => udps > 0 \/ \E b \in Actor : pc'[b] \in {"udpbind", "udpfail", "udpclear", "udpthread"}
    BY <1>2 DEF RInv, Served
  <2> QED
    BY <1>1, <1>2, <2>1 DEF RInv, Served, Loose, RpcUdp
<1>4. Ports'
  BY <1>2 DEF RInv, Ports
<1>5. RpcAlone'
  BY <1>2 DEF RInv, RpcAlone, Early, Inits, Listening, UdpPart
<1>6. TcpCredit' <= TcpCredit
  BY <1>2 DEF TcpCredit, Inits, Listening
<1>7. UdpPaid
  <2>1. LostUdp' \subseteq LostUdp
    BY <1>2 DEF LostUdp, RpcUdp
  <2>2. UdpCredit' <= UdpCredit
    BY <1>2 DEF UdpCredit, Listening, UdpPart
  <2> QED
    BY <2>1, <2>2 DEF UdpPaid
<1>8. Debt'
  <2>1. CASE a = "main"
    <3>1. ~Returned /\ Returned'
      BY <1>2, <2>1 DEF Returned
    <3>2. LostTcp' \subseteq LostTcp \cup {tcpfd}
      BY <1>2, <2>1 DEF LostTcp, Loose, RpcTcp
    <3> QED
      BY <1>1, <1>6, <1>7, <3>1, <3>2, DebtSettled DEF RInv
  <2>2. CASE a = "rpc"
    <3>1. LostTcp' \subseteq LostTcp
      BY <1>2, <2>2 DEF LostTcp, Loose, RpcTcp
    <3>2. TcpPaid
      BY <1>6, <3>1 DEF TcpPaid
    <3> QED
      BY <1>2, <1>7, <2>2, <3>2, DebtPaid DEF RInv, Returned
  <2> QED
    BY <1>2, <2>1, <2>2
<1> QED
  BY <1>3, <1>4, <1>5, <1>8 DEF RInv

LEMMA UdpSocketRestarts ==
  ASSUME IInv, RInv, NEW a \in Actor, UdpSocket(a)
  PROVE  RInv'
<1>1. NoFd \notin Fd /\ (tcpfd = NoFd \/ tcpfd \in Fd) /\ (udpfd = NoFd \/ udpfd \in Fd)
  BY FdAssumption DEF NoFd, IInv, Types
<1>2. CASE FreeFds = {}
  <2>1. /\ pc[a] = "udpsocket" /\ udpfd' = NoFd /\ UNCHANGED <<sock, tcpfd, tcps, udps>>
        /\ pc'["main"] = (IF a = "main" THEN "failed" ELSE pc["main"])
        /\ pc'["rpc"] = (IF a = "rpc" THEN "idle" ELSE pc["rpc"])
        /\ a = "main" \/ a = "rpc"
        /\ \A b \in Actor : b # a => pc'[b] = pc[b]
    BY <1>2 DEF IInv, Types, Actor, UdpSocket, Goto, Return, threadVars
  <2>2. Served'
    <3>1. tcpfd # NoFd => tcps > 0 \/ \E b \in Actor : pc'[b] \in {"tcpbind", "tcplisten", "tcpfail", "tcpclear", "tcpthread"}
      BY <2>1 DEF RInv, Served
    <3> QED
      BY <1>1, <2>1, <3>1 DEF RInv, Served, Loose, RpcTcp
  <2>3. Ports'
    BY <2>1 DEF RInv, Ports
  <2>4. RpcAlone'
    BY <2>1 DEF RInv, RpcAlone, Early, Inits, Listening, UdpPart
  <2>5. TcpPaid
    <3>1. LostTcp' \subseteq LostTcp
      BY <2>1 DEF LostTcp, Loose, RpcTcp
    <3>2. TcpCredit' <= TcpCredit
      BY <2>1 DEF TcpCredit, Listening, Inits
    <3> QED
      BY <3>1, <3>2 DEF TcpPaid
  <2>6. UdpPaid
    <3>1. CASE a = "rpc"
      <4>1. LostUdp' \subseteq LostUdp
        BY <2>1, <3>1 DEF LostUdp, RpcUdp
      <4>2. UdpCredit' <= UdpCredit
        BY <2>1, <3>1 DEF UdpCredit, Listening, UdpPart
      <4> QED
        BY <4>1, <4>2 DEF UdpPaid
    <3>2. CASE a = "main"
      <4>1. UdpCredit' + 1 <= UdpCredit
        BY <2>1, <3>2 DEF UdpCredit
      <4>2. LostUdp' \subseteq LostUdp \cup {udpfd}
        BY <2>1, <3>2 DEF LostUdp, RpcUdp
      <4>3. CASE udpfd \in Fd
        BY <4>1, <4>2, <4>3 DEF UdpPaid
      <4>4. CASE udpfd = NoFd
        <5>1. LostUdp' \subseteq LostUdp
          BY <1>1, <4>2, <4>4 DEF LostUdp
        <5>2. UdpCredit' <= UdpCredit
          BY <4>1 DEF UdpCredit
        <5> QED
          BY <5>1, <5>2 DEF UdpPaid
      <4> QED
        BY <1>1, <4>3, <4>4
    <3> QED
      BY <2>1, <3>1, <3>2
  <2>7. Debt'
    BY <2>1, <2>5, <2>6, DebtPaid DEF RInv, Returned
  <2> QED
    BY <2>2, <2>3, <2>4, <2>7 DEF RInv
<1>3. CASE FreeFds # {}
  <2>1. PICK f \in Fd : f = LowestFree /\ sock[f] = "closed"
    BY <1>3, LowestIsFree DEF FreeFds
  <2>2. /\ pc[a] = "udpsocket" /\ udpfd' = f /\ UNCHANGED <<tcpfd, tcps, udps>>
        /\ sock' = [sock EXCEPT ![f] = "udp"]
        /\ pc'["main"] = (IF a = "main" THEN "udpbind" ELSE pc["main"])
        /\ pc'["rpc"] = (IF a = "rpc" THEN "udpbind" ELSE pc["rpc"])
        /\ a = "main" \/ a = "rpc"
        /\ pc'[a] = "udpbind" /\ \A b \in Actor : b # a => pc'[b] = pc[b]
    BY <1>3, <2>1 DEF IInv, Types, Actor, UdpSocket, Goto, threadVars
  <2>3. sock'[f] = "udp" /\ \A g \in Fd : g # f => sock'[g] = sock[g]
    BY <2>1, <2>2 DEF IInv, Types
  <2>4. tcpfd \in Loose' => tcpfd \in Loose /\ sock'[tcpfd] = sock[tcpfd]
    BY <1>1, <2>1, <2>3 DEF Loose
  <2>5. Listening' <=> Listening
    BY <2>1, <2>3 DEF Listening
  <2>6. Served'
    <3>1. tcpfd # NoFd => tcps > 0 \/ \E b \in Actor : pc'[b] \in {"tcpbind", "tcplisten", "tcpfail", "tcpclear", "tcpthread"}
      BY <2>2 DEF RInv, Served
    <3>2. RpcUdp' \/ pc'["main"] = "udpbind"
      BY <2>2 DEF RpcUdp
    <3>3. tcpfd \in Loose' =>
            RpcTcp(tcpfd)' \/ pc'["rpc"] = "tcpclear" \/ pc'["main"] \in {"tcpbind", "tcplisten", "tcpfail", "tcpclear"}
      BY <2>2, <2>4 DEF RInv, Served, RpcTcp
    <3> QED
      BY <2>2, <3>1, <3>2, <3>3 DEF RInv, Served
  <2>7. Ports'
    BY <2>1, <2>3 DEF RInv, Ports
  <2>8. RpcAlone'
    BY <1>1, <2>2, <2>5 DEF RInv, RpcAlone, Early, Inits, UdpPart
  <2>9. TcpPaid
    <3>1. LostTcp' \subseteq LostTcp
      BY <2>2, <2>3 DEF LostTcp, Loose, RpcTcp
    <3>2. TcpCredit' <= TcpCredit
      BY <2>2, <2>5 DEF TcpCredit, Inits
    <3> QED
      BY <3>1, <3>2 DEF TcpPaid
  <2>10. UdpPaid
    <3>1. CASE a = "rpc"
      <4>1. LostUdp' \subseteq LostUdp
        BY <2>2, <2>3, <3>1 DEF LostUdp, RpcUdp
      <4>2. UdpCredit' <= UdpCredit
        BY <2>2, <2>5, <3>1 DEF UdpCredit, UdpPart
      <4> QED
        BY <4>1, <4>2 DEF UdpPaid
    <3>2. CASE a = "main" /\ RpcUdp
      <4>1. UdpCredit' + 1 <= UdpCredit
        BY <2>2, <3>2 DEF UdpCredit
      <4>2. LostUdp' \subseteq LostUdp \cup {udpfd}
        BY <2>2, <2>3, <3>2 DEF LostUdp, RpcUdp
      <4>3. CASE udpfd \in Fd
        BY <4>1, <4>2, <4>3 DEF UdpPaid
      <4>4. CASE udpfd = NoFd
        <5>1. LostUdp' \subseteq LostUdp
          BY <1>1, <4>2, <4>4 DEF LostUdp
        <5>2. UdpCredit' <= UdpCredit
          BY <4>1 DEF UdpCredit
        <5> QED
          BY <5>1, <5>2 DEF UdpPaid
      <4> QED
        BY <1>1, <4>3, <4>4
    <3>3. CASE a = "main" /\ ~RpcUdp
      <4>1. UdpCredit' + 1 <= UdpCredit
        BY <2>2, <3>3 DEF UdpCredit
      <4>2. LostUdp' \subseteq LostUdp \cup {f}
        BY <2>2, <2>3, <3>3 DEF LostUdp, RpcUdp
      <4> QED
        BY <2>1, <4>1, <4>2 DEF UdpPaid
    <3> QED
      BY <2>2, <3>1, <3>2, <3>3
  <2>11. Debt'
    BY <2>2, <2>9, <2>10, DebtPaid DEF RInv, Returned
  <2> QED
    BY <2>6, <2>7, <2>8, <2>11 DEF RInv
<1> QED
  BY <1>2, <1>3


LEMMA UdpBindRestarts ==
  ASSUME IInv, RInv, NEW a \in Actor, UdpBind(a)
  PROVE  RInv'
<1>1. NoFd \notin Fd /\ (tcpfd = NoFd \/ tcpfd \in Fd) /\ (udpfd = NoFd \/ udpfd \in Fd)
  BY FdAssumption DEF NoFd, IInv, Types
<1> DEFINE l == IF UdpBindable(udpfd) THEN "udpthread" ELSE "udpfail"
<1>2. /\ pc[a] = "udpbind" /\ UNCHANGED <<tcpfd, udpfd, tcps, udps>>
      /\ pc'["main"] = (IF a = "main" THEN l ELSE pc["main"])
      /\ pc'["rpc"] = (IF a = "rpc" THEN l ELSE pc["rpc"])
      /\ a = "main" \/ a = "rpc"
      /\ pc'[a] = l /\ \A b \in Actor : b # a => pc'[b] = pc[b]
  BY DEF IInv, Types, Actor, UdpBind, Goto, threadVars, proxyVars
<1>3. \A g \in Fd : sock'[g] = IF g = udpfd /\ UdpBindable(udpfd) THEN "udpbound" ELSE sock[g]
  <2>1. sock' = (IF UdpBindable(udpfd) THEN [sock EXCEPT ![udpfd] = "udpbound"] ELSE sock)
    BY DEF UdpBind
  <2> QED
    BY <2>1 DEF IInv, Types
<1>4. UdpBindable(udpfd) => udpfd \in Fd /\ sock[udpfd] = "udp" /\ \A g \in Fd : sock[g] # "udpbound"
  BY <1>1 DEF UdpBindable
<1>5. /\ tcpfd \in Loose' => tcpfd \in Loose /\ sock'[tcpfd] = sock[tcpfd]
      /\ tcpfd # NoFd /\ sock[tcpfd] = "tcp" => sock'[tcpfd] = "tcp"
      /\ Listening' <=> Listening
  BY <1>1, <1>3, <1>4 DEF Listening, Loose
<1>6. Served'
  <2>1. tcpfd # NoFd => tcps > 0 \/ \E b \in Actor : pc'[b] \in {"tcpbind", "tcplisten", "tcpfail", "tcpclear", "tcpthread"}
    BY <1>2 DEF RInv, Served
  <2>2. udpfd # NoFd => \E b \in Actor : pc'[b] \in {"udpbind", "udpfail", "udpclear", "udpthread"}
    BY <1>2
  <2>3. tcpfd \in Loose' =>
          RpcTcp(tcpfd)' \/ pc'["rpc"] = "tcpclear" \/ pc'["main"] \in {"tcpbind", "tcplisten", "tcpfail", "tcpclear"}
    BY <1>2, <1>5 DEF RInv, Served, RpcTcp
  <2>4. udpfd # NoFd /\ sock'[udpfd] = "udp" => RpcUdp' \/ pc'["main"] \in {"udpbind", "udpfail"}
    BY <1>1, <1>2, <1>3 DEF RpcUdp
  <2> QED
    BY <1>2, <2>1, <2>2, <2>3, <2>4 DEF RInv, Served
<1>7. Ports'
  BY <1>3, <1>4 DEF RInv, Ports
<1>8. RpcAlone'
  BY <1>1, <1>2, <1>5 DEF RInv, RpcAlone, Early, Inits, UdpPart
<1>9. TcpPaid
  <2>1. LostTcp' \subseteq LostTcp
    BY <1>2, <1>3, <1>4 DEF LostTcp, Loose, RpcTcp
  <2>2. TcpCredit' <= TcpCredit
    BY <1>2, <1>5 DEF TcpCredit, Inits
  <2> QED
    BY <2>1, <2>2 DEF TcpPaid
<1>10. UdpPaid
  <2>1. LostUdp' \subseteq LostUdp
    BY <1>2, <1>3, <1>4 DEF LostUdp, RpcUdp
  <2>2. UdpCredit' <= UdpCredit
    BY <1>2, <1>5 DEF UdpCredit, UdpPart
  <2> QED
    BY <2>1, <2>2 DEF UdpPaid
<1>11. Debt'
  BY <1>2, <1>9, <1>10, DebtPaid DEF RInv, Returned
<1> QED
  BY <1>6, <1>7, <1>8, <1>11 DEF RInv

LEMMA UdpFailRestarts ==
  ASSUME IInv, RInv, NEW a \in Actor, UdpFail(a)
  PROVE  RInv'
<1>1. NoFd \notin Fd /\ (tcpfd = NoFd \/ tcpfd \in Fd) /\ (udpfd = NoFd \/ udpfd \in Fd)
  BY FdAssumption DEF NoFd, IInv, Types
<1>2. /\ pc[a] = "udpfail" /\ UNCHANGED <<tcpfd, udpfd, tcps, udps>>
      /\ sock' = (IF udpfd = NoFd THEN sock ELSE [sock EXCEPT ![udpfd] = "closed"])
      /\ pc'["main"] = (IF a = "main" THEN "udpclear" ELSE pc["main"])
      /\ pc'["rpc"] = (IF a = "rpc" THEN "udpclear" ELSE pc["rpc"])
      /\ a = "main" \/ a = "rpc"
      /\ pc'[a] = "udpclear" /\ \A b \in Actor : b # a => pc'[b] = pc[b]
  BY DEF IInv, Types, Actor, UdpFail, Goto, threadVars, proxyVars
<1>3. \A g \in Fd : sock'[g] = IF g = udpfd THEN "closed" ELSE sock[g]
  BY <1>1, <1>2 DEF IInv, Types
<1>4. udpfd # NoFd => sock[udpfd] \in UdpKind \cup {"closed"}
  BY <1>2, RightKind DEF IInv
<1>5. /\ tcpfd \in Loose' => tcpfd \in Loose /\ sock'[tcpfd] = sock[tcpfd]
      /\ tcpfd # NoFd /\ sock[tcpfd] = "tcp" => sock'[tcpfd] = "tcp"
      /\ Listening' <=> Listening
  BY <1>1, <1>3, <1>4 DEF Listening, Loose, UdpKind
<1>6. Served'
  <2>1. tcpfd # NoFd => tcps > 0 \/ \E b \in Actor : pc'[b] \in {"tcpbind", "tcplisten", "tcpfail", "tcpclear", "tcpthread"}
    BY <1>2 DEF RInv, Served
  <2>2. tcpfd \in Loose' =>
          RpcTcp(tcpfd)' \/ pc'["rpc"] = "tcpclear" \/ pc'["main"] \in {"tcpbind", "tcplisten", "tcpfail", "tcpclear"}
    BY <1>2, <1>5 DEF RInv, Served, RpcTcp
  <2>3. udpfd # NoFd => sock'[udpfd] = "closed"
    BY <1>1, <1>3
  <2> QED
    BY <1>2, <2>1, <2>2, <2>3 DEF RInv, Served
<1>7. Ports'
  BY <1>3 DEF RInv, Ports
<1>8. RpcAlone'
  BY <1>1, <1>2, <1>5 DEF RInv, RpcAlone, Early, Inits, UdpPart
<1>9. TcpPaid
  <2>1. LostTcp' \subseteq LostTcp
    BY <1>2, <1>3 DEF LostTcp, Loose, RpcTcp
  <2>2. TcpCredit' <= TcpCredit
    BY <1>2, <1>5 DEF TcpCredit, Inits
  <2> QED
    BY <2>1, <2>2 DEF TcpPaid
<1>10. UdpPaid
  <2>1. LostUdp' \subseteq LostUdp
    BY <1>2, <1>3 DEF LostUdp, RpcUdp
  <2>2. UdpCredit' <= UdpCredit
    BY <1>2, <1>5 DEF UdpCredit, UdpPart
  <2> QED
    BY <2>1, <2>2 DEF UdpPaid
<1>11. Debt'
  BY <1>2, <1>9, <1>10, DebtPaid DEF RInv, Returned
<1> QED
  BY <1>6, <1>7, <1>8, <1>11 DEF RInv

LEMMA UdpClearRestarts ==
  ASSUME IInv, RInv, NEW a \in Actor, UdpClear(a)
  PROVE  RInv'
<1>1. NoFd \notin Fd /\ (udpfd = NoFd \/ udpfd \in Fd)
  BY FdAssumption DEF NoFd, IInv, Types
<1>2. /\ pc[a] = "udpclear" /\ udpfd' = NoFd /\ UNCHANGED <<sock, tcpfd, tcps, udps>>
      /\ pc'["main"] = (IF a = "main" THEN "failed" ELSE pc["main"])
      /\ pc'["rpc"] = (IF a = "rpc" THEN "idle" ELSE pc["rpc"])
      /\ a = "main" \/ a = "rpc"
      /\ \A b \in Actor : b # a => pc'[b] = pc[b]
  BY DEF IInv, Types, Actor, UdpClear, Goto, Return, threadVars
<1>3. Served'
  <2>1. tcpfd # NoFd => tcps > 0 \/ \E b \in Actor : pc'[b] \in {"tcpbind", "tcplisten", "tcpfail", "tcpclear", "tcpthread"}
    BY <1>2 DEF RInv, Served
  <2>2. tcpfd \in Loose =>
          RpcTcp(tcpfd)' \/ pc'["rpc"] = "tcpclear" \/ pc'["main"] \in {"tcpbind", "tcplisten", "tcpfail", "tcpclear"}
    BY <1>2 DEF RInv, Served, RpcTcp
  <2> QED
    BY <1>2, <2>1, <2>2 DEF RInv, Served, Loose
<1>4. Ports'
  BY <1>2 DEF RInv, Ports
<1>5. RpcAlone'
  BY <1>2 DEF RInv, RpcAlone, Early, Inits, Listening, UdpPart
<1>6. UdpCredit' <= UdpCredit
  BY <1>2 DEF UdpCredit, Listening, UdpPart
<1>7. TcpPaid
  <2>1. LostTcp' \subseteq LostTcp
    BY <1>2 DEF LostTcp, Loose, RpcTcp
  <2>2. TcpCredit' <= TcpCredit
    BY <1>2 DEF TcpCredit, Inits, Listening
  <2> QED
    BY <2>1, <2>2 DEF TcpPaid
<1>8. Debt'
  <2>1. CASE a = "main"
    <3>1. ~Returned /\ Returned'
      BY <1>2, <2>1 DEF Returned
    <3>2. LostUdp' \subseteq LostUdp \cup {udpfd}
      BY <1>2, <2>1 DEF LostUdp, RpcUdp
    <3> QED
      BY <1>1, <1>6, <1>7, <3>1, <3>2, DebtSettled DEF RInv
  <2>2. CASE a = "rpc"
    <3>1. LostUdp' \subseteq LostUdp
      BY <1>2, <2>2 DEF LostUdp, RpcUdp
    <3>2. UdpPaid
      BY <1>6, <3>1 DEF UdpPaid
    <3> QED
      BY <1>2, <1>7, <2>2, <3>2, DebtPaid DEF RInv, Returned
  <2> QED
    BY <1>2, <2>1, <2>2
<1> QED
  BY <1>3, <1>4, <1>5, <1>8 DEF RInv

LEMMA MainExitRestarts ==
  ASSUME IInv, RInv, MainExit
  PROVE  RInv'
<1>1. /\ sock' = [f \in Fd |-> "closed"] /\ tcpfd' = NoFd /\ udpfd' = NoFd /\ tcps' = 0 /\ udps' = 0
      /\ pc'["main"] = "gone" /\ pc'["rpc"] = "idle" /\ NoFd \notin Fd
  BY FdAssumption DEF MainExit, Goto, IInv, Types, Actor, NoFd
<1>2. Served'
  BY <1>1 DEF Served, Loose
<1>3. Ports' /\ RpcAlone'
  BY <1>1 DEF Ports, RpcAlone, Early, Inits, UdpPart
<1>4. TcpPaid
  <2>1. LostTcp' \subseteq LostTcp
    BY <1>1 DEF LostTcp, Loose
  <2>2. TcpCredit' <= TcpCredit
    BY <1>1 DEF TcpCredit, Inits
  <2> QED
    BY <2>1, <2>2 DEF TcpPaid
<1>5. UdpPaid
  <2>1. LostUdp' \subseteq LostUdp
    BY <1>1 DEF LostUdp
  <2>2. UdpCredit' <= UdpCredit
    BY <1>1 DEF UdpCredit
  <2> QED
    BY <2>1, <2>2 DEF UdpPaid
<1> QED
  BY <1>1, <1>2, <1>3, <1>4, <1>5, DebtPaid DEF RInv, Returned

(* A message is pushed or taken, a listener leaves, or nothing happens. *)
LEMMA OtherRestarts ==
  ASSUME RInv, RpcPush \/ Transmit \/ TcpListenerExit \/ UdpListenerExit \/ UNCHANGED vars
  PROVE  RInv'
<1>1. /\ UNCHANGED <<pc, sock, tcpfd, udpfd>> /\ tcps' \in Nat /\ udps' \in Nat
      /\ tcpfd # NoFd => tcps' = tcps
      /\ udpfd # NoFd => udps' = udps
  <2>1. tcps \in Nat /\ udps \in Nat
    BY DEF RInv, Served
  <2>2. CASE TcpListenerExit
    BY <2>1, <2>2 DEF TcpListenerExit, proxyVars
  <2>3. CASE UdpListenerExit
    BY <2>1, <2>3 DEF UdpListenerExit, proxyVars
  <2>4. CASE RpcPush \/ Transmit \/ UNCHANGED vars
    BY <2>1, <2>4 DEF RpcPush, Transmit, vars, proxyVars, threadVars
  <2> QED
    BY <2>2, <2>3, <2>4
<1>2. Served'
  BY <1>1 DEF RInv, Served, Loose, RpcTcp, RpcUdp
<1>3. Ports' /\ RpcAlone'
  BY <1>1 DEF RInv, Ports, RpcAlone, Listening
<1>4. LostTcp' = LostTcp /\ LostUdp' = LostUdp
  BY <1>1 DEF LostTcp, LostUdp, Loose, RpcTcp, RpcUdp
<1>5. TcpCredit' = TcpCredit /\ UdpCredit' = UdpCredit /\ FailCredit' = FailCredit
  BY <1>1 DEF TcpCredit, UdpCredit, FailCredit, Returned, Listening, Inits
<1>6. Debt'
  BY <1>4, <1>5 DEF RInv, Debt, TcpAccount, UdpAccount
<1> QED
  BY <1>2, <1>3, <1>6 DEF RInv

LEMMA NextRestarts == IInv /\ RInv /\ [Next]_vars => RInv'
<1> SUFFICES ASSUME IInv, RInv, Next \/ UNCHANGED vars PROVE RInv'
  OBVIOUS
<1> "main" \in Actor /\ "rpc" \in Actor
  BY DEF Actor
<1>1. CASE MainStart
  BY <1>1, GotoRestarts DEF MainStart, Goto, proxyVars, threadVars
<1>2. CASE RpcReceive
  BY <1>2, GotoRestarts DEF RpcReceive, Goto, proxyVars, threadVars
<1>3. CASE MainExit
  BY <1>3, MainExitRestarts
<1>4. ASSUME NEW a \in Actor, SetPublish(a) \/ TcpThread(a) \/ UdpThread(a) \/ TransmitThread(a) PROVE RInv'
  <2>1. CASE SetPublish(a)
    BY <2>1, GotoRestarts DEF SetPublish, Goto, threadVars
  <2>2. CASE TcpThread(a)
    BY <2>2, GotoRestarts DEF TcpThread, Goto, proxyVars
  <2>3. CASE UdpThread(a)
    BY <2>3, GotoRestarts DEF UdpThread, Goto, proxyVars
  <2>4. CASE TransmitThread(a)
    <3>1. /\ pc' = [pc EXCEPT ![a] = IF a = "rpc" THEN "idle" ELSE "up"] /\ pc[a] = "transmit"
          /\ UNCHANGED <<sock, tcpfd, udpfd>> /\ UNCHANGED <<tcps, udps>>
      BY <2>4 DEF TransmitThread, Return, Goto, proxyVars
    <3> QED
      BY <3>1, GotoRestarts
  <2> QED
    BY <1>4, <2>1, <2>2, <2>3, <2>4
<1>5. ASSUME NEW a \in Actor, ProxyInit(a) PROVE RInv'
  <2>1. CASE InitPublish(a)
    BY <2>1, GotoRestarts DEF InitPublish, Goto, threadVars
  <2>2. CASE InitRings(a)
    BY <2>2, GotoRestarts DEF InitRings, Goto, proxyVars, threadVars
  <2> QED
    BY <1>5, <2>1, <2>2, InitTcpRestarts, InitUdpRestarts DEF ProxyInit
<1>6. ASSUME NEW a \in Actor, TcpSocket(a) \/ TcpBind(a) \/ TcpListen(a) \/ TcpFail(a) \/ TcpClear(a) PROVE RInv'
  BY <1>6, TcpSocketRestarts, TcpBindRestarts, TcpListenRestarts, TcpFailRestarts, TcpClearRestarts
<1>7. ASSUME NEW a \in Actor, UdpSocket(a) \/ UdpBind(a) \/ UdpFail(a) \/ UdpClear(a) PROVE RInv'
  BY <1>7, UdpSocketRestarts, UdpBindRestarts, UdpFailRestarts, UdpClearRestarts
<1>8. CASE RpcPush \/ Transmit \/ TcpListenerExit \/ UdpListenerExit \/ UNCHANGED vars
  BY <1>8, OtherRestarts
<1> QED
  BY <1>1, <1>2, <1>3, <1>4, <1>5, <1>6, <1>7, <1>8 DEF Next, StartListening

(* At most one socket listens and at most one holds the UDP port; what is  *)
(* forgotten besides is what main's one start cost. *)
LEMMA FewForgotten ==
  ASSUME Types, Ports, Debt
  PROVE  LeakBounded
<1> DEFINE Listeners == {f \in Fd : sock[f] = "listening"}
           Bound     == {f \in Fd : sock[f] = "udpbound"}
<1>1. /\ IsFiniteSet(LostTcp) /\ Cardinality(LostTcp) \in Nat
      /\ IsFiniteSet(LostUdp) /\ Cardinality(LostUdp) \in Nat
      /\ Cardinality(LostTcp) + Cardinality(LostUdp) <= 5
  BY Finite, Accounts DEF Debt, TcpAccount, UdpAccount
<1>2. \E x, y : Listeners \subseteq {x} /\ Bound \subseteq {y}
  <2>1. \E x : Listeners \subseteq {x}
    BY DEF Ports
  <2>2. \E y : Bound \subseteq {y}
    BY DEF Ports
  <2> QED
    BY <2>1, <2>2
<1>3. PICK x, y : Listeners \subseteq {x} /\ Bound \subseteq {y}
  BY <1>2
<1>4. Forgotten \subseteq ((LostTcp \cup LostUdp) \cup {x}) \cup {y}
  BY <1>3 DEF Forgotten, LostTcp, LostUdp, Loose, Types, SockState
<1> DEFINE A == LostTcp \cup LostUdp
           B == A \cup {x}
<1>5. IsFiniteSet(A) /\ Cardinality(A) \in Nat /\ Cardinality(A) <= 5
  <2>1. /\ IsFiniteSet(A)
        /\ Cardinality(A) = Cardinality(LostTcp) + Cardinality(LostUdp) - Cardinality(LostTcp \cap LostUdp)
        /\ Cardinality(LostTcp \cap LostUdp) \in Nat
    BY <1>1, FS_Union, FS_Intersection, FS_CardinalityType
  <2>2. Cardinality(A) \in Nat
    BY <2>1, FS_CardinalityType
  <2> QED
    BY <1>1, <2>1, <2>2
<1> HIDE DEF A
<1>6. IsFiniteSet(B) /\ Cardinality(B) \in Nat /\ Cardinality(B) <= Cardinality(A) + 1
  BY <1>5, OneMore
<1>7. Forgotten \subseteq B \cup {y}
  BY <1>4 DEF A
<1> HIDE DEF B
<1>8. Cardinality(Forgotten) \in Nat /\ Cardinality(Forgotten) <= Cardinality(B) + 1
  BY <1>6, <1>7, OneMore
<1> QED
  BY <1>5, <1>6, <1>8 DEF LeakBounded

(* Only the RPC thread puts messages into the rings, and only once it has   *)
(* entries, after which it does not start the proxy over: its own starts   *)
(* find the rings empty. *)
Rings ==
  /\ emptied \subseteq {"main"}
  /\ waiting => loaded # 0 /\ pc["rpc"] \notin {"init", "initudp", "initpublish", "initrings"}

LEMMA NextRings == Types /\ Rings /\ [Next]_vars => Rings'
<1> SUFFICES ASSUME Types, Rings, Next \/ UNCHANGED vars PROVE Rings'
  OBVIOUS
<1> USE DEF cfgVars, ringVars
<1>1. CASE RpcReceive
  BY <1>1 DEF RpcReceive, Rings, Goto
<1>2. CASE RpcPush
  BY <1>2 DEF RpcPush, Rings
<1>3. CASE Transmit
  BY <1>3 DEF Transmit, Rings
<1>4. ASSUME NEW a \in Actor, InitRings(a) PROVE Rings'
  BY <1>4 DEF InitRings, Rings, Actor, Goto
<1>5. CASE /\ UNCHANGED <<loaded, waiting, emptied>>
           /\ pc'["rpc"] \in {"init", "initudp", "initpublish", "initrings"}
                => pc["rpc"] \in {"init", "initudp", "initpublish", "initrings"}
  BY <1>5 DEF Rings
<1>6. CASE MainStart \/ MainExit
  <2>1. UNCHANGED <<loaded, waiting, emptied>> /\ pc'["rpc"] = pc["rpc"]
    BY <1>6 DEF MainStart, MainExit, Goto, Types, Actor, cfgVars
  <2> QED
    BY <1>5, <2>1
<1>7. ASSUME NEW a \in Actor, InitTcp(a) \/ InitUdp(a) \/ InitPublish(a) \/ SetPublish(a) PROVE Rings'
  <2>1. UNCHANGED <<loaded, waiting, emptied>>
    BY <1>7 DEF InitTcp, InitUdp, InitPublish, SetPublish
  <2>2. PICK l \in {"initudp", "initpublish", "initrings", "tcpsocket"} :
          /\ pc' = [pc EXCEPT ![a] = l]
          /\ pc[a] \in {"init", "initudp", "initpublish", "publish"}
          /\ l = "tcpsocket" <=> pc[a] = "publish"
    BY <1>7 DEF InitTcp, InitUdp, InitPublish, SetPublish, Goto
  <2> QED
    BY <1>5, <2>1, <2>2 DEF Types
<1>8. ASSUME NEW a \in Actor, StartListening(a) PROVE Rings'
  <2>1. UNCHANGED <<loaded, waiting, emptied>>
    BY <1>8 DEF StartListening, TcpSocket, TcpBind, TcpListen, TcpFail, TcpClear, TcpThread,
                UdpSocket, UdpBind, UdpFail, UdpClear, UdpThread, TransmitThread
  <2>2. PICK l \in TcpPart \cup UdpPart \cup {"udpclear", "idle", "up", "failed"} : pc' = [pc EXCEPT ![a] = l]
    BY <1>8, Zenon DEF StartListening, TcpSocket, TcpBind, TcpListen, TcpFail, TcpClear, TcpThread,
                UdpSocket, UdpBind, UdpFail, UdpClear, UdpThread, TransmitThread, Goto, Return, TcpPart, UdpPart
  <2> QED
    BY <1>5, <2>1, <2>2 DEF Types, TcpPart, UdpPart
<1>9. CASE TcpListenerExit \/ UdpListenerExit \/ UNCHANGED vars
  BY <1>5, <1>9 DEF TcpListenerExit, UdpListenerExit, vars
<1> QED
  BY <1>1, <1>2, <1>3, <1>4, <1>6, <1>7, <1>8, <1>9 DEF Next, ProxyInit

(* Starting the proxy over is contained: once main is up and no start is   *)
(* under way, a descriptor in a field is a socket on its port with a       *)
(* thread that serves it, whatever races the starts lost; and although     *)
(* each start over forgets what is open, never more than seven sockets are *)
(* open and forgotten, however many starts there are; and no start of the  *)
(* RPC thread drops a message that waits in a ring.                        *)
THEOREM RestartsAreContained == Spec => []RestartsContained
<1>1. IInv /\ RInv /\ Rings => RestartsContained
  <2> SUFFICES ASSUME IInv, RInv, Rings PROVE RestartsContained
    OBVIOUS
  <2>1. LeakBounded
    BY FewForgotten DEF IInv, RInv
  <2>2. SettledServed
    <3> SUFFICES ASSUME pc["main"] = "up", pc["rpc"] = "idle"
                 PROVE  /\ tcpfd # NoFd => sock[tcpfd] = "listening" /\ tcps > 0
                        /\ udpfd # NoFd => sock[udpfd] = "udpbound" /\ udps > 0
      BY DEF SettledServed, Settled
    <3>1. ~RpcUdp /\ \A f \in Fd : ~RpcTcp(f)
      BY DEF RpcUdp, RpcTcp
    <3>2. \A b \in Actor : pc[b] \in {"up", "idle"}
      BY DEF Actor
    <3>3. (tcpfd # NoFd => tcps > 0) /\ (udpfd # NoFd => udps > 0)
      BY <3>2 DEF RInv, Served
    <3>4. tcpfd # NoFd => tcpfd \in Fd /\ tcpfd \notin Loose
      BY <3>1 DEF IInv, Types, RInv, Served
    <3>5. udpfd # NoFd => sock[udpfd] # "udp"
      BY <3>1 DEF RInv, Served
    <3>6. (tcpfd # NoFd => sock[tcpfd] \in TcpKind) /\ (udpfd # NoFd => sock[udpfd] \in UdpKind)
      BY <3>2 DEF IInv, Fields
    <3> QED
      BY <3>3, <3>4, <3>5, <3>6 DEF Loose, TcpKind, UdpKind
  <2> QED
    BY <2>1, <2>2 DEF RestartsContained, Rings, RingsKept
<1>2. Init => IInv /\ RInv /\ Rings
  BY InitInv, InitRestarts DEF Init, Rings
<1>3. IInv /\ RInv /\ Rings /\ [Next]_vars => IInv' /\ RInv' /\ Rings'
  BY NextInv, NextRestarts, NextRings DEF IInv
<1> QED
  BY <1>1, <1>2, <1>3, PTL DEF Spec
=============================================================================
