---------------------------- MODULE ProxyEvents ----------------------------
(***************************************************************************)
(* The network side of proxy_server.c: main's start-up, the epoll loop     *)
(* with its four listening sockets, and the peers that connect, send and   *)
(* close.                                                                  *)
(*                                                                         *)
(* TCP descriptors are watched edge-triggered: the kernel reports one      *)
(* again only after something new has arrived on it (edge).  The loop      *)
(* makes one accept, one recv or one recvfrom per event.  Data on a        *)
(* connection is counted in units of which one recv takes at most Buf      *)
(* (MAX_BUFFER_SIZE); what is in them does not matter.                     *)
(***************************************************************************)
EXTENDS Integers, Sequences, SequencesExt, FiniteSets

CONSTANTS Conn,          \* the connections peers may make
          ClientFds,     \* how many descriptors are left for them
          Buf,           \* units one recv takes
          MaxUnits,      \* units a peer sends on a connection
          MaxDatagrams,  \* datagrams that arrive on the UDP sockets
          MaxEvents,     \* MAX_EVENTS
          MaxTrouble     \* system calls that fail

Tcp == {"tcp192", "tcp10"}
Udp == {"udp192", "udp10"}

ASSUME ConnAssumption == IsFiniteSet(Conn) /\ Conn \cap (Tcp \cup Udp) = {}
ASSUME BufAssumption  == Buf \in Nat

(* proxy_init, init_listen_sockets, the worker thread, run_event_loop.     *)
Boot == <<"queue", "publisher", "rpc", "tcp192", "udp192", "tcp10", "udp10", "worker", "epoll">>
Watch == <<"tcp192", "tcp10", "udp192", "udp10">>
Looping == Len(Boot) + Len(Watch) + 1

VARIABLES step,          \* how far main is; Looping, or 0 once the process has ended
          listening,     \* the listening sockets that are open
          watched,       \* those that are registered with epoll
          enabled,       \* g_config.vsoa_enabled
          troubles,      \* calls that have failed
          backlog,       \* connections to be accepted, by listener
          state,         \* of each connection
          given,         \* units its peer has sent
          unread,        \* of which nobody has read these
          fin,           \* its peer has closed
          published,     \* units published, by connection
          queued,        \* datagrams waiting, by UDP socket
          arrived,       \* datagrams that ever arrived there
          edge,          \* descriptors the kernel will report
          batch,         \* what epoll_wait returned and the loop has yet to handle
          left           \* history: descriptors whose last handler left something behind

bootVars == <<step, listening, watched, enabled>>
connVars == <<backlog, state, given, unread, fin, published>>
udpVars  == <<queued, arrived>>
vars     == <<bootVars, troubles, connVars, udpVars, edge, batch, left>>

Init ==
  /\ step = 1 /\ listening = {} /\ watched = {} /\ enabled = FALSE /\ troubles = 0
  /\ backlog = [l \in Tcp |-> << >>] /\ state = [c \in Conn |-> "none"]
  /\ given = [c \in Conn |-> 0] /\ unread = given /\ published = given
  /\ fin = [c \in Conn |-> FALSE]
  /\ queued = [u \in Udp |-> 0] /\ arrived = 0
  /\ edge = {} /\ batch = << >> /\ left = {}

Trouble == troubles < MaxTrouble /\ troubles' = troubles + 1

(* proxy_cleanup and the end of the process: every descriptor is closed    *)
(* and what the sockets held is gone.                                      *)
Exit == /\ step' = 0 /\ listening' = {} /\ watched' = {} /\ enabled' = FALSE
        /\ backlog' = [l \in Tcp |-> << >>] /\ state' = [c \in Conn |-> "none"]
        /\ given' = [c \in Conn |-> 0] /\ unread' = given' /\ published' = given'
        /\ fin' = [c \in Conn |-> FALSE]
        /\ queued' = [u \in Udp |-> 0] /\ arrived' = 0
        /\ edge' = {} /\ batch' = << >> /\ left' = {}

-----------------------------------------------------------------------------
(* main up to the loop. *)
BootStep ==
  /\ step \in 1 .. Len(Boot)
  /\ step' = step + 1
  /\ listening' = listening \cup ({Boot[step]} \cap (Tcp \cup Udp))
  /\ enabled' = (enabled \/ Boot[step] = "publisher")
  /\ UNCHANGED <<watched, troubles, connVars, udpVars, edge, batch, left>>

(* Without publisher or RPC server the proxy goes on, without any of the   *)
(* rest it ends.                                                           *)
BootFail ==
  /\ step \in 1 .. Len(Boot)
  /\ Trouble
  /\ IF Boot[step] \in {"publisher", "rpc"}
     THEN /\ step' = step + 1
          /\ UNCHANGED <<listening, watched, enabled, connVars, udpVars, edge, batch, left>>
     ELSE Exit

Pending(s) ==
  CASE s \in Tcp  -> s \in listening /\ backlog[s] # << >>
    [] s \in Udp  -> s \in listening /\ queued[s] > 0
    [] s \in Conn -> state[s] = "open" /\ (unread[s] > 0 \/ fin[s])

(* Nobody looks at whether the listeners could be registered.  What is     *)
(* ready when it is registered is reported.                                *)
WatchStep ==
  /\ step \in Len(Boot) + 1 .. Looping - 1
  /\ LET s == Watch[step - Len(Boot)] IN
     \/ /\ watched' = watched \cup {s}
        /\ edge' = edge \cup {x \in {s} : Pending(x)}
        /\ UNCHANGED troubles
     \/ Trouble /\ UNCHANGED <<watched, edge>>
  /\ step' = step + 1
  /\ UNCHANGED <<listening, enabled, connVars, udpVars, batch, left>>

(* SIGINT or SIGTERM, between any two steps of main. *)
Signal == step # 0 /\ Exit /\ UNCHANGED troubles

-----------------------------------------------------------------------------
(* The peers: another proxy's worker connects, sends one message and       *)
(* closes; other clients may take their time.                              *)
NextConn == CHOOSE c \in Conn : state[c] = "none"

Connect(c, l) ==
  /\ \E d \in Conn : state[d] = "none"
  /\ c = NextConn /\ l \in listening
  /\ state' = [state EXCEPT ![c] = "queued"]
  /\ backlog' = [backlog EXCEPT ![l] = Append(@, c)]
  /\ edge' = edge \cup ({l} \cap watched)
  /\ UNCHANGED <<bootVars, troubles, given, unread, fin, published, udpVars, batch, left>>

Arrival(c) == edge' = edge \cup {x \in {c} : state[x] = "open"}

Send(c) ==
  /\ step # 0 /\ state[c] \in {"queued", "open"} /\ ~fin[c] /\ given[c] < MaxUnits
  /\ given' = [given EXCEPT ![c] = @ + 1]
  /\ unread' = [unread EXCEPT ![c] = @ + 1]
  /\ Arrival(c)
  /\ UNCHANGED <<bootVars, troubles, backlog, state, fin, published, udpVars, batch, left>>

Close(c) ==
  /\ step # 0 /\ state[c] \in {"queued", "open"} /\ ~fin[c]
  /\ fin' = [fin EXCEPT ![c] = TRUE]
  /\ Arrival(c)
  /\ UNCHANGED <<bootVars, troubles, backlog, state, given, unread, published, udpVars, batch, left>>

Datagram(u) ==
  /\ u \in listening /\ arrived < MaxDatagrams
  /\ queued' = [queued EXCEPT ![u] = @ + 1]
  /\ arrived' = arrived + 1
  /\ UNCHANGED <<bootVars, troubles, connVars, edge, batch, left>>

-----------------------------------------------------------------------------
(* epoll_wait: up to MaxEvents of what is ready, in the kernel's order.    *)
(* UDP sockets are level-triggered; an edge whose cause has been read      *)
(* meanwhile is not reported.                                              *)
Ready == {s \in edge \cup (watched \cap Udp) : Pending(s)}

EpollWait ==
  /\ step = Looping /\ batch = << >> /\ Ready # {}
  /\ \E S \in SUBSET Ready :
       /\ Cardinality(S) = IF Cardinality(Ready) < MaxEvents THEN Cardinality(Ready) ELSE MaxEvents
       /\ batch' \in SetToSeqs(S)
       /\ edge' = Ready \ (S \cup Udp)
  /\ UNCHANGED <<bootVars, troubles, connVars, udpVars, left>>

LoopBroken == batch' = << >>
Handled    == batch' = Tail(batch)
Leaves(s, something) == left' = IF something THEN left \cup {s} ELSE left \ {s}

Opened == {c \in Conn : state[c] = "open"}

(* handle_tcp_accept: one connection per event.  It stays in the backlog   *)
(* if no descriptor is free; it is closed if it cannot be watched.         *)
HandleAccept ==
  /\ batch # << >> /\ Head(batch) \in Tcp
  /\ LET l == Head(batch)  c == Head(backlog[l]) IN
     IF backlog[l] = << >> \/ Cardinality(Opened) = ClientFds
     THEN /\ Leaves(l, backlog[l] # << >>)
          /\ UNCHANGED <<troubles, backlog, state, edge>>
     ELSE /\ backlog' = [backlog EXCEPT ![l] = Tail(@)]
          /\ Leaves(l, Tail(backlog[l]) # << >>)
          /\ \/ /\ state' = [state EXCEPT ![c] = "open"]
                /\ edge' = edge \cup {x \in {c} : unread[x] > 0 \/ fin[x]}
                /\ UNCHANGED troubles
             \/ /\ Trouble
                /\ state' = [state EXCEPT ![c] = "dropped"]
                /\ UNCHANGED edge
  /\ Handled
  /\ UNCHANGED <<bootVars, given, unread, fin, published, udpVars>>

(* handle_tcp_data: one recv; its end or an error, which "nothing there"   *)
(* on the non-blocking descriptor also is, closes the connection.          *)
Taken(c) == IF unread[c] < Buf THEN unread[c] ELSE Buf
EndsAfterOne(c) == unread[c] <= Buf
EndsAfter(c)    == unread[c] = 0

HandleData ==
  /\ batch # << >> /\ Head(batch) \in Conn
  /\ LET c == Head(batch)  n == Taken(c) IN
     /\ unread' = [unread EXCEPT ![c] = @ - n]
     /\ published' = [published EXCEPT ![c] = @ + IF enabled THEN n ELSE 0]
     /\ IF EndsAfter(c)
        THEN /\ state' = [state EXCEPT ![c] = "closed"]
             /\ edge' = edge \ {c} /\ left' = left \ {c}
        ELSE /\ Leaves(c, unread[c] > n \/ fin[c])
             /\ UNCHANGED <<state, edge>>
  /\ Handled
  /\ UNCHANGED <<bootVars, troubles, backlog, given, fin, udpVars>>

(* handle_udp_data: one recvfrom, which would block the loop on an empty   *)
(* socket.                                                                 *)
HandleUdpDrains ==
  /\ batch # << >> /\ Head(batch) \in Udp
  /\ queued[Head(batch)] > 0
  /\ queued' = [queued EXCEPT ![Head(batch)] = @ - 1]
  /\ UNCHANGED <<bootVars, troubles, connVars, arrived, edge, batch, left>>

HandleUdp ==
  /\ batch # << >> /\ Head(batch) \in Udp
  /\ queued[Head(batch)] > 0
  /\ queued' = [queued EXCEPT ![Head(batch)] = @ - 1]
  /\ Handled
  /\ UNCHANGED <<bootVars, troubles, connVars, arrived, edge, left>>

-----------------------------------------------------------------------------
Main  == BootStep \/ WatchStep \/ EpollWait \/ HandleAccept \/ HandleData \/ HandleUdp

Peers == \/ \E c \in Conn : (\E l \in Tcp : Connect(c, l)) \/ Send(c) \/ Close(c)
         \/ \E u \in Udp : Datagram(u)

Next == Main \/ BootFail \/ Signal \/ Peers

Spec == Init /\ [][Next]_vars

(* main keeps running; nobody has to connect, send or close.               *)
FairSpec == Spec /\ WF_vars(Main)

-----------------------------------------------------------------------------
(* Nothing waits unseen in an edge-triggered descriptor, except behind a   *)
(* handler that left it there: one accept of several, a message longer     *)
(* than a buffer, or data that the peer's close had already followed.      *)
EdgesCover ==
  step = Looping =>
    \A s \in (Tcp \cap watched) \cup Conn :
      Pending(s) => s \in edge \cup left \cup ToSet(batch)

(* An event is still true when its turn comes, however many handlers ran   *)
(* since epoll_wait: recvfrom, on a blocking socket, never holds the loop, *)
(* recv never meets "nothing there", which would close the connection, and *)
(* no descriptor in the batch has been closed.                             *)
BatchCurrent == \A k \in 1 .. Len(batch) : Pending(batch[k])

(* The proxy closes a connection only after its peer has, and when every   *)
(* unit of it has been published.                                          *)
ClosedWhole ==
  \A c \in Conn : state[c] = "closed" =>
    fin[c] /\ unread[c] = 0 /\ (enabled => published[c] = given[c])

EventsSound == EdgesCover /\ BatchCurrent /\ ClosedWhole

(* What comes in on a watched descriptor is handled, unless a handler left *)
(* it behind or the process ends: a busy descriptor starves no other.      *)
Served ==
  \A s \in Tcp \cup Udp \cup Conn :
    (Pending(s) /\ s \notin left)
      ~> (~Pending(s) \/ s \in left \/ (s \notin Conn /\ s \notin watched) \/ step = 0)
=============================================================================
