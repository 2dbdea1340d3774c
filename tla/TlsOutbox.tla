----------------------------- MODULE TlsOutbox -----------------------------
(***************************************************************************)
(* What tls_transmit promises its callers, without pointer, event, pools   *)
(* or locks: a mailbox with one FIFO per priority.  A push is two moments, *)
(* Submit (the datagram is in its FIFO) and Post (the mailbox knows about  *)
(* that priority).  Delivery takes the head of a FIFO, and may pass over a *)
(* higher priority only while a push to it has not been posted yet.  As    *)
(* long as the mailbox is open and holds something, something is delivered *)
(* eventually.  The receive list of tls_server is such a mailbox, with one *)
(* producer and one priority, except for that last promise.                *)
(***************************************************************************)
EXTENDS Integers, Sequences

CONSTANTS Producer, Buff, MaxPri

Pri == 0 .. MaxPri

VARIABLES
  queue,      \* the submitted datagrams of each priority, oldest first
  posting,    \* the producers between Submit and Post, by priority
  open        \* deliveries are still promised

vars == <<queue, posting, open>>

Init == /\ queue = [p \in Pri |-> << >>]
        /\ posting = [p \in Pri |-> {}]
        /\ open = TRUE

Submit(c, p, b) ==
  /\ \A q \in Pri : c \notin posting[q]
  /\ queue' = [queue EXCEPT ![p] = Append(@, b)]
  /\ posting' = [posting EXCEPT ![p] = @ \cup {c}]
  /\ UNCHANGED open

Post(c, p) ==
  /\ c \in posting[p]
  /\ posting' = [posting EXCEPT ![p] = @ \ {c}]
  /\ UNCHANGED <<queue, open>>

(* Priority q is settled: nothing waits there that has been posted. *)
Settled(q) == queue[q] = << >> \/ posting[q] # {}

Deliver(p) ==
  /\ queue[p] # << >>
  /\ \A q \in Pri : q > p => Settled(q)
  /\ queue' = [queue EXCEPT ![p] = Tail(@)]
  /\ UNCHANGED <<posting, open>>

Close == /\ open
         /\ open' = FALSE
         /\ UNCHANGED <<queue, posting>>

(* A closed mailbox hands everything it still holds back at once. *)
Discard == /\ ~open
           /\ queue' = [p \in Pri |-> << >>]
           /\ UNCHANGED <<posting, open>>

Next == \/ \E c \in Producer, p \in Pri, b \in Buff : Submit(c, p, b)
        \/ \E c \in Producer, p \in Pri : Post(c, p)
        \/ \E p \in Pri : Deliver(p)
        \/ Close
        \/ Discard

Spec == Init /\ [][Next]_vars

FairSpec == Spec /\ WF_vars(open /\ \E p \in Pri : Deliver(p))
=============================================================================
