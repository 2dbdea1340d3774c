------------------------------ MODULE TlsList ------------------------------
(***************************************************************************)
(* The intrusive doubly linked list of com/tls_list.c, as operators on the *)
(* links l of all nodes: l[n].pre and l[n].next.  A list is a ring through *)
(* its head; a node that is on no list points at itself.                   *)
(***************************************************************************)
EXTENDS Naturals, FiniteSets

(* tls_list_initialize, of a head or of a node.                            *)
Alone(n)              == [pre |-> n, next |-> n]
Initialize(l, n)      == [l EXCEPT ![n] = Alone(n)]

(* tls_list_insert_tail, its four assignments in their order (slip: the    *)
(* old tail is not linked to the new one).                                 *)
InsertTailUnlinked(l, h, n) == [l EXCEPT ![n] = [pre |-> l[h].pre, next |-> h], ![h].pre = n]
InsertTail(l, h, n) ==
  [l EXCEPT ![n] = [pre |-> l[h].pre, next |-> h], ![l[h].pre].next = n, ![h].pre = n]

(* The nodes that a walk from the head meets before it is back.            *)
Walk(l, h) ==
  LET at[i \in Nat] == IF i = 0 THEN l[h].next ELSE l[at[i - 1]].next
      Steps         == 0 .. Cardinality(DOMAIN l)
  IN  {at[i] : i \in {j \in Steps : \A k \in 0 .. j : at[k] # h}}

(* tls_list_remove_node: found by walking, then unlinked and left alone.   *)
RemoveNode(l, h, n) ==
  IF n \notin Walk(l, h) THEN l
  ELSE [l EXCEPT ![l[n].pre].next = l[n].next, ![l[n].next].pre = l[n].pre, ![n] = Alone(n)]

(* A ring: following either link and coming back by the other one ends     *)
(* where it started.                                                       *)
Ring(l, S) ==
  \A n \in S : /\ l[n].next \in S /\ l[l[n].next].pre = n
               /\ l[n].pre \in S  /\ l[l[n].pre].next = n
=============================================================================
