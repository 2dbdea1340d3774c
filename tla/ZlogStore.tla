----------------------------- MODULE ZlogStore -----------------------------
(***************************************************************************)
(* The containers zlog is built from: the growing array of zc_arraylist.c  *)
(* and the chained hash table of zc_hashtable.c, under the tables of       *)
(* categories, of record functions and of a thread's MDC pairs.            *)
(*                                                                         *)
(* A list is a function from 0 .. size - 1 to slots; an empty slot is      *)
(* Hole.  A table is a sequence of chains; the newest entry of a chain is  *)
(* its head.  The hash of a key is a parameter: hash[k] is a number.       *)
(***************************************************************************)
EXTENDS Integers, Sequences, SequencesExt, FiniteSetsExt

CONSTANT Hole

Larger(a, b) == IF a > b THEN a ELSE b

ListNew(size) == [slot |-> [i \in 0 .. size - 1 |-> Hole], len |-> 0]
ListSize(l) == Cardinality(DOMAIN l.slot)

Expand(l, max) ==
  [l EXCEPT !.slot = [i \in 0 .. Larger(ListSize(l) * 2, max) - 1 |->
                        IF i \in DOMAIN l.slot THEN l.slot[i] ELSE Hole]]

(* Room is what zc_arraylist_set leaves for itself: the slot it then       *)
(* writes lies in the array unless InRoom is false.                        *)
Room(l, i) == IF i > ListSize(l) - 1 THEN Expand(l, i) ELSE l
InRoom(l, i) == i \in DOMAIN Room(l, i).slot

ListSet(l, i, data) == [slot |-> [Room(l, i).slot EXCEPT ![i] = data],
                        len  |-> Larger(l.len, i + 1)]

ListAdd(l, data) == ListSet(l, l.len, data)

ListInsert(l, i, data) ==
  IF l.slot[i] = Hole THEN [l EXCEPT !.slot[i] = data]
  ELSE LET m == IF l.len > ListSize(l) - 1 THEN Expand(l, 0) ELSE l
       IN  [slot |-> [k \in DOMAIN m.slot |->
                        IF k = i THEN data
                        ELSE IF k \in i + 1 .. l.len THEN l.slot[k - 1] ELSE m.slot[k]],
            len  |-> l.len + 1]

(* after holds the pairs of which the comparison function puts the first   *)
(* behind the second.                                                      *)
ListSortAdd(l, after, data) ==
  LET later == {i \in 0 .. l.len - 1 : <<l.slot[i], data>> \in after}
  IN  IF later = {} THEN ListAdd(l, data) ELSE ListInsert(l, Min(later), data)

ListItems(l) == [i \in 1 .. l.len |-> l.slot[i - 1]]

-----------------------------------------------------------------------------
TableNew(size) == [tab |-> [i \in 1 .. size |-> << >>], n |-> 0]
Chain(t, hash, k) == (hash[k] % Len(t.tab)) + 1

TableClean(t) == TableNew(Len(t.tab))

(* zc_hashtable_begin and zc_hashtable_next. *)
Entries(t) == FlattenSeq(t.tab)

(* Each entry goes to the head of its new chain, the old chains in order. *)
Rehash(t, hash) ==
  FoldLeft(LAMBDA new, e : [new EXCEPT !.tab[Chain(new, hash, e.key)] = <<e>> \o @],
           [TableNew(2 * Len(t.tab)) EXCEPT !.n = t.n], Entries(t))

Has(t, hash, k) == \E e \in ToSet(t.tab[Chain(t, hash, k)]) : e.key = k
Get(t, hash, k) == SelectSeq(t.tab[Chain(t, hash, k)], LAMBDA e : e.key = k)[1].val

(* nelem > tab_size * 1.3 *)
Crowded(t) == 10 * t.n > 13 * Len(t.tab)

Put(t, hash, k, v) ==
  LET new == [key |-> k, val |-> v]
      r   == IF Crowded(t) THEN Rehash(t, hash) ELSE t
  IN  IF Has(t, hash, k)
      THEN [t EXCEPT !.tab[Chain(t, hash, k)] =
              [j \in DOMAIN @ |-> IF @[j].key = k THEN new ELSE @[j]]]
      ELSE [tab |-> [r.tab EXCEPT ![Chain(r, hash, k)] = <<new>> \o @], n |-> r.n + 1]

TableRemove(t, hash, k) ==
  IF ~ Has(t, hash, k) THEN t
  ELSE [tab |-> [t.tab EXCEPT ![Chain(t, hash, k)] = SelectSeq(@, LAMBDA e : e.key # k)],
        n   |-> t.n - 1]
=============================================================================
