----------------------------- MODULE MxmlSearch ----------------------------
(* Finding nodes in a tree: mxml-search.c and mxml-index.c.                *)
EXTENDS MxmlNode

CONSTANT Order(_)          \* the place of a character among the characters

Star == <<"*">>            \* the wildcard of a path

(* The way up from n to the first node that has a next one, within top.    *)
RECURSIVE UpNext(_, _, _)
UpNext(h, n, top) ==
  CASE h[n].next # Nil -> h[n].next
    [] h[n].next = Nil /\ h[n].parent \in {top, Nil} -> Nil
    [] OTHER -> UpNext(h, h[n].parent, top)

WalkNext(h, n, top, descend) ==
  CASE n = Nil -> Nil
    [] n # Nil /\ h[n].child # Nil /\ descend # "none" -> h[n].child
    [] n # Nil /\ (h[n].child = Nil \/ descend = "none") ->
         CASE n = top -> Nil
           [] n # top /\ h[n].next # Nil -> h[n].next
           [] n # top /\ h[n].next = Nil /\ h[n].parent \notin {Nil, top} -> UpNext(h, h[n].parent, top)
           [] OTHER -> Nil

RECURSIVE Lowest(_, _)
Lowest(h, n) == IF h[n].last = Nil THEN n ELSE Lowest(h, h[n].last)

WalkPrev(h, n, top, descend) ==
  CASE n = Nil \/ n = top -> Nil
    [] n \notin {Nil, top} /\ h[n].prev # Nil ->
         IF h[h[n].prev].last # Nil /\ descend # "none" THEN Lowest(h, h[h[n].prev].last) ELSE h[n].prev
    [] OTHER -> IF h[n].parent # top THEN h[n].parent ELSE Nil

(* Null stands for a name, an attribute or a value that is not asked for.  *)
Matches(h, n, element, attr, value) ==
  /\ h[n].type = "element" /\ h[n].val # Null
  /\ element # Null => h[n].val = element
  /\ attr # Null => /\ GetAttr(h, n, attr) # Null
                    /\ value # Null => GetAttr(h, n, attr) = value

(* Only a search of the whole tree leaves the siblings of its first node.  *)
RECURSIVE FindFrom(_, _, _, _, _, _, _)
FindFrom(h, n, top, element, attr, value, descend) ==
  IF n = Nil \/ Matches(h, n, element, attr, value) THEN n
  ELSE FindFrom(h, IF descend = "all" THEN WalkNext(h, n, top, "all") ELSE h[n].next,
                top, element, attr, value, descend)
FindElement(h, n, top, element, attr, value, descend) ==
  IF n = Nil \/ top = Nil \/ (attr = Null /\ value # Null) THEN Nil
  ELSE FindFrom(h, WalkNext(h, n, top, descend), top, element, attr, value, descend)

(* A path is the names between its slashes.                                *)
RECURSIVE FindStep(_, _, _)
FindStep(h, n, path) ==
  IF path = <<>> \/ n = Nil THEN n
  ELSE LET wild == Len(path) > 1 /\ Head(path) = Star
           name == IF wild THEN path[2] ELSE Head(path)
           left == IF wild THEN Tail(Tail(path)) ELSE Tail(path)
       IN IF name = <<>> THEN Nil
          ELSE FindStep(h, FindElement(h, n, n, name, Null, Null, IF wild THEN "all" ELSE "first"), left)
FindPath(h, top, path) ==
  LET n == FindStep(h, top, path)
      first == GetFirstChild(h, n)
  IN CASE top = Nil \/ path = <<>> \/ n = Nil -> Nil
       [] n # Nil /\ first # Nil /\ h[first].type # "element" -> first
       [] OTHER -> n

-----------------------------------------------------------------------------
(* Indexes: nodes counted from 0, the attribute they are sorted by, and    *)
(* the place of the enumeration.                                           *)

RECURSIVE StrCmp(_, _)
StrCmp(a, b) ==
  CASE a = <<>> \/ b = <<>> -> Len(a) - Len(b)
    [] a # <<>> /\ b # <<>> /\ a[1] # b[1] -> Order(a[1]) - Order(b[1])
    [] OTHER -> StrCmp(Tail(a), Tail(b))

IndexCompare(h, ind, first, second) ==
  LET names == StrCmp(h[first].val, h[second].val)
  IN IF names # 0 \/ ind.attr = Null THEN names
     ELSE StrCmp(GetAttr(h, first, ind.attr), GetAttr(h, second, ind.attr))

Diff(h, ind, element, value, n) ==
  LET names == IF element = Null THEN 0 ELSE StrCmp(element, h[n].val)
  IN IF names # 0 \/ value = Null THEN names ELSE StrCmp(value, GetAttr(h, n, ind.attr))

At(ind, i) == ind.nodes[i + 1]
Swapped(ind, i, j) == [ind EXCEPT !.nodes[i + 1] = At(ind, j), !.nodes[j + 1] = At(ind, i)]

RECURSIVE Upward(_, _, _, _, _)
Upward(h, ind, pivot, i, right) ==
  IF i < right /\ IndexCompare(h, ind, At(ind, i), pivot) <= 0 THEN Upward(h, ind, pivot, i + 1, right) ELSE i
RECURSIVE Downward(_, _, _, _, _)
Downward(h, ind, pivot, j, left) ==
  IF j > left /\ IndexCompare(h, ind, At(ind, j), pivot) > 0 THEN Downward(h, ind, pivot, j - 1, left) ELSE j

(* The two scans towards each other; at is where the right one stops.      *)
RECURSIVE Partition(_, _, _, _, _, _, _)
Partition(h, ind, pivot, left, right, i, j) ==
  IF i >= j THEN [ind |-> ind, at |-> j]
  ELSE LET up == Upward(h, ind, pivot, i, right)
           down == Downward(h, ind, pivot, j, left)
       IN Partition(h, IF up < down THEN Swapped(ind, up, down) ELSE ind, pivot, left, right, up, down)

(* index_sort.  The places are of type size_t: for at = 0 the end of the   *)
(* left part, at - 1, is the largest number there is, so the left part is  *)
(* sorted again with an end far outside of the array (wild).               *)
RECURSIVE IndexSort(_, _, _, _)
(* (slip: the pivot is compared the other way round)                       *)
PutPivotBelow(h, pivot, left, p) ==
  IF IndexCompare(h, p.ind, pivot, At(p.ind, p.at)) < 0
  THEN [p EXCEPT !.ind.nodes[left + 1] = At(p.ind, p.at), !.ind.nodes[p.at + 1] = pivot] ELSE p
PutPivot(h, pivot, left, p) ==
  IF IndexCompare(h, p.ind, pivot, At(p.ind, p.at)) > 0
  THEN [p EXCEPT !.ind.nodes[left + 1] = At(p.ind, p.at), !.ind.nodes[p.at + 1] = pivot] ELSE p
SortLeft(h, left, p) ==
  CASE p.at = 0 -> [p EXCEPT !.ind.wild = TRUE]
    [] p.at > 0 /\ left < p.at - 1 -> [p EXCEPT !.ind = IndexSort(h, @, left, p.at - 1)]
    [] OTHER -> p
SortRight(h, right, p) ==
  IF p.ind.wild \/ right <= p.at + 1 THEN p.ind ELSE IndexSort(h, p.ind, p.at + 1, right)
IndexSort(h, ind, left, right) ==
  LET parted == Partition(h, ind, At(ind, left), left, right, left, right)
  IN SortRight(h, right, SortLeft(h, left, PutPivot(h, At(ind, left), left, parted)))

RECURSIVE Collect(_, _, _, _, _)
Collect(h, n, top, element, attr) ==
  IF n = Nil THEN <<>>
  ELSE <<n>> \o Collect(h, FindElement(h, n, top, element, attr, Null, "all"), top, element, attr)

(* Without a name and an attribute the first node is top itself.           *)
Collected(h, top, element, attr) ==
  LET first == IF element = Null /\ attr = Null THEN top
               ELSE FindElement(h, top, top, element, attr, Null, "all")
  IN Collect(h, first, top, element, attr)
IndexNew(h, top, element, attr) ==
  LET ind == [attr |-> attr, nodes |-> Collected(h, top, element, attr), cur |-> 0, wild |-> FALSE]
  IN IF Len(ind.nodes) > 1 THEN IndexSort(h, ind, 0, Len(ind.nodes) - 1) ELSE ind

IndexReset(ind) == [ind EXCEPT !.cur = 0]
IndexEnum(ind) ==
  IF ind.cur < Len(ind.nodes) THEN [node |-> At(ind, ind.cur), ind |-> [ind EXCEPT !.cur = @ + 1]]
  ELSE [node |-> Nil, ind |-> ind]

(* The place of a match between first and last, or the end of the index.   *)
RECURSIVE Bisect(_, _, _, _, _, _)
Bisect(h, ind, element, value, first, last) ==
  LET mid == (first + last) \div 2
      diff == Diff(h, ind, element, value, At(ind, mid))
      runs == {c \in 0..mid : \A i \in c..mid : Diff(h, ind, element, value, At(ind, i)) = 0}
      near == {c \in first..last : Diff(h, ind, element, value, At(ind, c)) = 0}
  IN CASE last - first <= 1 -> IF near = {} THEN Len(ind.nodes) ELSE Min(near)
       [] last - first > 1 /\ diff = 0 -> Min(runs)
       [] last - first > 1 /\ diff < 0 -> Bisect(h, ind, element, value, first, mid)
       [] OTHER -> Bisect(h, ind, element, value, mid, last)

IndexFind(h, ind, element, value) ==
  LET size == Len(ind.nodes)
      place == IF ind.cur = 0 THEN Bisect(h, ind, element, value, 0, size - 1) ELSE ind.cur
      hit == place < size /\ Diff(h, ind, element, value, At(ind, place)) = 0
  IN CASE ind.attr = Null /\ value # Null -> [node |-> Nil, ind |-> ind]
       [] (ind.attr # Null \/ value = Null) /\ element = Null /\ value = Null -> IndexEnum(ind)
       [] (ind.attr # Null \/ value = Null) /\ (element # Null \/ value # Null) ->
            CASE size = 0 -> [node |-> Nil, ind |-> ind]
              [] size # 0 /\ hit -> [node |-> At(ind, place), ind |-> [ind EXCEPT !.cur = place + 1]]
              [] OTHER -> [node |-> Nil, ind |-> [ind EXCEPT !.cur = size]]
=============================================================================
