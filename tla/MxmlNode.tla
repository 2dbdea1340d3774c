------------------------------ MODULE MxmlNode -----------------------------
(* The nodes of Mini-XML (config/mxml): mxml-node.c, mxml-attr.c,          *)
(* mxml-get.c and mxml-set.c.  A heap h gives every block of memory the    *)
(* node it holds; a pointer is the number of a block and NULL is 0.  Names *)
(* and values are sequences of characters, as strings are.                 *)
EXTENDS Integers, Sequences, FiniteSets, FiniteSetsExt

Seqs == INSTANCE SequencesExt

Nil == 0
Null == <<"null">>         \* the string pointer that points nowhere

ValueTypes == {"integer", "opaque", "real", "text", "custom"}
Types == ValueTypes \cup {"cdata", "comment", "declaration", "directive", "element"}

Blank == [type |-> "free", parent |-> Nil, prev |-> Nil, next |-> Nil, child |-> Nil, last |-> Nil,
          val |-> <<>>, ws |-> FALSE, attrs |-> <<>>, array |-> "none", refs |-> 0]
Empty(size) == [n \in 1..size |-> Blank]
Live(h) == {n \in DOMAIN h : h[n].type # "free"}

-----------------------------------------------------------------------------
(* Links.                                                                  *)

(* (slip: the last child of the parent is left as it was)                  *)
RemoveKeepingLast(h, n) ==
  LET d == h[n]
      out == IF d.prev # Nil THEN [h EXCEPT ![d.prev].next = d.next] ELSE [h EXCEPT ![d.parent].child = d.next]
      back == IF d.next # Nil THEN [out EXCEPT ![d.next].prev = d.prev] ELSE out
  IN IF d.parent = Nil THEN h ELSE [back EXCEPT ![n].parent = Nil, ![n].prev = Nil, ![n].next = Nil]

Remove(h, n) ==
  LET d == h[n]
      out == IF d.prev # Nil THEN [h EXCEPT ![d.prev].next = d.next] ELSE [h EXCEPT ![d.parent].child = d.next]
      back == IF d.next # Nil THEN [out EXCEPT ![d.next].prev = d.prev] ELSE [out EXCEPT ![d.parent].last = d.prev]
  IN IF d.parent = Nil THEN h ELSE [back EXCEPT ![n].parent = Nil, ![n].prev = Nil, ![n].next = Nil]

(* node goes before child, or first when child is none of parent's own or  *)
(* the first of them.                                                      *)
AddBefore(h, parent, child, node) ==
  IF child = Nil \/ child = h[parent].child \/ h[child].parent # parent
  THEN LET put == [h EXCEPT ![node].next = h[parent].child]
           tie == IF h[parent].child # Nil THEN [put EXCEPT ![h[parent].child].prev = node]
                  ELSE [put EXCEPT ![parent].last = node]
       IN [tie EXCEPT ![parent].child = node]
  ELSE LET put == [h EXCEPT ![node].next = child, ![node].prev = h[child].prev]
           tie == IF h[child].prev # Nil THEN [put EXCEPT ![h[child].prev].next = node]
                  ELSE [put EXCEPT ![parent].child = node]
       IN [tie EXCEPT ![child].prev = node]

AddAfter(h, parent, child, node) ==
  IF child = Nil \/ child = h[parent].last \/ h[child].parent # parent
  THEN LET put == [h EXCEPT ![node].prev = h[parent].last]
           tie == IF h[parent].last # Nil THEN [put EXCEPT ![h[parent].last].next = node]
                  ELSE [put EXCEPT ![parent].child = node]
       IN [tie EXCEPT ![parent].last = node]
  ELSE LET put == [h EXCEPT ![node].prev = child, ![node].next = h[child].next]
           tie == IF h[child].next # Nil THEN [put EXCEPT ![h[child].next].prev = node]
                  ELSE [put EXCEPT ![parent].last = node]
       IN [tie EXCEPT ![child].next = node]

Add(h, parent, where, child, node) ==
  LET free == [Remove(h, node) EXCEPT ![node].parent = parent]
  IN IF where = "before" THEN AddBefore(free, parent, child, node) ELSE AddAfter(free, parent, child, node)

-----------------------------------------------------------------------------
(* Memory.  A block freed a second time stays marked "twice".              *)

Free(h, n) == [h EXCEPT ![n] = IF h[n].type \in {"free", "twice"} THEN [Blank EXCEPT !.type = "twice"] ELSE Blank]

(* The walk of mxmlDelete under top: down as long as there is a child,     *)
(* cutting it off its parent, then along, then up to the parent again.     *)
RECURSIVE FreeChildren(_, _, _)
FreeChildren(h, top, n) ==
  LET down == h[n].child
      on == CASE h[n].next # Nil -> h[n].next
              [] h[n].next = Nil /\ h[n].parent = top -> Nil
              [] OTHER -> h[n].parent
  IN CASE n = Nil -> h
       [] n # Nil /\ down # Nil -> FreeChildren([h EXCEPT ![n].child = Nil], top, down)
       [] OTHER -> FreeChildren(Free(h, n), top, on)

Delete(h, n) ==
  IF n = Nil THEN h
  ELSE LET alone == Remove(h, n) IN Free(FreeChildren(alone, n, alone[n].child), n)

Retain(h, n) == [h EXCEPT ![n].refs = @ + 1]
Release(h, n) == IF h[n].refs <= 1 THEN Delete(h, n) ELSE [h EXCEPT ![n].refs = @ - 1]

Fresh(h) == Min({n \in DOMAIN h : h[n].type = "free"})
Room(h, k) == Cardinality({n \in DOMAIN h : h[n].type = "free"}) >= k

(* The new node is Fresh(h), the last child of parent if there is one.     *)
New(h, parent, type, val) ==
  LET n == Fresh(h)
      made == [h EXCEPT ![n] = [Blank EXCEPT !.type = type, !.val = val, !.refs = 1]]
  IN IF parent = Nil THEN made ELSE Add(made, parent, "after", Nil, n)

(* These four give the node back when its string cannot be copied (Null).  *)
Checked(h, parent, type, val) ==
  IF val = Null THEN Delete(New(h, parent, type, val), Fresh(h)) ELSE New(h, parent, type, val)
NewCDATA(h, parent, data) == Checked(h, parent, "cdata", data)
NewComment(h, parent, comment) == Checked(h, parent, "comment", comment)
NewDeclaration(h, parent, declaration) == Checked(h, parent, "declaration", declaration)
NewDirective(h, parent, directive) == Checked(h, parent, "directive", directive)

(* These keep it, with no string.                                          *)
NewCustom(h, parent, data) == New(h, parent, "custom", data)
NewElement(h, parent, name) == New(h, parent, "element", name)
NewInteger(h, parent, integer) == New(h, parent, "integer", integer)
NewOpaque(h, parent, opaque) == New(h, parent, "opaque", opaque)
NewReal(h, parent, real) == New(h, parent, "real", real)
NewText(h, parent, whitespace, string) == [New(h, parent, "text", string) EXCEPT ![Fresh(h)].ws = whitespace]
NewXML(h) == NewDirective(h, Nil, <<"xml">>)

NewNode(h, parent, type, val) ==
  CASE type = "cdata" -> NewCDATA(h, parent, val)
    [] type = "comment" -> NewComment(h, parent, val)
    [] type = "declaration" -> NewDeclaration(h, parent, val)
    [] type = "directive" -> NewDirective(h, parent, val)
    [] type = "element" -> NewElement(h, parent, val)
    [] type = "integer" -> NewInteger(h, parent, val)
    [] type = "opaque" -> NewOpaque(h, parent, val)
    [] type = "real" -> NewReal(h, parent, val)
    [] type = "text" -> NewText(h, parent, FALSE, val)
    [] type = "custom" -> NewCustom(h, parent, val)

-----------------------------------------------------------------------------
(* Attributes: a sequence of names and values in the order they were set.  *)

Places(h, n, name) == {i \in DOMAIN h[n].attrs : h[n].attrs[i].name = name}

GetAttr(h, n, name) ==
  IF n = Nil \/ h[n].type # "element" \/ Places(h, n, name) = {} THEN Null
  ELSE h[n].attrs[Min(Places(h, n, name))].value
GetAttrCount(h, n) == IF n # Nil /\ h[n].type = "element" THEN Len(h[n].attrs) ELSE 0
GetAttrByIndex(h, n, idx) == IF idx >= GetAttrCount(h, n) THEN Null ELSE h[n].attrs[idx + 1].value

(* The array of the attributes: none before the first of them, then held.  *)
(* It is freed with the last attribute but its address is kept, and the    *)
(* next attribute is put into a realloc of the freed array (misused).      *)
SetAttr(h, n, name, value) ==
  LET at == Places(h, n, name)
      array == IF h[n].array \in {"freed", "misused"} THEN "misused" ELSE "held"
  IN CASE h[n].type # "element" -> h
       [] h[n].type = "element" /\ at # {} -> [h EXCEPT ![n].attrs[Min(at)].value = value]
       [] OTHER -> [h EXCEPT ![n].attrs = Append(@, [name |-> name, value |-> value]), ![n].array = array]

ClearAttr(h, n, name) ==
  IF h[n].type # "element" \/ Places(h, n, name) = {} THEN h
  ELSE LET left == Seqs!RemoveAt(h[n].attrs, Min(Places(h, n, name)))
       IN [h EXCEPT ![n].attrs = left, ![n].array = IF left = <<>> /\ @ = "held" THEN "freed" ELSE @]

-----------------------------------------------------------------------------
(* Values.  A value may be asked for, and set, at the element that has it  *)
(* as its first child.                                                     *)

OwnValue(h, n, type) == IF n = Nil \/ h[n].type # type THEN Null ELSE h[n].val
Inner(h, n, type) ==
  IF n # Nil /\ h[n].type = "element" /\ h[n].child # Nil /\ h[h[n].child].type = type THEN h[n].child ELSE n
InnerValue(h, n, type) == OwnValue(h, Inner(h, n, type), type)

GetCDATA(h, n) == OwnValue(h, n, "cdata")
GetComment(h, n) == OwnValue(h, n, "comment")
GetCustom(h, n) == InnerValue(h, n, "custom")
GetDeclaration(h, n) == OwnValue(h, n, "declaration")
GetDirective(h, n) == OwnValue(h, n, "directive")
GetElement(h, n) == OwnValue(h, n, "element")
GetInteger(h, n) == IF InnerValue(h, n, "integer") = Null THEN <<"0">> ELSE InnerValue(h, n, "integer")
GetOpaque(h, n) == InnerValue(h, n, "opaque")
GetReal(h, n) == IF InnerValue(h, n, "real") = Null THEN <<"0">> ELSE InnerValue(h, n, "real")
GetText(h, n) ==
  LET t == Inner(h, n, "text")
  IN [string |-> OwnValue(h, t, "text"), ws |-> OwnValue(h, t, "text") # Null /\ h[t].ws]
GetFirstChild(h, n) == IF n = Nil THEN Nil ELSE h[n].child
GetLastChild(h, n) == IF n = Nil THEN Nil ELSE h[n].last
GetNextSibling(h, n) == IF n = Nil THEN Nil ELSE h[n].next
GetParent(h, n) == IF n = Nil THEN Nil ELSE h[n].parent
GetPrevSibling(h, n) == IF n = Nil THEN Nil ELSE h[n].prev
GetType(h, n) == IF n = Nil THEN "ignore" ELSE h[n].type

(* Null is no new value, and one that cannot be copied changes nothing.    *)
SetValue(h, n, type, val) ==
  LET at == Inner(h, n, type)
  IN IF at = Nil \/ h[at].type # type \/ val = Null THEN h ELSE [h EXCEPT ![at].val = val]
SetCDATA(h, n, data) == SetValue(h, n, "cdata", data)
SetComment(h, n, comment) == SetValue(h, n, "comment", comment)
SetCustom(h, n, data) == SetValue(h, n, "custom", data)
SetDeclaration(h, n, declaration) == SetValue(h, n, "declaration", declaration)
SetDirective(h, n, directive) == SetValue(h, n, "directive", directive)
SetElement(h, n, name) == IF n = Nil \/ h[n].type # "element" \/ name = Null THEN h ELSE [h EXCEPT ![n].val = name]
SetInteger(h, n, integer) == SetValue(h, n, "integer", integer)
SetOpaque(h, n, opaque) == SetValue(h, n, "opaque", opaque)
SetReal(h, n, real) == SetValue(h, n, "real", real)
SetText(h, n, whitespace, string) ==
  LET at == Inner(h, n, "text")
  IN IF at = Nil \/ h[at].type # "text" \/ string = Null THEN h
     ELSE [h EXCEPT ![at].val = string, ![at].ws = whitespace]

SetNode(h, n, type, val) ==
  CASE type = "cdata" -> SetCDATA(h, n, val)
    [] type = "comment" -> SetComment(h, n, val)
    [] type = "declaration" -> SetDeclaration(h, n, val)
    [] type = "directive" -> SetDirective(h, n, val)
    [] type = "element" -> SetElement(h, n, val)
    [] type = "integer" -> SetInteger(h, n, val)
    [] type = "opaque" -> SetOpaque(h, n, val)
    [] type = "real" -> SetReal(h, n, val)
    [] type = "text" -> SetText(h, n, FALSE, val)
    [] type = "custom" -> SetCustom(h, n, val)
=============================================================================
