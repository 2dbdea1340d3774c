-------------------------------- MODULE Mxml -------------------------------
(* A caller of Mini-XML: it loads a document, token by token, uses the     *)
(* tree that comes back and deletes it.                                    *)
EXTENDS TlsConfig

CONSTANTS
  Tokens,                  \* what a document is made of
  ConfigTokens,            \* what a configuration file is made of
  OptionSets,              \* the options it is loaded with
  TopName,                 \* the name of a tree it is loaded into
  EditValues,              \* the values the caller puts into nodes
  MaxNodes,                \* bound: the blocks of memory
  QueueMax,                \* bound: the queues there is room for
  MaxTokens, MaxConfig,    \* bounds: the tokens of a document, of a configuration file
  MaxEdits,                \* bound: the calls on the tree
  MaxEdited                \* bound: the tokens of a document whose tree is called on

VARIABLES
  w,                       \* the heap and the reader
  opt,                     \* the options of the load
  read,                    \* the tokens read
  root,                    \* the tree the caller has
  held,                    \* the nodes the caller has outside of it
  edits,                   \* the calls made on it
  emptied,                 \* the elements the calls took the last attribute from
  cfg                      \* the configuration read from it
vars == <<w, opt, read, root, held, edits, emptied, cfg>>

Heap == w.h
Ended == w.l.st \in {"done", "failed"}
Misused == {n \in Live(Heap) : Heap[n].array = "misused"}

(* What a caller does that has used freed memory, or whose tree is gone    *)
(* (root is Nil), is not modelled.                                         *)
UsesTree == w.l.st = "done" /\ root # Nil /\ Misused = {}

Init == /\ opt \in OptionSets
        /\ \/ w = Begin(Empty(MaxNodes), Nil, opt)
           \/ w = Begin(NewElement(Empty(MaxNodes), Nil, TopName), 1, opt)
        /\ root = w.l.top /\ held = {} /\ read = 0 /\ edits = 0 /\ emptied = {} /\ cfg = ClearedConfig(QueueMax)

(* What the load returns is the caller's: the tree, unless it gave one; a  *)
(* second one when that was closed before anything was read into it.  A    *)
(* document that fails leaves the caller the tree it had, and one that     *)
(* closes it under a SAX callback takes it away (topless).                 *)
Settle(next) ==
  LET l == next.l
      got == l.st = "done" /\ l.result # Nil
  IN /\ w' = next
     /\ root' = CASE l.topless -> Nil
                  [] ~l.topless /\ l.top = Nil /\ got -> l.result
                  [] OTHER -> root
     /\ held' = IF got /\ l.top # Nil /\ l.result # l.top /\ next.h[l.result].parent = Nil
                THEN held \cup {l.result} ELSE held

(* A file as the daemon reads it: of elements only, without options, into  *)
(* a tree of its own.                                                      *)
ConfigFile == ~opt.given /\ w.l.top = Nil /\ \A n \in Live(Heap) : Heap[n].type \in {"directive", "element"}

ReadToken ==
  /\ w.l.st = "run" /\ Room(Heap, 2)
  /\ \E tok \in Tokens \cup ConfigTokens, says \in IF opt.sax THEN {"go", "keep", "stop"} ELSE {"go"} :
       /\ \/ tok \in Tokens /\ read < MaxTokens
          \/ tok \in ConfigTokens /\ ConfigFile /\ read < MaxConfig
       /\ Settle(Read(w, opt, tok, says))
  /\ read' = read + 1
  /\ UNCHANGED <<opt, edits, emptied, cfg>>

EndOfDocument ==
  /\ w.l.st = "run"
  /\ Settle(End(w))
  /\ UNCHANGED <<opt, read, edits, emptied, cfg>>

(* A document that cannot be opened.                                       *)
NoDocument ==
  /\ w.l.st = "run" /\ read = 0
  /\ Settle([w EXCEPT !.l.st = "failed"])
  /\ UNCHANGED <<opt, read, edits, emptied, cfg>>

ReadConfig ==
  /\ UsesTree /\ edits = 0 /\ cfg = ClearedConfig(QueueMax) /\ ~opt.sax
  /\ cfg' = TlsConfigLoadAll(Heap, root, cfg)
  /\ UNCHANGED <<w, opt, read, root, held, edits, emptied>>

-----------------------------------------------------------------------------
(* Calls on the tree: of a caller that hands in no node that is freed and  *)
(* puts no node into itself.                                               *)

RECURSIVE Preorder(_, _)
RECURSIVE Siblings(_, _)
Preorder(h, n) == <<n>> \o Siblings(h, h[n].child)
Siblings(h, n) == IF n = Nil THEN <<>> ELSE Preorder(h, n) \o Siblings(h, h[n].next)
Below(h, n) == Seqs!ToSet(Preorder(h, n))

Owned == UNION {Below(Heap, n) : n \in held \cup {root}}
Elements == {n \in Owned : Heap[n].type = "element"}
MayEdit == UsesTree /\ edits < MaxEdits /\ read <= MaxEdited
Edit(h) == /\ w' = [w EXCEPT !.h = h]
           /\ edits' = edits + 1
           /\ emptied' = {n \in Live(h) : n \in emptied \/ (Heap[n].attrs # <<>> /\ h[n].attrs = <<>>)}
           /\ UNCHANGED <<opt, read, root, cfg>>

AddNode ==
  /\ MayEdit
  /\ \E parent \in Elements, node \in Owned \ {root}, where \in {"before", "after"} :
       \E child \in (Owned \cup {Nil}) \ {node} :
         /\ parent \notin Below(Heap, node)
         /\ Edit(Add(Heap, parent, where, child, node))
         /\ held' = held \ {node}

RemoveNode ==
  /\ MayEdit
  /\ \E node \in Owned \ {root} : Edit(Remove(Heap, node)) /\ held' = held \cup {node}

DeleteNode ==
  /\ MayEdit
  /\ \E node \in Owned \ {root} : Edit(Delete(Heap, node)) /\ held' = held \ {node}

CreateNode ==
  /\ MayEdit /\ Room(Heap, 1)
  /\ \E parent \in Elements \cup {Nil}, type \in {"cdata", "element", "text"}, val \in EditValues \cup {Null} :
       LET n == Fresh(Heap) made == NewNode(Heap, parent, type, val)
       IN /\ Edit(made)
          /\ held' = IF parent = Nil /\ made[n].type # "free" THEN held \cup {n} ELSE held

SetAttribute ==
  /\ MayEdit
  /\ \E n \in Elements, name \in EditValues, value \in EditValues : Edit(SetAttr(Heap, n, name, value))
  /\ UNCHANGED held

ClearAttribute ==
  /\ MayEdit
  /\ \E n \in Elements, name \in EditValues : Edit(ClearAttr(Heap, n, name))
  /\ UNCHANGED held

SetValueOf ==
  /\ MayEdit
  /\ \E n \in Owned, type \in {"element", "text", "opaque"}, val \in EditValues : Edit(SetNode(Heap, n, type, val))
  /\ UNCHANGED held

RetainNode == MayEdit /\ (\E n \in Owned : Edit(Retain(Heap, n))) /\ UNCHANGED held

ReleaseNode ==
  /\ MayEdit
  /\ \E n \in Owned :
       /\ n = root => Heap[n].refs > 1
       /\ Edit(Release(Heap, n))
       /\ held' = IF Heap[n].refs = 1 THEN held \ {n} ELSE held

DeleteTree ==
  /\ Ended /\ root # Nil /\ Misused = {}
  /\ w' = [w EXCEPT !.h = Delete(Heap, root), !.l.st = "gone"]
  /\ root' = Nil /\ emptied' = {}
  /\ UNCHANGED <<opt, read, held, edits, cfg>>

Next == \/ ReadToken \/ EndOfDocument \/ NoDocument \/ ReadConfig
        \/ AddNode \/ RemoveNode \/ DeleteNode \/ CreateNode
        \/ SetAttribute \/ ClearAttribute \/ SetValueOf \/ RetainNode \/ ReleaseNode \/ DeleteTree

Spec == Init /\ [][Next]_vars

-----------------------------------------------------------------------------
(* Trees.                                                                  *)

(* The links of a node and of its neighbours say the same.                 *)
Linked(h, n) ==
  LET d == h[n]
  IN /\ {d.parent, d.prev, d.next, d.child, d.last} \subseteq Live(h) \cup {Nil}
     /\ d.child # Nil => h[d.child].parent = n /\ h[d.child].prev = Nil
     /\ d.last # Nil => h[d.last].parent = n /\ h[d.last].next = Nil
     /\ d.next # Nil => h[d.next].prev = n /\ h[d.next].parent = d.parent
     /\ d.prev # Nil => h[d.prev].next = n /\ h[d.prev].parent = d.parent
     /\ d.prev = Nil => d.parent = Nil \/ h[d.parent].child = n
     /\ d.next = Nil => d.parent = Nil \/ h[d.parent].last = n

(* A walk visits what is under top in the order of the document, and the   *)
(* walk back the same, from the first of them to none.                     *)
Walked(h, top) ==
  LET p == Preorder(h, top)
  IN /\ \A i \in DOMAIN p : WalkNext(h, p[i], top, "all") = IF i = Len(p) THEN Nil ELSE p[i + 1]
     /\ \A i \in DOMAIN p \ {1} : WalkPrev(h, p[i], top, "all") = IF i = 2 THEN Nil ELSE p[i - 1]

Asked(h, ind, element, value, i) == Diff(h, ind, element, value, At(ind, i)) = 0
RECURSIVE Found(_, _, _, _)
Found(h, ind, element, value) ==
  LET f == IndexFind(h, ind, element, value)
  IN IF f.node = Nil THEN <<>> ELSE <<f.node>> \o Found(h, f.ind, element, value)

(* Collecting finds the elements asked for.  The sort of what it found     *)
(* leaves the array (wild) only where one node is below all others, always *)
(* where that is the first, never where it is the only one below the       *)
(* first.  An index whose sort stays within the array is sorted, and a     *)
(* search in it finds the nodes with a name, one after the other.          *)
IndexSound(h, top, attr, wanted) ==
  LET found == Collected(h, top, Null, attr)
      ind == IndexNew(h, top, Null, attr)
      places == 0..(Len(ind.nodes) - 1)
      UpTo(n) == {m \in Seqs!ToSet(found) : IndexCompare(h, ind, m, n) <= 0}
  IN /\ Seqs!ToSet(found) \ {top} = wanted /\ Seqs!IsInjective(found)
     /\ ind.wild => \E n \in wanted \cup {top} : UpTo(n) = {n}
     /\ Len(found) > 1 /\ UpTo(found[1]) = {found[1]} => ind.wild
     /\ Len(found) > 1 /\ Cardinality(UpTo(found[1])) = 2 => ~ind.wild
     /\ ~ind.wild =>
          /\ Seqs!ToSet(ind.nodes) = Seqs!ToSet(found)
          /\ \A i, j \in places : i < j => IndexCompare(h, ind, At(ind, i), At(ind, j)) <= 0
          /\ \A name \in {h[n].val : n \in wanted} :
               Seqs!ToSet(Found(h, ind, name, Null)) = {At(ind, i) : i \in {j \in places : Asked(h, ind, name, Null, j)}}
Indexed(h, top, attr) ==
  IndexSound(h, top, attr, {n \in Below(h, top) : Matches(h, n, Null, attr, Null)} \ {top})

(* A value that was read while no element was open, and a node the load    *)
(* gave up before it became the first one, are in nobody's hands.          *)
Stray(n) == Heap[n].parent = Nil /\ Heap[n].child = Nil
InHand == UNION {Below(Heap, n) : n \in ((held \cup w.l.kept \cup {root}) \ {Nil}) \cap Live(Heap)}

(* Whatever is read into a tree and done with it, by calls in any order,   *)
(* every link leads to a live node that leads back, walks visit the nodes  *)
(* in the order of the document, indexes find all that match unless their  *)
(* sort leaves the array, and exactly when it does is said above.  A node  *)
(* the SAX callback retained is there as long as the load goes on; what    *)
(* the caller cannot reach any more is at most a node without children;    *)
(* and a freed block is not freed again or used, with two exceptions.      *)
(* Setting an attribute of an element whose last one a call took away      *)
(* reallocates the freed array (mxml-attr.c:59, 255).  And a document that *)
(* closes the caller's own top under a SAX callback takes the tree away    *)
(* (mxml-file.c:1300), and the node it read first may have gone with it    *)
(* and be freed again by a failure; nothing more is claimed of that load.  *)
TreeSound ==
  /\ Misused \subseteq emptied
  /\ \A n \in DOMAIN Heap : Heap[n].type = "twice" => w.l.topless
  /\ w.l.topless => opt.sax /\ root = Nil
  /\ ~w.l.topless =>
       /\ \A n \in Live(Heap) : Linked(Heap, n)
       /\ \A n \in held \cup ({root} \ {Nil}) : Heap[n].type # "free" /\ Walked(Heap, n)
       /\ root # Nil => Indexed(Heap, root, Null)
       /\ root # Nil => \A name \in EditValues : Indexed(Heap, root, name)
       /\ w.l.st = "run" => w.l.kept \subseteq Live(Heap)
       /\ w.l.st # "run" => \A n \in Live(Heap) \ InHand : Stray(n)

-----------------------------------------------------------------------------
(* What a file says.                                                       *)

(* A tree, and the same tree wherever its nodes are.                       *)
RECURSIVE Tree(_, _)
RECURSIVE Trees(_, _)
Tree(h, n) == [type |-> h[n].type, val |-> h[n].val, ws |-> h[n].ws, attrs |-> h[n].attrs, kids |-> Trees(h, h[n].child)]
Trees(h, n) == IF n = Nil THEN <<>> ELSE <<Tree(h, n)>> \o Trees(h, h[n].next)

Named(name, nodes) == SelectSeq(nodes, LAMBDA n : Heap[n].type = "element" /\ Heap[n].val = name)
InOrder(n) == Tail(Preorder(Heap, n))
Told(n, fields, kept) ==
  [name \in Names(fields) |->
     LET i == PlaceOf(fields, name)
         given == i <= Len(Heap[n].attrs) /\ Heap[n].attrs[i].value # <<>>
     IN IF given THEN Stored(fields[i].kind, Heap[n].attrs[i].value) ELSE kept[name]]

(* A value that only a tag ends, last under a declaration or a directive:  *)
(* one that was closed by a tag with its text, which is not written.       *)
EndsOpen(h, n) ==
  LET last == h[n].last
  IN /\ h[n].type # "element" /\ last # Nil
     /\ h[last].type \in {"opaque", "custom"} \/ (h[last].type = "text" /\ h[last].val = <<>>)

(* A tree that was written and is read again is the same tree, except one  *)
(* that ends with a value no tag follows, which is always lost; and the    *)
(* daemon gets its queues from it in the order they stand in the file, a   *)
(* value that is not given staying as it was, and those there is no room   *)
(* for too (mxmlSaveFile, mxmlLoadFile, tls_config_load_all).              *)
ReadsBack ==
  /\ UsesTree /\ edits = 0 /\ ~opt.sax =>
       LET again == LoadData(Empty(MaxNodes), Nil, opt, SaveFile(Heap, root))
       IN /\ again.l.st = "done"
          /\ (Tree(again.h, again.l.result) = Tree(Heap, root)) = ~EndsOpen(Heap, root)
  /\ UsesTree /\ edits = 0 /\ cfg # ClearedConfig(QueueMax) =>
       LET sections == Named(<<"tls_transmit_queue">>, InOrder(root))
           queues == IF sections = <<>> THEN <<>> ELSE Named(<<"queue">>, InOrder(sections[1]))
       IN /\ cfg.over = (Len(queues) > QueueMax)
          /\ \A i \in 1..QueueMax :
               cfg.queues[i] = IF i > Len(queues) THEN Cleared(QueueFields)
                               ELSE Told(queues[i], QueueFields, Cleared(QueueFields))
=============================================================================
