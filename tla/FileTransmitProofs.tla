------------------------ MODULE FileTransmitProofs ------------------------
(***************************************************************************)
(* The file service, for any files, blocks and number of failures: no      *)
(* block is ever in two places and no descriptor is forgotten              *)
(* (BlocksKept), what is complete and undisturbed has been published whole *)
(* (PublishedWhole), and the worker sleeps on late blocks only             *)
(* (AsleepOnlyLate).                                                       *)
(***************************************************************************)
EXTENDS FileTransmit, FiniteSetTheorems, SequenceTheorems, TLAPS

(* The items of a queue after an insertion at the tail... *)
LEMMA AppendItems ==
  ASSUME NEW S, NEW s \in Seq(S), NEW e \in S
  PROVE  /\ Len(Append(s, e)) = Len(s) + 1 /\ Len(s) \in Nat
         /\ \A k \in 1 .. Len(s) : k \in 1 .. Len(Append(s, e)) /\ Append(s, e)[k] = s[k]
         /\ Append(s, e)[Len(s) + 1] = e
         /\ \A k \in 1 .. Len(Append(s, e)) : k \in 1 .. Len(s) \/ k = Len(s) + 1
  OBVIOUS

(* ... and after a removal from the head. *)
LEMMA TailItems ==
  ASSUME NEW S, NEW s \in Seq(S), s # << >>
  PROVE  /\ 1 \in 1 .. Len(s) /\ Head(s) = s[1] /\ Head(s) \in S
         /\ \A k \in 1 .. Len(Tail(s)) :
              k \in Nat /\ k + 1 \in 1 .. Len(s) /\ k + 1 # 1 /\ Tail(s)[k] = s[k + 1]
         /\ \A k \in 1 .. Len(s) : k = 1 \/ (k - 1 \in 1 .. Len(Tail(s)) /\ Tail(s)[k - 1] = s[k])
  OBVIOUS

(* Numbers have a least. *)
LEMMA LeastOf ==
  ASSUME NEW S, S \subseteq Nat, S # {}
  PROVE  \E f \in S : \A g \in S : f <= g
<1> DEFINE R == {ss \in Nat \X Nat : ss[1] < ss[2]}
<1>1. PICK f \in S : \A g \in S : ~(<<g, f>> \in R)
  <2>1. IsWellFoundedOn(R, Nat)
    BY NatLessThanWellFounded, Zenon DEF OpToRel
  <2> HIDE DEF R
  <2> QED
    BY <2>1, WFMin
<1>2. \A g \in S : f <= g
  <2> SUFFICES ASSUME NEW g \in S PROVE f <= g
    OBVIOUS
  <2>1. f \in Nat /\ g \in Nat
    OBVIOUS
  <2>2. ~(g < f)
    BY <1>1, <2>1
  <2> QED
    BY <2>1, <2>2
<1> QED
  BY <1>2

(* A set whose elements are all the same. *)
LEMMA ExactlyOne ==
  ASSUME NEW S, \A o1, o2 \in S : o1 = o2, S # {}
  PROVE  Cardinality(S) = 1
<1>1. PICK o : o \in S
  OBVIOUS
<1>2. S = {o}
  BY <1>1
<1>3. Cardinality({o}) = 1
  BY FS_Singleton
<1> QED
  BY <1>2, <1>3

(* The way of the blocks: from the callback's hands through the queue to   *)
(* the worker's.  Handing a block on leaves it as it is.                   *)
Opt(b) == IF b = NoBlock THEN << >> ELSE <<b>>
Way == Opt(wbuf) \o queue \o Opt(rbuf)

OnWay(b)   == \E k \in 1 .. Len(Way) : Way[k] = b
Waiting(b) == \E i \in 1 .. Len(entries) : \E k \in 1 .. Len(entries[i].pending) : entries[i].pending[k] = b

-----------------------------------------------------------------------------
(* The inductive invariant, in parts.  First the types.                    *)

Types == /\ TypeOK
         /\ disk \in [File -> Seq(Nat \cup {Hole})]
         /\ \A f \in File : next[f] <= BlockCount[f]

(* A block is free, on its way or with an entry: in one of these places,   *)
(* there once, and in none only when something went wrong.                 *)
Apart ==
  \A b \in Block :
    /\ b \in pool => b \notin heap /\ ~OnWay(b) /\ ~Waiting(b)
    /\ b \in heap => ~OnWay(b) /\ ~Waiting(b)
    /\ OnWay(b) => ~Waiting(b)

Once ==
  /\ \A k, l \in 1 .. Len(Way) : Way[k] = Way[l] => k = l
  /\ \A i, j \in 1 .. Len(entries) :
       \A k \in 1 .. Len(entries[i].pending), l \in 1 .. Len(entries[j].pending) :
         entries[i].pending[k] = entries[j].pending[l] => i = j /\ k = l

NoneLost == hurt = {} => \A b \in Block : b \in pool \/ b \in heap \/ OnWay(b) \/ Waiting(b)

Owned == Apart /\ Once /\ NoneLost

(* The descriptors of the entries are counted.  An entry given up keeps    *)
(* its own until the worker has been at it.                                *)
Writing == {i \in 1 .. Len(entries) : entries[i].wopen}
Reading == {i \in 1 .. Len(entries) :
              entries[i].ropen = "open" /\ (entries[i].complete => wpc = "read" /\ i = idx)}
Fds == /\ fds >= Cardinality(Writing) + Cardinality(Reading)
       /\ hurt = {} => fds = Cardinality(Writing) + Cardinality(Reading)

(* Complete entries lie behind the worker and are freed before it leaves   *)
(* the list.                                                               *)
Fresh ==
  \A i \in 1 .. Len(entries) : entries[i].complete =>
    /\ wpc \in {"write", "read", "sweep", "dead"}
    /\ wpc = "write" => i < idx
    /\ wpc = "read" => i <= idx

Upto(n) == [k \in 1 .. n |-> k - 1]

(* An entry of an undisturbed file, with what is on disk and what its      *)
(* blocks carry: its blocks follow what it has written, in order; the file *)
(* holds what it has written, and what it has published is a prefix of it. *)
Fine(e, data, cont) ==
  LET n == BlockCount[e.file] IN
  /\ e.wsize + Len(e.pending) >= 1
  /\ \A k \in 1 .. Len(e.pending) : cont[e.pending[k]].seq = e.wsize + k - 1
  /\ e.wpos = e.wsize
  /\ e.wopen \/ e.wsize = 0 \/ e.wsize = n
  /\ e.wopen \/ e.wsize > 0 => data = Upto(e.wsize)
  /\ e.sent = Upto(e.rpos) /\ e.rpos <= e.wsize
  /\ e.ropen # "bad"
  /\ e.complete => e.rpos = n /\ ~e.wopen

(* Between its two handlers an entry has something to read, or will have:  *)
(* so the read descriptor is the only one left when it becomes complete.   *)
Readable(e) == LET n == BlockCount[e.file] IN
               ~e.complete /\ IF e.wopen THEN e.rpos < n ELSE e.wsize = n

Good(i) == /\ Fine(entries[i], disk[entries[i].file], content)
           /\ wpc = "read" /\ i = idx => Readable(entries[i])

Undisturbed == File \ hurt

Entries == /\ \A i \in 1 .. Len(entries) : entries[i].file \in Undisturbed => Good(i)
           /\ \A i, j \in 1 .. Len(entries) :
                entries[i].file = entries[j].file /\ entries[i].file \in Undisturbed => i = j

(* The block of an undisturbed file that is due at the worker: those on    *)
(* the way are that one and all after it, in order, and its entry holds    *)
(* all before it.                                                          *)
WayAt(f, due) ==
  /\ due <= next[f]
  /\ \A k \in 1 .. Len(Way) : Carried(Way[k], f) => due <= content[Way[k]].seq /\ content[Way[k]].seq < next[f]
  /\ \A k, l \in 1 .. Len(Way) :
       k < l /\ Carried(Way[k], f) /\ Carried(Way[l], f) => content[Way[k]].seq < content[Way[l]].seq
  /\ \A s \in Nat : due <= s /\ s < next[f] =>
       \E k \in 1 .. Len(Way) : Carried(Way[k], f) /\ content[Way[k]].seq = s

HeldAt(f, due) ==
  /\ \A i \in EntriesOf(f) : entries[i].wsize + Len(entries[i].pending) = due
  /\ EntriesOf(f) = {} => due \in {0, BlockCount[f]}

Flow == \A f \in Undisturbed : \E due \in Nat : WayAt(f, due) /\ HeldAt(f, due)

(* The event is cleared only when nothing but late blocks is queued; until *)
(* then some entry stays, because it has not published its last block.     *)
LateOnly == \A k \in 1 .. Len(queue) : queue[k] \in late
Unread(i) == wpc \in {"write", "read"} /\ idx <= i
Stays(i) == ~entries[i].complete /\ (Unread(i) => Len(entries[i].sent) < BlockCount[entries[i].file])
Awake ==
  /\ ~evt => wpc \in {"loop", "wait"}
  /\ hurt = {} /\ (~evt \/ wpc = "deactive") => LateOnly
  /\ hurt = {} /\ wpc \in {"write", "read", "sweep"} => LateOnly \/ \E i \in 1 .. Len(entries) : Stays(i)

IInv == Types /\ Owned /\ Fds /\ Fresh /\ Entries /\ Flow /\ Awake
-----------------------------------------------------------------------------
(* The freeing of entries: those that are not complete stay, each once. *)

LEMMA RankedOnce ==
  ASSUME NEW S, IsFiniteSet(S), S \subseteq Nat
  PROVE  /\ \A i \in S : Cardinality(Ahead(S, i)) \in 1 .. Cardinality(S)
         /\ \A i, j \in S : Cardinality(Ahead(S, i)) = Cardinality(Ahead(S, j)) => i = j
         /\ \A k \in 1 .. Cardinality(S) : \E i \in S : Cardinality(Ahead(S, i)) = k
<1> DEFINE n == Cardinality(S)
<1>0. n \in Nat
  BY FS_CardinalityType
<1>1. ASSUME NEW i \in S
      PROVE  IsFiniteSet(Ahead(S, i)) /\ Cardinality(Ahead(S, i)) \in 1 .. n
  <2>1. Ahead(S, i) \subseteq S /\ i \in Ahead(S, i)
    BY DEF Ahead
  <2>2. IsFiniteSet(Ahead(S, i)) /\ Cardinality(Ahead(S, i)) <= n
    BY <2>1, FS_Subset
  <2>3. Cardinality(Ahead(S, i)) \in Nat /\ Cardinality(Ahead(S, i)) # 0
    BY <2>1, <2>2, FS_CardinalityType, FS_EmptySet
  <2> HIDE DEF n
  <2>4. \A c \in Nat : c # 0 /\ c <= n => c \in 1 .. n
    BY <1>0
  <2> QED
    BY <2>2, <2>3, <2>4
<1>2. ASSUME NEW i \in S, NEW j \in S, i < j
      PROVE  Cardinality(Ahead(S, i)) # Cardinality(Ahead(S, j))
  <2>0. i \in Int /\ j \in Int /\ \A k \in S : k \in Int
    OBVIOUS
  <2>1. Ahead(S, i) \subseteq Ahead(S, j) /\ j \in Ahead(S, j) /\ j \notin Ahead(S, i)
    <3>1. \A k \in S : k <= i => k <= j
      BY <1>2, <2>0
    <3>2. j <= j /\ ~(j <= i)
      BY <1>2, <2>0
    <3> QED
      BY <3>1, <3>2, Zenon DEF Ahead
  <2>2. Ahead(S, i) \in SUBSET Ahead(S, j) /\ Ahead(S, i) # Ahead(S, j)
    BY <2>1
  <2>3. IsFiniteSet(Ahead(S, j))
    BY <1>1
  <2> QED
    BY <2>2, <2>3, FS_Subset
<1>3. ASSUME NEW i \in S, NEW j \in S, Cardinality(Ahead(S, i)) = Cardinality(Ahead(S, j))
      PROVE  i = j
  <2>1. i < j \/ j < i \/ i = j
    OBVIOUS
  <2> QED
    BY <1>2, <1>3, <2>1
<1>4. \A k \in 1 .. n : \E i \in S : Cardinality(Ahead(S, i)) = k
  <2> DEFINE f == [i \in S |-> Cardinality(Ahead(S, i))]
  <2>1. f \in [S -> 1 .. n] /\ \A i, j \in S : f[i] = f[j] => i = j
    BY <1>1, <1>3
  <2>2. f \in Injection(S, 1 .. n)
    <3> HIDE DEF f, n
    <3> QED
      BY <2>1 DEF Injection, IsInjective
  <2>3. IsFiniteSet(1 .. n) /\ Cardinality(1 .. n) = n
    <3> HIDE DEF n
    <3>1. IsFiniteSet(1 .. n) /\ Cardinality(1 .. n) = IF 1 > n THEN 0 ELSE n - 1 + 1
      BY <1>0, FS_Interval
    <3> QED
      BY <1>0, <3>1
  <2>4. f \in Surjection(S, 1 .. n)
    <3> HIDE DEF f
    <3> QED
      BY <2>2, <2>3, FS_Injection
  <2> QED
    BY <2>4 DEF Surjection
<1> QED
  BY <1>1, <1>3, <1>4

(* The sequence r holds the entries of es that are not complete: the one   *)
(* at k was at m[k].                                                       *)
Keeps(es, r, m) ==
  /\ m \in [1 .. Len(r) -> 1 .. Len(es)]
  /\ \A k \in 1 .. Len(r) : r[k] = es[m[k]] /\ ~es[m[k]].complete
  /\ \A k, l \in 1 .. Len(r) : m[k] = m[l] => k = l
  /\ \A i \in 1 .. Len(es) : ~es[i].complete => \E k \in 1 .. Len(r) : m[k] = i

Keeping(es, r) == \E m : Keeps(es, r, m)

LEMMA IncompleteKept ==
  ASSUME NEW X, NEW es \in Seq(X)
  PROVE  Incomplete(es) \in Seq(X) /\ Keeping(es, Incomplete(es))
<1> DEFINE S == {i \in 1 .. Len(es) : ~es[i].complete}
           n == Cardinality(S)
           At(k) == CHOOSE i \in S : Cardinality(Ahead(S, i)) = k
           r == [k \in 1 .. n |-> es[At(k)]]
           m == [k \in 1 .. n |-> At(k)]
<1>1. r = Incomplete(es)
  BY DEF Incomplete
<1>2. Len(es) \in Nat /\ \A i \in 1 .. Len(es) : es[i] \in X
  OBVIOUS
<1>3. IsFiniteSet(S) /\ S \subseteq Nat /\ S \subseteq 1 .. Len(es) /\ n \in Nat
  <2>1. IsFiniteSet(1 .. Len(es))
    BY <1>2, FS_Interval
  <2>2. IsFiniteSet(S)
    BY <2>1, FS_Subset
  <2> QED
    BY <2>2, FS_CardinalityType
<1>4. /\ \A k \in 1 .. n : At(k) \in S /\ Cardinality(Ahead(S, At(k))) = k
      /\ \A i \in S : Cardinality(Ahead(S, i)) \in 1 .. n /\ At(Cardinality(Ahead(S, i))) = i
  <2> HIDE DEF S
  <2>1. /\ \A i \in S : Cardinality(Ahead(S, i)) \in 1 .. n
        /\ \A i, j \in S : Cardinality(Ahead(S, i)) = Cardinality(Ahead(S, j)) => i = j
        /\ \A k \in 1 .. n : \E i \in S : Cardinality(Ahead(S, i)) = k
    BY <1>3, RankedOnce
  <2>2. \A k \in 1 .. n : At(k) \in S /\ Cardinality(Ahead(S, At(k))) = k
    BY <2>1
  <2> QED
    BY <2>1, <2>2
<1> HIDE DEF n, At
<1>5. r \in Seq(X) /\ Len(r) = n
  <2>1. \A k \in 1 .. n : es[At(k)] \in X
    BY <1>2, <1>4
  <2>2. r \in [1 .. n -> X]
    BY <2>1
  <2> QED
    BY <1>3, <2>2, SeqDef
<1>6. Keeps(es, r, m)
  <2>1. m \in [1 .. n -> 1 .. Len(es)]
    BY <1>4
  <2>2. \A k \in 1 .. n : r[k] = es[m[k]] /\ ~es[m[k]].complete
    BY <1>4
  <2>3. \A k, l \in 1 .. n : m[k] = m[l] => k = l
    BY <1>4
  <2>4. \A i \in 1 .. Len(es) : ~es[i].complete => \E k \in 1 .. n : m[k] = i
    BY <1>4
  <2> HIDE DEF m, r
  <2> QED
    BY <1>5, <2>1, <2>2, <2>3, <2>4 DEF Keeps
<1> QED
  BY <1>1, <1>5, <1>6 DEF Keeping

-----------------------------------------------------------------------------
(* What the handlers of an entry make of it.                               *)

Edit(d) ==
  /\ idx \in 1 .. Len(entries) /\ Entry \in EntryType
  /\ d \in EntryType /\ d.file = Entry.file
  /\ entries' \in Seq(EntryType) /\ Len(entries') = Len(entries)
  /\ entries'[idx] = d /\ \A i \in 1 .. Len(entries) : i # idx => entries'[i] = entries[i]

SameWrite(d, e) == d.wopen = e.wopen /\ d.wpos = e.wpos /\ d.wsize = e.wsize
SameRead(d, e)  == d.ropen = e.ropen /\ d.rpos = e.rpos /\ d.sent = e.sent

LEMMA MakeEdit ==
  ASSUME Types, wpc \in {"write", "read"},
         NEW d \in EntryType, d.file = Entry.file, entries' = [entries EXCEPT ![idx] = d]
  PROVE  Edit(d)
<1>1. entries \in Seq(EntryType) /\ idx \in 1 .. Len(entries)
  BY DEF Types, TypeOK
<1>2. Entry \in EntryType
  <2> HIDE DEF EntryType
  <2> QED
    BY <1>1 DEF Entry
<1>3. /\ entries' \in Seq(EntryType) /\ Len(entries') = Len(entries)
      /\ entries'[idx] = d /\ \A i \in 1 .. Len(entries) : i # idx => entries'[i] = entries[i]
  <2> HIDE DEF EntryType
  <2> QED
    BY <1>1
<1> QED
  BY <1>1, <1>2, <1>3 DEF Edit

LEMMA AtTheEntry ==
  ASSUME Types, wpc \in {"write", "read"}
  PROVE  entries \in Seq(EntryType) /\ idx \in 1 .. Len(entries) /\ Entry \in EntryType /\ entries[idx] = Entry
<1>1. entries \in Seq(EntryType) /\ idx \in 1 .. Len(entries)
  BY DEF Types, TypeOK
<1>2. Entry \in EntryType
  <2> HIDE DEF EntryType
  <2> QED
    BY <1>1 DEF Entry
<1> QED
  BY <1>1, <1>2 DEF Entry

LEMMA CloseEdit ==
  ASSUME Types, WriteClose
  PROVE  \E d : /\ Edit(d) /\ d.wopen = FALSE /\ d.wpos = Entry.wpos /\ d.wsize = Entry.wsize
                /\ d.pending = Entry.pending /\ SameRead(d, Entry) /\ d.complete = Entry.complete
<1> DEFINE d == [Entry EXCEPT !.wopen = FALSE]
<1>1. wpc \in {"write", "read"} /\ entries' = [entries EXCEPT ![idx].wopen = FALSE]
  BY DEF WriteClose
<1>2. entries \in Seq(EntryType) /\ idx \in 1 .. Len(entries) /\ Entry \in EntryType /\ entries[idx] = Entry
  BY <1>1, AtTheEntry
<1>3. /\ d \in EntryType /\ d.file = Entry.file
      /\ d.wopen = FALSE /\ d.wpos = Entry.wpos /\ d.wsize = Entry.wsize
      /\ d.pending = Entry.pending /\ SameRead(d, Entry) /\ d.complete = Entry.complete
  BY <1>2 DEF EntryType, SameRead
<1>4. entries' = [entries EXCEPT ![idx] = d]
  BY <1>1, <1>2
<1>5. Edit(d)
  <2> HIDE DEF d
  <2> QED
    BY <1>1, <1>3, <1>4, MakeEdit
<1> QED
  BY <1>3, <1>5

LEMMA OpenEdit ==
  ASSUME Types, wpc = "write",
         entries' = [entries EXCEPT ![idx].wopen = TRUE, ![idx].wpos = 0]
  PROVE  \E d : /\ Edit(d) /\ d.wopen = TRUE /\ d.wpos = 0 /\ d.wsize = Entry.wsize
                /\ d.pending = Entry.pending /\ SameRead(d, Entry) /\ d.complete = Entry.complete
<1> DEFINE c == [Entry EXCEPT !.wopen = TRUE]
           d == [c EXCEPT !.wpos = 0]
<1>1. entries \in Seq(EntryType) /\ idx \in 1 .. Len(entries) /\ Entry \in EntryType /\ entries[idx] = Entry
  BY AtTheEntry
<1>2. /\ c \in EntryType /\ c.file = Entry.file /\ c.wopen = TRUE /\ c.wsize = Entry.wsize
      /\ c.pending = Entry.pending /\ SameRead(c, Entry) /\ c.complete = Entry.complete
  BY <1>1 DEF EntryType, SameRead
<1>3. entries' = [entries EXCEPT ![idx] = d]
  BY <1>1
<1> HIDE DEF c
<1>4. /\ d \in EntryType /\ d.file = Entry.file
      /\ d.wopen = TRUE /\ d.wpos = 0 /\ d.wsize = Entry.wsize
      /\ d.pending = Entry.pending /\ SameRead(d, Entry) /\ d.complete = Entry.complete
  BY <1>2 DEF EntryType, SameRead
<1>5. Edit(d)
  <2> HIDE DEF d
  <2> QED
    BY <1>3, <1>4, MakeEdit
<1> QED
  BY <1>4, <1>5

LEMMA GiveUpEdit ==
  ASSUME Types, wpc = "write", entries' = [entries EXCEPT ![idx].complete = TRUE]
  PROVE  \E d : /\ Edit(d) /\ SameWrite(d, Entry) /\ d.pending = Entry.pending
                /\ SameRead(d, Entry) /\ d.complete = TRUE
<1> DEFINE d == [Entry EXCEPT !.complete = TRUE]
<1>1. entries \in Seq(EntryType) /\ idx \in 1 .. Len(entries) /\ Entry \in EntryType /\ entries[idx] = Entry
  BY AtTheEntry
<1>2. /\ d \in EntryType /\ d.file = Entry.file /\ SameWrite(d, Entry)
      /\ d.pending = Entry.pending /\ SameRead(d, Entry) /\ d.complete = TRUE
  BY <1>1 DEF EntryType, SameRead, SameWrite
<1>3. entries' = [entries EXCEPT ![idx] = d]
  BY <1>1
<1>4. Edit(d)
  <2> HIDE DEF d
  <2> QED
    BY <1>2, <1>3, MakeEdit
<1> QED
  BY <1>2, <1>4

(* A block is taken from the entry, without being written... *)
LEMMA DropEdit ==
  ASSUME Types, wpc = "write", Entry.pending # << >>,
         entries' = [entries EXCEPT ![idx].pending = Tail(@)]
  PROVE  \E d : /\ Edit(d) /\ d.pending = Tail(Entry.pending) /\ SameWrite(d, Entry)
                /\ SameRead(d, Entry) /\ d.complete = Entry.complete
<1> DEFINE rest == Tail(Entry.pending)
           d == [Entry EXCEPT !.pending = rest]
<1>1. entries \in Seq(EntryType) /\ idx \in 1 .. Len(entries) /\ Entry \in EntryType /\ entries[idx] = Entry
  BY AtTheEntry
<1>2. rest \in Seq(Block)
  <2>1. Entry.pending \in Seq(Block)
    BY <1>1 DEF EntryType
  <2> QED
    BY <2>1
<1>3. entries' = [entries EXCEPT ![idx] = d]
  BY <1>1
<1> HIDE DEF rest
<1>4. /\ d \in EntryType /\ d.file = Entry.file /\ d.pending = rest /\ SameWrite(d, Entry)
      /\ SameRead(d, Entry) /\ d.complete = Entry.complete
  BY <1>1, <1>2 DEF EntryType, SameRead, SameWrite
<1>5. Edit(d)
  <2> HIDE DEF d
  <2> QED
    BY <1>3, <1>4, MakeEdit
<1> QED
  BY <1>4, <1>5 DEF rest

(* ... and written. *)
LEMMA WriteEdit ==
  ASSUME Types, wpc = "write", Entry.pending # << >>,
         entries' = [entries EXCEPT ![idx].pending = Tail(@), ![idx].wpos = @ + 1, ![idx].wsize = @ + 1]
  PROVE  \E d : /\ Edit(d) /\ d.pending = Tail(Entry.pending)
                /\ d.wopen = Entry.wopen /\ d.wpos = Entry.wpos + 1 /\ d.wsize = Entry.wsize + 1
                /\ SameRead(d, Entry) /\ d.complete = Entry.complete
<1> DEFINE rest == Tail(Entry.pending)  p == Entry.wpos + 1  n == Entry.wsize + 1
           b == [Entry EXCEPT !.pending = rest]
           c == [b EXCEPT !.wpos = p]
           d == [c EXCEPT !.wsize = n]
<1>1. entries \in Seq(EntryType) /\ idx \in 1 .. Len(entries) /\ Entry \in EntryType /\ entries[idx] = Entry
  BY AtTheEntry
<1>2. rest \in Seq(Block) /\ p \in Nat /\ n \in Nat
  <2>1. Entry.pending \in Seq(Block) /\ Entry.wpos \in Nat /\ Entry.wsize \in Nat
    BY <1>1 DEF EntryType
  <2> QED
    BY <2>1
<1>3. entries' = [entries EXCEPT ![idx] = d]
  BY <1>1
<1> HIDE DEF rest, p, n
<1>4. /\ b \in EntryType /\ b.file = Entry.file /\ b.pending = rest /\ SameWrite(b, Entry)
      /\ SameRead(b, Entry) /\ b.complete = Entry.complete
  BY <1>1, <1>2 DEF EntryType, SameRead, SameWrite
<1> HIDE DEF b
<1>5. /\ c \in EntryType /\ c.file = Entry.file /\ c.pending = rest /\ SameRead(c, Entry)
      /\ c.wopen = Entry.wopen /\ c.wpos = p /\ c.complete = Entry.complete
  BY <1>2, <1>4 DEF EntryType, SameRead, SameWrite
<1> HIDE DEF c
<1>6. /\ d \in EntryType /\ d.file = Entry.file /\ d.pending = rest /\ SameRead(d, Entry)
      /\ d.wopen = Entry.wopen /\ d.wpos = p /\ d.wsize = n /\ d.complete = Entry.complete
  BY <1>2, <1>5 DEF EntryType, SameRead
<1>7. Edit(d)
  <2> HIDE DEF d
  <2> QED
    BY <1>3, <1>6, MakeEdit
<1> QED
  BY <1>6, <1>7 DEF rest, p, n

LEMMA CompleteEdit ==
  ASSUME Types, ReadComplete
  PROVE  \E d : /\ Edit(d) /\ d.pending = Entry.pending
                /\ d.wopen = FALSE /\ d.wpos = Entry.wpos /\ d.wsize = Entry.wsize
                /\ SameRead(d, Entry) /\ d.complete = TRUE
<1>1. wpc = "read" /\ entries' = [entries EXCEPT ![idx].complete = TRUE, ![idx].wopen = FALSE]
  BY DEF ReadComplete
<1>2. entries \in Seq(EntryType) /\ idx \in 1 .. Len(entries) /\ Entry \in EntryType /\ entries[idx] = Entry
  BY <1>1, AtTheEntry
<1> DEFINE c == [Entry EXCEPT !.complete = TRUE]
           d == [c EXCEPT !.wopen = FALSE]
<1>3. /\ c \in EntryType /\ c.file = Entry.file /\ c.pending = Entry.pending
      /\ c.wpos = Entry.wpos /\ c.wsize = Entry.wsize /\ SameRead(c, Entry) /\ c.complete = TRUE
  BY <1>2 DEF EntryType, SameRead
<1>4. entries' = [entries EXCEPT ![idx] = d]
  BY <1>1, <1>2
<1> HIDE DEF c
<1>5. /\ d \in EntryType /\ d.file = Entry.file /\ d.pending = Entry.pending
      /\ d.wopen = FALSE /\ d.wpos = Entry.wpos /\ d.wsize = Entry.wsize
      /\ SameRead(d, Entry) /\ d.complete = TRUE
  BY <1>3 DEF EntryType, SameRead
<1>6. Edit(d)
  <2> HIDE DEF d
  <2> QED
    BY <1>1, <1>4, <1>5, MakeEdit
<1> QED
  BY <1>5, <1>6

LEMMA ReadOpenEdit ==
  ASSUME Types, wpc = "read", NEW how \in {"open", "bad"},
         entries' = [entries EXCEPT ![idx].ropen = how]
  PROVE  \E d : /\ Edit(d) /\ d.pending = Entry.pending /\ SameWrite(d, Entry)
                /\ d.ropen = how /\ d.rpos = Entry.rpos /\ d.sent = Entry.sent
                /\ d.complete = Entry.complete
<1> DEFINE d == [Entry EXCEPT !.ropen = how]
<1>1. entries \in Seq(EntryType) /\ idx \in 1 .. Len(entries) /\ Entry \in EntryType /\ entries[idx] = Entry
  BY AtTheEntry
<1>2. /\ d \in EntryType /\ d.file = Entry.file /\ SameWrite(d, Entry)
      /\ d.pending = Entry.pending /\ d.ropen = how /\ d.rpos = Entry.rpos /\ d.sent = Entry.sent
      /\ d.complete = Entry.complete
  BY <1>1 DEF EntryType, SameWrite
<1>3. entries' = [entries EXCEPT ![idx] = d]
  BY <1>1
<1>4. Edit(d)
  <2> HIDE DEF d
  <2> QED
    BY <1>2, <1>3, MakeEdit
<1> QED
  BY <1>2, <1>4

(* A block is read, and published or not. *)
LEMMA ReadEdit ==
  ASSUME Types, wpc = "read", NEW x \in Nat \cup {Hole}, NEW out \in BOOLEAN,
         entries' = IF out THEN [entries EXCEPT ![idx].rpos = @ + 1, ![idx].sent = Append(@, x)]
                           ELSE [entries EXCEPT ![idx].rpos = @ + 1]
  PROVE  \E d : /\ Edit(d) /\ d.pending = Entry.pending /\ SameWrite(d, Entry)
                /\ d.ropen = Entry.ropen /\ d.rpos = Entry.rpos + 1
                /\ d.sent = (IF out THEN Append(Entry.sent, x) ELSE Entry.sent)
                /\ d.complete = Entry.complete
<1>1. entries \in Seq(EntryType) /\ idx \in 1 .. Len(entries) /\ Entry \in EntryType /\ entries[idx] = Entry
  BY AtTheEntry
<1> DEFINE s == IF out THEN Append(Entry.sent, x) ELSE Entry.sent
           n == Entry.rpos + 1
           c == [Entry EXCEPT !.rpos = n]
           d == [c EXCEPT !.sent = s]
<1>2. s \in Seq(Nat \cup {Hole})
  <2>1. Entry.sent \in Seq(Nat \cup {Hole})
    BY <1>1 DEF EntryType
  <2> DEFINE N == Nat \cup {Hole}
  <2> HIDE DEF N
  <2> QED
    BY <2>1 DEF N
<1>3. n \in Nat
  <2>1. Entry.rpos \in Nat
    BY <1>1 DEF EntryType
  <2> QED
    BY <2>1
<1>4. /\ c \in EntryType /\ c.file = Entry.file /\ SameWrite(c, Entry) /\ c.sent = Entry.sent
      /\ c.pending = Entry.pending /\ c.ropen = Entry.ropen /\ c.rpos = n
      /\ c.complete = Entry.complete
  <2> HIDE DEF n
  <2> QED
    BY <1>1, <1>3 DEF EntryType, SameWrite
<1>5. entries' = [entries EXCEPT ![idx] = d]
  <2>1. CASE out
    BY <1>1, <2>1
  <2>2. CASE ~out
    <3>1. d = c
      <4> HIDE DEF c
      <4> QED
        BY <2>2, <1>4 DEF EntryType
    <3>2. entries' = [entries EXCEPT ![idx] = c]
      BY <1>1, <2>2
    <3> HIDE DEF c, d
    <3> QED
      BY <3>1, <3>2
  <2> QED
    BY <2>1, <2>2
<1> HIDE DEF c, s, n
<1>6. /\ d \in EntryType /\ d.file = Entry.file /\ SameWrite(d, Entry)
      /\ d.pending = Entry.pending /\ d.ropen = Entry.ropen /\ d.rpos = n
      /\ d.sent = s /\ d.complete = Entry.complete
  BY <1>2, <1>4 DEF EntryType, SameWrite
<1>7. Edit(d)
  <2> HIDE DEF d
  <2> QED
    BY <1>5, <1>6, MakeEdit
<1> QED
  BY <1>6, <1>7 DEF s, n

LEMMA DataEdit ==
  ASSUME Types, NEW f \in File, ReadData(f), entries' # entries
  PROVE  \E d : /\ Edit(d) /\ d.pending = Entry.pending /\ SameWrite(d, Entry)
                /\ d.ropen = Entry.ropen /\ d.rpos = Entry.rpos + 1 /\ d.complete = Entry.complete
                /\ Entry.rpos + 1 \in 1 .. Len(disk[f]) /\ Entry.ropen = "open"
                /\ d.sent = (IF NoFail THEN Append(Entry.sent, disk[f][Entry.rpos + 1]) ELSE Entry.sent)
<1>1. wpc = "read" /\ Entry.file = f
  BY DEF ReadData
<1>2. Entry \in EntryType
  BY <1>1, AtTheEntry
<1>3. disk[f] \in Seq(Nat \cup {Hole}) /\ Entry.rpos \in Nat
  BY <1>1, <1>2 DEF Types, EntryType
<1>4. Entry.ropen = "open" /\ Entry.rpos < Len(disk[f])
  BY DEF ReadData
<1>5. Entry.rpos + 1 \in 1 .. Len(disk[f])
  BY <1>3, <1>4
<1> DEFINE x == disk[f][Entry.rpos + 1]  N == Nat \cup {Hole}
<1>6. x \in N
  <2> HIDE DEF N
  <2> QED
    BY <1>3, <1>5 DEF N
<1> DEFINE out == NoFail
<1>7. out \in BOOLEAN
  BY DEF NoFail
<1>8. entries' = IF out THEN [entries EXCEPT ![idx].rpos = @ + 1, ![idx].sent = Append(@, x)]
                        ELSE [entries EXCEPT ![idx].rpos = @ + 1]
  <2>1. Fail => ~NoFail
    BY DEF Fail, NoFail, Types, TypeOK
  <2> QED
    BY <1>1, <2>1 DEF ReadData
<1> HIDE DEF x, out
<1>9. \E d : /\ Edit(d) /\ d.pending = Entry.pending /\ SameWrite(d, Entry)
             /\ d.ropen = Entry.ropen /\ d.rpos = Entry.rpos + 1
             /\ d.sent = (IF out THEN Append(Entry.sent, x) ELSE Entry.sent)
             /\ d.complete = Entry.complete
  BY <1>1, <1>6, <1>7, <1>8, ReadEdit
<1> QED
  BY <1>4, <1>5, <1>9 DEF x, out

-----------------------------------------------------------------------------
(* The blocks on their way from the callback to the worker.                *)

LEMMA WayType ==
  ASSUME Types
  PROVE  Way \in Seq(Block) /\ Opt(wbuf) \in Seq(Block) /\ Opt(rbuf) \in Seq(Block)
         /\ Len(Way) \in Nat /\ \A k \in 1 .. Len(Way) : Way[k] \in Block /\ Way[k] # NoBlock
<1>1. /\ queue \in Seq(Block) /\ rbuf \in Block \cup {NoBlock} /\ wbuf \in Block \cup {NoBlock}
  BY DEF Types, TypeOK
<1>2. \A b \in Block \cup {NoBlock} : Opt(b) \in Seq(Block)
  BY DEF Opt
<1>3. Opt(wbuf) \in Seq(Block) /\ Opt(rbuf) \in Seq(Block)
  BY <1>1, <1>2
<1>4. Way \in Seq(Block)
  BY <1>1, <1>3, ConcatProperties DEF Way
<1> HIDE DEF Way
<1>5. \A k \in 1 .. Len(Way) : Way[k] \in Block
  BY <1>4
<1>6. Len(Way) \in Nat
  BY <1>4
<1> QED
  BY <1>3, <1>4, <1>5, <1>6, BlockAssumption

LEMMA ThreeParts ==
  ASSUME NEW S, NEW a \in Seq(S), NEW q \in Seq(S), NEW c \in Seq(S)
  PROVE  /\ Len((a \o q) \o c) = Len(a) + Len(q) + Len(c)
         /\ \A k \in 1 .. Len(a) : ((a \o q) \o c)[k] = a[k]
         /\ \A k \in 1 .. Len(q) : ((a \o q) \o c)[k + Len(a)] = q[k]
         /\ \A k \in 1 .. Len(c) : ((a \o q) \o c)[k + (Len(a) + Len(q))] = c[k]
  OBVIOUS

(* A block is on its way: in the hands of the worker, in the queue, or in  *)
(* those of the callback. *)
LEMMA WayItems ==
  ASSUME Types
  PROVE  /\ \A k \in 1 .. Len(Way) : \/ Way[k] = wbuf \/ Way[k] = rbuf
                                     \/ \E j \in 1 .. Len(queue) : Way[k] = queue[j]
         /\ wbuf # NoBlock => 1 \in 1 .. Len(Way) /\ Way[1] = wbuf
         /\ \A j \in 1 .. Len(queue) : /\ j + Len(Opt(wbuf)) \in 1 .. Len(Way)
                                       /\ Way[j + Len(Opt(wbuf))] = queue[j]
         /\ rbuf # NoBlock => Len(Way) \in 1 .. Len(Way) /\ Way[Len(Way)] = rbuf
         /\ Len(Opt(wbuf)) = (IF wbuf = NoBlock THEN 0 ELSE 1)
         /\ Len(Way) = Len(Opt(wbuf)) + Len(queue) + (IF rbuf = NoBlock THEN 0 ELSE 1)
         /\ Len(queue) \in Nat
<1> DEFINE w == Opt(wbuf)  r == Opt(rbuf)
<1>1. queue \in Seq(Block) /\ w \in Seq(Block) /\ r \in Seq(Block)
  BY WayType DEF Types, TypeOK
<1>2. /\ Len(w) = (IF wbuf = NoBlock THEN 0 ELSE 1) /\ (wbuf # NoBlock => w[1] = wbuf)
      /\ Len(r) = (IF rbuf = NoBlock THEN 0 ELSE 1) /\ (rbuf # NoBlock => r[1] = rbuf)
  BY <1>1 DEF Opt
<1>3. Len(queue) \in Nat /\ Len(w) \in {0, 1} /\ Len(r) \in {0, 1}
  BY <1>1, <1>2
<1> HIDE DEF w, r
<1>4. /\ Len(Way) = Len(w) + Len(queue) + Len(r)
      /\ \A k \in 1 .. Len(w) : Way[k] = w[k]
      /\ \A k \in 1 .. Len(queue) : Way[k + Len(w)] = queue[k]
      /\ \A k \in 1 .. Len(r) : Way[k + (Len(w) + Len(queue))] = r[k]
  <2>1. Way = (w \o queue) \o r
    BY DEF Way, w, r
  <2>2. /\ Len((w \o queue) \o r) = Len(w) + Len(queue) + Len(r)
        /\ \A k \in 1 .. Len(w) : ((w \o queue) \o r)[k] = w[k]
        /\ \A k \in 1 .. Len(queue) : ((w \o queue) \o r)[k + Len(w)] = queue[k]
        /\ \A k \in 1 .. Len(r) : ((w \o queue) \o r)[k + (Len(w) + Len(queue))] = r[k]
    BY <1>1, ThreeParts
  <2> QED
    BY <2>1, <2>2, Zenon
<1>5. wbuf # NoBlock => 1 \in 1 .. Len(Way) /\ Way[1] = wbuf
  BY <1>2, <1>3, <1>4
<1>6. ASSUME NEW j \in 1 .. Len(queue) PROVE j + Len(w) \in 1 .. Len(Way) /\ Way[j + Len(w)] = queue[j]
  BY <1>3, <1>4
<1>7. rbuf # NoBlock => Len(Way) \in 1 .. Len(Way) /\ Way[Len(Way)] = rbuf
  <2>1. ASSUME rbuf # NoBlock PROVE Way[Len(Way)] = rbuf /\ Len(Way) \in 1 .. Len(Way)
    <3>1. 1 \in 1 .. Len(r) /\ Len(Way) = 1 + (Len(w) + Len(queue)) /\ r[1] = rbuf
      BY <1>2, <1>3, <1>4, <2>1
    <3> QED
      BY <1>3, <1>4, <3>1
  <2> QED
    BY <2>1
<1>8. ASSUME NEW k \in 1 .. Len(Way)
      PROVE  \/ Way[k] = wbuf \/ Way[k] = rbuf \/ \E j \in 1 .. Len(queue) : Way[k] = queue[j]
  <2>1. CASE k <= Len(w)
    <3>1. k \in 1 .. Len(w) /\ k = 1 /\ wbuf # NoBlock
      BY <1>2, <1>3, <2>1
    <3> QED
      BY <1>2, <1>4, <3>1
  <2>2. CASE Len(w) < k /\ k <= Len(w) + Len(queue)
    <3>1. k - Len(w) \in 1 .. Len(queue) /\ (k - Len(w)) + Len(w) = k
      BY <1>3, <2>2
    <3> QED
      BY <1>4, <3>1
  <2>3. CASE Len(w) + Len(queue) < k
    <3>1. Len(r) = 1 /\ k = 1 + (Len(w) + Len(queue))
      BY <1>3, <1>4, <2>3
    <3>2. 1 \in 1 .. Len(r) /\ r[1] = rbuf
      BY <1>2, <3>1
    <3> QED
      BY <1>4, <3>1, <3>2
  <2> QED
    BY <1>3, <2>1, <2>2, <2>3
<1>9. Len(Way) = Len(w) + Len(queue) + (IF rbuf = NoBlock THEN 0 ELSE 1)
  BY <1>2, <1>3, <1>4
<1> QED
  BY <1>2, <1>3, <1>5, <1>6, <1>7, <1>8, <1>9 DEF w, r

LEMMA WayGrabbed ==
  ASSUME Types, rbuf = NoBlock, NEW b \in Block, rbuf' = b, UNCHANGED <<wbuf, queue>>
  PROVE  Way' = Append(Way, b)
<1> DEFINE front == Opt(wbuf) \o queue
<1>1. Opt(rbuf) = << >> /\ Opt(b) = <<b>>
  BY BlockAssumption DEF Opt
<1>2. front \in Seq(Block)
  BY WayType, ConcatProperties DEF Types, TypeOK
<1>3. Way = front \o << >> /\ Way' = front \o <<b>>
  BY <1>1 DEF Way, Opt
<1> HIDE DEF front
<1> QED
  BY <1>2, <1>3, ConcatEmptySeq, AppendIsConcat

LEMMA WayPushed ==
  ASSUME Types, rbuf # NoBlock, queue' = Append(queue, rbuf), rbuf' = NoBlock, UNCHANGED wbuf
  PROVE  Way' = Way
<1> DEFINE w == Opt(wbuf)  r == Opt(rbuf)
<1>1. queue \in Seq(Block) /\ w \in Seq(Block) /\ r \in Seq(Block) /\ rbuf \in Block
  BY WayType DEF Types, TypeOK
<1>2. r = <<rbuf>> /\ queue' = queue \o r /\ Opt(rbuf') = << >>
  BY <1>1, AppendIsConcat DEF Opt
<1>3. Way = (w \o queue) \o r /\ Way' = (w \o queue') \o << >>
  BY <1>2 DEF Way, Opt
<1> HIDE DEF w, r
<1>4. w \o (queue \o r) \in Seq(Block)
  BY <1>1, ConcatProperties
<1> QED
  BY <1>1, <1>2, <1>3, <1>4, ConcatAssociative, ConcatEmptySeq

LEMMA WayPopped ==
  ASSUME Types, wbuf = NoBlock, queue # << >>, wbuf' = Head(queue), queue' = Tail(queue), UNCHANGED rbuf
  PROVE  Way' = Way
<1> DEFINE r == Opt(rbuf)  h == <<Head(queue)>>
<1>1. queue \in Seq(Block) /\ r \in Seq(Block)
  BY WayType DEF Types, TypeOK
<1>a. Head(queue) \in Block
  BY <1>1, TailItems
<1>2. h \in Seq(Block) /\ Opt(wbuf) = << >> /\ Opt(wbuf') = h /\ h # << >>
  BY <1>1, <1>a, BlockAssumption DEF Opt
<1>3. h \o Tail(queue) = queue /\ << >> \o queue = queue
  BY <1>1
<1> QED
  BY <1>2, <1>3 DEF Way

LEMMA WayHandled ==
  ASSUME Types, wbuf # NoBlock, wbuf' = NoBlock, UNCHANGED <<queue, rbuf>>
  PROVE  Way # << >> /\ Head(Way) = wbuf /\ Way' = Tail(Way)
<1> DEFINE r == Opt(rbuf)  w == <<wbuf>>
<1>1. queue \in Seq(Block) /\ r \in Seq(Block) /\ wbuf \in Block
  BY WayType DEF Types, TypeOK
<1>2. w \in Seq(Block) /\ Opt(wbuf) = w /\ Opt(wbuf') = << >>
  BY <1>1 DEF Opt
<1>3. Way = (w \o queue) \o r /\ Way' = (<< >> \o queue) \o r
  BY <1>2 DEF Way, Opt
<1> DEFINE rest == queue \o r
<1> HIDE DEF r
<1>4. rest \in Seq(Block) /\ Way' = rest /\ Way = w \o rest
  BY <1>1, <1>2, <1>3, ConcatProperties, ConcatEmptySeq, ConcatAssociative
<1> HIDE DEF rest
<1> QED
  BY <1>1, <1>4

LEMMA OnWayIs ==
  ASSUME Types, NEW b \in Block
  PROVE  OnWay(b) <=> b = wbuf \/ b = rbuf \/ \E j \in 1 .. Len(queue) : queue[j] = b
<1>1. b # NoBlock
  BY BlockAssumption
<1>2. ASSUME OnWay(b) PROVE b = wbuf \/ b = rbuf \/ \E j \in 1 .. Len(queue) : queue[j] = b
  BY <1>2, WayItems, ZenonT(60) DEF OnWay
<1>3. b = wbuf \/ b = rbuf => OnWay(b)
  BY <1>1, WayItems DEF OnWay
<1>4. ASSUME NEW j \in 1 .. Len(queue), queue[j] = b PROVE OnWay(b)
  BY <1>4, WayItems DEF OnWay
<1> QED
  BY <1>2, <1>3, <1>4

LEMMA EntryTypes ==
  ASSUME Types
  PROVE  /\ Len(entries) \in Nat /\ entries \in Seq(EntryType)
         /\ \A i \in 1 .. Len(entries) :
              /\ entries[i] \in EntryType /\ entries[i].file \in File
              /\ entries[i].pending \in Seq(Block) /\ Len(entries[i].pending) \in Nat
              /\ \A k \in 1 .. Len(entries[i].pending) : entries[i].pending[k] \in Block
              /\ entries[i].wsize \in Nat /\ entries[i].wpos \in Nat /\ entries[i].rpos \in Nat
<1>1. entries \in Seq(EntryType)
  BY DEF Types, TypeOK
<1>2. Len(entries) \in Nat /\ \A i \in 1 .. Len(entries) : entries[i] \in EntryType
  <2> HIDE DEF EntryType
  <2> QED
    BY <1>1
<1>3. \A e \in EntryType : /\ e.file \in File /\ e.pending \in Seq(Block)
                           /\ e.wsize \in Nat /\ e.wpos \in Nat /\ e.rpos \in Nat
  BY DEF EntryType
<1>4. \A s \in Seq(Block) : Len(s) \in Nat /\ \A k \in 1 .. Len(s) : s[k] \in Block
  OBVIOUS
<1> QED
  BY <1>1, <1>2, <1>3, <1>4

LEMMA FirstIsOne ==
  ASSUME Types, NEW f, EntriesOf(f) # {}
  PROVE  FirstOf(f) \in EntriesOf(f) /\ FirstOf(f) \in 1 .. Len(entries)
<1>1. EntriesOf(f) \subseteq Nat
  BY EntryTypes DEF EntriesOf
<1>2. \E i \in EntriesOf(f) : \A j \in EntriesOf(f) : i <= j
  BY <1>1, LeastOf
<1>3. FirstOf(f) \in EntriesOf(f)
  BY <1>2 DEF FirstOf
<1> QED
  BY <1>3 DEF EntriesOf

-----------------------------------------------------------------------------
(* Every block is in one place, and none is lost unless a file was hurt.   *)


LEMMA PlacesStill ==
  ASSUME Types, Owned, UNCHANGED <<pool, heap>>, Way' = Way, hurt \subseteq hurt',
         Len(entries') = Len(entries),
         \A i \in 1 .. Len(entries) : entries'[i].pending = entries[i].pending
  PROVE  Owned'
<1>1. \A b : OnWay(b)' <=> OnWay(b)
  BY DEF OnWay
<1>2. \A b : Waiting(b)' <=> Waiting(b)
  BY EntryTypes DEF Waiting
<1>3. Apart'
  BY <1>1, <1>2 DEF Apart, Owned
<1>4. Once'
  <2>1. \A k, l \in 1 .. Len(Way') : Way'[k] = Way'[l] => k = l
    BY DEF Once, Owned
  <2>2. ASSUME NEW i \in 1 .. Len(entries'), NEW j \in 1 .. Len(entries'),
               NEW k \in 1 .. Len(entries'[i].pending), NEW l \in 1 .. Len(entries'[j].pending),
               entries'[i].pending[k] = entries'[j].pending[l]
        PROVE  i = j /\ k = l
    <3>1. entries'[i].pending = entries[i].pending /\ entries'[j].pending = entries[j].pending
          /\ i \in 1 .. Len(entries) /\ j \in 1 .. Len(entries)
      OBVIOUS
    <3>2. entries[i].pending[k] = entries[j].pending[l]
          /\ k \in 1 .. Len(entries[i].pending) /\ l \in 1 .. Len(entries[j].pending)
      BY <2>2, <3>1
    <3>3. \A a, c \in 1 .. Len(entries) :
               \A x \in 1 .. Len(entries[a].pending), y \in 1 .. Len(entries[c].pending) :
                 entries[a].pending[x] = entries[c].pending[y] => a = c /\ x = y
      BY DEF Once, Owned
    <3> QED
      BY ONLY <3>1, <3>2, <3>3
  <2> QED
    BY <2>1, <2>2, Zenon DEF Once
<1>5. NoneLost'
  BY <1>1, <1>2 DEF NoneLost, Owned
<1> QED
  BY <1>3, <1>4, <1>5 DEF Owned

(* A block that was free is on its way. *)
LEMMA PlacesGrabbed ==
  ASSUME Types, Owned, NEW b \in Block, Way' = Append(Way, b), UNCHANGED <<entries, hurt>>,
         \/ b \in pool /\ pool' = pool \ {b} /\ heap' = heap
         \/ b \in heap /\ heap' = heap \ {b} /\ pool' = pool
  PROVE  Owned'
<1>1. ~OnWay(b) /\ ~Waiting(b) /\ ~(b \in pool /\ b \in heap)
  BY DEF Owned, Apart
<1>2. /\ \A k \in 1 .. Len(Way) : k \in 1 .. Len(Way') /\ Way'[k] = Way[k]
      /\ Way'[Len(Way) + 1] = b /\ Len(Way) + 1 \in 1 .. Len(Way')
      /\ \A k \in 1 .. Len(Way') : k \in 1 .. Len(Way) \/ k = Len(Way) + 1
  BY WayType, AppendItems
<1>3. \A c : OnWay(c)' <=> OnWay(c) \/ c = b
  <2> SUFFICES ASSUME NEW c PROVE OnWay(c)' <=> OnWay(c) \/ c = b
    OBVIOUS
  <2>1. OnWay(c)' => OnWay(c) \/ c = b
    BY <1>2 DEF OnWay
  <2>2. OnWay(c) \/ c = b => OnWay(c)'
    BY <1>2 DEF OnWay
  <2> QED
    BY <2>1, <2>2
<1>4. \A c : Waiting(c)' <=> Waiting(c)
  BY DEF Waiting
<1>5. Apart'
  BY <1>1, <1>3, <1>4 DEF Apart, Owned
<1>6. Once'
  <2>1. ASSUME NEW k \in 1 .. Len(Way'), NEW l \in 1 .. Len(Way'), Way'[k] = Way'[l] PROVE k = l
    BY <1>1, <1>2, <2>1 DEF Owned, Once, OnWay
  <2> QED
    BY <2>1 DEF Owned, Once
<1>7. NoneLost'
  BY <1>3, <1>4 DEF NoneLost, Owned
<1> QED
  BY <1>5, <1>6, <1>7 DEF Owned

(* The worker's block leaves the way. *)
LEMMA WayShortened ==
  ASSUME Types, Owned, Way # << >>, Way' = Tail(Way)
  PROVE  /\ Head(Way) \in Block /\ OnWay(Head(Way)) /\ ~Waiting(Head(Way))
         /\ Head(Way) \notin pool /\ Head(Way) \notin heap
         /\ \A c : OnWay(c)' <=> OnWay(c) /\ c # Head(Way)
         /\ \A k, l \in 1 .. Len(Way') : Way'[k] = Way'[l] => k = l
<1> DEFINE b == Head(Way)
<1>1. /\ 1 \in 1 .. Len(Way) /\ b = Way[1] /\ b \in Block
      /\ \A k \in 1 .. Len(Way') : k \in Nat /\ k + 1 \in 1 .. Len(Way) /\ k + 1 # 1 /\ Way'[k] = Way[k + 1]
      /\ \A k \in 1 .. Len(Way) : k = 1 \/ (k - 1 \in 1 .. Len(Way') /\ Way'[k - 1] = Way[k])
  BY WayType, TailItems
<1>2. \A k, l \in 1 .. Len(Way) : Way[k] = Way[l] => k = l
  BY DEF Owned, Once
<1>3. OnWay(b)
  BY <1>1 DEF OnWay
<1> HIDE DEF b
<1>4. ~Waiting(b) /\ b \notin pool /\ b \notin heap
  BY <1>1, <1>3 DEF Owned, Apart
<1>5. ASSUME NEW c, OnWay(c)' PROVE OnWay(c) /\ c # b
  <2>1. PICK k \in 1 .. Len(Way') : Way'[k] = c
    BY <1>5 DEF OnWay
  <2>2. k + 1 \in 1 .. Len(Way) /\ Way[k + 1] = c /\ k + 1 # 1
    BY <1>1, <2>1
  <2> QED
    BY <1>1, <1>2, <2>2 DEF OnWay
<1>6. ASSUME NEW c, OnWay(c), c # b PROVE OnWay(c)'
  <2>1. PICK k \in 1 .. Len(Way) : Way[k] = c
    BY <1>6 DEF OnWay
  <2>2. k # 1
    BY <1>1, <1>6, <2>1
  <2> QED
    BY <1>1, <2>1, <2>2 DEF OnWay
<1>7. ASSUME NEW k \in 1 .. Len(Way'), NEW l \in 1 .. Len(Way'), Way'[k] = Way'[l] PROVE k = l
  <2>1. k + 1 \in 1 .. Len(Way) /\ l + 1 \in 1 .. Len(Way) /\ Way[k + 1] = Way[l + 1]
    BY <1>1, <1>7
  <2>2. k + 1 = l + 1
    BY <1>2, <2>1
  <2> QED
    BY <1>1, <2>2
<1> QED
  BY <1>1, <1>3, <1>4, <1>5, <1>6, <1>7 DEF b

LEMMA PlacesDropped ==
  ASSUME Types, Owned, Way # << >>, Way' = Tail(Way), pool' = pool \cup {Head(Way)},
         UNCHANGED <<heap, entries, hurt>>
  PROVE  Owned'
<1>1. /\ Head(Way) \in Block /\ OnWay(Head(Way)) /\ ~Waiting(Head(Way))
      /\ Head(Way) \notin pool /\ Head(Way) \notin heap
      /\ \A c : OnWay(c)' <=> OnWay(c) /\ c # Head(Way)
      /\ \A k, l \in 1 .. Len(Way') : Way'[k] = Way'[l] => k = l
  BY WayShortened
<1>2. \A c : Waiting(c)' <=> Waiting(c)
  BY DEF Waiting
<1>3. Apart'
  BY <1>1, <1>2 DEF Owned, Apart
<1>4. Once'
  BY <1>1 DEF Owned, Once
<1>5. NoneLost'
  BY <1>1, <1>2 DEF Owned, NoneLost
<1> QED
  BY <1>3, <1>4, <1>5 DEF Owned

(* The worker's block makes an entry, or joins one.  What waits in the     *)
(* entries afterwards: at the place n of the entry j, the block. *)
Joined(b, j, n) ==
  /\ \A i \in 1 .. Len(entries) : i \in 1 .. Len(entries')
  /\ j \in 1 .. Len(entries') /\ n \in 1 .. Len(entries'[j].pending) /\ entries'[j].pending[n] = b
  /\ \A i \in 1 .. Len(entries') : \A k \in 1 .. Len(entries'[i].pending) :
       \/ i = j /\ k = n
       \/ /\ i \in 1 .. Len(entries) /\ k \in 1 .. Len(entries[i].pending)
          /\ entries'[i].pending[k] = entries[i].pending[k]
  /\ \A i \in 1 .. Len(entries) : \A k \in 1 .. Len(entries[i].pending) :
       k \in 1 .. Len(entries'[i].pending) /\ entries'[i].pending[k] = entries[i].pending[k]

LEMMA PlacesJoined ==
  ASSUME Types, Owned, Way # << >>, Way' = Tail(Way), UNCHANGED <<pool, heap, hurt>>,
         NEW j, NEW n, Joined(Head(Way), j, n)
  PROVE  Owned'
<1> DEFINE b == Head(Way)
<1>1. /\ b \in Block /\ OnWay(b) /\ ~Waiting(b) /\ b \notin pool /\ b \notin heap
      /\ \A c : OnWay(c)' <=> OnWay(c) /\ c # b
      /\ \A k, l \in 1 .. Len(Way') : Way'[k] = Way'[l] => k = l
  BY WayShortened
<1> HIDE DEF b
<1>2. Joined(b, j, n)
  BY DEF b
<1>3. \A c : Waiting(c)' <=> Waiting(c) \/ c = b
  <2>1. ASSUME NEW c, Waiting(c)' PROVE Waiting(c) \/ c = b
    BY <1>2, <2>1, ZenonT(60) DEF Waiting, Joined
  <2>2. ASSUME NEW c, Waiting(c) \/ c = b PROVE Waiting(c)'
    BY <1>2, <2>2, ZenonT(60) DEF Waiting, Joined
  <2> QED
    BY <2>1, <2>2
<1>4. Apart'
  BY <1>1, <1>3 DEF Owned, Apart
<1>5. Once'
  <2>1. ASSUME NEW i \in 1 .. Len(entries'), NEW m \in 1 .. Len(entries'),
               NEW k \in 1 .. Len(entries'[i].pending), NEW l \in 1 .. Len(entries'[m].pending),
               entries'[i].pending[k] = entries'[m].pending[l]
        PROVE  i = m /\ k = l
    <3> DEFINE old(a, c) == /\ a \in 1 .. Len(entries) /\ c \in 1 .. Len(entries[a].pending)
                            /\ entries'[a].pending[c] = entries[a].pending[c]
    <3>1. (i = j /\ k = n) \/ old(i, k)
      BY <1>2 DEF Joined
    <3>2. (m = j /\ l = n) \/ old(m, l)
      BY <1>2 DEF Joined
    <3>3. entries'[j].pending[n] = b
      BY <1>2 DEF Joined
    <3>4. \A a, c : old(a, c) => entries'[a].pending[c] # b
      BY <1>1 DEF Waiting
    <3>5. CASE old(i, k) /\ old(m, l)
      <4>1. entries[i].pending[k] = entries[m].pending[l]
        BY <2>1, <3>5
      <4>2. \A a, c \in 1 .. Len(entries) :
                 \A x \in 1 .. Len(entries[a].pending), y \in 1 .. Len(entries[c].pending) :
                   entries[a].pending[x] = entries[c].pending[y] => a = c /\ x = y
        BY DEF Once, Owned
      <4>3. /\ i \in 1 .. Len(entries) /\ k \in 1 .. Len(entries[i].pending)
            /\ m \in 1 .. Len(entries) /\ l \in 1 .. Len(entries[m].pending)
        BY <3>5
      <4> QED
        BY ONLY <4>1, <4>2, <4>3
    <3> HIDE DEF old
    <3> QED
      BY <2>1, <3>1, <3>2, <3>3, <3>4, <3>5, Zenon
  <2> QED
    BY <1>1, <2>1, Zenon DEF Once
<1>6. NoneLost'
  BY <1>1, <1>3 DEF Owned, NoneLost
<1> QED
  BY <1>4, <1>5, <1>6 DEF Owned

LEMMA OnceHere ==
  ASSUME Owned, NEW i \in 1 .. Len(entries), NEW j \in 1 .. Len(entries),
         NEW k \in 1 .. Len(entries[i].pending), NEW l \in 1 .. Len(entries[j].pending),
         entries[i].pending[k] = entries[j].pending[l]
  PROVE  i = j /\ k = l
  BY DEF Owned, Once

(* The first block of an entry is freed. *)
LEMMA PlacesWritten ==
  ASSUME Types, Owned, idx \in 1 .. Len(entries), entries[idx].pending # << >>,
         Len(entries') = Len(entries), entries'[idx].pending = Tail(entries[idx].pending),
         \A i \in 1 .. Len(entries) : i # idx => entries'[i].pending = entries[i].pending,
         pool' = pool \cup {Head(entries[idx].pending)}, Way' = Way, heap' = heap, hurt \subseteq hurt'
  PROVE  Owned'
<1> DEFINE s == entries[idx].pending  t == entries'[idx].pending  b == Head(s)
<1>1. /\ 1 \in 1 .. Len(s) /\ b = s[1] /\ b \in Block
      /\ \A k \in 1 .. Len(t) : k \in Nat /\ k + 1 \in 1 .. Len(s) /\ k + 1 # 1 /\ t[k] = s[k + 1]
      /\ \A k \in 1 .. Len(s) : k = 1 \/ (k - 1 \in 1 .. Len(t) /\ t[k - 1] = s[k])
  BY EntryTypes, TailItems
<1>2. \A a, c \in 1 .. Len(entries) :
        \A x \in 1 .. Len(entries[a].pending), y \in 1 .. Len(entries[c].pending) :
          entries[a].pending[x] = entries[c].pending[y] => a = c /\ x = y
  BY DEF Once, Owned
<1>3. Waiting(b)
  BY <1>1 DEF Waiting
<1>4. ~OnWay(b) /\ b \notin pool /\ b \notin heap
  BY <1>1, <1>3 DEF Owned, Apart
<1>5. b = entries[idx].pending[1] /\ 1 \in 1 .. Len(entries[idx].pending)
  BY <1>1
<1>6. ASSUME NEW i \in 1 .. Len(entries), NEW k \in 1 .. Len(entries'[i].pending)
      PROVE  \E l \in 1 .. Len(entries[i].pending) :
               /\ entries'[i].pending[k] = entries[i].pending[l] /\ (i = idx => l # 1)
               /\ l = IF i = idx THEN k + 1 ELSE k
  <2>1. CASE i = idx
    BY <1>1, <2>1
  <2>2. CASE i # idx
    BY <2>2
  <2> QED
    BY <2>1, <2>2
<1> HIDE DEF s, t, b
<1>7. \A c : OnWay(c)' <=> OnWay(c)
  BY DEF OnWay
<1>8. ASSUME NEW c, Waiting(c)' PROVE Waiting(c) /\ c # b
  <2>0. PICK i \in 1 .. Len(entries) : \E k \in 1 .. Len(entries'[i].pending) : entries'[i].pending[k] = c
    BY <1>8 DEF Waiting
  <2>1. PICK k \in 1 .. Len(entries'[i].pending) : entries'[i].pending[k] = c
    BY <2>0
  <2>2. PICK l \in 1 .. Len(entries[i].pending) : entries[i].pending[l] = c /\ (i = idx => l # 1)
    BY <1>6, <2>1
  <2>3. c # b
    BY <1>2, <1>5, <2>2
  <2> QED
    BY <2>2, <2>3 DEF Waiting
<1>9. ASSUME NEW c, Waiting(c), c # b PROVE Waiting(c)'
  <2>0. PICK i \in 1 .. Len(entries) : \E k \in 1 .. Len(entries[i].pending) : entries[i].pending[k] = c
    BY <1>9 DEF Waiting
  <2>1. PICK k \in 1 .. Len(entries[i].pending) : entries[i].pending[k] = c
    BY <2>0
  <2>2. CASE i = idx
    <3>1. k # 1 /\ k \in 1 .. Len(s) /\ s[k] = c
      BY <1>5, <1>9, <2>1, <2>2 DEF s
    <3>2. k - 1 \in 1 .. Len(t) /\ t[k - 1] = c
      BY <1>1, <3>1
    <3>3. k - 1 \in 1 .. Len(entries'[i].pending) /\ entries'[i].pending[k - 1] = c
      BY <2>2, <3>2 DEF t
    <3> QED
      BY <3>3 DEF Waiting
  <2>3. CASE i # idx
    BY <2>1, <2>3 DEF Waiting
  <2> QED
    BY <2>2, <2>3
<1>10. pool' = pool \cup {b}
  BY DEF b, s
<1>11. Apart'
  BY <1>1, <1>4, <1>7, <1>8, <1>10 DEF Owned, Apart
<1>12. Once'
  <2>1. \A k, l \in 1 .. Len(Way') : Way'[k] = Way'[l] => k = l
    BY DEF Once, Owned
  <2>2. ASSUME NEW i \in 1 .. Len(entries'), NEW j \in 1 .. Len(entries'),
               NEW k \in 1 .. Len(entries'[i].pending), NEW l \in 1 .. Len(entries'[j].pending),
               entries'[i].pending[k] = entries'[j].pending[l]
        PROVE  i = j /\ k = l
    <3>1. i \in 1 .. Len(entries) /\ j \in 1 .. Len(entries)
      OBVIOUS
    <3>2. PICK x \in 1 .. Len(entries[i].pending) :
                 entries'[i].pending[k] = entries[i].pending[x] /\ x = IF i = idx THEN k + 1 ELSE k
      BY <1>6, <3>1
    <3>3. PICK y \in 1 .. Len(entries[j].pending) :
                 entries'[j].pending[l] = entries[j].pending[y] /\ y = IF j = idx THEN l + 1 ELSE l
      BY <1>6, <3>1
    <3>4. i = j /\ x = y
      <4>1. entries[i].pending[x] = entries[j].pending[y]
        BY <2>2, <3>2, <3>3
      <4> QED
        BY <3>1, <4>1, OnceHere
    <3>5. k \in Int /\ l \in Int
      OBVIOUS
    <3> QED
      BY ONLY <3>2, <3>3, <3>4, <3>5
  <2> QED
    BY <2>1, <2>2, Zenon DEF Once
<1>13. NoneLost'
  BY <1>7, <1>9, <1>10 DEF Owned, NoneLost
<1> QED
  BY <1>11, <1>12, <1>13 DEF Owned

(* Complete entries are freed; those of files that were not hurt hold      *)
(* nothing. *)
LEMMA PlacesSwept ==
  ASSUME Types, Owned, Keeping(entries, entries'), Way' = Way, UNCHANGED <<pool, heap, hurt>>,
         hurt = {} => \A i \in 1 .. Len(entries) : entries[i].complete => entries[i].pending = << >>
  PROVE  Owned'
<1>1. PICK m : Keeps(entries, entries', m)
  BY DEF Keeping
<1>2. /\ \A k \in 1 .. Len(entries') : m[k] \in 1 .. Len(entries) /\ entries'[k] = entries[m[k]]
      /\ \A k, l \in 1 .. Len(entries') : m[k] = m[l] => k = l
      /\ \A i \in 1 .. Len(entries) : ~entries[i].complete => \E k \in 1 .. Len(entries') : m[k] = i
  BY <1>1 DEF Keeps
<1>3. \A c : OnWay(c)' <=> OnWay(c)
  BY DEF OnWay
<1>4. \A c : Waiting(c)' => Waiting(c)
  BY <1>2 DEF Waiting
<1>5. Apart'
  BY <1>3, <1>4 DEF Owned, Apart
<1>6. Once'
  <2>1. \A k, l \in 1 .. Len(Way') : Way'[k] = Way'[l] => k = l
    BY DEF Once, Owned
  <2>2. ASSUME NEW i \in 1 .. Len(entries'), NEW j \in 1 .. Len(entries'),
               NEW k \in 1 .. Len(entries'[i].pending), NEW l \in 1 .. Len(entries'[j].pending),
               entries'[i].pending[k] = entries'[j].pending[l]
        PROVE  i = j /\ k = l
    <3>1. /\ m[i] \in 1 .. Len(entries) /\ k \in 1 .. Len(entries[m[i]].pending)
          /\ m[j] \in 1 .. Len(entries) /\ l \in 1 .. Len(entries[m[j]].pending)
          /\ entries[m[i]].pending[k] = entries[m[j]].pending[l]
      BY <1>2, <2>2
    <3>2. m[i] = m[j] /\ k = l
      <4> DEFINE a == m[i]  c == m[j]
      <4>1. /\ a \in 1 .. Len(entries) /\ k \in 1 .. Len(entries[a].pending)
            /\ c \in 1 .. Len(entries) /\ l \in 1 .. Len(entries[c].pending)
            /\ entries[a].pending[k] = entries[c].pending[l]
        BY <3>1
      <4> HIDE DEF a, c
      <4>2. a = c /\ k = l
        BY <4>1, OnceHere
      <4> QED
        BY <4>2 DEF a, c
    <3> QED
      BY <1>2, <3>2
  <2> QED
    BY <2>1, <2>2, Zenon DEF Once
<1>7. NoneLost'
  <2>1. ASSUME NEW c, Waiting(c), hurt = {} PROVE Waiting(c)'
    <3>0. PICK i \in 1 .. Len(entries) : \E k \in 1 .. Len(entries[i].pending) : entries[i].pending[k] = c
      BY <2>1 DEF Waiting
    <3>1. PICK k \in 1 .. Len(entries[i].pending) : entries[i].pending[k] = c
      BY <3>0
    <3>2. ~entries[i].complete
      <4>1. entries[i].pending # << >>
        BY <3>1, EntryTypes
      <4> QED
        BY <2>1, <4>1
    <3>3. PICK l \in 1 .. Len(entries') : m[l] = i
      BY <1>2, <3>2
    <3>4. entries'[l] = entries[i]
      BY <1>2, <3>3
    <3> QED
      BY <3>1, <3>4 DEF Waiting
  <2> QED
    BY <1>3, <2>1 DEF Owned, NoneLost
<1> QED
  BY <1>5, <1>6, <1>7 DEF Owned

-----------------------------------------------------------------------------
(* What handling a block does to the entries.                              *)

LEMMA NewEdit ==
  ASSUME Types, NEW b \in Block, entries' = Append(entries, NewEntry(b))
  PROVE  /\ NewEntry(b) \in EntryType
         /\ entries' \in Seq(EntryType) /\ Len(entries') = Len(entries) + 1
         /\ entries'[Len(entries) + 1] = NewEntry(b)
         /\ \A i \in 1 .. Len(entries) : entries'[i] = entries[i]
         /\ Joined(b, Len(entries) + 1, 1)
<1>1. content[b].file \in File
  BY DEF Types, TypeOK
<1>2. <<b>> \in Seq(Block) /\ << >> \in Seq(Nat \cup {Hole}) /\ Len(<<b>>) = 1 /\ <<b>>[1] = b
  OBVIOUS
<1>3. NewEntry(b) \in EntryType /\ NewEntry(b).pending = <<b>>
  BY <1>1, <1>2 DEF NewEntry, EntryType
<1>4. /\ Len(entries') = Len(entries) + 1 /\ Len(entries) \in Nat
      /\ \A i \in 1 .. Len(entries) : i \in 1 .. Len(entries') /\ entries'[i] = entries[i]
      /\ entries'[Len(entries) + 1] = NewEntry(b)
      /\ \A i \in 1 .. Len(entries') : i \in 1 .. Len(entries) \/ i = Len(entries) + 1
  BY <1>3, EntryTypes, AppendItems
<1>5. entries' \in Seq(EntryType)
  BY <1>3, EntryTypes, AppendProperties
<1>6. Joined(b, Len(entries) + 1, 1)
  <2> DEFINE j == Len(entries) + 1
  <2>1. j \in 1 .. Len(entries') /\ entries'[j].pending = <<b>> /\ 1 \in 1 .. Len(entries'[j].pending)
    <3>1. j \in 1 .. j /\ Len(entries') = j
      BY <1>4
    <3>2. entries'[j].pending = <<b>>
      BY <1>3, <1>4, Zenon
    <3>3. 1 \in 1 .. Len(<<b>>)
      BY <1>2
    <3> HIDE DEF j
    <3> QED
      BY <3>1, <3>2, <3>3, Zenon
  <2>2. \A k \in 1 .. Len(entries'[j].pending) : k = 1
    BY <1>2, <2>1
  <2> HIDE DEF j
  <2>3. \A i \in 1 .. Len(entries') : i \in 1 .. Len(entries) \/ i = j
    BY <1>4 DEF j
  <2> QED
    BY <1>2, <1>4, <2>1, <2>2, <2>3 DEF Joined, j
<1> QED
  BY <1>3, <1>4, <1>5, <1>6

LEMMA JoinEdit ==
  ASSUME Types, NEW b \in Block, NEW j \in 1 .. Len(entries),
         entries' = [entries EXCEPT ![j].pending = Append(@, b)]
  PROVE  /\ entries' \in Seq(EntryType) /\ Len(entries') = Len(entries)
         /\ \A i \in 1 .. Len(entries) : i # j => entries'[i] = entries[i]
         /\ entries'[j].file = entries[j].file /\ SameWrite(entries'[j], entries[j])
         /\ SameRead(entries'[j], entries[j]) /\ entries'[j].complete = entries[j].complete
         /\ entries'[j].pending = Append(entries[j].pending, b)
         /\ Joined(b, j, Len(entries[j].pending) + 1)
<1>1. /\ entries \in Seq(EntryType) /\ entries[j] \in EntryType /\ Len(entries) \in Nat
      /\ entries[j].pending \in Seq(Block)
  BY EntryTypes
<1> DEFINE s == Append(entries[j].pending, b)
           d == [entries[j] EXCEPT !.pending = s]
<1>2. s \in Seq(Block)
  BY <1>1
<1>3. entries' = [entries EXCEPT ![j] = d]
  BY <1>1
<1>4. /\ Len(s) = Len(entries[j].pending) + 1 /\ Len(entries[j].pending) \in Nat
      /\ \A k \in 1 .. Len(entries[j].pending) : k \in 1 .. Len(s) /\ s[k] = entries[j].pending[k]
      /\ s[Len(entries[j].pending) + 1] = b
      /\ \A k \in 1 .. Len(s) : k \in 1 .. Len(entries[j].pending) \/ k = Len(entries[j].pending) + 1
  BY <1>1, AppendItems
<1> HIDE DEF s
<1>5. /\ d \in EntryType /\ d.file = entries[j].file /\ SameWrite(d, entries[j])
      /\ SameRead(d, entries[j]) /\ d.complete = entries[j].complete /\ d.pending = s
  BY <1>1, <1>2 DEF EntryType, SameRead, SameWrite
<1> HIDE DEF d
<1>6. /\ entries' \in Seq(EntryType) /\ Len(entries') = Len(entries)
      /\ entries'[j] = d /\ \A i \in 1 .. Len(entries) : i # j => entries'[i] = entries[i]
  <2> HIDE DEF EntryType
  <2>1. j \in 1 .. Len(entries) /\ entries \in Seq(EntryType) /\ d \in EntryType
    BY <1>1, <1>5
  <2> QED
    BY ONLY <2>1, <1>3
<1>7. Joined(b, j, Len(entries[j].pending) + 1)
  <2> DEFINE n == Len(entries[j].pending) + 1
  <2>1. n \in 1 .. Len(s)
    BY <1>4
  <2>2. j \in 1 .. Len(entries') /\ n \in 1 .. Len(entries'[j].pending) /\ entries'[j].pending[n] = b
    BY <1>4, <1>5, <1>6, <2>1
  <2>3. ASSUME NEW i \in 1 .. Len(entries'), NEW k \in 1 .. Len(entries'[i].pending)
        PROVE  \/ i = j /\ k = n
               \/ /\ i \in 1 .. Len(entries) /\ k \in 1 .. Len(entries[i].pending)
                  /\ entries'[i].pending[k] = entries[i].pending[k]
    BY <1>4, <1>5, <1>6
  <2>4. ASSUME NEW i \in 1 .. Len(entries), NEW k \in 1 .. Len(entries[i].pending)
        PROVE  k \in 1 .. Len(entries'[i].pending) /\ entries'[i].pending[k] = entries[i].pending[k]
    BY <1>4, <1>5, <1>6
  <2> QED
    BY <1>6, <2>2, <2>3, <2>4, Zenon DEF Joined
<1> QED
  BY <1>5, <1>6, <1>7 DEF s

-----------------------------------------------------------------------------
LEMMA NextPlaces ==
  ASSUME Types, Owned, [Next]_vars,
         hurt = {} => \A i \in 1 .. Len(entries) : entries[i].complete => entries[i].pending = << >>
  PROVE  Owned'
<1>1. ASSUME NEW f \in File, GrabBlock(f) PROVE Owned'
  <2>1. rpc = "idle" /\ rbuf = NoBlock /\ UNCHANGED <<queue, wbuf, entries>>
    BY <1>1 DEF GrabBlock, Types, TypeOK, workVars, fileVars
  <2>2. ASSUME NEW b \in Block, Fill(f, b),
               \/ b \in pool /\ pool' = pool \ {b} /\ heap' = heap
               \/ b \in heap /\ heap' = heap \ {b} /\ pool' = pool
        PROVE  Owned'
    <3>1. rbuf' = b /\ UNCHANGED <<hurt, entries>>
      BY <2>1, <2>2 DEF Fill
    <3>2. Way' = Append(Way, b)
      BY <2>1, <3>1, WayGrabbed
    <3> QED
      BY <2>2, <3>1, <3>2, PlacesGrabbed
  <2>3. CASE \E b \in pool : Fill(f, b) /\ pool' = PoolLess(b) /\ UNCHANGED heap
    BY <2>2, <2>3 DEF PoolLess, Types, TypeOK
  <2>4. CASE \E b \in heap : Fill(f, b) /\ heap' = heap \ {b} /\ UNCHANGED pool
    BY <2>2, <2>4 DEF Types, TypeOK
  <2>5. CASE hurt' = hurt \cup {f} /\ UNCHANGED <<pool, heap, content, rxVars>>
    BY <2>1, <2>5, PlacesStill DEF Way, rxVars
  <2> QED
    BY <1>1, <2>3, <2>4, <2>5 DEF GrabBlock
<1>2. CASE PushBlock
  <2>1. /\ rbuf # NoBlock /\ queue' = Append(queue, rbuf) /\ rbuf' = NoBlock
        /\ UNCHANGED <<wbuf, pool, heap, entries, hurt>>
    BY <1>2, BlockAssumption DEF PushBlock, Types, TypeOK, memVars, workVars, fileVars
  <2> QED
    BY <2>1, WayPushed, PlacesStill
<1>3. CASE PopBlock
  <2>1. wpc = "pop" /\ wbuf = NoBlock /\ UNCHANGED <<rbuf, pool, heap, entries, hurt>>
    BY <1>3 DEF PopBlock, Types, TypeOK, memVars, rxVars, fileVars
  <2>2. Way' = Way
    <3>1. CASE queue = << >>
      BY <1>3, <2>1, <3>1 DEF PopBlock, Way
    <3>2. CASE queue # << >>
      BY <1>3, <2>1, <3>2, WayPopped DEF PopBlock
    <3> QED
      BY <3>1, <3>2
  <2> QED
    BY <2>1, <2>2, PlacesStill
<1>4. CASE HandleBlock
  <2>1. /\ wbuf \in Block /\ wbuf' = NoBlock /\ UNCHANGED <<queue, rbuf, heap, hurt>>
    BY <1>4 DEF HandleBlock, Types, TypeOK, rxVars
  <2>2. Way # << >> /\ Head(Way) = wbuf /\ Way' = Tail(Way)
    BY <2>1, BlockAssumption, WayHandled
  <2>3. CASE entries' = Append(entries, NewEntry(wbuf)) /\ UNCHANGED <<pool, content>>
    <3>1. Joined(Head(Way), Len(entries) + 1, 1)
      BY <2>1, <2>2, <2>3, NewEdit, SMTT(60)
    <3> QED
      BY <2>1, <2>2, <2>3, <3>1, PlacesJoined
  <2>4. CASE /\ EntriesOf(content[wbuf].file) # {}
             /\ entries' = [entries EXCEPT ![FirstOf(content[wbuf].file)].pending = Append(@, wbuf)]
             /\ UNCHANGED <<pool, content>>
    <3>1. FirstOf(content[wbuf].file) \in 1 .. Len(entries)
      BY <2>4, FirstIsOne
    <3> QED
      BY <2>1, <2>2, <2>4, <3>1, JoinEdit, PlacesJoined
  <2>5. CASE pool' = pool \cup {wbuf} /\ UNCHANGED entries
    BY <2>1, <2>2, <2>5, PlacesDropped
  <2> QED
    BY <1>4, <2>3, <2>4, <2>5 DEF HandleBlock
<1>5. CASE WriteBlock
  <2>1. /\ wpc = "write" /\ Entry.pending # << >> /\ UNCHANGED <<heap, queue, wbuf, rbuf>>
    BY <1>5 DEF WriteBlock, rxVars
  <2>2. entries[idx] = Entry /\ idx \in 1 .. Len(entries)
    BY <2>1, AtTheEntry
  <2>3. pool' = pool \cup {Head(Entry.pending)} /\ hurt \subseteq hurt'
    BY <1>5 DEF WriteBlock, NoFail, Fail
  <2>4. PICK d : Edit(d) /\ d.pending = Tail(Entry.pending)
    <3>1. CASE entries' = [entries EXCEPT ![idx].pending = Tail(@), ![idx].wpos = @ + 1, ![idx].wsize = @ + 1]
      BY <2>1, <3>1, WriteEdit
    <3>2. CASE entries' = [entries EXCEPT ![idx].pending = Tail(@)]
      BY <2>1, <3>2, DropEdit
    <3> QED
      BY <1>5, <3>1, <3>2 DEF WriteBlock
  <2>5. /\ Len(entries') = Len(entries) /\ entries'[idx].pending = Tail(entries[idx].pending)
        /\ \A i \in 1 .. Len(entries) : i # idx => entries'[i].pending = entries[i].pending
    BY <2>2, <2>4 DEF Edit
  <2>6. Way' = Way
    BY <2>1 DEF Way
  <2> QED
    BY <2>1, <2>2, <2>3, <2>5, <2>6, PlacesWritten
<1>6. CASE Sweep
  <2>1. UNCHANGED <<pool, heap, queue, wbuf, rbuf, hurt>> /\ entries' = Incomplete(entries)
    BY <1>6 DEF Sweep, memVars, rxVars
  <2>2. Keeping(entries, entries')
    BY <2>1, EntryTypes, IncompleteKept
  <2>3. Way' = Way
    BY <2>1 DEF Way
  <2> QED
    BY <2>1, <2>2, <2>3, PlacesSwept
<1>7. ASSUME NEW d, Edit(d), d.pending = Entry.pending, UNCHANGED <<pool, heap, queue, wbuf, rbuf>>, hurt \subseteq hurt'
      PROVE  Owned'
  <2>1. Way' = Way
    BY <1>7 DEF Way
  <2>2. Len(entries') = Len(entries) /\ \A i \in 1 .. Len(entries) : entries'[i].pending = entries[i].pending
    BY <1>7 DEF Edit, Entry
  <2> QED
    BY <1>7, <2>1, <2>2, PlacesStill
<1>8. CASE WriteClose
  BY <1>7, <1>8, CloseEdit DEF WriteClose, memVars, rxVars
<1>9. CASE WriteOpen
  <2>1. wpc = "write" /\ UNCHANGED <<pool, heap, queue, wbuf, rbuf>> /\ hurt \subseteq hurt'
    BY <1>9 DEF WriteOpen, memVars, rxVars, NoFail, Fail
  <2>2. \/ entries' = [entries EXCEPT ![idx].wopen = TRUE, ![idx].wpos = 0]
        \/ entries' = [entries EXCEPT ![idx].complete = TRUE]
    BY <1>9 DEF WriteOpen
  <2> QED
    BY <1>7, <2>1, <2>2, OpenEdit, GiveUpEdit
<1>10. CASE ReadComplete
  BY <1>7, <1>10, CompleteEdit DEF ReadComplete, memVars, rxVars
<1>11. CASE ReadOpen
  <2>1. wpc = "read" /\ UNCHANGED <<pool, heap, queue, wbuf, rbuf>> /\ hurt \subseteq hurt'
    BY <1>11 DEF ReadOpen, memVars, rxVars, NoFail, Fail
  <2>2. \E how \in {"open", "bad"} : entries' = [entries EXCEPT ![idx].ropen = how]
    BY <1>11 DEF ReadOpen
  <2> QED
    BY <1>7, <2>1, <2>2, ReadOpenEdit
<1>12. ASSUME NEW f \in File, ReadData(f) PROVE Owned'
  <2>1. wpc = "read" /\ UNCHANGED <<pool, heap, queue, wbuf, rbuf>> /\ hurt \subseteq hurt'
    BY <1>12 DEF ReadData, memVars, rxVars, NoFail, Fail
  <2>2. CASE UNCHANGED entries
    BY <2>1, <2>2, PlacesStill DEF Way
  <2>3. CASE entries' # entries
    BY <1>7, <1>12, <2>1, <2>3, DataEdit
  <2> QED
    BY <2>2, <2>3
<1>13. ASSUME NEW f \in File, Restart(f) PROVE Owned'
  BY <1>13, PlacesStill DEF Restart, memVars, rxVars, workVars, fileVars, Way
<1>14. ASSUME \/ ActiveWork \/ WorkLoop \/ WorkWake \/ WriteNone \/ ReadWait \/ DeactiveWork
              \/ StopSubscribe \/ StopFlag \/ StopSignal \/ StopJoin \/ UNCHANGED vars
       PROVE  Owned'
  <2>1. UNCHANGED <<pool, heap, queue, wbuf, rbuf, entries, hurt>>
    BY <1>14 DEF ActiveWork, WorkLoop, WorkWake, WriteNone, ReadWait, DeactiveWork, StopSubscribe, StopFlag,
                 StopSignal, StopJoin, vars, memVars, rxVars, workVars, fileVars
  <2> QED
    BY <2>1, PlacesStill DEF Way
<1> QED
  BY <1>1, <1>2, <1>3, <1>4, <1>5, <1>6, <1>8, <1>9, <1>10, <1>11, <1>12, <1>13, <1>14
     DEF Next, Callback, Work, Stop

-----------------------------------------------------------------------------
(* The types. *)

LEMMA TypesOfEdit ==
  ASSUME Types, NEW d, Edit(d), idx' \in Nat, wpc' \in {"write", "read"} => idx' <= Len(entries)
  PROVE  entries' \in Seq(EntryType) /\ (wpc' \in {"write", "read"} /\ idx' # 0 => idx' \in 1 .. Len(entries'))
<1>1. entries' \in Seq(EntryType) /\ Len(entries') = Len(entries) /\ Len(entries) \in Nat
  BY EntryTypes DEF Edit
<1>2. wpc' \in {"write", "read"} /\ idx' # 0 => idx' \in 1 .. Len(entries)
  BY <1>1
<1> QED
  BY <1>1, <1>2

LEMMA PutType ==
  ASSUME NEW s \in Seq(Nat \cup {Hole}), NEW p \in Nat, NEW x \in Nat
  PROVE  Put(s, p, x) \in Seq(Nat \cup {Hole})
<1> DEFINE N == Nat \cup {Hole}  n == IF Len(s) > p THEN Len(s) ELSE p + 1
<1>1. n \in Nat /\ \A i \in 1 .. Len(s) : s[i] \in N
  OBVIOUS
<1>2. x \in N /\ Hole \in N
  OBVIOUS
<1>3. ASSUME NEW i \in 1 .. n PROVE (IF i = p + 1 THEN x ELSE IF i <= Len(s) THEN s[i] ELSE Hole) \in N
  <2>1. i \in Nat /\ (i <= Len(s) => i \in 1 .. Len(s))
    BY <1>1
  <2> HIDE DEF N, n
  <2> QED
    BY <1>1, <1>2, <2>1
<1> HIDE DEF N, n
<1>4. [i \in 1 .. n |-> IF i = p + 1 THEN x ELSE IF i <= Len(s) THEN s[i] ELSE Hole] \in [1 .. n -> N]
  BY <1>3
<1>5. [i \in 1 .. n |-> IF i = p + 1 THEN x ELSE IF i <= Len(s) THEN s[i] ELSE Hole] \in Seq(N)
  BY <1>1, <1>4, SeqDef
<1> QED
  BY <1>5 DEF Put, N, n

LEMMA BlankType == \A b \in Block : Types => Blanked(b) \in [Block -> [file : File, seq : Nat]]
<1>1. (CHOOSE f \in File : TRUE) \in File
  BY CountAssumption
<1>2. Blank \in [file : File, seq : Nat]
  BY <1>1 DEF Blank
<1> QED
  BY <1>2 DEF Blanked, Types, TypeOK

(* The entry a block is taken from, or read of, and the next one. *)
LEMMA NextIndex ==
  ASSUME NEW i \in Nat, NEW n \in Nat, i + 1 >= 1, AtEntry(i + 1, n)
  PROVE  /\ idx' \in Nat /\ idx' = i + 1 /\ wpc' \in {"write", "sweep"}
         /\ wpc' = "write" => idx' \in 1 .. n
<1>1. idx' = i + 1 /\ wpc' = (IF i + 1 <= n THEN "write" ELSE "sweep")
  BY DEF AtEntry, Goto
<1>2. i + 1 \in Nat /\ (i + 1 <= n => i + 1 \in 1 .. n)
  OBVIOUS
<1> QED
  BY <1>1, <1>2

LEMMA FirstIndex ==
  ASSUME NEW n \in Nat, AtEntry(1, n)
  PROVE  /\ idx' \in Nat /\ idx' = 1 /\ wpc' \in {"write", "sweep"}
         /\ wpc' = "write" => idx' \in 1 .. n
<1>1. idx' = 1 /\ wpc' = (IF 1 <= n THEN "write" ELSE "sweep")
  BY DEF AtEntry, Goto
<1>2. 1 \in Nat /\ (1 <= n => 1 \in 1 .. n)
  OBVIOUS
<1> QED
  BY <1>1, <1>2

LEMMA FailCounts ==
  ASSUME Types, wpc \in {"write", "read"}, UNCHANGED restarts, Fail \/ NoFail
  PROVE  fails' \in Nat /\ restarts' + fails' <= MaxTrouble /\ hurt' \in SUBSET File /\ hurt \subseteq hurt'
<1>1. restarts \in Nat /\ fails \in Nat /\ restarts + fails <= MaxTrouble /\ hurt \in SUBSET File /\ MaxTrouble \in Nat
  BY BoundAssumption DEF Types, TypeOK
<1>2. Entry.file \in File
  BY AtTheEntry DEF EntryType
<1>3. CASE Fail
  <2>1. fails' = fails + 1 /\ restarts + fails < MaxTrouble /\ hurt' = hurt \cup {Entry.file}
    BY <1>3 DEF Fail
  <2>2. restarts + (fails + 1) <= MaxTrouble /\ fails + 1 \in Nat
    BY <1>1, <2>1
  <2> QED
    BY <1>1, <1>2, <2>1, <2>2
<1>4. CASE NoFail
  BY <1>1, <1>4 DEF NoFail
<1> QED
  BY <1>3, <1>4

LEMMA NextTypes ==
  ASSUME Types, [Next]_vars, fds' \in Nat
  PROVE  Types'
<1>0. /\ Len(entries) \in Nat /\ idx \in Nat /\ entries \in Seq(EntryType)
  BY EntryTypes DEF Types, TypeOK
<1> DEFINE Mem == content' \in [Block -> [file : File, seq : Nat]]
                  /\ pool' \in SUBSET Block /\ heap' \in SUBSET Block
           Src == /\ next' \in [File -> Nat] /\ (\A f \in File : next'[f] <= BlockCount[f])
                  /\ restarts' \in Nat /\ fails' \in Nat /\ restarts' + fails' <= MaxTrouble
                  /\ hurt' \in SUBSET File
           Qs  == /\ queue' \in Seq(Block) /\ late' \in SUBSET Block
                  /\ rpc' \in {"idle", "push", "active"}
                  /\ rbuf' \in (IF rpc' = "push" THEN Block ELSE {NoBlock})
           Wk  == /\ wpc' \in {"loop", "wait", "pop", "block", "write", "read", "sweep", "deactive", "exit", "dead"}
                  /\ wbuf' \in (IF wpc' = "block" THEN Block ELSE {NoBlock})
                  /\ idx' \in Nat /\ (wpc' \in {"write", "read"} => idx' \in 1 .. Len(entries'))
           Fl  == entries' \in Seq(EntryType) /\ disk' \in [File -> Seq(Nat \cup {Hole})]
           Run == evt' \in BOOLEAN /\ run' \in BOOLEAN
                  /\ spc' \in {"running", "flag", "signal", "join", "stopped"}
<1>1. UNCHANGED memVars => Mem
  BY DEF memVars, Types, TypeOK
<1>2. UNCHANGED <<srcVars, fails, hurt>> => Src
  BY DEF srcVars, Types, TypeOK
<1>3. UNCHANGED <<queue, late, rxVars>> => Qs
  BY DEF rxVars, Types, TypeOK
<1>4. UNCHANGED <<workVars, entries>> => Wk
  BY DEF workVars, Types, TypeOK
<1>5. UNCHANGED <<entries, disk>> => Fl
  BY DEF Types, TypeOK
<1>6. UNCHANGED <<evt, run, spc>> => Run
  BY DEF Types, TypeOK
<1>7. Mem /\ Src /\ Qs /\ Wk /\ Fl /\ Run => Types'
  BY DEF Types, TypeOK
<1> HIDE DEF Mem, Src, Qs, Wk, Fl, Run
<1>11. ASSUME NEW f \in File, GrabBlock(f) PROVE Types'
  <2>1. Wk /\ Fl /\ Run
    BY <1>4, <1>5, <1>6, <1>11 DEF GrabBlock, fileVars
  <2>2. /\ next[f] \in Nat /\ next[f] < BlockCount[f] /\ next' = [next EXCEPT ![f] = @ + 1]
        /\ BlockCount \in [File -> Nat \ {0}] /\ rpc = "idle" /\ rbuf = NoBlock
    BY <1>11, CountAssumption DEF GrabBlock, Types, TypeOK
  <2>3. Src
    <3>1. next[f] + 1 \in Nat /\ next[f] + 1 <= BlockCount[f]
      BY <2>2
    <3>2. /\ next \in [File -> Nat] /\ (\A g \in File : next[g] <= BlockCount[g])
          /\ restarts \in Nat /\ fails \in Nat /\ restarts + fails <= MaxTrouble
          /\ hurt \in SUBSET File
      BY DEF Types, TypeOK
    <3>3. UNCHANGED <<restarts, fails>> /\ hurt' \in SUBSET File
      BY <1>11, <3>2 DEF GrabBlock, Fill
    <3>4. next' \in [File -> Nat] /\ \A g \in File : next'[g] = IF g = f THEN next[f] + 1 ELSE next[g]
      BY <2>2, <3>1, <3>2
    <3> QED
      BY <3>1, <3>2, <3>3, <3>4 DEF Src
  <2>4. ASSUME NEW b \in Block, Fill(f, b), pool' \in SUBSET Block, heap' \in SUBSET Block PROVE Mem
    <3>1. [file |-> f, seq |-> next[f]] \in [file : File, seq : Nat]
      BY <2>2
    <3>2. content \in [Block -> [file : File, seq : Nat]]
      BY DEF Types, TypeOK
    <3>3. content' = [content EXCEPT ![b] = [file |-> f, seq |-> next[f]]]
      BY <2>4 DEF Fill
    <3>4. content' \in [Block -> [file : File, seq : Nat]]
      BY <3>1, <3>2, <3>3
    <3> QED
      BY <2>4, <3>4 DEF Mem
  <2>5. pool \in SUBSET Block /\ heap \in SUBSET Block /\ UNCHANGED <<queue, late>>
    BY <1>11 DEF GrabBlock, Types, TypeOK
  <2>6. ASSUME NEW b \in Block, Fill(f, b) PROVE Qs
    BY <2>5, <2>6 DEF Fill, Qs, Types, TypeOK
  <2>7. CASE \E b \in pool : Fill(f, b) /\ pool' = PoolLess(b) /\ UNCHANGED heap
    BY <1>7, <2>1, <2>3, <2>4, <2>5, <2>6, <2>7 DEF PoolLess
  <2>8. CASE \E b \in heap : Fill(f, b) /\ heap' = heap \ {b} /\ UNCHANGED pool
    BY <1>7, <2>1, <2>3, <2>4, <2>5, <2>6, <2>8
  <2>9. CASE UNCHANGED <<pool, heap, content, rxVars>>
    BY <1>1, <1>3, <1>7, <2>1, <2>3, <2>5, <2>9 DEF memVars
  <2> QED
    BY <1>11, <2>7, <2>8, <2>9 DEF GrabBlock
<1>12. CASE PushBlock
  <2>1. Mem /\ Src /\ Wk /\ Fl /\ Run
    BY <1>1, <1>2, <1>4, <1>5, <1>6, <1>12 DEF PushBlock, fileVars
  <2>2. Qs
    BY <1>12 DEF PushBlock, Qs, Types, TypeOK
  <2> QED
    BY <1>7, <2>1, <2>2
<1>13. CASE ActiveWork
  <2>1. Mem /\ Src /\ Wk /\ Fl
    BY <1>1, <1>2, <1>4, <1>5, <1>13 DEF ActiveWork, fileVars
  <2>2. Qs /\ Run
    BY <1>13 DEF ActiveWork, Qs, Run, Types, TypeOK
  <2> QED
    BY <1>7, <2>1, <2>2
<1>14. ASSUME NEW f \in File, Restart(f) PROVE Types'
  <2>1. Mem /\ Qs /\ Wk /\ Fl /\ Run
    BY <1>1, <1>3, <1>4, <1>5, <1>6, <1>14 DEF Restart, fileVars
  <2>2. /\ next \in [File -> Nat] /\ (\A g \in File : next[g] <= BlockCount[g])
        /\ restarts \in Nat /\ fails \in Nat /\ MaxTrouble \in Nat
        /\ hurt \in SUBSET File /\ BlockCount \in [File -> Nat \ {0}]
    BY BoundAssumption, CountAssumption DEF Types, TypeOK
  <2>3. /\ restarts' = restarts + 1 /\ restarts + fails < MaxTrouble /\ fails' = fails
        /\ next' = [next EXCEPT ![f] = 0] /\ hurt' \in SUBSET File
    BY <1>14, <2>2 DEF Restart
  <2>4. (restarts + 1) + fails <= MaxTrouble /\ restarts + 1 \in Nat
    BY <2>2, <2>3
  <2>5. next' \in [File -> Nat] /\ \A g \in File : next'[g] = IF g = f THEN 0 ELSE next[g]
    BY <2>2, <2>3
  <2>6. \A g \in File : next'[g] <= BlockCount[g]
    BY <2>2, <2>5
  <2>7. Src
    BY <2>2, <2>3, <2>4, <2>5, <2>6 DEF Src
  <2> QED
    BY <1>7, <2>1, <2>7
<1>15. CASE WorkLoop \/ WorkWake \/ WriteNone \/ DeactiveWork \/ StopJoin
  <2>1. /\ UNCHANGED <<memVars, srcVars, fails, hurt, queue, late, rxVars, entries, disk, wbuf, idx>>
    BY <1>15 DEF WorkLoop, WorkWake, WriteNone, DeactiveWork, StopJoin, fileVars
  <2>2. Mem /\ Src /\ Qs /\ Fl
    BY <1>1, <1>2, <1>3, <1>5, <2>1
  <2>3. Run
    BY <1>15 DEF WorkLoop, WorkWake, WriteNone, DeactiveWork, StopJoin, Run, Types, TypeOK
  <2>4. /\ wpc' \in {"loop", "wait", "pop", "read", "exit", "dead"} /\ wpc # "block"
        /\ wpc' = "read" => wpc \in {"write", "read"}
    BY <1>15 DEF WorkLoop, WorkWake, WriteNone, DeactiveWork, StopJoin, Goto
  <2>5. Wk
    BY <2>1, <2>4 DEF Wk, Types, TypeOK
  <2> QED
    BY <1>7, <2>2, <2>3, <2>5
<1>16. CASE StopSubscribe \/ StopFlag \/ StopSignal \/ UNCHANGED vars
  <2>1. UNCHANGED <<memVars, srcVars, fails, hurt, queue, late, rxVars, entries, disk, workVars>>
    BY <1>16 DEF StopSubscribe, StopFlag, StopSignal, fileVars, vars
  <2>2. Mem /\ Src /\ Qs /\ Fl /\ Wk
    BY <1>1, <1>2, <1>3, <1>4, <1>5, <2>1
  <2>3. Run
    BY <1>16 DEF StopSubscribe, StopFlag, StopSignal, vars, Run, Types, TypeOK
  <2> QED
    BY <1>7, <2>2, <2>3
<1>17. CASE PopBlock
  <2>1. Mem /\ Src /\ Fl /\ Run
    BY <1>1, <1>2, <1>5, <1>6, <1>17 DEF PopBlock, fileVars
  <2>2. queue \in Seq(Block) /\ wbuf = NoBlock /\ wpc = "pop"
    BY <1>17 DEF PopBlock, Types, TypeOK
  <2>3. Qs
    <3>1. queue' \in Seq(Block) /\ late' = {} /\ UNCHANGED rxVars
      BY <1>17, <2>2 DEF PopBlock
    <3> QED
      BY <3>1 DEF Qs, rxVars, Types, TypeOK
  <2>4. Wk
    <3>1. entries' = entries
      BY <1>17 DEF PopBlock, fileVars
    <3>2. CASE queue = << >>
      <4>1. AtEntry(1, Len(entries)) /\ wbuf' = NoBlock
        BY <1>17, <2>2, <3>2 DEF PopBlock
      <4> QED
        BY <1>0, <3>1, <4>1, FirstIndex DEF Wk
    <3>3. CASE queue # << >>
      <4>1. wbuf' \in Block /\ wpc' = "block" /\ idx' = idx
        BY <1>17, <2>2, <3>3 DEF PopBlock, Goto
      <4> QED
        BY <1>0, <4>1 DEF Wk
    <3> QED
      BY <3>2, <3>3
  <2> QED
    BY <1>7, <2>1, <2>3, <2>4
<1>18. CASE HandleBlock
  <2>1. Src /\ Qs /\ Run
    BY <1>2, <1>3, <1>6, <1>18 DEF HandleBlock
  <2>2. wbuf \in Block /\ disk' = disk /\ wbuf' = NoBlock /\ heap' = heap /\ AtEntry(1, Len(entries'))
    BY <1>18 DEF HandleBlock, Types, TypeOK
  <2>3. entries' \in Seq(EntryType) /\ Len(entries') \in Nat
    <3>1. CASE entries' = Append(entries, NewEntry(wbuf))
      <4>1. entries' \in Seq(EntryType) /\ Len(entries') = Len(entries) + 1
        BY <2>2, <3>1, NewEdit
      <4> QED
        BY <1>0, <4>1
    <3>2. CASE /\ EntriesOf(content[wbuf].file) # {}
               /\ entries' = [entries EXCEPT ![FirstOf(content[wbuf].file)].pending = Append(@, wbuf)]
      <4>1. FirstOf(content[wbuf].file) \in 1 .. Len(entries)
        BY <3>2, FirstIsOne, SMTT(60)
      <4>2. entries' \in Seq(EntryType) /\ Len(entries') = Len(entries)
        BY <2>2, <3>2, <4>1, JoinEdit
      <4> QED
        BY <1>0, <4>2
    <3>3. CASE entries' = entries
      BY <1>0, <3>3
    <3> QED
      BY <1>18, <3>1, <3>2, <3>3 DEF HandleBlock
  <2>4. Fl
    BY <2>2, <2>3 DEF Fl, Types
  <2>5. Mem
    <3>1. UNCHANGED <<pool, content>> \/ (pool' = pool \cup {wbuf} /\ content' = Blanked(wbuf))
      BY <1>18 DEF HandleBlock
    <3> QED
      BY <2>2, <3>1, BlankType DEF Mem, Types, TypeOK
  <2>6. Wk
    <3> DEFINE n == Len(entries')
    <3>1. n \in Nat /\ AtEntry(1, n)
      BY <2>2, <2>3
    <3> HIDE DEF n
    <3>2. /\ idx' \in Nat /\ idx' = 1 /\ wpc' \in {"write", "sweep"}
          /\ wpc' = "write" => idx' \in 1 .. n
      BY <3>1, FirstIndex
    <3> QED
      BY <2>2, <3>2 DEF Wk, n
  <2> QED
    BY <1>7, <2>1, <2>4, <2>5, <2>6
<1>19. CASE Sweep
  <2>1. Mem /\ Src /\ Qs /\ Run
    BY <1>1, <1>2, <1>3, <1>6, <1>19 DEF Sweep
  <2>2. entries' \in Seq(EntryType) /\ UNCHANGED <<wbuf, idx, disk>> /\ wpc = "sweep" /\ wpc' \in {"deactive", "loop"}
    BY <1>0, <1>19, IncompleteKept DEF Sweep, Goto
  <2>3. Fl /\ Wk
    BY <2>2 DEF Fl, Wk, Types, TypeOK
  <2> QED
    BY <1>7, <2>1, <2>3
<1>20. ASSUME wpc \in {"write", "read"}, NEW d, Edit(d), wbuf' = wbuf,
              (idx' = idx /\ wpc' \in {"write", "read"}) \/ AtEntry(idx + 1, Len(entries))
       PROVE  Wk /\ entries' \in Seq(EntryType)
  <2>1. entries' \in Seq(EntryType) /\ Len(entries') = Len(entries) /\ idx \in 1 .. Len(entries)
    BY <1>20 DEF Edit
  <2>2. wbuf' = NoBlock
    BY <1>20 DEF Types, TypeOK
  <2>3. CASE idx' = idx /\ wpc' \in {"write", "read"}
    BY <1>0, <2>1, <2>2, <2>3 DEF Wk
  <2>4. CASE AtEntry(idx + 1, Len(entries))
    <3>1. idx + 1 >= 1
      BY <1>0
    <3>2. idx' \in Nat /\ wpc' \in {"write", "sweep"} /\ (wpc' = "write" => idx' \in 1 .. Len(entries))
      BY <1>0, <2>4, <3>1, NextIndex
    <3> QED
      BY <2>1, <2>2, <3>2 DEF Wk
  <2> QED
    BY <1>20, <2>1, <2>3, <2>4
<1>21. CASE WriteClose
  <2>1. Mem /\ Src /\ Qs /\ Run /\ wpc = "write" /\ UNCHANGED <<wbuf, idx, disk>> /\ wpc' = "read"
    BY <1>1, <1>2, <1>3, <1>6, <1>21 DEF WriteClose, Goto
  <2>2. Wk /\ entries' \in Seq(EntryType)
    BY <1>20, <1>21, <2>1, CloseEdit
  <2> QED
    BY <1>7, <2>1, <2>2 DEF Fl, Types
<1>22. CASE WriteOpen
  <2>1. /\ Mem /\ Qs /\ Run /\ wpc = "write" /\ UNCHANGED <<wbuf, idx, restarts, next>>
        /\ wpc' \in {"write", "read"} /\ (Fail \/ NoFail)
    BY <1>1, <1>3, <1>6, <1>22 DEF WriteOpen, Goto, srcVars
  <2>2. Src
    BY <2>1, FailCounts DEF Src, Types, TypeOK
  <2>3. \/ entries' = [entries EXCEPT ![idx].wopen = TRUE, ![idx].wpos = 0]
        \/ entries' = [entries EXCEPT ![idx].complete = TRUE]
    BY <1>22 DEF WriteOpen
  <2>4. Wk /\ entries' \in Seq(EntryType)
    BY <1>20, <2>1, <2>3, OpenEdit, GiveUpEdit
  <2>5. disk' \in [File -> Seq(Nat \cup {Hole})]
    <3>1. disk \in [File -> Seq(Nat \cup {Hole})] /\ << >> \in Seq(Nat \cup {Hole})
      BY DEF Types
    <3>2. disk' = disk \/ disk' = [disk EXCEPT ![Entry.file] = << >>]
      BY <1>22 DEF WriteOpen
    <3> QED
      BY <3>1, <3>2
  <2> QED
    BY <1>7, <2>1, <2>2, <2>4, <2>5 DEF Fl
<1>23. CASE WriteBlock
  <2>1. /\ Qs /\ Run /\ wpc = "write" /\ UNCHANGED <<wbuf, idx, restarts, next, heap>>
        /\ wpc' = "read" /\ (Fail \/ NoFail) /\ Entry.pending # << >>
        /\ pool' = pool \cup {Head(Entry.pending)} /\ content' = Blanked(Head(Entry.pending))
    BY <1>3, <1>6, <1>23 DEF WriteBlock, Goto, srcVars
  <2>2. Src
    BY <2>1, FailCounts DEF Src, Types, TypeOK
  <2>3. \/ entries' = [entries EXCEPT ![idx].pending = Tail(@), ![idx].wpos = @ + 1, ![idx].wsize = @ + 1]
        \/ entries' = [entries EXCEPT ![idx].pending = Tail(@)]
    BY <1>23 DEF WriteBlock
  <2>4. Wk /\ entries' \in Seq(EntryType)
    BY <1>20, <2>1, <2>3, WriteEdit, DropEdit
  <2>5. Head(Entry.pending) \in Block /\ Entry.wpos \in Nat
    <3>1. Entry.pending \in Seq(Block) /\ Entry.wpos \in Nat
      BY <2>1, AtTheEntry DEF EntryType
    <3> QED
      BY <2>1, <3>1
  <2>6. Mem
    BY <2>1, <2>5, BlankType DEF Mem, Types, TypeOK
  <2>7. disk' \in [File -> Seq(Nat \cup {Hole})]
    <3> DEFINE S == Seq(Nat \cup {Hole})
               x == Put(disk[Entry.file], Entry.wpos, content[Head(Entry.pending)].seq)
    <3>1. disk \in [File -> S] /\ content[Head(Entry.pending)].seq \in Nat /\ Entry.file \in File
      BY <2>1, <2>5, AtTheEntry DEF Types, TypeOK, EntryType
    <3>2. x \in S
      BY <2>5, <3>1, PutType
    <3>3. disk' = disk \/ disk' = [disk EXCEPT ![Entry.file] = x]
      BY <1>23 DEF WriteBlock
    <3> HIDE DEF S, x
    <3>4. disk' \in [File -> S]
      BY <3>1, <3>2, <3>3
    <3> QED
      BY <3>4 DEF S
  <2> QED
    BY <1>7, <2>1, <2>2, <2>4, <2>6, <2>7 DEF Fl
<1>24. CASE ReadComplete
  <2>1. Mem /\ Src /\ Qs /\ Run /\ wpc = "read" /\ UNCHANGED <<wbuf, disk>> /\ AtEntry(idx + 1, Len(entries))
    BY <1>1, <1>2, <1>3, <1>6, <1>24 DEF ReadComplete
  <2>2. Wk /\ entries' \in Seq(EntryType)
    BY <1>20, <1>24, <2>1, CompleteEdit
  <2> QED
    BY <1>7, <2>1, <2>2 DEF Fl, Types
<1>25. CASE ReadOpen
  <2>1. /\ Mem /\ Qs /\ Run /\ wpc = "read" /\ UNCHANGED <<wbuf, disk, restarts, next>>
        /\ AtEntry(idx + 1, Len(entries)) /\ (Fail \/ NoFail)
    BY <1>1, <1>3, <1>6, <1>25 DEF ReadOpen, srcVars
  <2>2. Src
    BY <2>1, FailCounts DEF Src, Types, TypeOK
  <2>3. \E how \in {"open", "bad"} : entries' = [entries EXCEPT ![idx].ropen = how]
    BY <1>25 DEF ReadOpen
  <2>4. Wk /\ entries' \in Seq(EntryType)
    BY <1>20, <2>1, <2>3, ReadOpenEdit
  <2> QED
    BY <1>7, <2>1, <2>2, <2>4 DEF Fl, Types
<1>26. ASSUME wpc = "read", entries' = entries, AtEntry(idx + 1, Len(entries)), wbuf' = wbuf PROVE Wk
  <2>1. idx + 1 >= 1 /\ wbuf = NoBlock
    BY <1>0, <1>26 DEF Types, TypeOK
  <2>2. idx' \in Nat /\ wpc' \in {"write", "sweep"} /\ (wpc' = "write" => idx' \in 1 .. Len(entries))
    BY <1>0, <1>26, <2>1, NextIndex
  <2> QED
    BY <1>26, <2>1, <2>2 DEF Wk
<1>27. CASE ReadWait
  <2>1. Mem /\ Src /\ Qs /\ Run /\ Fl /\ Wk
    BY <1>1, <1>2, <1>3, <1>5, <1>6, <1>26, <1>27 DEF ReadWait, fileVars
  <2> QED
    BY <1>7, <2>1
<1>28. ASSUME NEW f \in File, ReadData(f) PROVE Types'
  <2>1. /\ Mem /\ Qs /\ Run /\ wpc = "read" /\ UNCHANGED <<wbuf, disk, restarts, next>>
        /\ AtEntry(idx + 1, Len(entries)) /\ (Fail \/ NoFail)
    BY <1>1, <1>3, <1>6, <1>28 DEF ReadData, srcVars
  <2>2. Src
    BY <2>1, FailCounts DEF Src, Types, TypeOK
  <2>3. Wk /\ entries' \in Seq(EntryType)
    <3>1. CASE entries' = entries
      BY <1>0, <1>26, <2>1, <3>1
    <3>2. CASE entries' # entries
      BY <1>20, <1>28, <2>1, <3>2, DataEdit
    <3> QED
      BY <3>1, <3>2
  <2> QED
    BY <1>7, <2>1, <2>2, <2>3 DEF Fl, Types
<1> QED
  BY <1>11, <1>12, <1>13, <1>14, <1>15, <1>16, <1>17, <1>18, <1>19, <1>21, <1>22, <1>23, <1>24, <1>25, <1>27, <1>28
     DEF Next, Callback, Work, Stop

-----------------------------------------------------------------------------
(* Descriptors are opened and closed with the entries that hold them. *)

LEMMA Counted ==
  ASSUME NEW n \in Nat, NEW S, NEW T, S \subseteq 1 .. n, T \subseteq 1 .. n, NEW x \in 1 .. n,
         \A i \in 1 .. n : i # x => (i \in T <=> i \in S)
  PROVE  /\ Cardinality(S) \in Nat /\ Cardinality(T) \in Nat
         /\ x \in S => Cardinality(S) >= 1
         /\ Cardinality(T) + (IF x \in S THEN 1 ELSE 0) = Cardinality(S) + (IF x \in T THEN 1 ELSE 0)
<1>1. IsFiniteSet(1 .. n)
  BY FS_Interval
<1>2. IsFiniteSet(S) /\ IsFiniteSet(T)
  BY <1>1, FS_Subset
<1> DEFINE R == S \ {x}
<1>3. R = T \ {x} /\ IsFiniteSet(R) /\ x \notin R
  BY <1>2, FS_Subset
<1>4. Cardinality(R) \in Nat /\ Cardinality(S) \in Nat /\ Cardinality(T) \in Nat
  BY <1>2, <1>3, FS_CardinalityType
<1>5. Cardinality(R \cup {x}) = Cardinality(R) + 1
  BY <1>3, FS_AddElement
<1>6. (x \in S => S = R \cup {x}) /\ (x \notin S => S = R)
  OBVIOUS
<1>7. (x \in T => T = R \cup {x}) /\ (x \notin T => T = R)
  BY <1>3
<1> DEFINE r == Cardinality(R)  s == Cardinality(S)  t == Cardinality(T)
<1>8. s = r + (IF x \in S THEN 1 ELSE 0) /\ t = r + (IF x \in T THEN 1 ELSE 0)
  <2> HIDE DEF R
  <2> QED
    BY <1>4, <1>5, <1>6, <1>7
<1>9. r \in Nat /\ s \in Nat /\ t \in Nat
  BY <1>4
<1> HIDE DEF r, s, t
<1>10. (x \in S => s >= 1) /\ t + (IF x \in S THEN 1 ELSE 0) = s + (IF x \in T THEN 1 ELSE 0)
  BY <1>8, <1>9
<1> QED
  BY <1>9, <1>10 DEF s, t

Reads(e, there) == e.ropen = "open" /\ (e.complete => there)

LEMMA FdsOfEdit ==
  ASSUME Types, wpc \in {"write", "read"}, NEW d, Edit(d), wpc' = "read" => idx' = idx
  PROVE  /\ Cardinality(Writing) \in Nat /\ Cardinality(Reading) \in Nat
         /\ Cardinality(Writing') \in Nat /\ Cardinality(Reading') \in Nat
         /\ Cardinality(Writing') + (IF Entry.wopen THEN 1 ELSE 0)
              = Cardinality(Writing) + (IF d.wopen THEN 1 ELSE 0)
         /\ Cardinality(Reading') + (IF Reads(Entry, wpc = "read") THEN 1 ELSE 0)
              = Cardinality(Reading) + (IF Reads(d, wpc' = "read") THEN 1 ELSE 0)
         /\ Entry.wopen => Cardinality(Writing) >= 1
         /\ Reads(Entry, wpc = "read") => Cardinality(Reading) >= 1
<1> DEFINE n == Len(entries)
<1>1. /\ n \in Nat /\ idx \in 1 .. n /\ entries[idx] = Entry /\ Len(entries') = n
      /\ entries'[idx] = d /\ \A i \in 1 .. n : i # idx => entries'[i] = entries[i]
  BY EntryTypes, AtTheEntry DEF Edit
<1> HIDE DEF n
<1>2. /\ Writing \subseteq 1 .. n /\ Writing' \subseteq 1 .. n
      /\ Reading \subseteq 1 .. n /\ Reading' \subseteq 1 .. n
  BY <1>1 DEF Writing, Reading, n
<1>3. /\ \A i \in 1 .. n : i # idx => (i \in Writing' <=> i \in Writing)
      /\ idx \in Writing <=> Entry.wopen
      /\ idx \in Writing' <=> d.wopen
  BY <1>1 DEF Writing, n
<1>4. /\ \A i \in 1 .. n : i # idx => (i \in Reading' <=> i \in Reading)
      /\ idx \in Reading <=> Reads(Entry, wpc = "read")
      /\ idx \in Reading' <=> Reads(d, wpc' = "read")
  <2>1. ASSUME NEW i \in 1 .. n, i # idx PROVE i \in Reading' <=> i \in Reading
    <3>1. entries'[i] = entries[i] /\ ~(wpc = "read" /\ i = idx) /\ ~(wpc' = "read" /\ i = idx')
      BY <1>1, <2>1
    <3> QED
      BY <1>1, <3>1 DEF Reading, n
  <2>2. idx \in Reading <=> Reads(Entry, wpc = "read")
    BY <1>1 DEF Reading, Reads, n
  <2>3. idx \in Reading' <=> Reads(d, wpc' = "read")
    BY <1>1 DEF Reading, Reads, n
  <2> QED
    BY <2>1, <2>2, <2>3
<1>5. /\ Cardinality(Writing) \in Nat /\ Cardinality(Writing') \in Nat
      /\ idx \in Writing => Cardinality(Writing) >= 1
      /\ Cardinality(Writing') + (IF idx \in Writing THEN 1 ELSE 0)
           = Cardinality(Writing) + (IF idx \in Writing' THEN 1 ELSE 0)
  BY <1>1, <1>2, <1>3, Counted, ZenonT(60)
<1>6. /\ Cardinality(Reading) \in Nat /\ Cardinality(Reading') \in Nat
      /\ idx \in Reading => Cardinality(Reading) >= 1
      /\ Cardinality(Reading') + (IF idx \in Reading THEN 1 ELSE 0)
           = Cardinality(Reading) + (IF idx \in Reading' THEN 1 ELSE 0)
  BY <1>1, <1>2, <1>4, Counted, ZenonT(60)
<1> QED
  BY <1>3, <1>4, <1>5, <1>6

LEMMA FdsStill ==
  ASSUME Types, Fds, fds' = fds, hurt \subseteq hurt', Writing' = Writing, Reading' \subseteq Reading,
         hurt = {} => Reading' = Reading
  PROVE  fds' \in Nat /\ Fds'
<1>0. fds \in Nat
  BY DEF Types, TypeOK
<1>1. IsFiniteSet(1 .. Len(entries))
  <2>1. Len(entries) \in Nat
    BY EntryTypes
  <2> QED
    BY <2>1, FS_Interval
<1>2. Writing \subseteq 1 .. Len(entries) /\ Reading \subseteq 1 .. Len(entries)
  BY DEF Writing, Reading
<1>3. IsFiniteSet(Writing) /\ IsFiniteSet(Reading)
  BY <1>1, <1>2, FS_Subset
<1>4. IsFiniteSet(Reading') /\ Cardinality(Reading') <= Cardinality(Reading)
  BY <1>3, FS_Subset
<1>5. Cardinality(Writing) \in Nat /\ Cardinality(Reading) \in Nat /\ Cardinality(Reading') \in Nat
  BY <1>3, <1>4, FS_CardinalityType
<1> DEFINE w == Cardinality(Writing)  r == Cardinality(Reading)  q == Cardinality(Reading')
<1>6. fds >= w + r /\ (hurt = {} => fds = w + r) /\ w \in Nat /\ r \in Nat /\ q \in Nat /\ q <= r
      /\ (hurt = {} => q = r)
  BY <1>4, <1>5 DEF Fds
<1> HIDE DEF w, r, q
<1>7. fds >= w + q /\ (hurt = {} => fds = w + q)
  BY <1>0, <1>6
<1> QED
  BY <1>0, <1>7 DEF Fds, w, q

(* Freeing the complete entries: as many descriptors are counted before    *)
(* and after, unless a complete entry's file was still open. *)
LEMMA FdsOfSweep ==
  ASSUME Types, Fds, Keeping(entries, entries'), fds' = fds, hurt' = hurt, wpc = "sweep", wpc' # "read",
         hurt = {} => \A i \in 1 .. Len(entries) : entries[i].complete => ~entries[i].wopen
  PROVE  fds' \in Nat /\ Fds'
<1>1. PICK m : Keeps(entries, entries', m)
  BY DEF Keeping
<1> DEFINE W == {i \in Writing : ~entries[i].complete}
<1>2. /\ \A k \in 1 .. Len(entries') : m[k] \in 1 .. Len(entries) /\ entries'[k] = entries[m[k]]
                                       /\ ~entries[m[k]].complete
      /\ \A k, l \in 1 .. Len(entries') : m[k] = m[l] => k = l
      /\ \A i \in 1 .. Len(entries) : ~entries[i].complete => \E k \in 1 .. Len(entries') : m[k] = i
  BY <1>1 DEF Keeps
<1>3. IsFiniteSet(1 .. Len(entries))
  BY EntryTypes, FS_Interval
<1>4. Writing \subseteq 1 .. Len(entries) /\ Reading \subseteq 1 .. Len(entries) /\ W \subseteq Writing
  BY DEF Writing, Reading
<1>5. IsFiniteSet(Writing) /\ IsFiniteSet(Reading) /\ IsFiniteSet(W) /\ Cardinality(W) <= Cardinality(Writing)
  BY <1>3, <1>4, FS_Subset
<1>6. Cardinality(Writing') = Cardinality(W)
  <2> DEFINE g == [k \in Writing' |-> m[k]]
  <2>1. \A k \in Writing' : k \in 1 .. Len(entries') /\ m[k] \in W
    BY <1>2 DEF Writing
  <2>2. \A i \in W : \E k \in Writing' : m[k] = i
    BY <1>2, <1>4 DEF Writing
  <2>3. g \in Bijection(Writing', W)
    <3>1. g \in [Writing' -> W] /\ (\A k, l \in Writing' : g[k] = g[l] => k = l)
          /\ \A i \in W : \E k \in Writing' : g[k] = i
      BY <1>2, <2>1, <2>2
    <3> HIDE DEF g, W
    <3> QED
      BY <3>1 DEF Bijection, Injection, Surjection, IsInjective
  <2> QED
    BY <1>5, <2>3, FS_Injection DEF Bijection
<1>7. Cardinality(Reading') = Cardinality(Reading)
  <2> DEFINE g == [k \in Reading' |-> m[k]]
  <2>0. \A i \in Reading : i \in 1 .. Len(entries) /\ ~entries[i].complete /\ entries[i].ropen = "open"
    BY DEF Reading
  <2>1. \A k \in Reading' : k \in 1 .. Len(entries') /\ m[k] \in Reading
    BY <1>2 DEF Reading
  <2>2. \A i \in Reading : \E k \in Reading' : m[k] = i
    <3> SUFFICES ASSUME NEW i \in Reading PROVE \E k \in Reading' : m[k] = i
      OBVIOUS
    <3>1. PICK k \in 1 .. Len(entries') : m[k] = i
      BY <1>2, <2>0
    <3>2. entries'[k].ropen = "open" /\ ~entries'[k].complete
      BY <1>2, <2>0, <3>1
    <3> QED
      BY <3>1, <3>2 DEF Reading
  <2>3. g \in Bijection(Reading', Reading)
    <3>1. g \in [Reading' -> Reading] /\ (\A k, l \in Reading' : g[k] = g[l] => k = l)
          /\ \A i \in Reading : \E k \in Reading' : g[k] = i
      BY <1>2, <2>1, <2>2
    <3> HIDE DEF g
    <3> QED
      BY <3>1 DEF Bijection, Injection, Surjection, IsInjective
  <2> QED
    BY <1>5, <2>3, FS_Injection DEF Bijection
<1>8. hurt = {} => W = Writing
  BY <1>4 DEF Writing
<1> HIDE DEF W
<1>9. Cardinality(W) \in Nat /\ Cardinality(Writing) \in Nat /\ Cardinality(Reading) \in Nat /\ fds \in Nat
  BY <1>5, FS_CardinalityType DEF Types, TypeOK
<1>10. fds >= Cardinality(W) + Cardinality(Reading) /\ (hurt = {} => fds = Cardinality(W) + Cardinality(Reading))
  BY <1>5, <1>8, <1>9 DEF Fds
<1> QED
  BY <1>6, <1>7, <1>9, <1>10 DEF Fds

LEMMA FdsEdited ==
  ASSUME Types, Fds, wpc \in {"write", "read"}, NEW d, Edit(d), wpc' = "read" => idx' = idx, hurt \subseteq hurt',
         NEW new \in Int, fds' = new,
         new + (IF Entry.wopen THEN 1 ELSE 0) + (IF Reads(Entry, wpc = "read") THEN 1 ELSE 0)
           >= fds + (IF d.wopen THEN 1 ELSE 0) + (IF Reads(d, wpc' = "read") THEN 1 ELSE 0),
         hurt' = {} =>
           new + (IF Entry.wopen THEN 1 ELSE 0) + (IF Reads(Entry, wpc = "read") THEN 1 ELSE 0)
             = fds + (IF d.wopen THEN 1 ELSE 0) + (IF Reads(d, wpc' = "read") THEN 1 ELSE 0)
  PROVE  fds' \in Nat /\ Fds'
<1> DEFINE w == Cardinality(Writing)  r == Cardinality(Reading)
           u == Cardinality(Writing')  q == Cardinality(Reading')
           A == IF Entry.wopen THEN 1 ELSE 0  B == IF Reads(Entry, wpc = "read") THEN 1 ELSE 0
           C == IF d.wopen THEN 1 ELSE 0  D == IF Reads(d, wpc' = "read") THEN 1 ELSE 0
<1>1. w \in Nat /\ r \in Nat /\ u \in Nat /\ q \in Nat /\ u + A = w + C /\ q + B = r + D
  BY FdsOfEdit
<1>2. A \in {0, 1} /\ B \in {0, 1} /\ C \in {0, 1} /\ D \in {0, 1} /\ fds \in Nat
  BY DEF Types, TypeOK
<1>3. fds >= w + r /\ (hurt' = {} => fds = w + r)
  BY DEF Fds
<1>4. (new + A) + B >= (fds + C) + D /\ (hurt' = {} => (new + A) + B = (fds + C) + D)
  OBVIOUS
<1> HIDE DEF w, r, u, q, A, B, C, D
<1>5. new >= u + q /\ (hurt' = {} => new = u + q) /\ new \in Nat
  BY <1>1, <1>2, <1>3, <1>4
<1> QED
  BY <1>5 DEF Fds, u, q

LEMMA AtWrite ==
  ASSUME Types, Fresh, wpc = "write"
  PROVE  ~Entry.complete
<1>1. idx \in 1 .. Len(entries) /\ entries[idx] = Entry /\ ~(idx < idx)
  BY AtTheEntry DEF Types, TypeOK
<1> QED
  BY <1>1 DEF Fresh

LEMMA AtRead ==
  ASSUME Types, Entries, wpc = "read", Entry.file \in Undisturbed
  PROVE  /\ Good(idx) /\ ~Entry.complete
         /\ IF Entry.wopen THEN Entry.rpos < BlockCount[Entry.file] ELSE Entry.wsize = BlockCount[Entry.file]
<1>1. idx \in 1 .. Len(entries) /\ entries[idx] = Entry
  BY AtTheEntry
<1>2. Good(idx)
  BY <1>1 DEF Entries
<1> QED
  BY <1>1, <1>2 DEF Good, Readable

LEMMA SentAll ==
  ASSUME Types, Entries, wpc = "read", Entry.file \in Undisturbed
  PROVE  Len(Entry.sent) = Entry.rpos
<1>1. Good(idx) /\ entries[idx] = Entry /\ Entry \in EntryType
  BY AtRead, AtTheEntry
<1>2. Entry.sent = Upto(Entry.rpos) /\ Entry.rpos \in Nat
  BY <1>1 DEF Good, Fine, EntryType
<1> QED
  BY <1>2 DEF Upto

LEMMA NextFds ==
  ASSUME Types, Fds, Fresh, Entries, [Next]_vars
  PROVE  fds' \in Nat /\ Fds'
<1>0. fds \in Nat /\ fds + 1 \in Int /\ fds - 1 \in Int
  BY DEF Types, TypeOK
<1>u. hurt' = {} /\ hurt \subseteq hurt' => hurt = {} /\ Undisturbed = File
  BY DEF Undisturbed
<1>f. wpc \in {"write", "read"} => Entry.file \in File
  BY AtTheEntry DEF EntryType
<1>1. ASSUME \/ (\E f \in File : GrabBlock(f)) \/ PushBlock \/ ActiveWork \/ (\E f \in File : Restart(f))
             \/ StopSubscribe \/ StopFlag \/ StopSignal \/ UNCHANGED vars
      PROVE  fds' \in Nat /\ Fds'
  <2>1. UNCHANGED <<fileVars, workVars>> /\ hurt \subseteq hurt'
    BY <1>1 DEF GrabBlock, Fill, PushBlock, ActiveWork, Restart, StopSubscribe, StopFlag, StopSignal, vars
  <2>2. fds' = fds /\ Writing' = Writing /\ Reading' = Reading
    BY <2>1 DEF fileVars, workVars, Writing, Reading
  <2> QED
    BY <2>1, <2>2, FdsStill
<1>2. ASSUME \/ WorkLoop \/ WorkWake \/ DeactiveWork \/ PopBlock
      PROVE  fds' \in Nat /\ Fds'
  <2>1. UNCHANGED <<entries, fds, hurt>> /\ wpc # "read" /\ wpc' # "read"
    BY <1>2 DEF WorkLoop, WorkWake, DeactiveWork, PopBlock, Goto, AtEntry, fileVars
  <2>2. fds' = fds /\ Writing' = Writing /\ Reading' = Reading
    BY <2>1 DEF Writing, Reading
  <2> QED
    BY <2>1, <2>2, FdsStill
<1>3. CASE WriteNone
  <2>1. UNCHANGED <<entries, fds, hurt, idx>> /\ wpc = "write" /\ wpc' = "read"
    BY <1>3 DEF WriteNone, Goto, fileVars
  <2>2. ~entries[idx].complete
    BY <2>1, AtWrite, AtTheEntry
  <2>3. fds' = fds /\ Writing' = Writing /\ Reading' = Reading
    BY <2>1, <2>2 DEF Writing, Reading
  <2> QED
    BY <2>1, <2>3, FdsStill
<1>4. ASSUME UNCHANGED <<entries, fds>>, hurt \subseteq hurt', wpc = "read", wpc' # "read"
      PROVE  fds' \in Nat /\ Fds'
  <2>1. Writing' = Writing /\ Reading' \subseteq Reading
    BY <1>4 DEF Writing, Reading
  <2>2. hurt = {} => ~entries[idx].complete
    BY <1>4, <1>f, AtRead, AtTheEntry DEF Undisturbed
  <2>3. hurt = {} => Reading' = Reading
    BY <1>4, <2>2 DEF Reading
  <2> QED
    BY <1>4, <2>1, <2>3, FdsStill
<1>5. CASE StopJoin
  <2>1. UNCHANGED <<entries, fds, hurt, idx>> /\ wpc' # "read"
    BY <1>5 DEF StopJoin, Goto, fileVars, Types, TypeOK
  <2>2. CASE wpc = "read"
    BY <1>4, <2>1, <2>2
  <2>3. CASE wpc # "read"
    <3>1. fds' = fds /\ Writing' = Writing /\ Reading' = Reading
      BY <2>1, <2>3 DEF Writing, Reading
    <3> QED
      BY <2>1, <3>1, FdsStill
  <2> QED
    BY <2>2, <2>3
<1>6. CASE ReadWait
  BY <1>4, <1>6 DEF ReadWait, AtEntry, Goto, fileVars
<1>7. CASE HandleBlock
  <2>1. wbuf \in Block /\ wpc = "block" /\ wpc' # "read" /\ UNCHANGED <<fds, hurt>>
    BY <1>7 DEF HandleBlock, AtEntry, Goto, Types, TypeOK
  <2>2. CASE entries' = Append(entries, NewEntry(wbuf))
    <3>1. /\ Len(entries') = Len(entries) + 1 /\ Len(entries) \in Nat /\ entries'[Len(entries) + 1] = NewEntry(wbuf)
          /\ \A i \in 1 .. Len(entries) : entries'[i] = entries[i]
      BY <2>1, <2>2, NewEdit, EntryTypes
    <3> DEFINE n == Len(entries)
    <3>2. Len(entries') = n + 1 /\ 1 .. (n + 1) = (1 .. n) \cup {n + 1} /\ n + 1 \notin 1 .. n
      BY <3>1
    <3>3. ~NewEntry(wbuf).wopen /\ NewEntry(wbuf).ropen = "no"
      BY DEF NewEntry
    <3>4. 1 .. Len(entries') = (1 .. n) \cup {n + 1}
      BY <3>2
    <3>5. \A i \in 1 .. n : entries'[i] = entries[i]
      BY <3>1
    <3>6. entries'[n + 1] = NewEntry(wbuf)
      BY <3>1
    <3>7. Writing' = Writing
      BY <3>3, <3>4, <3>5, <3>6, Zenon DEF Writing
    <3>8. Reading' = Reading
      BY <2>1, <3>3, <3>4, <3>5, <3>6 DEF Reading
    <3> QED
      BY <2>1, <3>7, <3>8, FdsStill
  <2>3. CASE /\ EntriesOf(content[wbuf].file) # {}
             /\ entries' = [entries EXCEPT ![FirstOf(content[wbuf].file)].pending = Append(@, wbuf)]
    <3> DEFINE j == FirstOf(content[wbuf].file)
    <3>1. j \in 1 .. Len(entries)
      BY <2>3, FirstIsOne, SMTT(60)
    <3>2. /\ Len(entries') = Len(entries)
          /\ \A i \in 1 .. Len(entries) : i # j => entries'[i] = entries[i]
          /\ SameWrite(entries'[j], entries[j]) /\ SameRead(entries'[j], entries[j])
          /\ entries'[j].complete = entries[j].complete
      BY <2>1, <2>3, <3>1, JoinEdit
    <3>3. \A i \in 1 .. Len(entries) : /\ entries'[i].wopen = entries[i].wopen
                                       /\ entries'[i].ropen = entries[i].ropen
                                       /\ entries'[i].complete = entries[i].complete
      BY <3>2 DEF SameWrite, SameRead
    <3>4. Writing' = Writing /\ Reading' = Reading
      BY <2>1, <3>2, <3>3 DEF Writing, Reading
    <3> QED
      BY <2>1, <3>4, FdsStill
  <2>4. CASE UNCHANGED entries
    <3>1. Writing' = Writing /\ Reading' = Reading
      BY <2>1, <2>4 DEF Writing, Reading
    <3> QED
      BY <2>1, <3>1, FdsStill
  <2> QED
    BY <1>7, <2>2, <2>3, <2>4 DEF HandleBlock
<1>8. CASE Sweep
  <2>1. /\ fds' = fds /\ hurt' = hurt /\ wpc = "sweep" /\ wpc' # "read" /\ entries' = Incomplete(entries)
    BY <1>8 DEF Sweep, Goto
  <2>2. Keeping(entries, entries')
    BY <2>1, EntryTypes, IncompleteKept
  <2>3. hurt = {} => \A i \in 1 .. Len(entries) : entries[i].complete => ~entries[i].wopen
    BY EntryTypes DEF Entries, Good, Fine, Undisturbed
  <2> QED
    BY <2>1, <2>2, <2>3, FdsOfSweep
<1>9. CASE WriteClose
  <2>1. wpc = "write" /\ wpc' = "read" /\ idx' = idx /\ hurt' = hurt /\ fds' = (IF Entry.wopen THEN fds - 1 ELSE fds)
    BY <1>9 DEF WriteClose, Goto
  <2>2. PICK d : Edit(d) /\ d.wopen = FALSE /\ SameRead(d, Entry) /\ d.complete = Entry.complete
    BY <1>9, CloseEdit
  <2>3. ~Entry.complete
    BY <2>1, AtWrite
  <2>4. Reads(d, wpc' = "read") = Reads(Entry, wpc = "read")
    BY <2>2, <2>3 DEF Reads, SameRead
  <2> DEFINE new == IF Entry.wopen THEN fds - 1 ELSE fds
             B == IF Reads(Entry, wpc = "read") THEN 1 ELSE 0
  <2>5. new \in Int /\ B \in Int /\ (IF Reads(d, wpc' = "read") THEN 1 ELSE 0) = B
    BY <1>0, <2>4
  <2>6. new + (IF Entry.wopen THEN 1 ELSE 0) = fds + (IF d.wopen THEN 1 ELSE 0)
    BY <1>0, <2>2
  <2> QED
    BY <1>0, <2>1, <2>2, <2>5, <2>6, FdsEdited
<1>10. CASE WriteOpen
  <2>1. /\ wpc = "write" /\ wpc' \in {"write", "read"} /\ idx' = idx /\ ~Entry.wopen /\ ~Entry.complete
        /\ hurt \subseteq hurt'
    BY <1>10, AtWrite DEF WriteOpen, Goto, NoFail, Fail
  <2>2. CASE entries' = [entries EXCEPT ![idx].wopen = TRUE, ![idx].wpos = 0] /\ fds' = fds + 1 /\ UNCHANGED wpc
    <3>1. PICK d : Edit(d) /\ d.wopen = TRUE /\ SameRead(d, Entry) /\ d.complete = Entry.complete
      BY <2>1, <2>2, OpenEdit
    <3>2. Reads(d, wpc' = "read") = Reads(Entry, wpc = "read")
      BY <2>1, <3>1 DEF Reads, SameRead
    <3> QED
      BY <1>0, <2>1, <2>2, <3>1, <3>2, FdsEdited
  <2>3. CASE entries' = [entries EXCEPT ![idx].complete = TRUE] /\ fds' = fds /\ wpc' = "read"
    <3>1. PICK d : Edit(d) /\ SameWrite(d, Entry) /\ SameRead(d, Entry)
      BY <2>1, <2>3, GiveUpEdit
    <3>2. Reads(d, wpc' = "read") = Reads(Entry, wpc = "read") /\ d.wopen = Entry.wopen
      BY <2>1, <2>3, <3>1 DEF Reads, SameRead, SameWrite
    <3> QED
      BY <1>0, <2>1, <2>3, <3>1, <3>2, FdsEdited
  <2> QED
    BY <1>10, <2>2, <2>3 DEF WriteOpen, Goto
<1>11. CASE WriteBlock
  <2>1. /\ wpc = "write" /\ wpc' = "read" /\ idx' = idx /\ ~Entry.complete /\ fds' = fds
        /\ hurt \subseteq hurt' /\ Entry.pending # << >>
    BY <1>11, AtWrite DEF WriteBlock, Goto, NoFail, Fail
  <2>2. PICK d : Edit(d) /\ d.wopen = Entry.wopen /\ SameRead(d, Entry) /\ d.complete = Entry.complete
    <3>1. \/ entries' = [entries EXCEPT ![idx].pending = Tail(@), ![idx].wpos = @ + 1, ![idx].wsize = @ + 1]
          \/ entries' = [entries EXCEPT ![idx].pending = Tail(@)]
      BY <1>11 DEF WriteBlock
    <3> QED
      BY <2>1, <3>1, WriteEdit, DropEdit DEF SameWrite
  <2>3. Reads(d, wpc' = "read") = Reads(Entry, wpc = "read")
    BY <2>1, <2>2 DEF Reads, SameRead
  <2> QED
    BY <1>0, <2>1, <2>2, <2>3, FdsEdited
<1>12. CASE ReadComplete
  <2>1. /\ wpc = "read" /\ wpc' # "read" /\ fds' = fds - 1 /\ hurt' = hurt /\ ReadEnd
    BY <1>12 DEF ReadComplete, AtEntry, Goto
  <2>2. PICK d : Edit(d) /\ d.wopen = FALSE /\ d.complete = TRUE
    BY <1>12, CompleteEdit
  <2>3. Reads(Entry, wpc = "read") /\ ~Reads(d, wpc' = "read")
    BY <2>1, <2>2 DEF Reads, ReadEnd
  <2>4. hurt' = {} => ~Entry.wopen
    <3>1. SUFFICES ASSUME hurt' = {} PROVE ~Entry.wopen
      OBVIOUS
    <3>2. Entry.file \in Undisturbed
      BY <1>u, <1>f, <2>1, <3>1
    <3>3. Len(Entry.sent) = Entry.rpos /\ Len(Entry.sent) = BlockCount[Entry.file]
      BY <2>1, <3>2, SentAll DEF ReadEnd, RSize, Size
    <3>4. Entry.wopen => Entry.rpos < BlockCount[Entry.file]
      BY <2>1, <3>2, AtRead
    <3>5. BlockCount[Entry.file] \in Nat
      BY <1>f, <2>1, CountAssumption
    <3> QED
      BY <3>3, <3>4, <3>5
  <2> DEFINE new == fds - 1
  <2>5. new \in Int /\ new + 1 = fds
    BY <1>0
  <2>6. fds' = new
    BY <2>1
  <2> HIDE DEF new
  <2> QED
    BY <1>0, <2>1, <2>2, <2>3, <2>4, <2>5, <2>6, FdsEdited
<1>13. CASE ReadOpen
  <2>1. wpc = "read" /\ wpc' # "read" /\ hurt \subseteq hurt' /\ Entry.ropen = "no"
    BY <1>13 DEF ReadOpen, AtEntry, Goto, NoFail, Fail
  <2>2. ~Reads(Entry, wpc = "read")
    BY <2>1 DEF Reads
  <2>3. CASE entries' = [entries EXCEPT ![idx].ropen = "open"] /\ fds' = fds + 1
    <3>1. PICK d : Edit(d) /\ SameWrite(d, Entry) /\ d.ropen = "open" /\ d.complete = Entry.complete
      BY <2>1, <2>3, ReadOpenEdit
    <3>2. d.wopen = Entry.wopen /\ (hurt' = {} => Reads(d, wpc' = "read"))
      BY <1>u, <1>f, <2>1, <3>1, AtRead DEF Reads, SameWrite
    <3> QED
      BY <1>0, <2>1, <2>2, <2>3, <3>1, <3>2, FdsEdited
  <2>4. CASE entries' = [entries EXCEPT ![idx].ropen = "bad"] /\ fds' = fds
    <3>1. PICK d : Edit(d) /\ SameWrite(d, Entry) /\ d.ropen = "bad"
      BY <2>1, <2>4, ReadOpenEdit
    <3>2. d.wopen = Entry.wopen /\ ~Reads(d, wpc' = "read")
      BY <3>1 DEF Reads, SameWrite
    <3> QED
      BY <1>0, <2>1, <2>2, <2>4, <3>1, <3>2, FdsEdited
  <2> QED
    BY <1>13, <2>3, <2>4 DEF ReadOpen
<1>14. ASSUME NEW f \in File, ReadData(f) PROVE fds' \in Nat /\ Fds'
  <2>1. wpc = "read" /\ wpc' # "read" /\ hurt \subseteq hurt' /\ fds' = fds
    BY <1>14 DEF ReadData, AtEntry, Goto, NoFail, Fail
  <2>2. CASE entries' = entries
    BY <1>4, <2>1, <2>2
  <2>3. CASE entries' # entries
    <3>1. PICK d : Edit(d) /\ SameWrite(d, Entry) /\ d.ropen = Entry.ropen /\ d.complete = Entry.complete
      BY <1>14, <2>3, DataEdit
    <3>2. d.wopen = Entry.wopen /\ (Reads(d, wpc' = "read") => Reads(Entry, wpc = "read"))
      BY <2>1, <3>1 DEF Reads, SameWrite
    <3>3. hurt' = {} => Reads(d, wpc' = "read") = Reads(Entry, wpc = "read")
      BY <1>u, <1>f, <2>1, <3>1, AtRead DEF Reads
    <3> QED
      BY <1>0, <2>1, <3>1, <3>2, <3>3, FdsEdited
  <2> QED
    BY <2>2, <2>3
<1> QED
  BY <1>1, <1>2, <1>3, <1>5, <1>6, <1>7, <1>8, <1>9, <1>10, <1>11, <1>12, <1>13, <1>14
     DEF Next, Callback, Work, Stop

-----------------------------------------------------------------------------
(* Complete entries lie behind the worker, and are freed before it looks   *)
(* at the queue again. *)

NoneComplete == \A i \in 1 .. Len(entries) : ~entries[i].complete

LEMMA FreshMoves ==
  ASSUME Types, Fresh, wpc \in {"write", "read"}, NEW d, Edit(d) \/ (entries' = entries /\ d = Entry),
         wpc' \in {"write", "read", "sweep", "dead"}, wpc' = "read" => idx' = idx,
         wpc' = "write" => idx' = idx + 1 \/ (idx' = idx /\ wpc = "write" /\ ~d.complete)
  PROVE  Fresh'
<1>1. /\ Len(entries') = Len(entries) /\ idx \in Nat /\ Len(entries) \in Nat
      /\ entries'[idx] = d /\ \A i \in 1 .. Len(entries) : i # idx => entries'[i] = entries[i]
  BY EntryTypes, AtTheEntry DEF Edit, Types, TypeOK
<1>2. ASSUME NEW i \in 1 .. Len(entries), entries'[i].complete
      PROVE  i <= idx /\ (wpc = "write" /\ i = idx => d.complete)
  <2>1. CASE i = idx
    BY <1>1, <1>2, <2>1
  <2>2. CASE i # idx
    <3>1. entries[i].complete
      BY <1>1, <1>2, <2>2
    <3>2. i \in Int /\ (i < idx \/ i <= idx)
      BY <1>1, <3>1 DEF Fresh
    <3> QED
      BY <1>1, <2>2, <3>2
  <2> QED
    BY <2>1, <2>2
<1>3. ASSUME NEW i \in 1 .. Len(entries), entries'[i].complete
      PROVE  (wpc' = "write" => i < idx') /\ (wpc' = "read" => i <= idx')
  <2>1. i \in Int /\ i <= idx /\ (wpc = "write" /\ i = idx => d.complete)
    BY <1>2, <1>3
  <2>2. CASE idx' = idx + 1 /\ wpc' # "read"
    <3>1. i < idx + 1
      BY <1>1, <2>1
    <3> QED
      BY <2>2, <3>1
  <2>3. CASE idx' = idx /\ wpc' = "write" /\ wpc = "write" /\ ~d.complete
    <3>1. i < idx
      BY <1>1, <2>1, <2>3
    <3> QED
      BY <2>3, <3>1
  <2>4. CASE wpc' = "read"
    BY <2>1, <2>4
  <2>5. CASE wpc' \notin {"write", "read"}
    BY <2>5
  <2> QED
    BY <2>2, <2>3, <2>4, <2>5
<1> QED
  BY <1>1, <1>3 DEF Fresh

LEMMA NextFresh ==
  ASSUME Types, Fresh, [Next]_vars
  PROVE  Fresh'
<1>0. wpc \notin {"write", "read", "sweep", "dead"} => NoneComplete
  BY DEF Fresh, NoneComplete
<1>n. NoneComplete' => Fresh'
  BY DEF Fresh, NoneComplete
<1>1. ASSUME \/ (\E f \in File : GrabBlock(f)) \/ PushBlock \/ ActiveWork \/ (\E f \in File : Restart(f))
             \/ StopSubscribe \/ StopFlag \/ StopSignal \/ UNCHANGED vars
      PROVE  Fresh'
  <2>1. UNCHANGED <<entries, wpc, idx>>
    BY <1>1 DEF GrabBlock, PushBlock, ActiveWork, Restart, StopSubscribe, StopFlag, StopSignal, vars, workVars, fileVars
  <2> QED
    BY <2>1 DEF Fresh
<1>2. ASSUME \/ WorkLoop \/ WorkWake \/ DeactiveWork \/ PopBlock
      PROVE  Fresh'
  <2>1. entries' = entries /\ wpc \notin {"write", "read", "sweep", "dead"}
    BY <1>2 DEF WorkLoop, WorkWake, DeactiveWork, PopBlock, fileVars
  <2> QED
    BY <1>0, <1>n, <2>1 DEF NoneComplete
<1>3. CASE HandleBlock
  <2>1. wbuf \in Block /\ wpc = "block" /\ NoneComplete
    BY <1>0, <1>3 DEF HandleBlock, Types, TypeOK
  <2>2. CASE entries' = Append(entries, NewEntry(wbuf))
    <3>1. /\ Len(entries') = Len(entries) + 1 /\ Len(entries) \in Nat /\ entries'[Len(entries) + 1] = NewEntry(wbuf)
          /\ \A i \in 1 .. Len(entries) : entries'[i] = entries[i]
      BY <2>1, <2>2, NewEdit, EntryTypes
    <3> DEFINE n == Len(entries)
    <3>2. 1 .. (n + 1) = (1 .. n) \cup {n + 1}
      BY <3>1
    <3>3. ~NewEntry(wbuf).complete
      BY DEF NewEntry
    <3>4. NoneComplete'
      BY <2>1, <3>1, <3>2, <3>3 DEF NoneComplete
    <3> QED
      BY <1>n, <3>4
  <2>3. CASE /\ EntriesOf(content[wbuf].file) # {}
             /\ entries' = [entries EXCEPT ![FirstOf(content[wbuf].file)].pending = Append(@, wbuf)]
    <3> DEFINE j == FirstOf(content[wbuf].file)
    <3>1. j \in 1 .. Len(entries)
      BY <2>3, FirstIsOne, SMTT(60)
    <3>2. /\ Len(entries') = Len(entries)
          /\ \A i \in 1 .. Len(entries) : i # j => entries'[i] = entries[i]
          /\ entries'[j].complete = entries[j].complete
      BY <2>1, <2>3, <3>1, JoinEdit
    <3>3. NoneComplete'
      BY <2>1, <3>2 DEF NoneComplete
    <3> QED
      BY <1>n, <3>3
  <2>4. CASE UNCHANGED entries
    BY <1>n, <2>1, <2>4 DEF NoneComplete
  <2> QED
    BY <1>3, <2>2, <2>3, <2>4 DEF HandleBlock
<1>4. CASE Sweep
  <2>1. Keeping(entries, entries')
    BY <1>4, EntryTypes, IncompleteKept DEF Sweep
  <2>2. NoneComplete'
    BY <2>1 DEF Keeping, Keeps, NoneComplete
  <2> QED
    BY <1>n, <2>2
<1>5. CASE StopJoin
  <2>1. entries' = entries /\ (wpc' = wpc \/ wpc' = "dead") /\ idx' = idx
    BY <1>5 DEF StopJoin, Goto, fileVars
  <2> QED
    BY <2>1 DEF Fresh
<1>6. CASE WriteNone \/ ReadWait
  BY <1>6, FreshMoves DEF WriteNone, ReadWait, AtEntry, Goto, fileVars
<1>7. CASE WriteClose
  BY <1>7, FreshMoves, CloseEdit DEF WriteClose, Goto
<1>8. CASE WriteOpen
  <2>1. wpc = "write" /\ idx' = idx /\ wpc' \in {"write", "read"} /\ ~Entry.complete
    BY <1>8, AtWrite DEF WriteOpen, Goto
  <2>2. CASE entries' = [entries EXCEPT ![idx].wopen = TRUE, ![idx].wpos = 0]
    <3>1. PICK d : Edit(d) /\ d.complete = Entry.complete
      BY <2>1, <2>2, OpenEdit
    <3> QED
      BY <2>1, <3>1, FreshMoves
  <2>3. CASE entries' = [entries EXCEPT ![idx].complete = TRUE] /\ wpc' = "read"
    <3>1. PICK d : Edit(d)
      BY <2>1, <2>3, GiveUpEdit
    <3> QED
      BY <2>1, <2>3, <3>1, FreshMoves
  <2> QED
    BY <1>8, <2>2, <2>3 DEF WriteOpen, Goto
<1>9. CASE WriteBlock
  <2>1. wpc = "write" /\ idx' = idx /\ wpc' = "read" /\ Entry.pending # << >>
    BY <1>9 DEF WriteBlock, Goto
  <2>2. PICK d : Edit(d)
    <3>1. \/ entries' = [entries EXCEPT ![idx].pending = Tail(@), ![idx].wpos = @ + 1, ![idx].wsize = @ + 1]
          \/ entries' = [entries EXCEPT ![idx].pending = Tail(@)]
      BY <1>9 DEF WriteBlock
    <3> QED
      BY <2>1, <3>1, WriteEdit, DropEdit
  <2> QED
    BY <2>1, <2>2, FreshMoves
<1>10. CASE ReadComplete
  BY <1>10, FreshMoves, CompleteEdit DEF ReadComplete, AtEntry, Goto
<1>11. CASE ReadOpen
  <2>1. wpc = "read" /\ idx' = idx + 1 /\ wpc' \in {"write", "sweep"}
    BY <1>11 DEF ReadOpen, AtEntry, Goto
  <2>2. PICK d : Edit(d)
    BY <1>11, <2>1, ReadOpenEdit DEF ReadOpen
  <2> QED
    BY <2>1, <2>2, FreshMoves
<1>12. ASSUME NEW f \in File, ReadData(f) PROVE Fresh'
  <2>1. wpc = "read" /\ idx' = idx + 1 /\ wpc' \in {"write", "sweep"}
    BY <1>12 DEF ReadData, AtEntry, Goto
  <2>2. CASE entries' = entries
    BY <2>1, <2>2, FreshMoves
  <2>3. CASE entries' # entries
    BY <1>12, <2>1, <2>3, DataEdit, FreshMoves
  <2> QED
    BY <2>2, <2>3
<1> QED
  BY <1>1, <1>2, <1>3, <1>4, <1>5, <1>6, <1>7, <1>8, <1>9, <1>10, <1>11, <1>12
     DEF Next, Callback, Work, Stop

-----------------------------------------------------------------------------
(* The blocks of a file that are on their way: in order, without a gap,    *)
(* from the one that is due. *)

LEMMA WayStill ==
  ASSUME NEW f, NEW due, WayAt(f, due), next'[f] = next[f], Way' = Way,
         \A k \in 1 .. Len(Way) : content'[Way[k]] = content[Way[k]]
  PROVE  WayAt(f, due)'
<1>1. \A k \in 1 .. Len(Way) : Way'[k] = Way[k] /\ content'[Way'[k]] = content[Way[k]]
                               /\ (Carried(Way[k], f)' <=> Carried(Way[k], f))
  BY DEF Carried
<1>2. 1 .. Len(Way') = 1 .. Len(Way)
  OBVIOUS
<1> QED
  BY <1>1, <1>2 DEF WayAt

LEMMA WayItemTypes ==
  ASSUME Types
  PROVE  \A k \in 1 .. Len(Way) : content[Way[k]].seq \in Nat
<1>1. \A b \in Block : content[b].seq \in Nat
  BY DEF Types, TypeOK
<1> QED
  BY <1>1, WayType

LEMMA WayGrows ==
  ASSUME Types, NEW f \in File, NEW due \in Nat, WayAt(f, due), next'[f] = next[f] + 1,
         NEW b \in Block, Way' = Append(Way, b), content'[b] = [file |-> f, seq |-> next[f]],
         \A k \in 1 .. Len(Way) : content'[Way[k]] = content[Way[k]]
  PROVE  WayAt(f, due)'
<1> DEFINE n == Len(Way)  m == next[f]
<1>1. /\ n \in Nat /\ Way'[n + 1] = b /\ Len(Way') = n + 1
      /\ \A k \in 1 .. n : k \in 1 .. Len(Way') /\ Way'[k] = Way[k]
      /\ \A k \in 1 .. Len(Way') : k \in 1 .. n \/ k = n + 1
  BY WayType, AppendItems
<1>2. m \in Nat /\ next'[f] = m + 1 /\ \A k \in 1 .. n : content[Way[k]].seq \in Nat
  BY WayItemTypes DEF Types, TypeOK
<1>3. \A k \in 1 .. n : content'[Way'[k]].seq = content[Way[k]].seq /\ (Carried(Way[k], f)' <=> Carried(Way[k], f))
  BY <1>1 DEF Carried
<1>4. \A k : k = n + 1 => Carried(Way[k], f)' /\ content'[Way'[k]].seq = m
  <2>1. b # NoBlock /\ content'[b].file = f /\ content'[b].seq = m
    BY BlockAssumption
  <2>2. \A k : k = n + 1 => Way'[k] = b
    BY <1>1
  <2> QED
    BY <2>1, <2>2 DEF Carried
<1>5. /\ due <= m
      /\ \A k \in 1 .. n : Carried(Way[k], f) => due <= content[Way[k]].seq /\ content[Way[k]].seq < m
      /\ \A k, l \in 1 .. n :
           k < l /\ Carried(Way[k], f) /\ Carried(Way[l], f) => content[Way[k]].seq < content[Way[l]].seq
      /\ \A s \in Nat : due <= s /\ s < m => \E k \in 1 .. n : Carried(Way[k], f) /\ content[Way[k]].seq = s
  BY DEF WayAt
<1> HIDE DEF n, m
<1>6. ASSUME NEW k \in 1 .. Len(Way'), Carried(Way[k], f)'
      PROVE  /\ k \in 1 .. n => Carried(Way[k], f)
             /\ k = n + 1 => content'[Way'[k]].seq = m
             /\ due <= content'[Way'[k]].seq /\ content'[Way'[k]].seq < m + 1
  <2>1. CASE k \in 1 .. n
    <3>1. Carried(Way[k], f) /\ content'[Way'[k]].seq = content[Way[k]].seq
      BY <1>3, <1>6, <2>1
    <3>2. due <= content[Way[k]].seq /\ content[Way[k]].seq < m /\ content[Way[k]].seq \in Nat
      BY <1>2, <1>5, <2>1, <3>1
    <3>3. content[Way[k]].seq < m + 1 /\ k # n + 1
      BY <1>1, <1>2, <2>1, <3>2
    <3> QED
      BY <3>1, <3>2, <3>3
  <2>2. CASE k = n + 1
    <3>1. due <= m /\ m < m + 1 /\ n + 1 \notin 1 .. n
      BY <1>1, <1>2, <1>5
    <3> QED
      BY <1>4, <2>2, <3>1
  <2> QED
    BY <1>1, <2>1, <2>2
<1>7. ASSUME NEW k \in 1 .. Len(Way'), NEW l \in 1 .. Len(Way'), k < l, Carried(Way[k], f)', Carried(Way[l], f)'
      PROVE  content'[Way'[k]].seq < content'[Way'[l]].seq
  <2>1. k \in 1 .. n
    <3>1. k = n + 1 => l \notin 1 .. n /\ l # n + 1
      BY <1>1, <1>7
    <3> QED
      BY <1>1, <3>1
  <2>2. Carried(Way[k], f) /\ content'[Way'[k]].seq = content[Way[k]].seq
    BY <1>3, <1>7, <2>1
  <2>3. CASE l \in 1 .. n
    <3>1. Carried(Way[l], f) /\ content'[Way'[l]].seq = content[Way[l]].seq
      BY <1>3, <1>7, <2>3
    <3> QED
      BY <1>5, <1>7, <2>1, <2>2, <2>3, <3>1
  <2>4. CASE l = n + 1
    BY <1>4, <1>5, <2>1, <2>2, <2>4
  <2> QED
    BY <1>1, <2>3, <2>4
<1>8. ASSUME NEW s \in Nat, due <= s, s < m + 1
      PROVE  \E k \in 1 .. Len(Way') : Carried(Way[k], f)' /\ content'[Way'[k]].seq = s
  <2>1. CASE s = m
    <3>1. n + 1 \in 1 .. (n + 1)
      BY <1>1
    <3>2. PICK k : k = n + 1
      OBVIOUS
    <3>3. k \in 1 .. Len(Way')
      BY <1>1, <3>1, <3>2
    <3>4. Carried(Way[k], f)' /\ content'[Way'[k]].seq = s
      BY <1>4, <2>1, <3>2
    <3> QED
      BY <3>3, <3>4
  <2>2. CASE s < m
    <3>1. PICK k \in 1 .. n : Carried(Way[k], f) /\ content[Way[k]].seq = s
      BY <1>5, <1>8, <2>2
    <3> QED
      BY <1>1, <1>3, <3>1
  <2>3. m \in Nat
    BY <1>2
  <2>4. s = m \/ s < m
    BY <1>8, <2>3
  <2> QED
    BY <2>1, <2>2, <2>4
<1>9. due <= m + 1
  BY <1>2, <1>5
<1> QED
  BY <1>2, <1>6, <1>7, <1>8, <1>9, ZenonT(60) DEF WayAt

LEMMA WayAside ==
  ASSUME Types, NEW f, NEW due \in Nat, WayAt(f, due), next'[f] = next[f],
         NEW b \in Block, Way' = Append(Way, b), content'[b].file # f,
         \A k \in 1 .. Len(Way) : content'[Way[k]] = content[Way[k]]
  PROVE  WayAt(f, due)'
<1> DEFINE n == Len(Way)  m == next[f]
<1>1. /\ n \in Nat /\ Way'[n + 1] = b /\ Len(Way') = n + 1
      /\ \A k \in 1 .. n : k \in 1 .. Len(Way') /\ Way'[k] = Way[k]
      /\ \A k \in 1 .. Len(Way') : k \in 1 .. n \/ k = n + 1
  BY WayType, AppendItems
<1>2. \A k \in 1 .. n : content'[Way'[k]].seq = content[Way[k]].seq /\ (Carried(Way[k], f)' <=> Carried(Way[k], f))
  <2>1. \A k \in 1 .. n : content'[Way'[k]] = content[Way[k]] /\ Way'[k] = Way[k]
    BY <1>1
  <2> QED
    BY <2>1 DEF Carried
<1>3. \A k : k = n + 1 => ~Carried(Way[k], f)'
  <2>1. \A k : k = n + 1 => Way'[k] = b
    BY <1>1
  <2> QED
    BY <2>1 DEF Carried
<1>4. \A k \in 1 .. Len(Way') : Carried(Way[k], f)' => k \in 1 .. n /\ Carried(Way[k], f)
  <2>1. \A k \in 1 .. Len(Way') : k \in 1 .. n \/ k = n + 1
    BY <1>1
  <2> HIDE DEF n
  <2> QED
    BY <1>2, <1>3, <2>1
<1>5. /\ due <= m
      /\ \A k \in 1 .. n : Carried(Way[k], f) => due <= content[Way[k]].seq /\ content[Way[k]].seq < m
      /\ \A k, l \in 1 .. n :
           k < l /\ Carried(Way[k], f) /\ Carried(Way[l], f) => content[Way[k]].seq < content[Way[l]].seq
      /\ \A s \in Nat : due <= s /\ s < m => \E k \in 1 .. n : Carried(Way[k], f) /\ content[Way[k]].seq = s
  BY DEF WayAt
<1>6. next'[f] = m
  OBVIOUS
<1> HIDE DEF n, m
<1>7. \A s \in Nat : due <= s /\ s < m => \E k \in 1 .. Len(Way') : Carried(Way[k], f)' /\ content'[Way'[k]].seq = s
  BY <1>1, <1>2, <1>5
<1>8. /\ \A k \in 1 .. Len(Way') : Carried(Way[k], f)' => due <= content'[Way'[k]].seq /\ content'[Way'[k]].seq < m
      /\ \A k, l \in 1 .. Len(Way') :
           k < l /\ Carried(Way[k], f)' /\ Carried(Way[l], f)' => content'[Way'[k]].seq < content'[Way'[l]].seq
  BY <1>2, <1>4, <1>5
<1> QED
  BY <1>5, <1>6, <1>7, <1>8 DEF WayAt

(* The worker takes the one that is due. *)
LEMMA WayTaken ==
  ASSUME Types, NEW f \in File, NEW due \in Nat, WayAt(f, due), next'[f] = next[f],
         Way # << >>, Way' = Tail(Way),
         \A k \in 1 .. Len(Way') : content'[Way'[k]] = content[Way'[k]]
  PROVE  IF Carried(Head(Way), f) THEN content[Head(Way)].seq = due /\ WayAt(f, due + 1)'
                                  ELSE WayAt(f, due)'
<1> DEFINE n == Len(Way)  m == next[f]  b == Head(Way)
<1>1. /\ n \in Nat /\ 1 \in 1 .. n /\ b = Way[1]
      /\ \A k \in 1 .. Len(Way') : k \in Nat /\ k + 1 \in 1 .. n /\ k + 1 # 1 /\ Way'[k] = Way[k + 1]
      /\ \A k \in 1 .. n : k = 1 \/ (k - 1 \in 1 .. Len(Way') /\ Way'[k - 1] = Way[k])
  BY WayType, TailItems
<1>2. m \in Nat /\ next'[f] = m /\ \A k \in 1 .. n : content[Way[k]].seq \in Nat
  BY WayItemTypes DEF Types, TypeOK
<1>3. \A k \in 1 .. Len(Way') : /\ content'[Way'[k]].seq = content[Way[k + 1]].seq
                                /\ Carried(Way[k], f)' <=> Carried(Way[k + 1], f)
  BY <1>1 DEF Carried
<1>4. /\ due <= m
      /\ \A k \in 1 .. n : Carried(Way[k], f) => due <= content[Way[k]].seq /\ content[Way[k]].seq < m
      /\ \A k, l \in 1 .. n :
           k < l /\ Carried(Way[k], f) /\ Carried(Way[l], f) => content[Way[k]].seq < content[Way[l]].seq
      /\ \A s \in Nat : due <= s /\ s < m => \E k \in 1 .. n : Carried(Way[k], f) /\ content[Way[k]].seq = s
  BY DEF WayAt
<1> HIDE DEF n, m, b
<1>5. ASSUME NEW k \in 1 .. Len(Way'), NEW l \in 1 .. Len(Way'), k < l, Carried(Way[k], f)', Carried(Way[l], f)'
      PROVE  content'[Way'[k]].seq < content'[Way'[l]].seq
  <2>1. k + 1 \in 1 .. n /\ l + 1 \in 1 .. n /\ k + 1 < l + 1
    BY <1>1, <1>5
  <2> QED
    BY <1>3, <1>4, <1>5, <2>1
<1>6. CASE Carried(b, f)
  <2>1. content[b].seq = due
    <3>1. due <= content[Way[1]].seq /\ content[Way[1]].seq < m /\ Carried(Way[1], f)
      BY <1>1, <1>4, <1>6
    <3>2. due < m
      BY <1>1, <1>2, <3>1
    <3>3. PICK k \in 1 .. n : Carried(Way[k], f) /\ content[Way[k]].seq = due
      BY <1>4, <3>2
    <3>4. k = 1
      <4>1. k # 1 => 1 < k
        BY <1>1
      <4>2. 1 < k => content[Way[1]].seq < due
        BY <1>1, <1>4, <3>1, <3>3
      <4>3. ~(content[Way[1]].seq < due)
        BY <1>1, <1>2, <3>1
      <4> QED
        BY <4>1, <4>2, <4>3
    <3> QED
      BY <1>1, <3>3, <3>4
  <2>2. due + 1 <= m
    BY <1>1, <1>2, <1>4, <1>6, <2>1
  <2>3. ASSUME NEW k \in 1 .. Len(Way'), Carried(Way[k], f)'
        PROVE  due + 1 <= content'[Way'[k]].seq /\ content'[Way'[k]].seq < m
    <3>1. k + 1 \in 1 .. n /\ 1 < k + 1 /\ Carried(Way[k + 1], f) /\ content'[Way'[k]].seq = content[Way[k + 1]].seq
      BY <1>1, <1>3, <2>3
    <3>2. content[Way[1]].seq < content[Way[k + 1]].seq /\ content[Way[k + 1]].seq < m
      BY <1>1, <1>4, <1>6, <3>1
    <3>3. due < content[Way[k + 1]].seq /\ content[Way[k + 1]].seq \in Nat
      BY <1>1, <1>2, <2>1, <3>1, <3>2
    <3>4. \A x \in Nat : due < x => due + 1 <= x
      OBVIOUS
    <3> QED
      BY <3>1, <3>2, <3>3, <3>4
  <2>4. ASSUME NEW s \in Nat, due + 1 <= s, s < m
        PROVE  \E k \in 1 .. Len(Way') : Carried(Way[k], f)' /\ content'[Way'[k]].seq = s
    <3>1. PICK k \in 1 .. n : Carried(Way[k], f) /\ content[Way[k]].seq = s
      BY <1>4, <2>4
    <3>2. k # 1
      BY <1>1, <2>1, <2>4, <3>1
    <3>3. k - 1 \in 1 .. Len(Way') /\ (k - 1) + 1 = k
      BY <1>1, <3>2
    <3> QED
      BY <1>3, <3>1, <3>3
  <2>5. WayAt(f, due + 1)'
    BY <1>2, <1>5, <2>2, <2>3, <2>4 DEF WayAt
  <2> QED
    BY <1>6, <2>1, <2>5 DEF b
<1>7. CASE ~Carried(b, f)
  <2>1. ASSUME NEW k \in 1 .. Len(Way'), Carried(Way[k], f)'
        PROVE  due <= content'[Way'[k]].seq /\ content'[Way'[k]].seq < m
    BY <1>1, <1>3, <1>4, <2>1
  <2>2. ASSUME NEW s \in Nat, due <= s, s < m
        PROVE  \E k \in 1 .. Len(Way') : Carried(Way[k], f)' /\ content'[Way'[k]].seq = s
    <3>1. PICK k \in 1 .. n : Carried(Way[k], f) /\ content[Way[k]].seq = s
      BY <1>4, <2>2
    <3>2. k # 1
      BY <1>1, <1>7, <3>1
    <3>3. k - 1 \in 1 .. Len(Way') /\ (k - 1) + 1 = k
      BY <1>1, <3>2
    <3> QED
      BY <1>3, <3>1, <3>3
  <2>3. WayAt(f, due)'
    BY <1>2, <1>4, <1>5, <2>1, <2>2 DEF WayAt
  <2> QED
    BY <1>7, <2>3 DEF b
<1> QED
  BY <1>6, <1>7

LEMMA WayAnew ==
  ASSUME NEW f, next'[f] = 0, \A k \in 1 .. Len(Way') : ~Carried(Way[k], f)'
  PROVE  WayAt(f, 0)'
<1>1. 0 <= 0 /\ \A s \in Nat : ~(s < 0)
  OBVIOUS
<1> QED
  BY <1>1 DEF WayAt

-----------------------------------------------------------------------------
(* What an undisturbed file's entry has written, holds and has published.  *)

LEMMA FineStill ==
  ASSUME NEW e, Fine(e, disk[e.file], content), disk'[e.file] = disk[e.file],
         \A k \in 1 .. Len(e.pending) : content'[e.pending[k]] = content[e.pending[k]]
  PROVE  Fine(e, disk'[e.file], content')
<1> DEFINE n == BlockCount[e.file]  data == disk[e.file]
<1>1. /\ e.wsize + Len(e.pending) >= 1
      /\ e.wpos = e.wsize
      /\ e.wopen \/ e.wsize = 0 \/ e.wsize = n
      /\ e.wopen \/ e.wsize > 0 => data = Upto(e.wsize)
      /\ e.sent = Upto(e.rpos) /\ e.rpos <= e.wsize
      /\ e.ropen # "bad"
      /\ e.complete => e.rpos = n /\ ~e.wopen
  BY DEF Fine
<1>2. \A k \in 1 .. Len(e.pending) : content'[e.pending[k]].seq = e.wsize + k - 1
  BY DEF Fine
<1>3. disk'[e.file] = data
  OBVIOUS
<1> HIDE DEF data
<1> QED
  BY <1>1, <1>2, <1>3, Zenon DEF Fine

(* The contents of the blocks a list of entries holds do not change. *)
PendingStill == \A i \in 1 .. Len(entries) : \A k \in 1 .. Len(entries[i].pending) :
                  content'[entries[i].pending[k]] = content[entries[i].pending[k]]
WayContents == \A k \in 1 .. Len(Way) : content'[Way[k]] = content[Way[k]]

Moved(f, due) == \E e \in Nat : WayAt(f, e)' /\ (e = due \/ (e = 0 /\ EntriesOf(f) = {}))

LEMMA FlowStill ==
  ASSUME Types, Entries, Flow, UNCHANGED <<entries, disk>>, hurt \subseteq hurt',
         wpc' = "read" => wpc = "read" /\ idx' = idx, PendingStill,
         \A f \in Undisturbed' : \A due \in Nat : WayAt(f, due) => Moved(f, due)
  PROVE  Entries' /\ Flow'
<1>1. Undisturbed' \subseteq Undisturbed
  BY DEF Undisturbed
<1>2. ASSUME NEW i \in 1 .. Len(entries'), entries'[i].file \in Undisturbed' PROVE Good(i)'
  <2>1. i \in 1 .. Len(entries) /\ entries[i].file \in Undisturbed /\ entries'[i] = entries[i]
    BY <1>1, <1>2
  <2>2. Good(i)
    BY <2>1 DEF Entries
  <2>3. \A k \in 1 .. Len(entries[i].pending) : content'[entries[i].pending[k]] = content[entries[i].pending[k]]
    BY <2>1 DEF PendingStill
  <2>4. Fine(entries[i], disk[entries[i].file], content) /\ disk'[entries[i].file] = disk[entries[i].file]
    BY <2>2 DEF Good
  <2>5. Fine(entries[i], disk'[entries[i].file], content')
    BY <2>3, <2>4, FineStill
  <2>6. wpc' = "read" /\ i = idx' => Readable(entries[i])
    BY <2>2 DEF Good
  <2>7. entries' = entries
    OBVIOUS
  <2> QED
    BY <2>5, <2>6, <2>7 DEF Good
<1>3. Entries'
  <2>1. \A i, j \in 1 .. Len(entries') :
          entries'[i].file = entries'[j].file /\ entries'[i].file \in Undisturbed' => i = j
    BY <1>1 DEF Entries
  <2> QED
    BY <1>2, <2>1, Zenon DEF Entries
<1>4. ASSUME NEW f \in Undisturbed' PROVE \E due \in Nat : WayAt(f, due)' /\ HeldAt(f, due)'
  <2>1. PICK due \in Nat : WayAt(f, due) /\ HeldAt(f, due)
    BY <1>1 DEF Flow
  <2>2. PICK e \in Nat : WayAt(f, e)' /\ (e = due \/ (e = 0 /\ EntriesOf(f) = {}))
    BY <2>1 DEF Moved
  <2>3. EntriesOf(f)' = EntriesOf(f)
    BY DEF EntriesOf
  <2>4. HeldAt(f, e)'
    BY <2>1, <2>2, <2>3 DEF HeldAt
  <2> QED
    BY <2>2, <2>4
<1> QED
  BY <1>3, <1>4 DEF Flow

(* The handlers of an entry. *)
LEMMA FlowEdited ==
  ASSUME Types, Entries, Flow, NEW d, Edit(d), Way' = Way, next' = next, hurt \subseteq hurt',
         \A f \in File : f # Entry.file => disk'[f] = disk[f],
         WayContents, wpc' = "read" => idx' = idx,
         \A i \in 1 .. Len(entries) : i # idx =>
           \A k \in 1 .. Len(entries[i].pending) : content'[entries[i].pending[k]] = content[entries[i].pending[k]],
         Entry.file \notin hurt' =>
           /\ d.wsize + Len(d.pending) = Entry.wsize + Len(Entry.pending)
           /\ Fine(d, disk'[Entry.file], content') /\ (wpc' = "read" => Readable(d))
  PROVE  Entries' /\ Flow'
<1>0. Undisturbed' \subseteq Undisturbed
  BY DEF Undisturbed
<1>1. /\ Len(entries') = Len(entries) /\ idx \in 1 .. Len(entries) /\ entries[idx] = Entry
      /\ entries'[idx] = d /\ \A i \in 1 .. Len(entries) : i # idx => entries'[i] = entries[i]
      /\ d.file = Entry.file
  BY DEF Edit, Entry
<1>2. \A i \in 1 .. Len(entries) : entries'[i].file = entries[i].file /\ entries[i].file \in File
  BY <1>1, EntryTypes
<1>3. ASSUME NEW i \in 1 .. Len(entries), entries[i].file \in Undisturbed' PROVE Good(i)'
  <2>1. CASE i = idx
    <3>1. entries'[i] = d /\ Entry.file \notin hurt'
      BY <1>1, <1>3, <2>1 DEF Undisturbed
    <3>2. Fine(d, disk'[d.file], content') /\ (wpc' = "read" => Readable(d))
      BY <1>1, <3>1
    <3> QED
      BY <3>1, <3>2 DEF Good
  <2>2. CASE i # idx
    <3>1. entries'[i] = entries[i] /\ Good(i) /\ entries[i].file # Entry.file /\ entries[i].file \in File
      BY <1>0, <1>1, <1>2, <1>3, <2>2 DEF Entries
    <3>2. Fine(entries[i], disk[entries[i].file], content) /\ disk'[entries[i].file] = disk[entries[i].file]
      BY <3>1 DEF Good
    <3>3. \A k \in 1 .. Len(entries[i].pending) : content'[entries[i].pending[k]] = content[entries[i].pending[k]]
      BY <2>2
    <3>4. Fine(entries[i], disk'[entries[i].file], content')
      BY <3>2, <3>3, FineStill
    <3>5. ~(wpc' = "read" /\ i = idx')
      BY <2>2
    <3> QED
      BY <3>1, <3>4, <3>5 DEF Good
  <2> QED
    BY <2>1, <2>2
<1>4. Entries'
  <2>1. \A i, j \in 1 .. Len(entries) :
          entries'[i].file = entries'[j].file /\ entries'[i].file \in Undisturbed' => i = j
    BY <1>0, <1>2 DEF Entries
  <2>2. \A i \in 1 .. Len(entries) : entries'[i].file \in Undisturbed' => Good(i)'
    BY <1>2, <1>3
  <2> QED
    BY <1>1, <2>1, <2>2 DEF Entries
<1>5. ASSUME NEW f \in Undisturbed' PROVE \E due \in Nat : WayAt(f, due)' /\ HeldAt(f, due)'
  <2>1. PICK due \in Nat : WayAt(f, due) /\ HeldAt(f, due)
    BY <1>0 DEF Flow
  <2>2. WayAt(f, due)'
    BY <2>1, WayStill DEF WayContents
  <2>3. EntriesOf(f)' = EntriesOf(f)
    BY <1>1, <1>2 DEF EntriesOf
  <2>4. ASSUME NEW i \in EntriesOf(f)
        PROVE  entries'[i].wsize + Len(entries'[i].pending) = entries[i].wsize + Len(entries[i].pending)
    <3>1. i \in 1 .. Len(entries) /\ entries[i].file = f
      BY DEF EntriesOf
    <3>2. CASE i = idx
      <4>1. Entry.file \notin hurt'
        BY <1>1, <3>1, <3>2 DEF Undisturbed
      <4> QED
        BY <1>1, <3>2, <4>1
    <3>3. CASE i # idx
      BY <1>1, <3>1, <3>3
    <3> QED
      BY <3>2, <3>3
  <2>5. HeldAt(f, due)'
    BY <2>1, <2>3, <2>4 DEF HeldAt
  <2> QED
    BY <2>2, <2>5
<1> QED
  BY <1>4, <1>5 DEF Flow

LEMMA Bounded ==
  ASSUME Types, Flow, NEW i \in 1 .. Len(entries), entries[i].file \in Undisturbed
  PROVE  entries[i].wsize + Len(entries[i].pending) <= BlockCount[entries[i].file]
<1> DEFINE f == entries[i].file
<1>1. PICK due \in Nat : WayAt(f, due) /\ HeldAt(f, due)
  BY DEF Flow
<1>2. i \in EntriesOf(f) /\ f \in File
  BY EntryTypes DEF EntriesOf
<1>3. entries[i].wsize + Len(entries[i].pending) = due /\ due <= next[f] /\ next[f] <= BlockCount[f]
  BY <1>1, <1>2 DEF HeldAt, WayAt, Types
<1>4. next[f] \in Nat /\ BlockCount[f] \in Nat
  BY <1>2, CountAssumption DEF Types, TypeOK
<1> QED
  BY <1>3, <1>4

(* Freeing the complete entries. *)
LEMMA FlowSwept ==
  ASSUME Types, Entries, Flow, Keeping(entries, entries'), Way' = Way,
         UNCHANGED <<next, content, disk, hurt>>, wpc' # "read"
  PROVE  Entries' /\ Flow'
<1>1. PICK m : Keeps(entries, entries', m)
  BY DEF Keeping
<1>2. /\ \A k \in 1 .. Len(entries') : m[k] \in 1 .. Len(entries) /\ entries'[k] = entries[m[k]]
      /\ \A k, l \in 1 .. Len(entries') : m[k] = m[l] => k = l
      /\ \A i \in 1 .. Len(entries) : ~entries[i].complete => \E k \in 1 .. Len(entries') : m[k] = i
  BY <1>1 DEF Keeps
<1>0. Undisturbed' = Undisturbed
  BY DEF Undisturbed
<1>3. ASSUME NEW k \in 1 .. Len(entries'), entries'[k].file \in Undisturbed PROVE Good(k)'
  <2>1. m[k] \in 1 .. Len(entries) /\ entries'[k] = entries[m[k]]
    BY <1>2
  <2>2. Good(m[k])
    BY <1>3, <2>1 DEF Entries
  <2>3. Fine(entries'[k], disk[entries'[k].file], content)
    BY <2>1, <2>2 DEF Good
  <2>4. disk' = disk /\ content' = content
    OBVIOUS
  <2> QED
    BY <2>3, <2>4 DEF Good
<1>4. \A k, l \in 1 .. Len(entries') :
        entries'[k].file = entries'[l].file /\ entries'[k].file \in Undisturbed => k = l
  <2> SUFFICES ASSUME NEW k \in 1 .. Len(entries'), NEW l \in 1 .. Len(entries'),
                      entries'[k].file = entries'[l].file, entries'[k].file \in Undisturbed
               PROVE  k = l
    OBVIOUS
  <2>1. m[k] \in 1 .. Len(entries) /\ m[l] \in 1 .. Len(entries)
        /\ entries[m[k]].file = entries[m[l]].file /\ entries[m[k]].file \in Undisturbed
    BY <1>2
  <2>2. m[k] = m[l]
    BY <2>1 DEF Entries
  <2> QED
    BY <1>2, <2>2
<1>5. Entries'
  BY <1>0, <1>3, <1>4 DEF Entries
<1>6. ASSUME NEW f \in Undisturbed PROVE \E due \in Nat : WayAt(f, due)' /\ HeldAt(f, due)'
  <2>1. PICK due \in Nat : WayAt(f, due) /\ HeldAt(f, due)
    BY DEF Flow
  <2>2. WayAt(f, due)'
    BY <2>1, WayStill
  <2>3. ASSUME NEW k \in EntriesOf(f)'
        PROVE  entries'[k].wsize + Len(entries'[k].pending) = due
    <3>1. m[k] \in 1 .. Len(entries) /\ entries'[k] = entries[m[k]] /\ entries'[k].file = f
      BY <1>2 DEF EntriesOf
    <3>2. m[k] \in EntriesOf(f)
      BY <3>1 DEF EntriesOf
    <3> QED
      BY <2>1, <3>1, <3>2 DEF HeldAt
  <2>4. ASSUME EntriesOf(f)' = {} PROVE due \in {0, BlockCount[f]}
    <3>1. CASE EntriesOf(f) = {}
      BY <2>1, <3>1 DEF HeldAt
    <3>2. ASSUME NEW i \in EntriesOf(f) PROVE due = BlockCount[f]
      <4>1. i \in 1 .. Len(entries) /\ entries[i].file = f
        BY DEF EntriesOf
      <4>2. entries[i].complete
        <5>1. SUFFICES ASSUME ~entries[i].complete PROVE FALSE
          OBVIOUS
        <5>2. PICK k \in 1 .. Len(entries') : m[k] = i
          BY <1>2, <4>1, <5>1
        <5>3. entries'[k].file = f
          BY <1>2, <4>1, <5>2
        <5> QED
          BY <2>4, <5>3 DEF EntriesOf
      <4>3. entries[i].rpos = BlockCount[f] /\ entries[i].rpos <= entries[i].wsize
        BY <4>1, <4>2 DEF Entries, Good, Fine
      <4>4. entries[i].wsize + Len(entries[i].pending) <= BlockCount[f]
        BY <4>1, Bounded
      <4>5. entries[i].wsize \in Nat /\ Len(entries[i].pending) \in Nat /\ BlockCount[f] \in Nat
        BY <4>1, EntryTypes, CountAssumption
      <4>6. entries[i].wsize + Len(entries[i].pending) = due
        BY <2>1 DEF HeldAt
      <4> QED
        BY <4>3, <4>4, <4>5, <4>6
    <3> QED
      BY <3>1, <3>2
  <2>5. HeldAt(f, due)'
    BY <2>3, <2>4 DEF HeldAt
  <2> QED
    BY <2>2, <2>5
<1> QED
  BY <1>0, <1>5, <1>6 DEF Flow

LEMMA UptoZero == Upto(0) = << >>
<1>1. 1 .. 0 = {}
  OBVIOUS
<1> QED
  BY <1>1 DEF Upto

LEMMA NewIsFine ==
  ASSUME Types, NEW b \in Block, content[b].seq = 0
  PROVE  /\ Fine(NewEntry(b), disk[NewEntry(b).file], content) /\ NewEntry(b).file = content[b].file
         /\ NewEntry(b).wsize + Len(NewEntry(b).pending) = 1
<1> DEFINE e == NewEntry(b)
<1>1. /\ e.file = content[b].file /\ e.pending = <<b>> /\ ~e.wopen /\ e.wpos = 0 /\ e.wsize = 0
      /\ e.ropen = "no" /\ e.rpos = 0 /\ e.sent = << >> /\ ~e.complete
  BY DEF NewEntry
<1>2. Len(<<b>>) = 1 /\ <<b>>[1] = b
  OBVIOUS
<1> HIDE DEF e
<1>3. e.wsize + Len(e.pending) = 1
  BY <1>1, <1>2
<1>4. \A k \in 1 .. Len(e.pending) : content[e.pending[k]].seq = e.wsize + k - 1
  BY <1>1, <1>2
<1>5. e.sent = Upto(e.rpos)
  BY <1>1, UptoZero
<1>6. Fine(e, disk[e.file], content)
  BY <1>1, <1>3, <1>4, <1>5 DEF Fine
<1> QED
  BY <1>1, <1>3, <1>6 DEF e

LEMMA JoinedIsFine ==
  ASSUME Types, NEW j \in 1 .. Len(entries), NEW b \in Block, Fine(entries[j], disk[entries[j].file], content),
         NEW d, d.file = entries[j].file, d.pending = Append(entries[j].pending, b),
         SameWrite(d, entries[j]), SameRead(d, entries[j]), d.complete = entries[j].complete,
         content[b].seq = entries[j].wsize + Len(entries[j].pending)
  PROVE  /\ Fine(d, disk[d.file], content)
         /\ d.wsize + Len(d.pending) = (entries[j].wsize + Len(entries[j].pending)) + 1
<1> DEFINE e == entries[j]  n == Len(entries[j].pending)  w == entries[j].wsize
<1>1. e.pending \in Seq(Block) /\ n \in Nat /\ w \in Nat
  BY EntryTypes
<1>2. /\ Len(d.pending) = n + 1 /\ d.pending[n + 1] = b
      /\ \A k \in 1 .. n : d.pending[k] = e.pending[k]
      /\ \A k \in 1 .. Len(d.pending) : k \in 1 .. n \/ k = n + 1
  BY <1>1, AppendItems
<1>3. /\ w + n >= 1 /\ e.wpos = w
      /\ \A k \in 1 .. n : content[e.pending[k]].seq = w + k - 1
      /\ e.wopen \/ w = 0 \/ w = BlockCount[e.file]
      /\ e.wopen \/ w > 0 => disk[e.file] = Upto(w)
      /\ e.sent = Upto(e.rpos) /\ e.rpos <= w
      /\ e.ropen # "bad"
      /\ e.complete => e.rpos = BlockCount[e.file] /\ ~e.wopen
  BY DEF Fine
<1>4. /\ d.file = e.file /\ d.wopen = e.wopen /\ d.wpos = e.wpos /\ d.wsize = w /\ d.ropen = e.ropen
      /\ d.rpos = e.rpos /\ d.sent = e.sent /\ d.complete = e.complete
      /\ content[b].seq = w + n
  BY DEF SameWrite, SameRead
<1> HIDE DEF e, n, w
<1>5. d.wsize + Len(d.pending) = (w + n) + 1 /\ d.wsize + Len(d.pending) >= 1
  BY <1>1, <1>2, <1>3, <1>4
<1>6. \A k \in 1 .. Len(d.pending) : content[d.pending[k]].seq = d.wsize + k - 1
  <2>1. (w + (n + 1)) - 1 = w + n
    BY <1>1
  <2> SUFFICES ASSUME NEW k \in 1 .. Len(d.pending) PROVE content[d.pending[k]].seq = d.wsize + k - 1
    OBVIOUS
  <2>2. CASE k \in 1 .. n
    <3>1. content[e.pending[k]].seq = w + k - 1
      BY <1>3, <2>2
    <3>2. d.pending[k] = e.pending[k] /\ d.wsize = w
      BY <1>2, <1>4, <2>2
    <3> QED
      BY <3>1, <3>2
  <2>3. CASE k = n + 1
    <3>1. d.wsize + k - 1 = w + n
      <4>1. d.wsize = w
        BY <1>4
      <4>2. d.wsize + k - 1 = (w + (n + 1)) - 1
        BY <1>1, <2>3, <4>1
      <4> QED
        BY <2>1, <4>2
    <3>2. d.pending[k] = b /\ content[b].seq = w + n
      BY <1>2, <1>4, <2>3
    <3> QED
      BY <3>1, <3>2
  <2> QED
    BY <1>2, <2>2, <2>3
<1>7. Fine(d, disk[d.file], content)
  BY <1>3, <1>4, <1>5, <1>6 DEF Fine
<1> QED
  BY <1>5, <1>7 DEF e, n, w

(* The worker's block makes an entry, or joins the one that waits for it.  *)
LEMMA FlowHandled ==
  ASSUME Types, Owned, Entries, Flow, HandleBlock
  PROVE  Entries' /\ Flow'
<1>f. PICK f : f = content[wbuf].file
  OBVIOUS
<1>1. /\ wbuf \in Block /\ wbuf' = NoBlock /\ UNCHANGED <<queue, rbuf, next, disk, hurt>>
      /\ wpc' # "read" /\ f \in File /\ content[wbuf].seq \in Nat
  BY <1>f DEF HandleBlock, AtEntry, Goto, Types, TypeOK, rxVars, srcVars
<1>2. Way # << >> /\ Head(Way) = wbuf /\ Way' = Tail(Way)
  BY <1>1, BlockAssumption, WayHandled
<1>3. /\ ~Waiting(wbuf) /\ \A c : OnWay(c)' <=> OnWay(c) /\ c # wbuf
  BY <1>2, WayShortened
<1>4. content' = content \/ content' = Blanked(wbuf)
  BY DEF HandleBlock
<1>5. \A c \in Block : c # wbuf => content'[c] = content[c]
  BY <1>4 DEF Blanked, Types, TypeOK
<1>6. \A k \in 1 .. Len(Way') : content'[Way'[k]] = content[Way'[k]]
  <2> SUFFICES ASSUME NEW k \in 1 .. Len(Way') PROVE content'[Way'[k]] = content[Way'[k]]
    OBVIOUS
  <2>1. OnWay(Way'[k]) /\ Way'[k] # wbuf
    <3>1. \A c : c = Way'[k] => OnWay(c)'
      BY DEF OnWay
    <3> QED
      BY <1>3, <3>1
  <2>2. Way'[k] \in Block
    BY <2>1, WayType DEF OnWay
  <2> QED
    BY <1>5, <2>1, <2>2
<1>7. Undisturbed' = Undisturbed
  BY <1>1 DEF Undisturbed
<1>8. ASSUME NEW g \in Undisturbed, NEW due \in Nat, WayAt(g, due)
      PROVE  IF g = f THEN content[wbuf].seq = due /\ WayAt(g, due + 1)' ELSE WayAt(g, due)'
  <2>1. g \in File /\ next'[g] = next[g]
    BY <1>1 DEF Undisturbed
  <2>2. Carried(Head(Way), g) <=> g = f
    BY <1>1, <1>2, <1>f, BlockAssumption DEF Carried
  <2>3. IF Carried(Head(Way), g) THEN content[Head(Way)].seq = due /\ WayAt(g, due + 1)' ELSE WayAt(g, due)'
    BY <1>2, <1>6, <1>8, <2>1, WayTaken
  <2> QED
    BY <1>2, <2>2, <2>3
<1>9. PendingStill
  <2> SUFFICES ASSUME NEW i \in 1 .. Len(entries), NEW k \in 1 .. Len(entries[i].pending)
               PROVE  content'[entries[i].pending[k]] = content[entries[i].pending[k]]
    BY DEF PendingStill
  <2>1. entries[i].pending[k] \in Block /\ entries[i].pending[k] # wbuf
    BY <1>3, EntryTypes DEF Waiting
  <2> QED
    BY <1>5, <2>1
<1>10. ASSUME NEW i \in 1 .. Len(entries), entries'[i] = entries[i], entries[i].file \in Undisturbed
       PROVE  Good(i)'
  <2>1. Good(i)
    BY <1>10 DEF Entries
  <2>2. Fine(entries[i], disk[entries[i].file], content) /\ disk'[entries[i].file] = disk[entries[i].file]
    BY <1>1, <2>1 DEF Good
  <2>3. \A k \in 1 .. Len(entries[i].pending) : content'[entries[i].pending[k]] = content[entries[i].pending[k]]
    BY <1>9 DEF PendingStill
  <2>4. Fine(entries[i], disk'[entries[i].file], content')
    BY <2>2, <2>3, FineStill
  <2> QED
    BY <1>1, <1>10, <2>4 DEF Good
<1>11. ASSUME f \in Undisturbed
       PROVE  \E due \in Nat : WayAt(f, due) /\ HeldAt(f, due) /\ content[wbuf].seq = due /\ WayAt(f, due + 1)'
  <2>1. PICK due \in Nat : WayAt(f, due) /\ HeldAt(f, due)
    BY <1>11 DEF Flow
  <2> QED
    BY <1>8, <1>11, <2>1
<1>12. CASE content[wbuf].seq = 0 /\ entries' = Append(entries, NewEntry(wbuf)) /\ content' = content
  <2> DEFINE n == Len(entries)  e == NewEntry(wbuf)
  <2>1. n \in Nat /\ Len(entries') = n + 1 /\ entries'[n + 1] = e /\ \A i \in 1 .. n : entries'[i] = entries[i]
    BY <1>1, <1>12, NewEdit, EntryTypes
  <2>2. Fine(e, disk[e.file], content) /\ e.file = f /\ e.wsize + Len(e.pending) = 1
    BY <1>1, <1>f, <1>12, NewIsFine
  <2>3. 1 .. (n + 1) = (1 .. n) \cup {n + 1} /\ n + 1 \notin 1 .. n
    BY <2>1
  <2>4. 1 .. Len(entries') = (1 .. n) \cup {n + 1}
    BY <2>1, <2>3
  <2>5. f \in Undisturbed => EntriesOf(f) = {}
    <3> SUFFICES ASSUME f \in Undisturbed, NEW i \in EntriesOf(f) PROVE FALSE
      OBVIOUS
    <3>1. PICK due \in Nat : HeldAt(f, due) /\ content[wbuf].seq = due
      BY <1>11
    <3>2. entries[i].wsize + Len(entries[i].pending) = 0 /\ i \in 1 .. Len(entries) /\ entries[i].file = f
      BY <1>12, <3>1 DEF HeldAt, EntriesOf
    <3>3. Good(i)
      BY <3>2 DEF Entries
    <3> QED
      BY <3>2, <3>3 DEF Good, Fine
  <2> HIDE DEF e
  <2>6. ASSUME NEW g, g # f PROVE EntriesOf(g)' = EntriesOf(g)
    BY <2>1, <2>2, <2>4, <2>6 DEF EntriesOf
  <2>7. EntriesOf(f) = {} => EntriesOf(f)' = {n + 1}
    BY <2>1, <2>2, <2>4 DEF EntriesOf
  <2>8. ASSUME NEW i \in 1 .. Len(entries'), entries'[i].file \in Undisturbed PROVE Good(i)'
    <3>1. CASE i \in 1 .. n
      BY <1>10, <2>1, <2>8, <3>1
    <3>2. CASE i = n + 1
      <4>1. entries'[i] = e /\ disk' = disk /\ content' = content
        BY <1>1, <1>12, <2>1, <3>2
      <4> QED
        BY <1>1, <2>2, <4>1 DEF Good
    <3> QED
      BY <2>4, <3>1, <3>2
  <2>9. ASSUME NEW i \in 1 .. Len(entries'), NEW l \in 1 .. Len(entries'),
               entries'[i].file = entries'[l].file, entries'[i].file \in Undisturbed
        PROVE  i = l
    <3>1. CASE i \in 1 .. n /\ l \in 1 .. n
      BY <2>1, <2>9, <3>1 DEF Entries
    <3>2. \A k \in 1 .. n : entries'[k].file \in Undisturbed => entries'[k].file # f
      BY <2>1, <2>5 DEF EntriesOf
    <3>3. entries'[n + 1].file = f
      BY <2>1, <2>2
    <3> QED
      BY <2>4, <2>9, <3>1, <3>2, <3>3
  <2>10. Entries'
    BY <1>7, <2>8, <2>9 DEF Entries
  <2>11. ASSUME NEW g \in Undisturbed PROVE \E due \in Nat : WayAt(g, due)' /\ HeldAt(g, due)'
    <3>1. CASE g = f
      <4>1. PICK due \in Nat : content[wbuf].seq = due /\ WayAt(f, due + 1)'
        BY <1>11, <2>11, <3>1
      <4>2. due + 1 = 1 /\ WayAt(f, 1)'
        BY <1>12, <4>1
      <4>3. EntriesOf(f)' = {n + 1} /\ entries'[n + 1] = e
        BY <2>1, <2>5, <2>7, <2>11, <3>1
      <4>4. \A i \in EntriesOf(f)' : entries'[i].wsize + Len(entries'[i].pending) = 1
        BY <2>2, <4>3
      <4>5. HeldAt(f, 1)'
        BY <4>3, <4>4 DEF HeldAt
      <4> QED
        BY <3>1, <4>2, <4>5
    <3>2. CASE g # f
      <4>1. PICK due \in Nat : WayAt(g, due) /\ HeldAt(g, due)
        BY DEF Flow
      <4>2. WayAt(g, due)'
        BY <1>8, <3>2, <4>1
      <4>3. EntriesOf(g)' = EntriesOf(g) /\ \A i \in EntriesOf(g) : entries'[i] = entries[i]
        BY <2>1, <2>6, <3>2 DEF EntriesOf
      <4>4. HeldAt(g, due)'
        BY <4>1, <4>3 DEF HeldAt
      <4> QED
        BY <4>2, <4>4
    <3> QED
      BY <3>1, <3>2
  <2> QED
    BY <1>7, <2>10, <2>11 DEF Flow
<1>13. CASE /\ EntriesOf(f) # {}
            /\ entries' = [entries EXCEPT ![FirstOf(f)].pending = Append(@, wbuf)]
            /\ content' = content
  <2> DEFINE j == FirstOf(f)  d == entries'[j]
  <2>1. j \in 1 .. Len(entries) /\ j \in EntriesOf(f) /\ entries[j].file = f
    BY <1>13, FirstIsOne DEF EntriesOf
  <2>2. /\ Len(entries') = Len(entries)
        /\ \A i \in 1 .. Len(entries) : i # j => entries'[i] = entries[i]
        /\ d.file = entries[j].file /\ SameWrite(d, entries[j])
        /\ SameRead(d, entries[j]) /\ d.complete = entries[j].complete
        /\ d.pending = Append(entries[j].pending, wbuf)
    BY <1>1, <1>13, <2>1, JoinEdit
  <2>3. \A i \in 1 .. Len(entries) : entries'[i].file = entries[i].file
    BY <2>2
  <2>4. \A g : EntriesOf(g)' = EntriesOf(g)
    BY <2>2, <2>3 DEF EntriesOf
  <2> HIDE DEF j
  <2>5. ASSUME f \in Undisturbed
        PROVE  /\ Fine(d, disk[d.file], content)
               /\ d.wsize + Len(d.pending) = content[wbuf].seq + 1
    <3>1. PICK due \in Nat : HeldAt(f, due) /\ content[wbuf].seq = due
      BY <1>11, <2>5
    <3>2. content[wbuf].seq = entries[j].wsize + Len(entries[j].pending)
      BY <2>1, <3>1 DEF HeldAt
    <3>3. Fine(entries[j], disk[entries[j].file], content)
      BY <2>1, <2>5 DEF Entries, Good
    <3> HIDE DEF d
    <3>4. /\ Fine(d, disk[d.file], content)
          /\ d.wsize + Len(d.pending) = (entries[j].wsize + Len(entries[j].pending)) + 1
      BY <1>1, <2>1, <2>2, <3>2, <3>3, JoinedIsFine
    <3> QED
      BY <3>2, <3>4
  <2>6. ASSUME NEW i \in 1 .. Len(entries'), entries'[i].file \in Undisturbed PROVE Good(i)'
    <3>1. CASE i # j
      BY <1>10, <2>2, <2>3, <2>6, <3>1
    <3>2. CASE i = j
      <4>1. f \in Undisturbed /\ entries'[i] = d /\ disk' = disk /\ content' = content
        BY <1>1, <1>13, <2>1, <2>2, <2>6, <3>2
      <4>2. Fine(d, disk[d.file], content)
        BY <2>5, <4>1
      <4> HIDE DEF d
      <4> QED
        BY <1>1, <4>1, <4>2 DEF Good
    <3> QED
      BY <3>1, <3>2
  <2>7. Entries'
    <3>1. \A i, l \in 1 .. Len(entries') :
            entries'[i].file = entries'[l].file /\ entries'[i].file \in Undisturbed => i = l
      BY <2>2, <2>3 DEF Entries
    <3> QED
      BY <1>7, <2>6, <3>1 DEF Entries
  <2>8. ASSUME NEW g \in Undisturbed PROVE \E due \in Nat : WayAt(g, due)' /\ HeldAt(g, due)'
    <3>1. CASE g = f
      <4>1. PICK due \in Nat : HeldAt(f, due) /\ content[wbuf].seq = due /\ WayAt(f, due + 1)'
        BY <1>11, <2>8, <3>1
      <4>2. ASSUME NEW i \in EntriesOf(f) PROVE entries'[i].wsize + Len(entries'[i].pending) = due + 1
        <5>1. i = j
          BY <2>1, <2>8, <3>1 DEF EntriesOf, Entries
        <5> QED
          BY <2>5, <2>8, <3>1, <4>1, <5>1
      <4>3. HeldAt(f, due + 1)'
        BY <1>13, <2>4, <4>2 DEF HeldAt
      <4> QED
        BY <3>1, <4>1, <4>3
    <3>2. CASE g # f
      <4>1. PICK due \in Nat : WayAt(g, due) /\ HeldAt(g, due)
        BY DEF Flow
      <4>2. WayAt(g, due)'
        BY <1>8, <3>2, <4>1
      <4>3. \A i \in EntriesOf(g) : entries'[i] = entries[i]
        BY <2>1, <2>2, <3>2 DEF EntriesOf
      <4>4. HeldAt(g, due)'
        BY <2>4, <4>1, <4>3 DEF HeldAt
      <4> QED
        BY <4>2, <4>4
    <3> QED
      BY <3>1, <3>2
  <2> QED
    BY <1>7, <2>7, <2>8 DEF Flow
<1>14. CASE content[wbuf].seq > 0 /\ EntriesOf(f) = {} /\ entries' = entries
  <2>1. f \notin Undisturbed
    <3> SUFFICES ASSUME f \in Undisturbed PROVE FALSE
      OBVIOUS
    <3>1. PICK due \in Nat : WayAt(f, due) /\ HeldAt(f, due) /\ content[wbuf].seq = due
      BY <1>11
    <3>2. due = BlockCount[f]
      BY <1>14, <3>1 DEF HeldAt
    <3>3. Carried(Way[1], f) /\ 1 \in 1 .. Len(Way) /\ Way[1] = wbuf
      BY <1>1, <1>2, <1>f, BlockAssumption, WayItems DEF Carried
    <3>4. due < next[f]
      BY <3>1, <3>3 DEF WayAt
    <3>5. next[f] <= BlockCount[f] /\ next[f] \in Nat /\ BlockCount[f] \in Nat
      BY <1>1, CountAssumption DEF Types, TypeOK
    <3> QED
      BY <3>2, <3>4, <3>5
  <2>2. \A g \in Undisturbed' : \A due \in Nat : WayAt(g, due) => Moved(g, due)
    BY <1>7, <1>8, <2>1 DEF Moved
  <2> QED
    BY <1>1, <1>9, <1>14, <2>2, FlowStill
<1> QED
  BY <1>f, <1>12, <1>13, <1>14 DEF HandleBlock

-----------------------------------------------------------------------------
(* Each handler of an entry, for a file nothing went wrong with. *)

LEMMA FineHere ==
  ASSUME Types, Entries, Flow, wpc \in {"write", "read"}, Entry.file \in Undisturbed
  PROVE  /\ Fine(Entry, disk[Entry.file], content) /\ (wpc = "read" => Readable(Entry))
         /\ Entry.wsize + Len(Entry.pending) <= BlockCount[Entry.file]
         /\ Entry.wsize \in Nat /\ Len(Entry.pending) \in Nat /\ BlockCount[Entry.file] \in Nat \ {0}
         /\ Entry.pending \in Seq(Block) /\ Entry.rpos \in Nat /\ Entry.wsize <= BlockCount[Entry.file]
<1>1. idx \in 1 .. Len(entries) /\ entries[idx] = Entry
  BY AtTheEntry
<1>2. Good(idx)
  BY <1>1 DEF Entries
<1>3. Fine(Entry, disk[Entry.file], content) /\ (wpc = "read" => Readable(Entry))
  BY <1>1, <1>2 DEF Good
<1>4. /\ Entry.wsize \in Nat /\ Len(Entry.pending) \in Nat /\ Entry.pending \in Seq(Block) /\ Entry.rpos \in Nat
      /\ Entry.file \in File
  BY <1>1, EntryTypes
<1>5. BlockCount[Entry.file] \in Nat \ {0}
  BY <1>4, CountAssumption
<1>6. Entry.wsize + Len(Entry.pending) <= BlockCount[Entry.file]
  BY <1>1, Bounded
<1> QED
  BY <1>3, <1>4, <1>5, <1>6

LEMMA FineClosed ==
  ASSUME Types, Entries, Flow, Fresh, wpc = "write", Written, Entry.file \in Undisturbed,
         NEW d, d.file = Entry.file, d.wopen = FALSE, d.wpos = Entry.wpos, d.wsize = Entry.wsize,
         d.pending = Entry.pending, SameRead(d, Entry), d.complete = Entry.complete
  PROVE  Fine(d, disk[Entry.file], content) /\ Readable(d)
<1>1. /\ Fine(Entry, disk[Entry.file], content) /\ ~Entry.complete
      /\ Entry.wsize \in Nat /\ BlockCount[Entry.file] \in Nat \ {0}
  BY FineHere, AtWrite
<1>2. Entry.wsize = BlockCount[Entry.file] /\ Entry.wsize > 0
  BY <1>1 DEF Written, Size
<1> QED
  BY <1>1, <1>2 DEF Fine, Readable, SameRead

LEMMA FineOpened ==
  ASSUME Types, Entries, Flow, Fresh, wpc = "write", ~Written, ~Entry.wopen, Entry.file \in Undisturbed,
         NEW d, d.file = Entry.file, d.wopen = TRUE, d.wpos = 0, d.wsize = Entry.wsize,
         d.pending = Entry.pending, SameRead(d, Entry), d.complete = Entry.complete
  PROVE  Fine(d, << >>, content)
<1>1. /\ Fine(Entry, disk[Entry.file], content) /\ ~Entry.complete
      /\ Entry.wsize + Len(Entry.pending) <= BlockCount[Entry.file]
      /\ Entry.wsize \in Nat /\ Len(Entry.pending) \in Nat /\ BlockCount[Entry.file] \in Nat
      /\ Entry.pending \in Seq(Block)
  BY FineHere, AtWrite
<1>2. Entry.wsize = 0
  <2>1. SUFFICES ASSUME Entry.wsize = BlockCount[Entry.file] PROVE FALSE
    BY <1>1 DEF Fine
  <2>2. Len(Entry.pending) = 0
    BY <1>1, <2>1
  <2>3. Entry.pending = << >>
    BY <1>1, <2>2
  <2> QED
    BY <2>1, <2>3 DEF Written, Size
<1> QED
  BY <1>1, <1>2, UptoZero DEF Fine, SameRead

LEMMA PutNext ==
  ASSUME NEW n \in Nat
  PROVE  Put(Upto(n), n, n) = Upto(n + 1)
<1>1. Len(Upto(n)) = n /\ \A i \in 1 .. n : Upto(n)[i] = i - 1
  BY DEF Upto
<1>2. Put(Upto(n), n, n) = [i \in 1 .. n + 1 |-> IF i = n + 1 THEN n ELSE IF i <= n THEN Upto(n)[i] ELSE Hole]
  BY <1>1 DEF Put
<1>3. \A i \in 1 .. n + 1 : (IF i = n + 1 THEN n ELSE IF i <= n THEN Upto(n)[i] ELSE Hole) = i - 1
  <2> SUFFICES ASSUME NEW i \in 1 .. n + 1
               PROVE  (IF i = n + 1 THEN n ELSE IF i <= n THEN Upto(n)[i] ELSE Hole) = i - 1
    OBVIOUS
  <2>1. CASE i = n + 1
    BY <2>1
  <2>2. CASE i # n + 1
    BY <1>1, <2>2
  <2> QED
    BY <2>1, <2>2
<1> QED
  BY <1>2, <1>3 DEF Upto

LEMMA FineWritten ==
  ASSUME Types, Owned, Entries, Flow, Fresh, wpc = "write", Entry.wopen, Entry.pending # << >>,
         Entry.file \in Undisturbed,
         NEW d, d.file = Entry.file, d.pending = Tail(Entry.pending),
         d.wopen = Entry.wopen, d.wpos = Entry.wpos + 1, d.wsize = Entry.wsize + 1,
         SameRead(d, Entry), d.complete = Entry.complete,
         content' = Blanked(Head(Entry.pending)),
         NEW data, data = Put(disk[Entry.file], Entry.wpos, content[Head(Entry.pending)].seq)
  PROVE  /\ Fine(d, data, content') /\ Readable(d)
         /\ d.wsize + Len(d.pending) = Entry.wsize + Len(Entry.pending)
<1> DEFINE s == Entry.pending  t == d.pending  w == Entry.wsize  n == BlockCount[Entry.file]
<1>1. /\ Fine(Entry, disk[Entry.file], content) /\ ~Entry.complete
      /\ w + Len(s) <= n /\ w \in Nat /\ Len(s) \in Nat /\ n \in Nat
      /\ s \in Seq(Block) /\ Entry.rpos \in Nat
  BY FineHere, AtWrite
<1>2. /\ 1 \in 1 .. Len(s) /\ Head(s) = s[1] /\ Head(s) \in Block /\ Len(t) = Len(s) - 1
      /\ \A k \in 1 .. Len(t) : k \in Nat /\ k + 1 \in 1 .. Len(s) /\ k + 1 # 1 /\ t[k] = s[k + 1]
  BY <1>1, TailItems
<1>3. /\ \A k \in 1 .. Len(s) : content[s[k]].seq = w + k - 1
      /\ Entry.wpos = w /\ disk[Entry.file] = Upto(w)
      /\ Entry.sent = Upto(Entry.rpos) /\ Entry.rpos <= w /\ Entry.ropen # "bad"
  BY <1>1 DEF Fine
<1>4. idx \in 1 .. Len(entries) /\ entries[idx] = Entry
  BY AtTheEntry
<1>5. \A k, l \in 1 .. Len(s) : s[k] = s[l] => k = l
  BY <1>4, OnceHere
<1>6. \A k \in 1 .. Len(t) : content'[t[k]] = content[s[k + 1]]
  <2> SUFFICES ASSUME NEW k \in 1 .. Len(t) PROVE content'[t[k]] = content[s[k + 1]]
    OBVIOUS
  <2>1. t[k] = s[k + 1] /\ s[k + 1] # Head(s)
    BY <1>2, <1>5
  <2>2. s[k + 1] \in Block
    BY <1>1, <1>2
  <2> QED
    BY <2>1, <2>2 DEF Blanked, Types, TypeOK
<1> HIDE DEF s, t, w, n
<1>7. (w + 1) + Len(t) = w + Len(s) /\ (w + 1) + Len(t) >= 1 /\ Len(t) \in Nat /\ w + 1 <= n
  BY <1>1, <1>2
<1>8. \A k \in 1 .. Len(t) : content'[t[k]].seq = (w + 1) + k - 1
  <2> SUFFICES ASSUME NEW k \in 1 .. Len(t) PROVE content'[t[k]].seq = (w + 1) + k - 1
    OBVIOUS
  <2>1. k \in Nat /\ k + 1 \in 1 .. Len(s)
    BY <1>2
  <2>2. content[s[k + 1]].seq = w + (k + 1) - 1
    BY <1>3, <2>1
  <2>3. w + (k + 1) - 1 = (w + 1) + k - 1
    BY <1>1, <2>1
  <2> QED
    BY <1>6, <2>2, <2>3
<1>9. data = Upto(w + 1)
  <2>1. content[s[1]].seq = w + 1 - 1
    BY <1>2, <1>3
  <2>2. content[Head(s)].seq = w
    BY <1>1, <1>2, <2>1
  <2>3. data = Put(Upto(w), w, w)
    BY <1>3, <2>2 DEF s
  <2> QED
    BY <1>1, <2>3, PutNext
<1>10. /\ d.wsize = w + 1 /\ d.wpos = w + 1 /\ d.wopen /\ ~d.complete /\ d.file = Entry.file
       /\ d.sent = Upto(d.rpos) /\ d.rpos = Entry.rpos /\ d.ropen # "bad"
  BY <1>1, <1>3 DEF SameRead, w
<1>11. d.rpos <= w + 1 /\ d.rpos < n
  BY <1>1, <1>3, <1>7, <1>10
<1>12. Fine(d, data, content')
  BY <1>7, <1>8, <1>9, <1>10, <1>11 DEF Fine, t
<1> QED
  BY <1>7, <1>10, <1>11, <1>12 DEF Readable, s, t, w, n

LEMMA FineCompleted ==
  ASSUME Types, Entries, Flow, ReadComplete, Entry.file \in Undisturbed,
         NEW d, d.file = Entry.file, d.pending = Entry.pending, d.wopen = FALSE, d.wpos = Entry.wpos,
         d.wsize = Entry.wsize, SameRead(d, Entry), d.complete = TRUE
  PROVE  Fine(d, disk[Entry.file], content)
<1>1. wpc = "read" /\ Len(Entry.sent) = BlockCount[Entry.file]
  BY DEF ReadComplete, ReadEnd, RSize, Size
<1>2. /\ Fine(Entry, disk[Entry.file], content) /\ Entry.wsize \in Nat /\ BlockCount[Entry.file] \in Nat \ {0}
      /\ Entry.wsize <= BlockCount[Entry.file] /\ Entry.rpos \in Nat /\ Len(Entry.sent) = Entry.rpos
  BY <1>1, FineHere, SentAll
<1>3. Entry.rpos <= Entry.wsize
  BY <1>2 DEF Fine
<1>4. Entry.rpos = BlockCount[Entry.file] /\ Entry.wsize = BlockCount[Entry.file] /\ Entry.wsize > 0
  BY <1>1, <1>2, <1>3
<1> QED
  BY <1>2, <1>4 DEF Fine, SameRead

LEMMA UptoNext ==
  ASSUME NEW n \in Nat
  PROVE  Append(Upto(n), n) = Upto(n + 1)
<1>1. Upto(n) \in Seq(Nat) /\ Len(Upto(n)) = n
  <2>1. \A k \in 1 .. n : k - 1 \in Nat
    OBVIOUS
  <2>2. Upto(n) \in [1 .. n -> Nat]
    BY <2>1 DEF Upto
  <2> QED
    BY <2>2, SeqDef DEF Upto
<1>2. /\ Len(Append(Upto(n), n)) = n + 1 /\ Append(Upto(n), n) \in Seq(Nat)
      /\ \A k \in 1 .. n : Append(Upto(n), n)[k] = Upto(n)[k]
      /\ Append(Upto(n), n)[n + 1] = n
  BY <1>1, AppendProperties
<1>3. \A k \in 1 .. n + 1 : Append(Upto(n), n)[k] = k - 1
  <2> SUFFICES ASSUME NEW k \in 1 .. n + 1 PROVE Append(Upto(n), n)[k] = k - 1
    OBVIOUS
  <2>1. CASE k = n + 1
    BY <1>2, <2>1
  <2>2. CASE k # n + 1
    <3>1. k \in 1 .. n /\ Upto(n)[k] = k - 1
      BY <2>2 DEF Upto
    <3> QED
      BY <1>2, <3>1
  <2> QED
    BY <2>1, <2>2
<1> DEFINE a == Append(Upto(n), n)
<1>4. a = [k \in 1 .. Len(a) |-> a[k]]
  <2>1. a \in Seq(Nat)
    BY <1>2
  <2> HIDE DEF a
  <2> QED
    BY <2>1
<1> HIDE DEF a
<1> QED
  BY <1>2, <1>3, <1>4 DEF Upto, a

LEMMA FineRead ==
  ASSUME Types, Entries, Flow, wpc = "read", Entry.file \in Undisturbed,
         Entry.rpos + 1 \in 1 .. Len(disk[Entry.file]),
         NEW d, d.file = Entry.file, d.pending = Entry.pending, SameWrite(d, Entry), d.ropen = Entry.ropen,
         d.rpos = Entry.rpos + 1, d.sent = Append(Entry.sent, disk[Entry.file][Entry.rpos + 1]),
         d.complete = Entry.complete
  PROVE  Fine(d, disk[Entry.file], content)
<1> DEFINE r == Entry.rpos  w == Entry.wsize
<1>1. /\ Fine(Entry, disk[Entry.file], content) /\ Readable(Entry) /\ w \in Nat /\ r \in Nat
      /\ BlockCount[Entry.file] \in Nat \ {0}
  BY FineHere
<1>2. Entry.wopen \/ w > 0
  BY <1>1 DEF Readable
<1>3. disk[Entry.file] = Upto(w) /\ Entry.sent = Upto(r)
  BY <1>1, <1>2 DEF Fine
<1>4. Len(Upto(w)) = w
  BY <1>1 DEF Upto
<1>5. r + 1 \in 1 .. w /\ Upto(w)[r + 1] = r
  <2>1. r + 1 \in 1 .. w
    BY <1>3, <1>4
  <2>2. Upto(w)[r + 1] = (r + 1) - 1
    BY <2>1 DEF Upto
  <2> QED
    BY <1>1, <2>1, <2>2
<1>6. d.sent = Upto(r + 1)
  BY <1>1, <1>3, <1>5, UptoNext
<1>7. d.rpos <= d.wsize /\ d.sent = Upto(d.rpos) /\ ~d.complete
  BY <1>1, <1>5, <1>6 DEF SameWrite, Readable
<1> QED
  BY <1>1, <1>7 DEF Fine, SameWrite

LEMMA FineReadOpened ==
  ASSUME Types, Entries, Flow, wpc = "read", Entry.file \in Undisturbed,
         NEW d, d.file = Entry.file, d.pending = Entry.pending, SameWrite(d, Entry), d.ropen = "open",
         d.rpos = Entry.rpos, d.sent = Entry.sent, d.complete = Entry.complete
  PROVE  Fine(d, disk[Entry.file], content)
<1>1. Fine(Entry, disk[Entry.file], content)
  BY FineHere
<1> QED
  BY <1>1 DEF Fine, SameWrite

-----------------------------------------------------------------------------
LEMMA NextFlow ==
  ASSUME Types, Owned, Fresh, Entries, Flow, [Next]_vars
  PROVE  Entries' /\ Flow'
<1>h. hurt \subseteq hurt' => Undisturbed' \subseteq Undisturbed
  BY DEF Undisturbed
<1>s. content' = content => PendingStill /\ WayContents
  BY DEF PendingStill, WayContents
<1>w. ASSUME UNCHANGED <<next, content>>, Way' = Way
      PROVE  \A f \in Undisturbed' : \A due \in Nat : WayAt(f, due) => Moved(f, due)
  BY <1>w, WayStill DEF Moved
<1>1. ASSUME NEW f \in File, GrabBlock(f) PROVE Entries' /\ Flow'
  <2>1. /\ rpc = "idle" /\ rbuf = NoBlock /\ UNCHANGED <<queue, wbuf, wpc, idx, entries, disk>>
        /\ next' = [next EXCEPT ![f] = @ + 1] /\ next \in [File -> Nat]
    BY <1>1 DEF GrabBlock, Types, TypeOK, workVars, fileVars
  <2>2. next'[f] = next[f] + 1 /\ \A g \in File : g # f => next'[g] = next[g]
    BY <2>1
  <2>3. ASSUME NEW b \in Block, Fill(f, b), b \in pool \/ b \in heap PROVE Entries' /\ Flow'
    <3>1. rbuf' = b /\ hurt' = hurt /\ content' = [content EXCEPT ![b] = [file |-> f, seq |-> next[f]]]
      BY <2>3 DEF Fill
    <3>2. Way' = Append(Way, b)
      BY <2>1, <3>1, WayGrabbed
    <3>3. ~OnWay(b) /\ ~Waiting(b)
      BY <2>3 DEF Owned, Apart
    <3>4. content'[b] = [file |-> f, seq |-> next[f]] /\ \A c \in Block : c # b => content'[c] = content[c]
      BY <3>1 DEF Types, TypeOK
    <3>5. PendingStill
      BY <3>3, <3>4, EntryTypes DEF PendingStill, Waiting
    <3>6. \A k \in 1 .. Len(Way) : content'[Way[k]] = content[Way[k]]
      BY <3>3, <3>4, WayType DEF OnWay
    <3>7. ASSUME NEW g \in Undisturbed', NEW due \in Nat, WayAt(g, due) PROVE Moved(g, due)
      <4>1. g \in File
        BY DEF Undisturbed
      <4>2. CASE g = f
        <5>1. WayAt(f, due)'
          BY <2>2, <3>2, <3>4, <3>6, <3>7, <4>2, WayGrows
        <5> QED
          BY <4>2, <5>1 DEF Moved
      <4>3. CASE g # f
        <5>1. next'[g] = next[g] /\ content'[b].file # g
          BY <2>2, <3>4, <4>1, <4>3
        <5>2. WayAt(g, due)'
          BY <3>2, <3>6, <3>7, <5>1, WayAside
        <5> QED
          BY <5>2 DEF Moved
      <4> QED
        BY <4>2, <4>3
    <3> QED
      BY <2>1, <3>1, <3>5, <3>7, FlowStill
  <2>4. ASSUME hurt' = hurt \cup {f}, UNCHANGED <<content, rxVars>> PROVE Entries' /\ Flow'
    <3>1. Way' = Way
      BY <2>1, <2>4 DEF Way, rxVars
    <3>2. ASSUME NEW g \in Undisturbed', NEW due \in Nat, WayAt(g, due) PROVE Moved(g, due)
      <4>1. g \in File /\ g # f
        BY <2>4 DEF Undisturbed
      <4>2. next'[g] = next[g]
        BY <2>2, <4>1
      <4>3. WayAt(g, due)'
        BY <2>4, <3>1, <3>2, <4>2, WayStill
      <4> QED
        BY <4>3 DEF Moved
    <3> QED
      BY <1>s, <2>1, <2>4, <3>2, FlowStill
  <2> QED
    BY <1>1, <2>3, <2>4 DEF GrabBlock, Types, TypeOK
<1>2. ASSUME NEW f \in File, Restart(f) PROVE Entries' /\ Flow'
  <2>1. /\ UNCHANGED <<content, queue, wbuf, rbuf, wpc, idx, entries, disk>> /\ hurt \subseteq hurt'
        /\ next' = [next EXCEPT ![f] = 0] /\ next \in [File -> Nat]
        /\ f \notin hurt' => ~Busy(f)
    BY <1>2 DEF Restart, memVars, rxVars, workVars, fileVars, Types, TypeOK
  <2>2. Way' = Way
    BY <2>1 DEF Way
  <2>3. next'[f] = 0 /\ \A g \in File : g # f => next'[g] = next[g]
    BY <2>1
  <2>4. ASSUME NEW g \in Undisturbed', NEW due \in Nat, WayAt(g, due) PROVE Moved(g, due)
    <3>1. g \in File
      BY DEF Undisturbed
    <3>2. CASE g = f
      <4>1. ~Busy(f)
        BY <2>1, <2>4, <3>2 DEF Undisturbed
      <4>2. EntriesOf(f) = {}
        BY <4>1 DEF Busy, EntriesOf
      <4>3. \A k \in 1 .. Len(Way) : ~Carried(Way[k], f)
        <5> SUFFICES ASSUME NEW k \in 1 .. Len(Way) PROVE ~Carried(Way[k], f)
          OBVIOUS
        <5>1. Way[k] = wbuf \/ Way[k] = rbuf \/ \E j \in 1 .. Len(queue) : Way[k] = queue[j]
          BY WayItems
        <5> QED
          BY <4>1, <5>1 DEF Busy
      <4>4. \A k \in 1 .. Len(Way') : ~Carried(Way[k], f)'
        BY <2>1, <2>2, <4>3 DEF Carried
      <4>5. WayAt(f, 0)'
        BY <2>3, <4>4, WayAnew
      <4> QED
        BY <3>2, <4>2, <4>5 DEF Moved
    <3>3. CASE g # f
      <4>1. next'[g] = next[g]
        BY <2>3, <3>1, <3>3
      <4>2. WayAt(g, due)'
        BY <2>1, <2>2, <2>4, <4>1, WayStill
      <4> QED
        BY <4>2 DEF Moved
    <3> QED
      BY <3>2, <3>3
  <2> QED
    BY <1>s, <2>1, <2>4, FlowStill
<1>3. ASSUME UNCHANGED <<next, content, entries, disk, hurt>>, Way' = Way, wpc' = "read" => wpc = "read" /\ idx' = idx
      PROVE  Entries' /\ Flow'
  BY <1>3, <1>s, <1>w, FlowStill
<1>4. CASE PushBlock
  <2>1. /\ rbuf # NoBlock /\ queue' = Append(queue, rbuf) /\ rbuf' = NoBlock
        /\ UNCHANGED <<wbuf, next, content, entries, disk, hurt, wpc, idx>>
    BY <1>4, BlockAssumption DEF PushBlock, Types, TypeOK, srcVars, memVars, workVars, fileVars
  <2> QED
    BY <1>3, <2>1, WayPushed
<1>5. CASE PopBlock
  <2>1. wpc = "pop" /\ wbuf = NoBlock /\ UNCHANGED <<rbuf, next, content, entries, disk, hurt>> /\ wpc' # "read"
    BY <1>5 DEF PopBlock, AtEntry, Goto, Types, TypeOK, srcVars, memVars, rxVars, fileVars
  <2>2. Way' = Way
    <3>1. CASE queue = << >>
      BY <1>5, <2>1, <3>1 DEF PopBlock, Way
    <3>2. CASE queue # << >>
      BY <1>5, <2>1, <3>2, WayPopped DEF PopBlock
    <3> QED
      BY <3>1, <3>2
  <2> QED
    BY <1>3, <2>1, <2>2
<1>6. ASSUME \/ ActiveWork \/ WorkLoop \/ WorkWake \/ DeactiveWork \/ ReadWait
             \/ StopSubscribe \/ StopFlag \/ StopSignal \/ StopJoin \/ UNCHANGED vars
      PROVE  Entries' /\ Flow'
  <2>1. UNCHANGED <<next, content, queue, wbuf, rbuf, entries, disk, hurt>>
    BY <1>6 DEF ActiveWork, WorkLoop, WorkWake, DeactiveWork, ReadWait, StopSubscribe, StopFlag, StopSignal,
                StopJoin, vars, srcVars, memVars, rxVars, workVars, fileVars
  <2>2. wpc' = "read" => wpc = "read" /\ idx' = idx
    BY <1>6 DEF ActiveWork, WorkLoop, WorkWake, DeactiveWork, ReadWait, StopSubscribe, StopFlag, StopSignal,
                StopJoin, AtEntry, Goto, vars, workVars
  <2> QED
    BY <1>3, <2>1, <2>2 DEF Way
<1>7. CASE HandleBlock
  BY <1>7, FlowHandled
<1>8. CASE Sweep
  <2>1. UNCHANGED <<next, content, queue, wbuf, rbuf, disk, hurt>> /\ wpc' # "read" /\ entries' = Incomplete(entries)
    BY <1>8 DEF Sweep, Goto, srcVars, memVars, rxVars
  <2>2. Keeping(entries, entries')
    BY <2>1, EntryTypes, IncompleteKept
  <2> QED
    BY <2>1, <2>2, FlowSwept DEF Way
<1>9. ASSUME wpc \in {"write", "read"}, NEW d, Edit(d), d.file = Entry.file,
             UNCHANGED <<next, content, queue, wbuf, rbuf>>, hurt \subseteq hurt',
             wpc' = "read" => idx' = idx,
             \A f \in File : f # Entry.file => disk'[f] = disk[f],
             d.pending = Entry.pending /\ d.wsize = Entry.wsize,
             Entry.file \notin hurt' => Fine(d, disk'[Entry.file], content) /\ (wpc' = "read" => Readable(d))
      PROVE  Entries' /\ Flow'
  <2>1. Way' = Way
    BY <1>9 DEF Way
  <2>2. WayContents /\ PendingStill /\ content' = content
    BY <1>9, <1>s
  <2>3. \A i \in 1 .. Len(entries) : i # idx =>
           \A k \in 1 .. Len(entries[i].pending) : content'[entries[i].pending[k]] = content[entries[i].pending[k]]
    BY <2>2
  <2>4. Entry.file \notin hurt' =>
           /\ d.wsize + Len(d.pending) = Entry.wsize + Len(Entry.pending)
           /\ Fine(d, disk'[Entry.file], content') /\ (wpc' = "read" => Readable(d))
    BY <1>9, <2>2
  <2> QED
    BY <1>9, <2>1, <2>2, <2>3, <2>4, FlowEdited
<1>f. wpc \in {"write", "read"} => Entry.file \in File
  BY AtTheEntry DEF EntryType
<1>u. hurt \subseteq hurt' /\ wpc \in {"write", "read"} /\ Entry.file \notin hurt' => Entry.file \in Undisturbed
  BY <1>f DEF Undisturbed
<1>10. CASE WriteNone
  <2>1. /\ wpc = "write" /\ wpc' = "read" /\ ~Written /\ Entry.wopen /\ Entry.pending = << >>
        /\ UNCHANGED <<next, content, queue, wbuf, rbuf, idx, entries, disk, hurt>>
    BY <1>10 DEF WriteNone, Goto, srcVars, memVars, rxVars, fileVars
  <2>2. Edit(Entry)
    BY <2>1, AtTheEntry DEF Edit
  <2>3. Entry.file \notin hurt' => Fine(Entry, disk'[Entry.file], content) /\ Readable(Entry)
    <3> SUFFICES ASSUME Entry.file \notin hurt' PROVE Fine(Entry, disk'[Entry.file], content) /\ Readable(Entry)
      OBVIOUS
    <3>1. Entry.file \in Undisturbed
      BY <1>u, <2>1
    <3>2. /\ Fine(Entry, disk[Entry.file], content) /\ ~Entry.complete /\ Entry.wsize <= BlockCount[Entry.file]
          /\ Entry.wsize \in Nat /\ BlockCount[Entry.file] \in Nat /\ Entry.rpos \in Nat
      BY <2>1, <3>1, FineHere, AtWrite
    <3>3. Entry.wsize # BlockCount[Entry.file] /\ Entry.rpos <= Entry.wsize
      BY <2>1, <3>2 DEF Written, Size, Fine
    <3>4. Entry.rpos < BlockCount[Entry.file]
      BY <3>2, <3>3
    <3> QED
      BY <2>1, <3>2, <3>4 DEF Readable
  <2> QED
    BY <1>9, <2>1, <2>2, <2>3
<1>11. CASE WriteClose
  <2>1. /\ wpc = "write" /\ wpc' = "read" /\ Written
        /\ UNCHANGED <<next, content, queue, wbuf, rbuf, idx, disk, hurt>>
    BY <1>11 DEF WriteClose, Goto, srcVars, memVars, rxVars
  <2>2. PICK d : /\ Edit(d) /\ d.wopen = FALSE /\ d.wpos = Entry.wpos /\ d.wsize = Entry.wsize
                 /\ d.pending = Entry.pending /\ SameRead(d, Entry) /\ d.complete = Entry.complete
    BY <1>11, CloseEdit
  <2>3. d.file = Entry.file
    BY <2>2 DEF Edit
  <2>4. Entry.file \notin hurt' => Fine(d, disk'[Entry.file], content) /\ Readable(d)
    BY <1>u, <2>1, <2>2, <2>3, FineClosed
  <2> QED
    BY <1>9, <2>1, <2>2, <2>3, <2>4
<1>12. CASE WriteOpen
  <2>1. /\ wpc = "write" /\ ~Written /\ ~Entry.wopen
        /\ UNCHANGED <<next, content, queue, wbuf, rbuf, idx>> /\ hurt \subseteq hurt'
    BY <1>12 DEF WriteOpen, srcVars, memVars, rxVars, NoFail, Fail
  <2>2. CASE /\ entries' = [entries EXCEPT ![idx].wopen = TRUE, ![idx].wpos = 0]
             /\ disk' = [disk EXCEPT ![Entry.file] = << >>] /\ wpc' = wpc
    <3>1. PICK d : /\ Edit(d) /\ d.wopen = TRUE /\ d.wpos = 0 /\ d.wsize = Entry.wsize
                   /\ d.pending = Entry.pending /\ SameRead(d, Entry) /\ d.complete = Entry.complete
      BY <2>1, <2>2, OpenEdit
    <3>2. d.file = Entry.file
      BY <3>1 DEF Edit
    <3>3. disk'[Entry.file] = << >> /\ \A f \in File : f # Entry.file => disk'[f] = disk[f]
      BY <1>f, <2>1, <2>2 DEF Types
    <3>4. Entry.file \notin hurt' => Fine(d, disk'[Entry.file], content)
      BY <1>u, <2>1, <3>1, <3>2, <3>3, FineOpened
    <3> QED
      BY <1>9, <2>1, <2>2, <3>1, <3>2, <3>3, <3>4
  <2>3. CASE entries' = [entries EXCEPT ![idx].complete = TRUE] /\ Fail /\ disk' = disk
    <3>1. PICK d : Edit(d) /\ SameWrite(d, Entry) /\ d.pending = Entry.pending
      BY <2>1, <2>3, GiveUpEdit
    <3>2. Entry.file \in hurt' /\ d.file = Entry.file /\ d.wsize = Entry.wsize
      BY <2>3, <3>1 DEF Fail, Edit, SameWrite
    <3> QED
      BY <1>9, <2>1, <2>3, <3>1, <3>2
  <2> QED
    BY <1>12, <2>2, <2>3 DEF WriteOpen, Goto
<1>13. CASE WriteBlock
  <2>1. /\ wpc = "write" /\ wpc' = "read" /\ Entry.wopen /\ Entry.pending # << >>
        /\ UNCHANGED <<next, queue, wbuf, rbuf, idx>> /\ hurt \subseteq hurt'
        /\ content' = Blanked(Head(Entry.pending))
    BY <1>13 DEF WriteBlock, Goto, srcVars, rxVars, NoFail, Fail
  <2> DEFINE b == Head(Entry.pending)
  <2>2. Way' = Way
    BY <2>1 DEF Way
  <2>3. /\ idx \in 1 .. Len(entries) /\ entries[idx] = Entry
        /\ 1 \in 1 .. Len(Entry.pending) /\ b = Entry.pending[1] /\ b \in Block
    BY <2>1, AtTheEntry, EntryTypes, TailItems
  <2> HIDE DEF b
  <2>4. \A c \in Block : c # b => content'[c] = content[c]
    BY <2>1 DEF Blanked, b, Types, TypeOK
  <2>5. WayContents
    <3>1. Waiting(b)
      BY <2>3 DEF Waiting
    <3>2. ~OnWay(b)
      BY <2>3, <3>1 DEF Owned, Apart
    <3> QED
      BY <2>4, <3>2, WayType DEF WayContents, OnWay
  <2>6. \A i \in 1 .. Len(entries) : i # idx =>
           \A k \in 1 .. Len(entries[i].pending) : content'[entries[i].pending[k]] = content[entries[i].pending[k]]
    <3> SUFFICES ASSUME NEW i \in 1 .. Len(entries), i # idx, NEW k \in 1 .. Len(entries[i].pending)
                 PROVE  content'[entries[i].pending[k]] = content[entries[i].pending[k]]
      OBVIOUS
    <3>1. 1 \in 1 .. Len(entries[idx].pending) /\ entries[idx].pending[1] = b
      BY <2>3
    <3>2. entries[i].pending[k] # b
      BY <2>3, <3>1, OnceHere
    <3>3. entries[i].pending[k] \in Block
      BY EntryTypes
    <3> QED
      BY <2>4, <3>2, <3>3
  <2>7. CASE /\ entries' = [entries EXCEPT ![idx].pending = Tail(@), ![idx].wpos = @ + 1, ![idx].wsize = @ + 1]
             /\ disk' = [disk EXCEPT ![Entry.file] = Put(@, Entry.wpos, content[Head(Entry.pending)].seq)]
    <3>1. PICK d : /\ Edit(d) /\ d.pending = Tail(Entry.pending)
                   /\ d.wopen = Entry.wopen /\ d.wpos = Entry.wpos + 1 /\ d.wsize = Entry.wsize + 1
                   /\ SameRead(d, Entry) /\ d.complete = Entry.complete
      BY <2>1, <2>7, WriteEdit
    <3>2. d.file = Entry.file
      BY <3>1 DEF Edit
    <3>3. /\ disk'[Entry.file] = Put(disk[Entry.file], Entry.wpos, content[Head(Entry.pending)].seq)
          /\ \A f \in File : f # Entry.file => disk'[f] = disk[f]
      BY <1>f, <2>1, <2>7 DEF Types
    <3>4. Entry.file \notin hurt' =>
            /\ d.wsize + Len(d.pending) = Entry.wsize + Len(Entry.pending)
            /\ Fine(d, disk'[Entry.file], content') /\ Readable(d)
      BY <1>u, <2>1, <3>1, <3>2, <3>3, FineWritten
    <3> QED
      BY <2>1, <2>2, <2>5, <2>6, <3>1, <3>3, <3>4, FlowEdited
  <2>8. CASE entries' = [entries EXCEPT ![idx].pending = Tail(@)] /\ Fail /\ disk' = disk
    <3>1. PICK d : Edit(d)
      BY <2>1, <2>8, DropEdit
    <3>2. Entry.file \in hurt'
      BY <2>8 DEF Fail
    <3> QED
      BY <2>1, <2>2, <2>5, <2>6, <2>8, <3>1, <3>2, FlowEdited
  <2> QED
    BY <1>13, <2>7, <2>8 DEF WriteBlock
<1>14. CASE ReadComplete
  <2>1. wpc = "read" /\ wpc' # "read" /\ UNCHANGED <<next, content, queue, wbuf, rbuf, disk, hurt>>
    BY <1>14 DEF ReadComplete, AtEntry, Goto, srcVars, memVars, rxVars
  <2>2. PICK d : /\ Edit(d) /\ d.pending = Entry.pending
                 /\ d.wopen = FALSE /\ d.wpos = Entry.wpos /\ d.wsize = Entry.wsize
                 /\ SameRead(d, Entry) /\ d.complete = TRUE
    BY <1>14, CompleteEdit
  <2>3. d.file = Entry.file
    BY <2>2 DEF Edit
  <2>4. Entry.file \notin hurt' => Fine(d, disk'[Entry.file], content)
    BY <1>u, <1>14, <2>1, <2>2, <2>3, FineCompleted
  <2> QED
    BY <1>9, <2>1, <2>2, <2>3, <2>4
<1>15. CASE ReadOpen
  <2>1. wpc = "read" /\ wpc' # "read" /\ UNCHANGED <<next, content, queue, wbuf, rbuf, disk>> /\ hurt \subseteq hurt'
    BY <1>15 DEF ReadOpen, AtEntry, Goto, srcVars, memVars, rxVars, NoFail, Fail
  <2>2. CASE entries' = [entries EXCEPT ![idx].ropen = "open"]
    <3>1. PICK d : /\ Edit(d) /\ d.pending = Entry.pending /\ SameWrite(d, Entry)
                   /\ d.ropen = "open" /\ d.rpos = Entry.rpos /\ d.sent = Entry.sent
                   /\ d.complete = Entry.complete
      BY <2>1, <2>2, ReadOpenEdit
    <3>2. d.file = Entry.file /\ d.wsize = Entry.wsize
      BY <3>1 DEF Edit, SameWrite
    <3>3. Entry.file \notin hurt' => Fine(d, disk'[Entry.file], content)
      BY <1>u, <2>1, <3>1, <3>2, FineReadOpened
    <3> QED
      BY <1>9, <2>1, <3>1, <3>2, <3>3
  <2>3. CASE entries' = [entries EXCEPT ![idx].ropen = "bad"] /\ (Fail \/ Entry.complete)
    <3>1. PICK d : Edit(d) /\ d.pending = Entry.pending /\ SameWrite(d, Entry)
      BY <2>1, <2>3, ReadOpenEdit
    <3>2. d.file = Entry.file /\ d.wsize = Entry.wsize
      BY <3>1 DEF Edit, SameWrite
    <3>3. Entry.file \in hurt'
      BY <1>u, <2>1, <2>3, AtRead DEF Fail
    <3> QED
      BY <1>9, <2>1, <3>1, <3>2, <3>3
  <2> QED
    BY <1>15, <2>2, <2>3 DEF ReadOpen
<1>16. ASSUME NEW f \in File, ReadData(f) PROVE Entries' /\ Flow'
  <2>1. /\ wpc = "read" /\ wpc' # "read" /\ UNCHANGED <<next, content, queue, wbuf, rbuf, disk>> /\ hurt \subseteq hurt'
        /\ Entry.file = f
    BY <1>16 DEF ReadData, AtEntry, Goto, srcVars, memVars, rxVars, NoFail, Fail
  <2>2. CASE entries' = entries
    <3>1. Way' = Way
      BY <2>1 DEF Way
    <3> QED
      BY <1>s, <1>w, <2>1, <2>2, <3>1, FlowStill
  <2>3. CASE entries' # entries
    <3>1. PICK d : /\ Edit(d) /\ d.pending = Entry.pending /\ SameWrite(d, Entry)
                   /\ d.ropen = Entry.ropen /\ d.rpos = Entry.rpos + 1 /\ d.complete = Entry.complete
                   /\ Entry.rpos + 1 \in 1 .. Len(disk[f])
                   /\ d.sent = (IF NoFail THEN Append(Entry.sent, disk[f][Entry.rpos + 1]) ELSE Entry.sent)
      BY <1>16, <2>3, DataEdit
    <3>2. d.file = Entry.file /\ d.wsize = Entry.wsize
      BY <3>1 DEF Edit, SameWrite
    <3>3. ~NoFail => Entry.file \in hurt'
      BY <1>16 DEF ReadData, Fail
    <3>4. Entry.file \notin hurt' => Fine(d, disk'[Entry.file], content)
      BY <1>u, <2>1, <3>1, <3>2, <3>3, FineRead
    <3> QED
      BY <1>9, <2>1, <3>1, <3>2, <3>4
  <2> QED
    BY <2>2, <2>3
<1> QED
  BY <1>1, <1>2, <1>4, <1>5, <1>6, <1>7, <1>8, <1>10, <1>11, <1>12, <1>13, <1>14, <1>15, <1>16
     DEF Next, Callback, Work, Stop

-----------------------------------------------------------------------------
(* The worker goes to sleep on late blocks only.                           *)

(* The worker's block is not dropped, and its entry has not sent all yet.  *)
LEMMA WantsBlock ==
  ASSUME Types, Entries, Flow, wbuf # NoBlock, NEW f, f = content[wbuf].file, f \in Undisturbed
  PROVE  /\ content[wbuf].seq > 0 => EntriesOf(f) # {}
         /\ \A j \in EntriesOf(f) : Len(entries[j].sent) < BlockCount[f]
<1>1. /\ f \in File /\ wbuf \in Block /\ content[wbuf].seq \in Nat /\ next[f] \in Nat
      /\ next[f] <= BlockCount[f] /\ BlockCount[f] \in Nat
  BY CountAssumption DEF Undisturbed, Types, TypeOK
<1>2. 1 \in 1 .. Len(Way) /\ Way[1] = wbuf /\ Carried(Way[1], f)
  BY WayItems DEF Carried
<1>3. PICK due \in Nat : WayAt(f, due) /\ HeldAt(f, due)
  BY DEF Flow
<1>4. due <= content[wbuf].seq /\ content[wbuf].seq < next[f]
  BY <1>2, <1>3 DEF WayAt
<1>5. due < BlockCount[f]
  BY <1>1, <1>4
<1>6. ASSUME content[wbuf].seq > 0, EntriesOf(f) = {} PROVE FALSE
  <2>1. due = 0
    BY <1>1, <1>3, <1>5, <1>6 DEF HeldAt
  <2>2. 0 \in Nat /\ due <= 0 /\ 0 < next[f]
    BY <1>1, <1>4, <2>1
  <2>3. PICK k \in 1 .. Len(Way) : Carried(Way[k], f) /\ content[Way[k]].seq = 0
    BY <1>3, <2>2 DEF WayAt
  <2>4. k # 1
    BY <1>2, <1>6, <2>3
  <2>5. 1 < k
    BY <2>4
  <2>6. content[wbuf].seq < 0
    BY <1>2, <1>3, <2>3, <2>5 DEF WayAt
  <2> QED
    BY <1>1, <2>6
<1>7. ASSUME NEW j \in EntriesOf(f) PROVE Len(entries[j].sent) < BlockCount[f]
  <2>1. j \in 1 .. Len(entries) /\ entries[j].file = f /\ entries[j].wsize + Len(entries[j].pending) = due
    BY <1>3, <1>7 DEF HeldAt, EntriesOf
  <2>2. entries[j].sent = Upto(entries[j].rpos) /\ entries[j].rpos <= entries[j].wsize
    BY <2>1 DEF Entries, Good, Fine
  <2>3. entries[j].rpos \in Nat /\ entries[j].wsize \in Nat /\ Len(entries[j].pending) \in Nat
    BY <2>1, EntryTypes
  <2>4. Len(entries[j].sent) = entries[j].rpos
    BY <2>2, <2>3 DEF Upto
  <2> QED
    BY <1>1, <1>5, <2>1, <2>2, <2>3, <2>4
<1> QED
  BY <1>6, <1>7

Kept == LateOnly \/ \E i \in 1 .. Len(entries) : Stays(i)

(* The handlers of an entry.                                               *)
LEMMA StaysEdited ==
  ASSUME Types, wpc \in {"write", "read"}, NEW d, Edit(d) \/ (entries' = entries /\ d = Entry),
         Kept, UNCHANGED <<queue, late>>,
         idx' = idx \/ idx' = idx + 1,
         d.sent = Entry.sent \/ idx' = idx + 1,
         d.complete = Entry.complete \/ ~Stays(idx)
  PROVE  Kept'
<1>1. /\ idx \in 1 .. Len(entries) /\ Entry = entries[idx] /\ d.file = Entry.file
      /\ Len(entries') = Len(entries) /\ entries'[idx] = d
      /\ \A i \in 1 .. Len(entries) : i # idx => entries'[i] = entries[i]
  BY AtTheEntry DEF Edit
<1>2. CASE LateOnly
  BY <1>2 DEF Kept, LateOnly
<1>3. ASSUME NEW i \in 1 .. Len(entries), Stays(i) PROVE Stays(i)'
  <2>1. i \in Int /\ idx \in Int
    BY <1>1
  <2>2. \A k : k = idx' /\ k <= i => idx <= i /\ (k = idx + 1 => i # idx)
    BY <2>1
  <2>3. Unread(i)' => Unread(i) /\ (idx' = idx + 1 => i # idx)
    BY <2>2 DEF Unread
  <2>4. CASE i = idx
    <3>1. ~d.complete
      BY <1>1, <1>3, <2>4 DEF Stays
    <3>2. Unread(i)' => Len(d.sent) < BlockCount[d.file]
      BY <1>1, <1>3, <2>3, <2>4 DEF Stays
    <3> QED
      BY <1>1, <2>4, <3>1, <3>2 DEF Stays
  <2>5. CASE i # idx
    <3>1. entries'[i] = entries[i]
      BY <1>1, <2>5
    <3> QED
      BY <1>3, <2>3, <3>1 DEF Stays
  <2> QED
    BY <2>4, <2>5
<1> QED
  BY <1>1, <1>2, <1>3 DEF Kept

LEMMA StaysHandled ==
  ASSUME Types, Entries, Flow, Fresh, hurt = {}, HandleBlock
  PROVE  Kept'
<1>f. PICK f : f = content[wbuf].file
  OBVIOUS
<1>1. /\ wpc = "block" /\ wbuf \in Block /\ wbuf # NoBlock /\ f \in File /\ content[wbuf].seq \in Nat
      /\ idx' = 1
  BY <1>f, BlockAssumption DEF HandleBlock, AtEntry, Types, TypeOK
<1>2. NoneComplete /\ f \in Undisturbed
  BY <1>1 DEF Fresh, NoneComplete, Undisturbed
<1>3. /\ content[wbuf].seq > 0 => EntriesOf(f) # {}
      /\ \A j \in EntriesOf(f) : Len(entries[j].sent) < BlockCount[f]
  BY <1>1, <1>2, <1>f, WantsBlock
<1>4. CASE entries' = Append(entries, NewEntry(wbuf))
  <2>1. /\ Len(entries') = Len(entries) + 1 /\ Len(entries) \in Nat
        /\ entries'[Len(entries) + 1] = NewEntry(wbuf)
    BY <1>1, <1>4, NewEdit, EntryTypes
  <2>2. Len(entries) + 1 \in 1 .. Len(entries')
    BY <2>1
  <2>3. /\ ~NewEntry(wbuf).complete /\ NewEntry(wbuf).sent = << >> /\ NewEntry(wbuf).file = f
    BY <1>f DEF NewEntry
  <2>4. Len(NewEntry(wbuf).sent) < BlockCount[f]
    BY <1>1, <2>3, CountAssumption
  <2>5. \A i : i = Len(entries) + 1 => Stays(i)'
    BY <2>1, <2>3, <2>4 DEF Stays
  <2> QED
    BY <2>2, <2>5 DEF Kept
<1>5. CASE EntriesOf(f) # {} /\ entries' = [entries EXCEPT ![FirstOf(f)].pending = Append(@, wbuf)]
  <2>1. PICK j : j = FirstOf(f)
    OBVIOUS
  <2>2. j \in EntriesOf(f) /\ j \in 1 .. Len(entries) /\ entries[j].file = f
    BY <1>5, <2>1, FirstIsOne DEF EntriesOf
  <2>3. /\ Len(entries') = Len(entries) /\ entries'[j].file = f
        /\ entries'[j].sent = entries[j].sent /\ entries'[j].complete = entries[j].complete
    BY <1>1, <1>5, <2>1, <2>2, JoinEdit DEF SameRead
  <2>4. Stays(j)'
    BY <1>2, <1>3, <2>2, <2>3 DEF Stays, NoneComplete
  <2> QED
    BY <2>2, <2>3, <2>4 DEF Kept
<1>6. CASE content[wbuf].seq > 0 /\ EntriesOf(f) = {}
  BY <1>3, <1>6
<1> QED
  BY <1>1, <1>4, <1>5, <1>6, <1>f DEF HandleBlock

LEMMA NextAwake ==
  ASSUME Types, Entries, Flow, Fresh, Awake, [Next]_vars
  PROVE  Awake'
<1>k. hurt = {} /\ wpc \in {"write", "read", "sweep"} => Kept
  BY DEF Awake, Kept
<1>a. /\ LateOnly /\ UNCHANGED <<queue, late>> => LateOnly'
      /\ Kept /\ UNCHANGED <<queue, late, entries, wpc, idx>> => Kept'
  BY DEF LateOnly, Kept, Stays, Unread
(* What is left to show when the worker is about to look at its entries.   *)
<1>w. ASSUME evt' \/ wpc' \in {"loop", "wait"}, wpc' # "deactive", evt', hurt' = {} => Kept'
      PROVE  Awake'
  BY <1>w DEF Awake, Kept
<1>1. ASSUME \/ (\E f \in File : GrabBlock(f)) \/ ActiveWork \/ (\E f \in File : Restart(f))
             \/ StopSubscribe \/ StopFlag \/ StopSignal \/ UNCHANGED vars
      PROVE  Awake'
  <2>1. UNCHANGED <<queue, late, entries, wpc, idx>> /\ (evt' = evt \/ evt' = TRUE) /\ hurt \subseteq hurt'
    BY <1>1 DEF GrabBlock, Fill, ActiveWork, Restart, StopSubscribe, StopFlag, StopSignal, vars, workVars, fileVars
  <2>2. hurt' = {} => hurt = {}
    BY <2>1
  <2> QED
    BY <1>a, <2>1, <2>2 DEF Awake, Kept
<1>2. CASE PushBlock
  <2>1. /\ queue' = Append(queue, rbuf) /\ late' = late \cup {rbuf} /\ UNCHANGED <<entries, wpc, idx, evt, hurt>>
        /\ queue \in Seq(Block) /\ rbuf \in Block
    BY <1>2 DEF PushBlock, workVars, fileVars, Types, TypeOK
  <2>2. /\ Len(queue') = Len(queue) + 1 /\ queue'[Len(queue) + 1] = rbuf
        /\ \A k \in 1 .. Len(queue) : queue'[k] = queue[k]
        /\ \A k \in 1 .. Len(queue') : k \in 1 .. Len(queue) \/ k = Len(queue) + 1
    BY <2>1, AppendItems
  <2>3. LateOnly => LateOnly'
    BY <2>1, <2>2 DEF LateOnly
  <2>4. \A i : Stays(i)' <=> Stays(i)
    BY <2>1 DEF Stays, Unread
  <2> QED
    BY <2>1, <2>3, <2>4 DEF Awake
<1>3. CASE WorkLoop \/ WorkWake
  <2>1. /\ wpc' \in {"wait", "pop", "exit"} /\ UNCHANGED <<queue, late, hurt>>
        /\ (evt' = evt \/ evt')
    BY <1>3 DEF WorkLoop, WorkWake, Goto, Types, TypeOK
  <2>2. evt' \/ (wpc' = "wait" /\ ~evt)
    BY <1>3, <2>1 DEF WorkLoop, WorkWake, Goto, Types, TypeOK
  <2> QED
    BY <1>a, <2>1, <2>2 DEF Awake
<1>4. CASE PopBlock
  <2>1. wpc = "pop" /\ evt' = evt /\ wpc' \in {"block", "write", "sweep"} /\ evt
    BY <1>4 DEF PopBlock, AtEntry, Goto, Awake
  <2>2. CASE queue = << >>
    <3>1. Len(queue') = 0
      BY <1>4, <2>2 DEF PopBlock
    <3>2. LateOnly'
      BY <3>1 DEF LateOnly
    <3> QED
      BY <1>w, <2>1, <3>2 DEF Kept
  <2>3. CASE queue # << >>
    <3>1. wpc' = "block"
      BY <1>4, <2>3 DEF PopBlock, Goto
    <3> QED
      BY <2>1, <3>1 DEF Awake
  <2> QED
    BY <2>2, <2>3
<1>5. CASE HandleBlock
  <2>1. wpc = "block" /\ evt' = evt /\ wpc' \in {"write", "sweep"} /\ evt /\ hurt' = hurt
    BY <1>5 DEF HandleBlock, AtEntry, Goto, Awake
  <2> QED
    BY <1>5, <1>w, <2>1, StaysHandled
<1>6. ASSUME wpc \in {"write", "read"}, NEW d, Edit(d) \/ (entries' = entries /\ d = Entry),
             wpc' \in {"write", "read", "sweep", "dead"}, idx' = idx \/ idx' = idx + 1,
             d.sent = Entry.sent \/ idx' = idx + 1, UNCHANGED <<queue, late, evt>>, hurt \subseteq hurt',
             hurt' = {} => d.complete = Entry.complete \/ ~Stays(idx)
      PROVE  Awake'
  <2>1. evt /\ evt'
    BY <1>6 DEF Awake
  <2>2. hurt' = {} => Kept'
    BY <1>6, <1>k, StaysEdited
  <2> QED
    BY <1>6, <1>w, <2>1, <2>2
<1>7. CASE WriteNone
  BY <1>6, <1>7 DEF WriteNone, Goto, fileVars
<1>8. CASE ReadWait
  BY <1>6, <1>8 DEF ReadWait, AtEntry, Goto, fileVars
<1>9. CASE WriteClose
  <2>1. PICK d : Edit(d) /\ SameRead(d, Entry) /\ d.complete = Entry.complete
    BY <1>9, CloseEdit
  <2> QED
    BY <1>6, <1>9, <2>1 DEF WriteClose, Goto, SameRead
<1>10. CASE WriteOpen
  <2>1. /\ wpc = "write" /\ wpc' \in {"write", "read"} /\ UNCHANGED <<idx, queue, late, evt>> /\ hurt \subseteq hurt'
    BY <1>10 DEF WriteOpen, Goto, Fail, NoFail
  <2>2. CASE entries' = [entries EXCEPT ![idx].wopen = TRUE, ![idx].wpos = 0]
    <3>1. PICK d : Edit(d) /\ SameRead(d, Entry) /\ d.complete = Entry.complete
      BY <2>1, <2>2, OpenEdit
    <3> QED
      BY <1>6, <2>1, <3>1 DEF SameRead
  <2>3. CASE entries' = [entries EXCEPT ![idx].complete = TRUE] /\ Fail
    <3>1. PICK d : Edit(d) /\ SameRead(d, Entry)
      BY <2>1, <2>3, GiveUpEdit
    <3>2. hurt' # {}
      BY <2>3 DEF Fail
    <3> QED
      BY <1>6, <2>1, <3>1, <3>2 DEF SameRead
  <2> QED
    BY <1>10, <2>2, <2>3 DEF WriteOpen
<1>11. CASE WriteBlock
  <2>1. /\ wpc = "write" /\ wpc' = "read" /\ UNCHANGED <<idx, queue, late, evt>> /\ hurt \subseteq hurt'
        /\ Entry.pending # << >>
    BY <1>11 DEF WriteBlock, Goto, Fail, NoFail
  <2>2. PICK d : Edit(d) /\ SameRead(d, Entry) /\ d.complete = Entry.complete
    <3>1. \/ entries' = [entries EXCEPT ![idx].pending = Tail(@), ![idx].wpos = @ + 1, ![idx].wsize = @ + 1]
          \/ entries' = [entries EXCEPT ![idx].pending = Tail(@)]
      BY <1>11 DEF WriteBlock
    <3> QED
      BY <2>1, <3>1, WriteEdit, DropEdit
  <2> QED
    BY <1>6, <2>1, <2>2 DEF SameRead
<1>12. CASE ReadComplete
  <2>1. /\ wpc = "read" /\ wpc' \in {"write", "sweep"} /\ UNCHANGED <<queue, late, evt, hurt>> /\ idx' = idx + 1
        /\ ReadEnd
    BY <1>12 DEF ReadComplete, AtEntry, Goto
  <2>2. PICK d : Edit(d)
    BY <1>12, CompleteEdit
  <2>3. ~Stays(idx)
    <3>1. idx \in Int /\ Len(Entry.sent) = BlockCount[Entry.file] /\ entries[idx] = Entry
      BY <2>1, AtTheEntry DEF ReadEnd, RSize, Size
    <3>2. BlockCount[Entry.file] \in Nat
      BY <2>1, AtTheEntry, CountAssumption DEF EntryType
    <3> QED
      BY <2>1, <3>1, <3>2 DEF Stays, Unread
  <2> QED
    BY <1>6, <2>1, <2>2, <2>3
<1>13. CASE ReadOpen
  <2>1. /\ wpc = "read" /\ wpc' \in {"write", "sweep"} /\ UNCHANGED <<queue, late, evt>> /\ idx' = idx + 1
        /\ hurt \subseteq hurt'
    BY <1>13 DEF ReadOpen, AtEntry, Goto, Fail, NoFail
  <2>2. PICK d : Edit(d) /\ d.complete = Entry.complete
    BY <1>13, <2>1, ReadOpenEdit DEF ReadOpen
  <2> QED
    BY <1>6, <2>1, <2>2
<1>14. ASSUME NEW f \in File, ReadData(f) PROVE Awake'
  <2>1. /\ wpc = "read" /\ wpc' \in {"write", "sweep"} /\ UNCHANGED <<queue, late, evt>> /\ idx' = idx + 1
        /\ hurt \subseteq hurt'
    BY <1>14 DEF ReadData, AtEntry, Goto, Fail, NoFail
  <2>2. \E d : (Edit(d) \/ (entries' = entries /\ d = Entry)) /\ d.complete = Entry.complete
    <3>1. CASE entries' = entries
      BY <3>1
    <3>2. CASE entries' # entries
      BY <1>14, <3>2, DataEdit
    <3> QED
      BY <3>1, <3>2
  <2> QED
    BY <1>6, <2>1, <2>2
<1>15. CASE Sweep
  <2>1. /\ wpc = "sweep" /\ UNCHANGED <<queue, late, evt, hurt>> /\ entries' = Incomplete(entries)
        /\ wpc' \in {"deactive", "loop"} /\ (wpc' = "deactive" => entries' = << >>) /\ evt
    BY <1>15 DEF Sweep, Goto, Idle, Awake
  <2>2. Keeping(entries, entries')
    BY <2>1, EntryTypes, IncompleteKept
  <2>3. ASSUME hurt' = {}, wpc' = "deactive" PROVE LateOnly'
    <3>1. \A i \in 1 .. Len(entries) : entries[i].complete
      BY <2>1, <2>2, <2>3 DEF Keeping, Keeps
    <3>2. LateOnly
      BY <1>k, <2>1, <2>3, <3>1 DEF Kept, Stays
    <3> QED
      BY <1>a, <2>1, <3>2
  <2> QED
    BY <2>1, <2>3 DEF Awake
<1>16. CASE DeactiveWork
  <2>1. wpc = "deactive" /\ wpc' = "loop" /\ UNCHANGED <<queue, late, hurt>>
    BY <1>16 DEF DeactiveWork, Goto
  <2> QED
    BY <1>a, <2>1 DEF Awake
<1>17. CASE StopJoin
  <2>1. /\ UNCHANGED <<queue, late, hurt, evt>> /\ (wpc' = "dead" \/ (wpc' = wpc /\ wpc = "exit"))
        /\ wpc \in {"exit", "write", "read"}
    BY <1>17 DEF StopJoin, Goto
  <2> QED
    BY <2>1 DEF Awake
<1> QED
  BY <1>1, <1>2, <1>3, <1>4, <1>5, <1>7, <1>8, <1>9, <1>10, <1>11, <1>12, <1>13, <1>14, <1>15, <1>16, <1>17
     DEF Next, Callback, Work, Stop

-----------------------------------------------------------------------------
(* What the inductive invariant says of the properties.                    *)

LEMMA UptoItself ==
  ASSUME NEW n \in Nat
  PROVE  Len(Upto(n)) = n /\ Upto(n) = [k \in 1 .. Len(Upto(n)) |-> k - 1]
<1>1. Upto(n) \in Seq(Nat) /\ Len(Upto(n)) = n
  BY DEF Upto
<1> QED
  BY <1>1 DEF Upto

LEMMA SentIsWhole ==
  ASSUME Types, Entries, Flow
  PROVE  PublishedWhole
<1> SUFFICES ASSUME NEW i \in 1 .. Len(entries), entries[i].file \notin hurt
             PROVE  LET e == entries[i] IN
                    /\ e.sent = [k \in 1 .. Len(e.sent) |-> k - 1] /\ Len(e.sent) <= e.wsize
                    /\ e.complete => Len(e.sent) = BlockCount[e.file] /\ e.pending = << >>
  BY DEF PublishedWhole
<1>1. /\ entries[i].file \in Undisturbed /\ entries[i].pending \in Seq(Block)
      /\ entries[i].wsize \in Nat /\ Len(entries[i].pending) \in Nat /\ entries[i].rpos \in Nat
  BY EntryTypes DEF Undisturbed
<1>2. entries[i].wsize + Len(entries[i].pending) <= BlockCount[entries[i].file]
  BY <1>1, Bounded
<1>3. /\ entries[i].sent = Upto(entries[i].rpos) /\ entries[i].rpos <= entries[i].wsize
      /\ entries[i].complete => entries[i].rpos = BlockCount[entries[i].file]
  BY <1>1 DEF Entries, Good, Fine
<1>4. entries[i].complete => Len(entries[i].pending) = 0
  BY <1>1, <1>2, <1>3
<1>5. /\ Len(entries[i].sent) = entries[i].rpos
      /\ entries[i].sent = [k \in 1 .. Len(entries[i].sent) |-> k - 1]
  BY <1>1, <1>3, UptoItself
<1> QED
  BY <1>1, <1>3, <1>4, <1>5

LEMMA InOnce ==
  ASSUME NEW s, NEW b, \A k, l \in 1 .. Len(s) : s[k] = b /\ s[l] = b => k = l
  PROVE  In(s, b) = IF \E k \in 1 .. Len(s) : s[k] = b THEN 1 ELSE 0
<1> DEFINE S == {i \in 1 .. Len(s) : s[i] = b}
<1>1. CASE S = {}
  BY <1>1, FS_EmptySet DEF In
<1>2. CASE S # {}
  <2>1. Cardinality(S) = 1
    BY <1>2, ExactlyOne
  <2> QED
    BY <1>2, <2>1 DEF In
<1> QED
  BY <1>1, <1>2

(* The counts of the blocks' lists come to one.                            *)
LEMMA OnePlace ==
  ASSUME Types, Owned
  PROVE  BlockOwned
<1> SUFFICES ASSUME NEW b \in Block PROVE Places(b) <= 1 /\ (Places(b) = 0 => hurt # {})
  BY DEF BlockOwned
<1>1. b # NoBlock /\ Len(queue) \in Nat
  BY BlockAssumption, WayItems
<1>2. \A k, l \in 1 .. Len(Way) : Way[k] = b /\ Way[l] = b => k = l
  BY DEF Owned, Once
<1>3. \A k, l \in 1 .. Len(queue) : queue[k] = b /\ queue[l] = b => k = l
  <2> SUFFICES ASSUME NEW k \in 1 .. Len(queue), NEW l \in 1 .. Len(queue), queue[k] = b, queue[l] = b
               PROVE  k = l
    OBVIOUS
  <2> DEFINE m == Len(Opt(wbuf))
  <2>1. k + m \in 1 .. Len(Way) /\ l + m \in 1 .. Len(Way) /\ Way[k + m] = b /\ Way[l + m] = b /\ m \in Nat
    BY WayItems
  <2>2. k + m = l + m
    BY <1>2, <2>1
  <2> HIDE DEF m
  <2> QED
    BY <2>1, <2>2
<1>4. In(queue, b) = IF \E j \in 1 .. Len(queue) : queue[j] = b THEN 1 ELSE 0
  BY <1>3, InOnce
<1>5. ~(wbuf = b /\ rbuf = b) /\ ~(wbuf = b /\ \E j \in 1 .. Len(queue) : queue[j] = b)
      /\ ~(rbuf = b /\ \E j \in 1 .. Len(queue) : queue[j] = b)
  <2> DEFINE m == Len(Opt(wbuf))
  <2>1. m = (IF wbuf = NoBlock THEN 0 ELSE 1) /\ Len(Way) = m + Len(queue) + (IF rbuf = NoBlock THEN 0 ELSE 1)
    BY WayItems
  <2>2. wbuf = b => 1 \in 1 .. Len(Way) /\ Way[1] = b /\ m = 1
    BY <1>1, <2>1, WayItems
  <2>3. rbuf = b => Len(Way) \in 1 .. Len(Way) /\ Way[Len(Way)] = b /\ Len(Way) = m + Len(queue) + 1
    BY <1>1, <2>1, WayItems
  <2>4. \A j \in 1 .. Len(queue) : j + m \in 1 .. Len(Way) /\ Way[j + m] = queue[j]
    BY WayItems
  <2> HIDE DEF m
  <2>5. ASSUME wbuf = b, rbuf = b PROVE FALSE
    <3>1. 1 = 1 + Len(queue) + 1
      BY <1>2, <2>2, <2>3, <2>5
    <3> QED
      BY <1>1, <3>1
  <2>6. ASSUME wbuf = b, NEW j \in 1 .. Len(queue), queue[j] = b PROVE FALSE
    <3>1. j + 1 = 1
      BY <1>2, <2>2, <2>4, <2>6
    <3> QED
      BY <3>1
  <2>7. ASSUME rbuf = b, NEW j \in 1 .. Len(queue), queue[j] = b PROVE FALSE
    <3>1. j + m = m + Len(queue) + 1 /\ m \in Nat
      BY <1>2, <2>1, <2>3, <2>4, <2>7
    <3> QED
      BY <1>1, <3>1
  <2> QED
    BY <2>5, <2>6, <2>7
<1>6. (IF rbuf = b THEN 1 ELSE 0) + (IF wbuf = b THEN 1 ELSE 0) + In(queue, b) = IF OnWay(b) THEN 1 ELSE 0
  BY <1>4, <1>5, OnWayIs
<1> DEFINE In1 == {i \in 1 .. Len(entries) : In(entries[i].pending, b) = 1}
           In2 == {i \in 1 .. Len(entries) : In(entries[i].pending, b) > 1}
<1>7. ASSUME NEW i \in 1 .. Len(entries)
      PROVE  In(entries[i].pending, b)
               = IF \E k \in 1 .. Len(entries[i].pending) : entries[i].pending[k] = b THEN 1 ELSE 0
  <2>1. \A k, l \in 1 .. Len(entries[i].pending) : entries[i].pending[k] = b /\ entries[i].pending[l] = b => k = l
    BY OnceHere
  <2> QED
    BY <2>1, InOnce
<1>8. Cardinality(In2) = 0
  <2>1. In2 = {}
    BY <1>7
  <2> QED
    BY <2>1, FS_EmptySet
<1>9. \A i, j \in In1 : i = j
  <2> SUFFICES ASSUME NEW i \in In1, NEW j \in In1 PROVE i = j
    OBVIOUS
  <2>1. PICK k \in 1 .. Len(entries[i].pending) : entries[i].pending[k] = b
    BY <1>7
  <2>2. PICK l \in 1 .. Len(entries[j].pending) : entries[j].pending[l] = b
    BY <1>7
  <2> QED
    BY <2>1, <2>2, OnceHere
<1>10. In1 # {} <=> Waiting(b)
  BY <1>7 DEF Waiting
<1> HIDE DEF In1, In2
<1>11. Cardinality(In1) = IF Waiting(b) THEN 1 ELSE 0
  <2>1. CASE In1 = {}
    BY <1>10, <2>1, FS_EmptySet
  <2>2. CASE In1 # {}
    BY <1>9, <1>10, <2>2, ExactlyOne
  <2> QED
    BY <2>1, <2>2
<1> DEFINE rb == IF rbuf = b THEN 1 ELSE 0
           wb == IF wbuf = b THEN 1 ELSE 0
<1>12. Places(b) = (IF b \in pool THEN 1 ELSE 0) + (IF b \in heap THEN 1 ELSE 0)
                   + rb + wb + In(queue, b) + Cardinality(In1) + 2 * Cardinality(In2)
  BY DEF Places, In1, In2
<1>13. rb \in Nat /\ wb \in Nat /\ In(queue, b) \in Nat /\ rb + wb + In(queue, b) = IF OnWay(b) THEN 1 ELSE 0
  BY <1>4, <1>6
<1> HIDE DEF rb, wb
<1>14. Places(b) = (IF b \in pool THEN 1 ELSE 0) + (IF b \in heap THEN 1 ELSE 0)
                   + (IF OnWay(b) THEN 1 ELSE 0) + (IF Waiting(b) THEN 1 ELSE 0)
  BY <1>8, <1>11, <1>12, <1>13
<1>15. /\ b \in pool => b \notin heap /\ ~OnWay(b) /\ ~Waiting(b)
       /\ b \in heap => ~OnWay(b) /\ ~Waiting(b)
       /\ OnWay(b) => ~Waiting(b)
       /\ hurt = {} => b \in pool \/ b \in heap \/ OnWay(b) \/ Waiting(b)
  BY DEF Owned, Apart, NoneLost
<1>16. Places(b) <= 1
  BY <1>14, <1>15
<1>17. Places(b) = 0 => hurt # {}
  BY <1>14, <1>15
<1> QED
  BY <1>16, <1>17

LEMMA DescriptorsCounted ==
  ASSUME Types, Fds, Entries
  PROVE  DescriptorsKept
<1> SUFFICES ASSUME hurt = {} PROVE DescriptorsKept
  BY DEF DescriptorsKept
<1>1. ASSUME wpc = "read" PROVE ~entries[idx].complete
  <2>1. Entry.file \in Undisturbed /\ entries[idx] = Entry
    BY <1>1, AtTheEntry DEF EntryType, Undisturbed
  <2> QED
    BY <1>1, <2>1, AtRead
<1>2. Reading = {i \in 1 .. Len(entries) : entries[i].ropen = "open" /\ ~entries[i].complete}
  BY <1>1 DEF Reading
<1> QED
  BY <1>2 DEF DescriptorsKept, Fds, Writing

-----------------------------------------------------------------------------
(* The inductive invariant.                                                *)

LEMMA InitInv == Init => IInv
<1> SUFFICES ASSUME Init PROVE IInv
  OBVIOUS
<1>1. Blank \in [file : File, seq : Nat]
  BY CountAssumption DEF Blank
<1>2. Types
  BY <1>1, BlockAssumption, CountAssumption, BoundAssumption DEF Init, Types, TypeOK
<1>3. Way = << >> /\ Len(Way) = 0 /\ entries = << >> /\ Len(entries) = 0 /\ Len(queue) = 0
  BY DEF Init, Way, Opt
<1>4. Apart /\ Once /\ NoneLost
  BY <1>3, BlockAssumption DEF Init, Apart, Once, NoneLost, OnWay, Waiting
<1>5. Fds
  <2>1. Writing = {} /\ Reading = {}
    BY <1>3 DEF Writing, Reading
  <2> QED
    BY <2>1, FS_EmptySet DEF Init, Fds
<1>6. Fresh /\ Entries
  BY <1>3 DEF Fresh, Entries
<1>7. Flow
  <2> SUFFICES ASSUME NEW f \in File PROVE WayAt(f, 0) /\ HeldAt(f, 0)
    BY DEF Flow, Undisturbed
  <2>1. next[f] = 0
    BY DEF Init
  <2>2. EntriesOf(f) = {}
    BY <1>3 DEF EntriesOf
  <2> QED
    BY <1>3, <2>1, <2>2 DEF WayAt, HeldAt
<1>8. Awake
  BY <1>3 DEF Init, Awake, LateOnly
<1> QED
  BY <1>2, <1>4, <1>5, <1>6, <1>7, <1>8 DEF IInv, Owned

LEMMA StepInv == IInv /\ [Next]_vars => IInv'
<1> SUFFICES ASSUME IInv, [Next]_vars PROVE IInv'
  OBVIOUS
<1>1. Types /\ Owned /\ Fds /\ Fresh /\ Entries /\ Flow /\ Awake
  BY DEF IInv, Owned
<1>2. fds' \in Nat /\ Fds'
  BY <1>1, NextFds
<1>3. Types'
  BY <1>1, <1>2, NextTypes
<1>4. hurt = {} => \A i \in 1 .. Len(entries) : entries[i].complete => entries[i].pending = << >>
  BY <1>1, SentIsWhole DEF PublishedWhole, Types, TypeOK
<1>5. Owned'
  BY <1>1, <1>4, NextPlaces
<1>6. Fresh'
  BY <1>1, NextFresh
<1>7. Entries' /\ Flow'
  BY <1>1, NextFlow
<1>8. Awake'
  BY <1>1, NextAwake
<1> QED
  BY <1>2, <1>3, <1>5, <1>6, <1>7, <1>8 DEF IInv, Owned

LEMMA Invariance == Spec => []IInv
<1> QED
  BY InitInv, StepInv, PTL DEF Spec

(* Every block is in at most one of the pool, the lists and the threads'   *)
(* hands, and in exactly one as long as nothing went wrong; and then every *)
(* open descriptor is an entry's that is not complete: what                *)
(* file_entry_write_handle, file_entry_read_handle and the freeing of an   *)
(* entry have to keep between them.                                        *)
THEOREM BlocksAndDescriptorsKept == Spec => []BlocksKept
<1>1. IInv => BlocksKept
  BY OnePlace, DescriptorsCounted DEF IInv, Owned, BlocksKept, Types
<1> QED
  BY <1>1, Invariance, PTL

(* What is published of a file that was not disturbed is its beginning,    *)
(* never more than was written, and a complete file was published whole,   *)
(* every block once and in its place, whatever the order in which the      *)
(* callback, the writes and the reads of the two positions in it           *)
(* interleave.                                                             *)
THEOREM WholePublished == Spec => []PublishedWhole
<1>1. IInv => PublishedWhole
  BY SentIsWhole DEF IInv
<1> QED
  BY <1>1, Invariance, PTL

(* The end of the worker: it sleeps only while run_ is set, or with the    *)
(* event up that file_transmit_stop_service has signalled.                 *)
StopSeen == /\ spc \in {"signal", "join"} => ~run
            /\ spc = "join" => ~Asleep

LEMMA NextStopSeen == StopSeen /\ [Next]_vars => StopSeen'
<1> SUFFICES ASSUME StopSeen, [Next]_vars PROVE StopSeen'
  OBVIOUS
<1> USE DEF StopSeen, Asleep, srcVars, memVars, rxVars, workVars, fileVars
<1>1. CASE Callback
  BY <1>1 DEF Callback, GrabBlock, PushBlock, ActiveWork, Fill
<1>2. CASE Work
  <2>1. CASE WorkLoop \/ WorkWake \/ PopBlock \/ HandleBlock
    BY <1>2, <2>1 DEF WorkLoop, WorkWake, PopBlock, HandleBlock, Goto, AtEntry
  <2>2. CASE WriteClose \/ WriteOpen \/ WriteNone \/ WriteBlock
    BY <1>2, <2>2 DEF WriteClose, WriteOpen, WriteNone, WriteBlock, Goto
  <2>3. CASE ReadComplete \/ ReadOpen \/ ReadWait \/ \E f \in File : ReadData(f)
    BY <1>2, <2>3 DEF ReadComplete, ReadOpen, ReadWait, ReadData, AtEntry, Goto
  <2>4. CASE Sweep \/ DeactiveWork
    BY <1>2, <2>4 DEF Sweep, DeactiveWork, Goto
  <2> QED
    BY <1>2, <2>1, <2>2, <2>3, <2>4 DEF Work
<1>3. CASE Stop
  BY <1>3 DEF Stop, StopSubscribe, StopFlag, StopSignal, StopJoin, Goto
<1>4. CASE (\E f \in File : Restart(f)) \/ UNCHANGED vars
  BY <1>4 DEF Restart, vars
<1> QED
  BY <1>1, <1>2, <1>3, <1>4 DEF Next

(* The worker sleeps with its event cleared on blocks only that came after *)
(* it looked at the queue, as long as nothing went wrong: an entry that    *)
(* needs more keeps the event set until its last block has been read.  And *)
(* when the service waits for the worker to end, it does not sleep at all. *)
THEOREM SleepsOnLate == Spec => []AsleepOnlyLate
<1>1. IInv /\ StopSeen => AsleepOnlyLate
  <2> SUFFICES ASSUME IInv, Asleep, hurt = {} PROVE ToSet(queue) \subseteq late
    BY DEF AsleepOnlyLate, StopSeen
  <2>1. LateOnly
    BY DEF IInv, Awake, Asleep
  <2> QED
    BY <2>1 DEF LateOnly, ToSet
<1>2. Init => StopSeen
  BY DEF Init, StopSeen
<1> QED
  BY <1>1, <1>2, NextStopSeen, Invariance, PTL DEF Spec
=============================================================================
