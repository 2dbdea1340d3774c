----------------------------- MODULE ZlogChecks ----------------------------
(* What the operators of zlog must compute, over bounded inputs; TLC       *)
(* evaluates the assumptions when it loads the module.                     *)
EXTENDS ZlogThread

C == INSTANCE ZlogConf WITH Levels <- 0 .. 31
D == INSTANCE ZlogFiles

Strings(chars, n) == UNION {[1 .. k -> chars] : k \in 0 .. n}

-----------------------------------------------------------------------------
(* The bitmap of a rule holds the levels that the rule lets through, also  *)
(* for the level -1 of an unknown name and at the ends of a byte           *)
(* (rule.c:695-732 against rule.c:971-1000).                               *)
ASSUME BitmapAgrees ==
  \A cmp \in {"*", ".", "=", "!"}, l \in -1 .. 31 :
    C!Bitmap(cmp, l) = {x \in 0 .. 31 : C!Lets([cmp |-> cmp, level |-> l], x)}

(* zlog_level_switch leaves the bitmap of a rule for this level and more.  *)
ASSUME SwitchAgrees == \A l \in 0 .. 31 : C!LevelSwitch(l) = C!Bitmap(".", l)

(* A category is served by the rules that match it, in their order, and by *)
(* one wastebin rule at most.                                              *)
Rules_ == [cat : {<<"a">>, <<"a", "b">>, <<"*">>, <<"!">>}, under : BOOLEAN]
ASSUME FitAgrees ==
  \A rules \in Strings(Rules_, 2), name \in {<<"a">>, <<"a", "b">>, <<"c">>} :
    LET fit == C!FitRules(rules, name)
    IN  /\ \A i, j \in DOMAIN fit : i < j => fit[i] < fit[j]
        /\ \A i \in DOMAIN rules : C!MatchCategory(rules[i], name) => i \in ToSet(fit)
        /\ (\E i \in ToSet(fit) : ~ C!MatchCategory(rules[i], name)) => Len(fit) = 1

-----------------------------------------------------------------------------
(* A writer keeps the text in the buffer with a byte to spare, the buffer  *)
(* under its limit, and when nothing was cut the text is what was written. *)
Buffers == {BufNew(min, max, cut) : min \in 1 .. 2, max \in {0, 3, 5}, cut \in {<< >>, <<"~", "~">>}}
Sound(b, s, r) ==
  /\ Len(r.buf.text) < r.buf.real /\ (b.max # 0 => r.buf.real <= b.max)
  /\ r.rc = 0 => r.buf.text = b.text \o s
  /\ r.rc = 1 => Len(r.buf.text) = b.max - 1
ASSUME WritersSound ==
  \A b0 \in Buffers, s \in Strings({"x"}, 3), t \in Strings({"y"}, 4) :
    LET b == Append_(b0, s).buf
    IN  Sound(b, t, Append_(b, t)) /\ Sound(b, t, Vprintf(b, t))

(* A text that is adjusted has its width when it fits, and is filled on    *)
(* the side that is asked for.                                             *)
ASSUME AdjustSound ==
  \A b \in Buffers, s \in Strings({"x"}, 3), left, zero \in BOOLEAN, in, out \in 0 .. 4 :
    LET r    == AdjustAppend(b, s, left, zero, in, out)
        cut  == IF out # 0 /\ out < Len(s) THEN out ELSE Len(s)
        fill == SelectSeq(r.buf.text, LAMBDA c : c # "x")
    IN  /\ Len(r.buf.text) < r.buf.real /\ (b.max # 0 => r.buf.real <= b.max)
        /\ r.rc = 0 => /\ Len(r.buf.text) = Larger(in, cut)
                       /\ r.buf.text = IF left THEN SubSeq(s, 1, cut) \o fill ELSE fill \o SubSeq(s, 1, cut)

(* A dump has a line for every 16 bytes or part of them, and one for none. *)
ASSUME DumpSound ==
  \A n \in 0 .. 5 : LET bytes == [i \in 1 .. n |-> 64 + i]  dump == HexDump(bytes, 2)
                    IN  Len(SelectSeq(dump, LAMBDA c : c = "\n")) = (IF n = 0 THEN 1 ELSE (n + 1) \div 2)

-----------------------------------------------------------------------------
(* A list that only grows at its end never writes outside its array, also  *)
(* where it is full (zc_arraylist.c:55-83).                                *)
Grown(size, n) == FoldLeft(LAMBDA l, k : ListAdd(l, k), ListNew(size), [i \in 1 .. n |-> i])
ASSUME ListGrows ==
  \A size \in 1 .. 3, n \in 0 .. 9 :
    LET l == Grown(size, n)
    IN  ListItems(l) = [i \in 1 .. n |-> i] /\ InRoom(l, l.len)

(* zc_arraylist_sortadd keeps a list sorted. *)
ASSUME ListSorts ==
  \A keys \in Strings(0 .. 3, 4) :
    LET greater == {p \in (0 .. 3) \X (0 .. 3) : p[1] > p[2]}
        l == FoldLeft(LAMBDA m, k : ListSortAdd(m, greater, k), ListNew(2), keys)
        s == ListItems(l)
    IN  Len(s) = Len(keys) /\ \A i \in 1 .. Len(s) - 1 : s[i] <= s[i + 1]

(* A table answers like the function it stores, before and after it is     *)
(* rehashed, whatever the hash of the keys (zc_hashtable.c:88-330).        *)
Key == 1 .. 4
Filled(hash, keys) == FoldLeft(LAMBDA t, i : Put(t, hash, keys[i], i), TableNew(2), [i \in DOMAIN keys |-> i])
ASSUME TableAgrees ==
  \A hash \in {[k \in Key |-> 0], [k \in Key |-> k], [k \in Key |-> 2 * k]}, keys \in [1 .. 5 -> Key], x \in Key :
    LET t == Filled(hash, keys)  u == TableRemove(t, hash, x)
        last(k) == Max({i \in DOMAIN keys : keys[i] = k})
    IN  /\ \A k \in Key : Has(t, hash, k) <=> k \in ToSet(keys)
        /\ \A k \in ToSet(keys) : Get(t, hash, k) = last(k)
        /\ t.n = Cardinality(ToSet(keys)) /\ Len(Entries(t)) = t.n
        /\ \A k \in Key : Has(u, hash, k) <=> k \in ToSet(keys) \ {x}

-----------------------------------------------------------------------------
(* From a directory whose numbers leave no gap of two, a rotation that is  *)
(* broken off after any of its calls, and every later one, renames no file *)
(* onto another one; rolling leaves no more archives than allowed.         *)
Dirs == {d \in UNION {[S \cup {D!Base} -> {0}] : S \in SUBSET (0 .. 3)} : TRUE}
Gapless(d) == LET f == D!Archives(d) IN \A i \in DOMAIN f : f[i] <= i
After(d, plan) == FoldLeft(LAMBDA s, step : [dir |-> D!Apply(s.dir, step),
                                              bad |-> s.bad \/ D!Overwrites(s.dir, step)],
                           [dir |-> d, bad |-> FALSE], plan)
ASSUME RollSound ==
  \A d \in {e \in Dirs : Gapless(e)}, max \in 0 .. 3 :
    LET plan == D!Plan(d, "r", max)
    IN  \A k \in 0 .. Len(plan) :
          LET mid == After(d, SubSeq(plan, 1, k))
          IN  /\ ~ mid.bad /\ Gapless(mid.dir)
              /\ (k = Len(plan) /\ max > 0) => Cardinality(DOMAIN mid.dir) <= max
ASSUME SeqSound ==
  \A d \in Dirs, max \in 0 .. 3 :
    LET plan == D!Plan(d, "s", max)
    IN  \A k \in 0 .. Len(plan) :
          LET mid == After(d, SubSeq(plan, 1, k))
          IN  ~ mid.bad /\ ((k = Len(plan) /\ max > 0) => Cardinality(DOMAIN mid.dir) <= max + 1)

-----------------------------------------------------------------------------
(* Every conversion of an event shows the second of the event, whatever    *)
(* the caches hold of events before it, also when the clock goes back; the *)
(* pid is the one of the process, also after a fork.                       *)
Specs == FormatNew(<<[letter |-> "d", fmt |-> "%T", width |-> << >>, closed |-> TRUE],
                     [letter |-> "D", fmt |-> "", width |-> << >>, closed |-> TRUE]>>, 0)
Shown(e0, secs) ==
  FoldLeft(LAMBDA s, now :
             LET e == EventSetFmt(s.event, [file |-> << >>])
                 a == WriteTime(e, Specs.specs[1], [sec |-> now, usec |-> 0])
                 b == WriteTime(a.event, Specs.specs[2], [sec |-> now + 1, usec |-> 0])
             IN  [event |-> b.event,
                  good |-> s.good /\ a.what = <<"%T", now>> /\ b.what = <<DefaultTime, now>>],
           [event |-> e0, good |-> TRUE], secs)
ASSUME TimeCurrent ==
  Specs.count = 2 /\ \A secs \in Strings(1 .. 3, 4) : Shown(EventNew(2, 1, << >>), secs).good
ASSUME PidCurrent ==
  \A pids \in Strings(1 .. 2, 3) :
    FoldLeft(LAMBDA s, pid : LET w == WritePid(EventSetHex(s.event, << >>), pid)
                             IN  [event |-> w.event, good |-> s.good /\ w.what = Digits(pid, 10)],
             [event |-> EventNew(1, 1, << >>), good |-> TRUE], pids).good
=============================================================================
