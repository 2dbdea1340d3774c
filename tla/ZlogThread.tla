----------------------------- MODULE ZlogThread ----------------------------
(***************************************************************************)
(* What a thread keeps between two records (thread.c, event.c, mdc.c) and  *)
(* how a format is parsed into conversions and a conversion writes a piece *)
(* of the message (spec.c, format.c), over the buffers of ZlogBuf and the  *)
(* hash table of ZlogStore.                                                *)
(*                                                                         *)
(* A clock reading is [sec, usec]; a text that shows the time is the pair  *)
(* <<format, second>>.  strftime, getpid and the host name do not fail.    *)
(***************************************************************************)
EXTENDS ZlogBuf, ZlogStore

(* zlog_event_new: calloc leaves every cache at second 0. *)
EventNew(count, tid, host) ==
  [caches |-> [i \in 0 .. count - 1 |-> [sec |-> 0, str |-> << >>]],
   localSec |-> 0, stamp |-> [sec |-> 0, usec |-> 0], pid |-> 0, lastPid |-> 0, pidStr |-> << >>,
   tid |-> tid, host |-> host, call |-> << >>]

(* zlog_event_set_fmt and zlog_event_set_hex: the call's data come in, the *)
(* clock and the pid are to be asked again.                                *)
EventSetFmt(event, call) ==
  [event EXCEPT !.call = [cmd |-> "fmt"] @@ call, !.pid = 0, !.stamp.sec = 0]
EventSetHex(event, call) ==
  [event EXCEPT !.call = [cmd |-> "hex"] @@ call, !.pid = 0, !.stamp.sec = 0]

CutMark == <<".", ".", ".", "\n">>

ThreadNew(version, min, max, count, tid, host) ==
  [version |-> version, event |-> EventNew(count, tid, host), mdc |-> TableNew(20),
   pre |-> BufNew(min, max, CutMark), msg |-> BufNew(min, max, CutMark)]

(* zlog_thread_rebuild_msg_buf leaves buffers of the same sizes alone. *)
RebuildMsgBuf(thread, min, max) ==
  IF thread.msg.min = min /\ thread.msg.max = max THEN thread
  ELSE [thread EXCEPT !.pre = BufNew(min, max, CutMark), !.msg = BufNew(min, max, CutMark)]

RebuildEvent(thread, count) ==
  [thread EXCEPT !.event = EventNew(count, thread.event.tid, thread.event.host)]

(* zlog_mdc_put keeps a value cut to its slot, with the length it had.     *)
MdcPut(mdc, hash, key, value, slot) ==
  Put(mdc, hash, key, [str |-> SubSeq(value, 1, slot), len |-> Len(value)])
MdcGet(mdc, hash, key) == IF Has(mdc, hash, key) THEN Get(mdc, hash, key).str ELSE << >>
MdcRemove(mdc, hash, key) == TableRemove(mdc, hash, key)
MdcClean(mdc) == TableClean(mdc)

-----------------------------------------------------------------------------
(* A conversion in a pattern is [letter, fmt, width, closed]: "str" is a   *)
(* constant text, width is "none" or [left, zero, min, max], closed tells  *)
(* whether the parenthesis of %d(..) or %M(..) is.                         *)
Letters == {"c", "D", "F", "f", "H", "k", "L", "m", "n", "r", "p", "U", "v", "V", "t", "T", "%",
            "ms", "us", "d", "M", "str"}

(* zlog_spec_parse_print_fmt *)
ParsePrintFmt(width) ==
  [left |-> width.left, zero |-> ~ width.left /\ width.zero, min |-> width.min, max |-> width.max]

Adjust(item) ==
  IF item.letter = "str" \/ item.width = << >>
  THEN [direct |-> TRUE, left |-> FALSE, zero |-> FALSE, min |-> 0, max |-> 0]
  ELSE [direct |-> FALSE] @@ ParsePrintFmt(item.width)

DefaultTime == "%F %T"
ShowsTime == {"d", "D"}

(* zlog_spec_new answers the conversion, or fails; every conversion that   *)
(* shows the time has a cache of its own.                                  *)
SpecGood(item) == item.letter \in Letters /\ (item.letter \in {"d", "M"} => item.closed)

SpecNew(item, count) ==
  [letter |-> item.letter, adjust |-> Adjust(item),
   fmt |-> IF item.letter = "D" \/ (item.letter = "d" /\ item.fmt = "") THEN DefaultTime ELSE item.fmt,
   cache |-> IF item.letter \in ShowsTime THEN count ELSE 0]

(* zlog_format_new *)
FormatNew(items, count) ==
  FoldLeft(LAMBDA f, item :
             IF ~ f.ok \/ ~ SpecGood(item) THEN [f EXCEPT !.ok = FALSE]
             ELSE [f EXCEPT !.specs = Append(@, SpecNew(item, f.count)),
                            !.count = IF item.letter \in ShowsTime THEN @ + 1 ELSE @],
           [ok |-> TRUE, specs |-> << >>, count |-> count], items)

(* zlog_rule_parse_path: a path without a conversion stays a text. *)
PathNew(items, count) ==
  IF \A i \in DOMAIN items : items[i].letter = "str" THEN [ok |-> TRUE, specs |-> << >>, count |-> count]
  ELSE FormatNew(items, count)

-----------------------------------------------------------------------------
(* The clock is asked once in the life of an event. *)
Stamped(event, now) == IF event.stamp.sec = 0 THEN [event EXCEPT !.stamp = now] ELSE event

(* zlog_spec_write_time: the broken-down time and the text of the cache    *)
(* are made again when their second is not the event's.                    *)
WriteTime(event, spec, now) ==
  LET e == Stamped(event, now)
      f == IF e.localSec # e.stamp.sec THEN [e EXCEPT !.localSec = e.stamp.sec] ELSE e
      g == IF f.caches[spec.cache].sec # f.stamp.sec
           THEN [f EXCEPT !.caches[spec.cache] = [sec |-> f.stamp.sec, str |-> <<spec.fmt, f.localSec>>]]
           ELSE f
  IN  [event |-> g, what |-> g.caches[spec.cache].str]

WriteMs(event, now) ==
  LET e == Stamped(event, now) IN [event |-> e, what |-> Pad(Digits(e.stamp.usec \div 1000, 10), 3)]
WriteUs(event, now) ==
  LET e == Stamped(event, now) IN [event |-> e, what |-> Pad(Digits(e.stamp.usec, 10), 6)]

(* zlog_spec_write_pid *)
WritePid(event, pid) ==
  LET e == IF event.pid # 0 THEN event
           ELSE IF pid # event.lastPid
                THEN [event EXCEPT !.pid = pid, !.lastPid = pid, !.pidStr = Digits(pid, 10)]
                ELSE [event EXCEPT !.pid = pid]
  IN  [event |-> e, what |-> e.pidStr]

(* A path is a sequence of words with "/" between; %f shows the last one.  *)
WriteSrcfile(event) == IF event.call.file = << >> THEN <<"(file=null)">> ELSE event.call.file
WriteSrcfileNeat(event) ==
  LET file  == event.call.file
      slash == {i \in DOMAIN file : file[i] = "/"}
  IN  IF slash = {} THEN WriteSrcfile(event) ELSE SubSeq(file, Max(slash) + 1, Len(file))
WriteSrcfunc(event) == IF event.call.file = << >> THEN <<"(func=null)">> ELSE event.call.func

(* The pieces of the hex dump of bytes: a head, then lines of 16 bytes     *)
(* with their number, the bytes in hex and as characters (a printable one  *)
(* stands as "c").                                                         *)
HexHead == <<"head">>
Printable(c) == IF c \in 32 .. 126 THEN <<"c">> ELSE <<".">>
HexLine(bytes, line, width) ==
  LET at(i) == line * width + i
      hex(i) == IF at(i) < Len(bytes) THEN Pad(Digits(bytes[at(i) + 1], 16), 2) \o <<" ">> ELSE Spaces(3)
      chr(i) == IF at(i) < Len(bytes) THEN Printable(bytes[at(i) + 1]) ELSE Spaces(1)
  IN  <<"\n">> \o Pad(Digits(line + 1, 10), 10) \o Spaces(3)
      \o FlattenSeq([i \in 1 .. width |-> hex(i - 1)]) \o Spaces(2)
      \o FlattenSeq([i \in 1 .. width |-> chr(i - 1)])
HexLines(bytes, width) == IF bytes = << >> THEN 1 ELSE (Len(bytes) + width - 1) \div width
HexDump(bytes, width) ==
  HexHead \o FlattenSeq([k \in 1 .. HexLines(bytes, width) |-> HexLine(bytes, k - 1, width)])
=============================================================================
