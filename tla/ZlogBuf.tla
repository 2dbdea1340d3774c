------------------------------ MODULE ZlogBuf ------------------------------
(***************************************************************************)
(* A thread's message buffer (buf.c), the width of a conversion (spec.c)   *)
(* and a format as the sequence of its conversions (format.c).             *)
(*                                                                         *)
(* A buffer is [min, max, real, text, cut]: text is a sequence of          *)
(* characters and cut the string that marks a text that was cut off.  An   *)
(* operation returns the new buffer and its return code: 0, 1 when the     *)
(* limit cut the text.  realloc does not fail here.                        *)
(***************************************************************************)
EXTENDS Integers, Sequences, SequencesExt

NoBuf == [min |-> 0, max |-> 0, real |-> 0, text |-> << >>, cut |-> << >>]

BufNew(min, max, cut) ==
  IF min = 0 \/ (max # 0 /\ max < min) THEN NoBuf
  ELSE [min |-> min, max |-> max, real |-> min, text |-> << >>, cut |-> cut]

(* end - tail: what still fits before the byte kept for the terminator. *)
Left(b) == b.real - 1 - Len(b.text)

Restart(b) == [b EXCEPT !.text = << >>]

(* zlog_buf_truncate: the mark replaces the end of the text; when the text *)
(* is shorter, the mark is cut too.                                        *)
Truncate(b) ==
  IF b.cut = << >> THEN b
  ELSE LET keep == IF Len(b.text) < Len(b.cut) THEN 0 ELSE Len(b.text) - Len(b.cut)
       IN  [b EXCEPT !.text = SubSeq(@, 1, keep) \o SubSeq(b.cut, 1, Len(@) - keep)]

Resize(b, more) ==
  IF b.max # 0 /\ b.real >= b.max THEN [buf |-> b, rc |-> 1]
  ELSE IF b.max = 0 THEN [buf |-> [b EXCEPT !.real = @ + (3 * more) \div 2], rc |-> 0]
  ELSE IF b.real + more <= b.max THEN [buf |-> [b EXCEPT !.real = @ + more], rc |-> 0]
  ELSE [buf |-> [b EXCEPT !.real = b.max], rc |-> 1]

(* What every writer does once it knows its text s: grow, and if the limit *)
(* is reached fill what is left and mark the end.                          *)
Fill(b, s, more) ==
  LET r == Resize(b, more)
  IN  IF Len(s) <= Left(b) THEN [buf |-> [b EXCEPT !.text = @ \o s], rc |-> 0]
      ELSE IF r.rc > 0
           THEN [buf |-> Truncate([r.buf EXCEPT !.text = @ \o SubSeq(s, 1, Left(r.buf))]), rc |-> 1]
           ELSE [buf |-> [r.buf EXCEPT !.text = @ \o s], rc |-> 0]

Append_(b, s) == Fill(b, s, Len(s) - Left(b))

(* vsnprintf needs a byte for the terminator: nwrite - size_left + 1 with  *)
(* size_left counted to end_plus_1.                                        *)
Vprintf(b, s) == Fill(b, s, Len(s) - (Left(b) + 1) + 1)

Zeros(k) == [i \in 1 .. k |-> "0"]
Spaces(k) == [i \in 1 .. k |-> " "]
Pad(digits, width) == Zeros(IF width > Len(digits) THEN width - Len(digits) ELSE 0) \o digits

(* The digits of a number in a base; the code writes them from the end. *)
Digit == <<"0", "1", "2", "3", "4", "5", "6", "7", "8", "9", "A", "B", "C", "D", "E", "F">>
Digits(n, base) ==
  LET d[k \in Nat] == IF k < base THEN <<Digit[k + 1]>> ELSE Append(d[k \div base], Digit[(k % base) + 1])
  IN  d[n]

PrintfDec32(b, n, width) == Append_(b, Pad(Digits(n, 10), width))
PrintfDec64(b, n, width) == Append_(b, Pad(Digits(n, 10), width))
PrintfHex(b, n, width) == Append_(b, Pad(Digits(n, 16), width))

(* zlog_buf_adjust_append.  When the limit is reached the text is laid out *)
(* again for what is left: to the left the blanks give way last, to the    *)
(* right the source does first.                                            *)
AdjustAppend(b, s, left, zero, in, out) ==
  LET source == IF out = 0 \/ Len(s) < out THEN Len(s) ELSE out
      append == IF in = 0 \/ source >= in THEN source ELSE in
      space  == append - source
      blank(k) == IF zero /\ ~ left THEN Zeros(k) ELSE Spaces(k)
      lay(src, sp) == IF left THEN SubSeq(s, 1, src) \o blank(sp) ELSE blank(sp) \o SubSeq(s, 1, src)
      r      == Resize(b, append - Left(b))
      room   == Left(r.buf)
      src2   == IF left THEN (IF source < room THEN source ELSE room)
                ELSE IF space < room THEN room - space ELSE 0
  IN  IF append <= Left(b) THEN [buf |-> [b EXCEPT !.text = @ \o lay(source, space)], rc |-> 0]
      ELSE IF r.rc > 0
           THEN [buf |-> Truncate([r.buf EXCEPT !.text = @ \o lay(src2, room - src2)]), rc |-> 1]
           ELSE [buf |-> [r.buf EXCEPT !.text = @ \o lay(source, space)], rc |-> 0]

-----------------------------------------------------------------------------
(* A conversion is the text it writes (what) and, when a width is given,   *)
(* how it is adjusted.  gen_msg_reformat writes to pre_msg_buf first and   *)
(* goes on when that is full.                                              *)
GenMsg(b, pre, spec) ==
  IF spec.direct THEN Append_(b, spec.what)
  ELSE AdjustAppend(b, Append_(Restart(pre), spec.what).buf.text,
                    spec.left, spec.zero, spec.min, spec.max)

(* zlog_format_gen_msg stops at the first conversion that does not return  *)
(* 0, and a full buffer is such a one.                                     *)
FormatGenMsg(b, pre, specs) ==
  FoldLeft(LAMBDA r, s : IF r.rc # 0 THEN r
                         ELSE LET g == GenMsg(r.buf, pre, s)
                              IN  [buf |-> g.buf, rc |-> IF g.rc = 0 THEN 0 ELSE -1],
           [buf |-> Restart(b), rc |-> 0], specs)
=============================================================================
