------------------------------ MODULE MxmlText -----------------------------
(* Characters and bytes in mxml-file.c and mxml-options.c: UTF-8 and       *)
(* UTF-16 input, UTF-8 in memory, named entities and the string buffers.   *)
EXTENDS Integers, Sequences

EOF == -1
NoChar(enc) == [ch |-> EOF, enc |-> enc, left |-> <<>>]

BadChar(ch) == ch < 32 /\ ch \notin {9, 10, 13}

(* Byte i of a continuation is taken only as one.                          *)
Continues(bytes, i) == bytes[i] \div 64 = 2
AllContinue(bytes, k) == Len(bytes) >= k /\ \A i \in 2..k : Continues(bytes, i)

From(bytes, k) == SubSeq(bytes, k + 1, Len(bytes))
Got(ch, enc, bytes, k) == [ch |-> ch, enc |-> enc, left |-> From(bytes, k)]

(* One UTF-8 character that is no byte order mark.                         *)
GetUtf8(bytes) ==
  LET b == bytes[1]
      two == (b % 32) * 64 + (bytes[2] % 64)
      three == (b % 16) * 4096 + (bytes[2] % 64) * 64 + (bytes[3] % 64)
      four == (b % 8) * 262144 + (bytes[2] % 64) * 4096 + (bytes[3] % 64) * 64 + (bytes[4] % 64)
  IN CASE b < 128 -> Got(b, "utf8", bytes, 1)
       [] b \div 32 = 6 /\ AllContinue(bytes, 2) -> IF two < 128 THEN NoChar("utf8") ELSE Got(two, "utf8", bytes, 2)
       [] b \div 16 = 14 /\ AllContinue(bytes, 3) -> IF three < 2048 THEN NoChar("utf8") ELSE Got(three, "utf8", bytes, 3)
       [] b \div 8 = 30 /\ AllContinue(bytes, 4) -> IF four < 65536 THEN NoChar("utf8") ELSE Got(four, "utf8", bytes, 4)
       [] OTHER -> NoChar("utf8")

(* One UTF-16 character: the two halves of a pair are put together, and    *)
(* the last of the low halves, 16#DFFF, is refused with what is none.      *)
Half(bytes, i, enc) ==
  IF enc = "utf16be" THEN bytes[i] * 256 + bytes[i + 1] ELSE bytes[i + 1] * 256 + bytes[i]
GetUtf16(bytes, enc) ==
  LET high == Half(bytes, 1, enc)
      low == Half(bytes, 3, enc)
  IN CASE Len(bytes) < 2 -> NoChar(enc)
       [] Len(bytes) >= 2 /\ high \notin 55296..56319 -> Got(high, enc, bytes, 2)
       [] Len(bytes) \in 2..3 /\ high \in 55296..56319 -> NoChar(enc)
       [] OTHER -> IF low < 56320 \/ low >= 57343 THEN NoChar(enc)
                   ELSE Got((high % 1024) * 1024 + (low % 1024) + 65536, enc, bytes, 4)

(* mxml_getc: a byte order mark switches the encoding or is skipped.       *)
RECURSIVE GetC(_, _)
GetC(bytes, enc) ==
  LET big == Len(bytes) > 1 /\ bytes[1] = 254 /\ bytes[2] = 255
      little == Len(bytes) > 1 /\ bytes[1] = 255 /\ bytes[2] = 254
      got == IF enc = "utf8" THEN GetUtf8(bytes) ELSE GetUtf16(bytes, enc)
  IN CASE bytes = <<>> -> NoChar(enc)
       [] enc = "utf8" /\ big -> GetC(From(bytes, 2), "utf16be")
       [] enc = "utf8" /\ little -> GetC(From(bytes, 2), "utf16le")
       [] OTHER -> CASE enc = "utf8" /\ got.ch = 65279 -> GetC(got.left, enc)
                     [] BadChar(got.ch) -> NoChar(enc)
                     [] OTHER -> got

(* mxml_add_char: the bytes of a character and the size of its buffer.     *)
AddChar(ch) ==
  CASE ch < 128 -> <<ch>>
    [] ch \in 128..2047 -> <<192 + (ch \div 64), 128 + (ch % 64)>>
    [] ch \in 2048..65535 -> <<224 + (ch \div 4096), 128 + ((ch \div 64) % 64), 128 + (ch % 64)>>
    [] OTHER -> <<240 + (ch \div 262144), 128 + ((ch \div 4096) % 64), 128 + ((ch \div 64) % 64), 128 + (ch % 64)>>
BufferSize(size, used) ==
  IF used < size - 4 THEN size ELSE IF size < 1024 THEN size * 2 ELSE size + 1024

-----------------------------------------------------------------------------
(* Entities: known holds the characters of the numbers after # and #x, and *)
(* of the names the application's callback answers with one.               *)

EntityString(ch) ==
  CASE ch = 38 -> "amp" [] ch = 60 -> "lt" [] ch = 62 -> "gt" [] ch = 34 -> "quot" [] OTHER -> ""
EntityValue(name, known) ==
  CASE name = "amp" -> 38 [] name = "gt" -> 62 [] name = "lt" -> 60 [] name = "quot" -> 34
    [] OTHER -> IF name \in DOMAIN known THEN known[name] ELSE EOF

(* mxml_get_entity: the name has len characters and ends at the character  *)
(* end; 63 of them fit.                                                    *)
GetEntity(name, len, end, known) ==
  LET ch == EntityValue(name, known)
  IN IF len > 63 \/ end # ";" \/ ch < 0 \/ BadChar(ch) THEN EOF ELSE ch

-----------------------------------------------------------------------------
(* Documents in memory.                                                    *)

ReadString(sb, bytes) ==
  LET remaining == sb.size - sb.at
      k == IF remaining < bytes THEN remaining ELSE bytes
  IN [sb |-> [sb EXCEPT !.at = @ + k], took |-> k]

(* mxml_io_cb_string: a buffer that may grow (alloc) does, with room for   *)
(* the NUL at the end; one that may not takes what fits before it.         *)
IoString(sb, bytes) ==
  LET big == IF sb.at + bytes >= sb.size - 1 /\ sb.alloc THEN [sb EXCEPT !.size = sb.at + bytes + 257] ELSE sb
      remaining == big.size - big.at - 1
      k == IF remaining < bytes THEN remaining ELSE bytes
  IN IF big.at >= big.size - 1 THEN [sb |-> big, took |-> 0] ELSE [sb |-> [big EXCEPT !.at = @ + k], took |-> k]

(* mxml_write_string: the pieces of a string, one entity or the characters *)
(* up to the next one; a piece that is not taken whole ends the writing.   *)
RECURSIVE WritePieces(_, _)
WritePieces(sb, pieces) ==
  LET put == IoString(sb, Head(pieces))
  IN CASE pieces = <<>> -> [sb |-> sb, ok |-> TRUE]
       [] pieces # <<>> /\ put.took # Head(pieces) -> [sb |-> put.sb, ok |-> FALSE]
       [] OTHER -> WritePieces(put.sb, Tail(pieces))

NewBuffer(size, alloc) == [size |-> size, at |-> 0, alloc |-> alloc]
SaveAllocString(pieces) == WritePieces(NewBuffer(1024, TRUE), pieces)

(* The length of what is in the buffer, 0 for what does not fit.           *)
SaveString(pieces, size) ==
  LET w == WritePieces(NewBuffer(size, FALSE), pieces) IN IF w.ok THEN w.sb.at ELSE 0
=============================================================================
