------------------------------ MODULE MxmlFile -----------------------------
(* Reading and writing a document: mxml-file.c and mxml-options.c.  A      *)
(* document is a sequence of tokens: a character of a value, a space, an   *)
(* entity, or a whole tag.  A tag the reader cannot take to its end is the *)
(* token broken, an entity it does not know has the character "".          *)
EXTENDS MxmlSearch

CONSTANTS
  Digits,                  \* the characters a number is made of
  Special,                 \* the characters that are written as entities
  TypeCallback(_)          \* the application's type for the values under an element of this name

Space == [k |-> "space"]
Char(c) == [k |-> "char", ch |-> c]
Entity(c) == [k |-> "entity", ch |-> c]
Broken == [k |-> "broken"]
Comment(s) == [k |-> "comment", val |-> s]
Cdata(s) == [k |-> "cdata", val |-> s]
Directive(s) == [k |-> "directive", val |-> s]
Declaration(s) == [k |-> "declaration", val |-> s]
Close(name) == [k |-> "close", val |-> name]
Open(name, attrs, end) == [k |-> "open", val |-> name, attrs |-> attrs, end |-> end]

IsTag(tok) == tok.k \notin {"space", "char", "entity"}
IsSpace(tok) == tok.k = "space"

-----------------------------------------------------------------------------
(* Options.  NoOptions is the NULL the daemon passes.                      *)

NoOptions == [given |-> FALSE, cb |-> FALSE, type |-> "text", sax |-> FALSE, custom |-> FALSE]
OptionsNew == [NoOptions EXCEPT !.given = TRUE]
OptionsSetCustomCallbacks(o) == [o EXCEPT !.custom = TRUE]
OptionsSetSAXCallback(o) == [o EXCEPT !.sax = TRUE]
OptionsSetTypeCallback(o) == [o EXCEPT !.cb = TRUE]
OptionsSetTypeValue(o, type) == [o EXCEPT !.cb = FALSE, !.type = type]

(* The type of the values under n, old where the options leave it.         *)
ValueType(h, opt, n, old) ==
  CASE opt.given /\ opt.cb /\ n # Nil -> TypeCallback(h[n].val)
    [] opt.given /\ ~opt.cb -> opt.type
    [] OTHER -> old

-----------------------------------------------------------------------------
(* A load: the heap h and the reader l, with the variables of              *)
(* mxml_load_data, st how it stands, what it returns (result), the nodes   *)
(* the SAX callback has retained after every element they are in (kept),   *)
(* and whether a close tag has released the caller's top node (topless).   *)

Begin(h, top, opt) ==
  [h |-> h,
   l |-> [st |-> "run", top |-> top, par |-> top, first |-> Nil, node |-> Nil, result |-> Nil, begun |-> FALSE,
          ws |-> FALSE, buf |-> <<>>, kept |-> {}, topless |-> FALSE, type |-> ValueType(h, opt, top, "ignore")]]

(* (slip: what was read stays behind)                                      *)
FailKeeping(w) == [w EXCEPT !.l.st = "failed"]

(* The label error: what was read is deleted from its first node on.       *)
Fail(w) == [w EXCEPT !.h = Delete(w.h, w.l.first), !.l.st = "failed"]

Go(w, Next(_)) == IF w.l.st = "run" THEN Next(w) ELSE w

RECURSIVE Climb(_, _, _)
Climb(h, n, top) == IF n = top \/ h[n].parent = Nil THEN n ELSE Climb(h, h[n].parent, top)

(* The end of the document: an element under the outermost one may not be  *)
(* left open.  What is in the buffer is dropped.                           *)
End(w) ==
  LET l == w.l
      root == Climb(w.h, l.par, l.top)
  IN CASE ~l.begun -> Fail(w)
       [] l.begun /\ l.par # Nil /\ root # l.par -> Fail(w)
       [] OTHER -> [w EXCEPT !.l.st = "done", !.l.result = IF l.par # Nil THEN root ELSE l.first]

RECURSIVE Above(_, _)
Above(h, n) == IF h[n].parent = Nil THEN {} ELSE {h[n].parent} \cup Above(h, h[n].parent)
Keeps(w, n) == \A m \in Above(w.h, n) : m \in w.l.kept \/ m = w.l.top \/ w.h[m].type # "element"

SetFirst(w) == IF w.l.first = Nil THEN [w EXCEPT !.l.first = w.l.node] ELSE w

(* A SAX event.  The callback may stop the load or retain the node, which  *)
(* the reader then releases unless the element is only being opened.       *)
Event(w, opt, says, releases) ==
  LET n == w.l.node
      held == IF says = "keep" /\ n # Nil THEN Retain(w.h, n) ELSE w.h
      left == IF releases /\ n # Nil THEN Release(held, n) ELSE held
      gone == n # Nil /\ left[n].type = "free"
  IN CASE ~opt.sax -> w
       [] opt.sax /\ says = "stop" -> Fail(w)
       [] OTHER -> [w EXCEPT !.h = left, !.l.node = IF gone THEN Nil ELSE n,
                             !.l.first = IF gone /\ n = @ THEN Nil ELSE @,
                             !.l.kept = IF says = "keep" /\ n # Nil /\ Keeps(w, n) THEN @ \cup {n} ELSE @]

-----------------------------------------------------------------------------
(* Values.                                                                 *)

(* What strtol and strtod take of a string.                                *)
Number(buf) ==
  LET taken == {k \in 0..Len(buf) : \A i \in 1..k : buf[i] \in Digits}
  IN IF Max(taken) = 0 THEN <<"0">> ELSE SubSeq(buf, 1, Max(taken))

(* The node for the characters in the buffer; the custom type's callback   *)
(* takes what is a number, and a value it does not take is deleted again.  *)
ValueNode(w, opt) ==
  LET h == w.h
      par == w.l.par
      buf == w.l.buf
  IN CASE w.l.type = "integer" -> NewInteger(h, par, Number(buf))
       [] w.l.type = "opaque" -> NewOpaque(h, par, buf)
       [] w.l.type = "real" -> NewReal(h, par, Number(buf))
       [] w.l.type = "text" -> NewText(h, par, w.l.ws, buf)
       [] w.l.type = "custom" /\ opt.custom ->
            IF Number(buf) = buf THEN NewCustom(h, par, buf) ELSE Delete(NewCustom(h, par, Null), Fresh(h))
       [] OTHER -> h

AddValue(w, opt, tok, says) ==
  LET type == w.l.type
      made == ValueNode(w, opt)
      node == IF Fresh(made) = Fresh(w.h) THEN Nil ELSE Fresh(w.h)
      next == [w EXCEPT !.h = made, !.l.node = node, !.l.buf = <<>>, !.l.ws = IsSpace(tok) /\ type = "text"]
  IN CASE type \in {"integer", "real"} /\ Number(w.l.buf) # w.l.buf -> End([w EXCEPT !.h = made, !.l.node = node])
       [] type \notin {"integer", "real", "ignore"} /\ node = Nil -> Fail(next)
       [] OTHER -> Go(Event(next, opt, says, TRUE), SetFirst)

(* Space before a tag is a text of its own.                                *)
AddSpace(w, opt, says) ==
  LET node == Fresh(w.h)
      text == [w EXCEPT !.h = NewText(w.h, w.l.par, TRUE, <<>>), !.l.node = node, !.l.ws = FALSE]
  IN IF w.l.par = Nil THEN [w EXCEPT !.l.ws = FALSE] ELSE Go(Event(text, opt, says, TRUE), SetFirst)

ReadValue(w, opt, tok, says) ==
  LET ends == IsTag(tok) \/ (IsSpace(tok) /\ w.l.type \notin {"opaque", "custom"})
  IN CASE ends /\ w.l.buf # <<>> -> AddValue(w, opt, tok, says)
       [] ~(ends /\ w.l.buf # <<>>) /\ IsSpace(tok) /\ w.l.type = "text" -> [w EXCEPT !.l.ws = TRUE]
       [] OTHER -> w

AddChars(w, tok) ==
  CASE tok.k = "entity" /\ tok.ch = "" -> Fail(w)
    [] tok.k \in {"char", "entity"} /\ tok.ch # "" -> [w EXCEPT !.l.buf = Append(@, tok.ch)]
    [] IsSpace(tok) /\ w.l.type \in {"opaque", "custom"} -> [w EXCEPT !.l.buf = Append(@, " ")]
    [] OTHER -> w

-----------------------------------------------------------------------------
(* Tags.                                                                   *)

SecondRoot(w) == w.l.par = Nil /\ w.l.first # Nil

(* A directive or a declaration before the root element becomes its        *)
(* parent.                                                                 *)
Descend(w, opt) ==
  IF w.l.node = Nil \/ w.l.par # Nil THEN w
  ELSE [w EXCEPT !.l.par = w.l.node, !.l.type = ValueType(w.h, opt, w.l.node, "text")]

ReadComment(w, opt, tok, says) ==
  LET made == [w EXCEPT !.h = NewComment(w.h, w.l.par, tok.val), !.l.node = Fresh(w.h)]
  IN IF SecondRoot(w) THEN Fail(w) ELSE Go(Event(made, opt, says, TRUE), SetFirst)

ReadCDATA(w, opt, tok, says) ==
  LET made == [w EXCEPT !.h = NewCDATA(w.h, w.l.par, tok.val), !.l.node = Fresh(w.h)]
  IN IF SecondRoot(w) THEN Fail(w) ELSE Go(Event(made, opt, says, TRUE), SetFirst)

(* The reader keeps the xml directive whatever the callback does.          *)
ReadDirective(w, opt, tok, says) ==
  LET made == [w EXCEPT !.h = NewDirective(w.h, w.l.par, tok.val), !.l.node = Fresh(w.h)]
  IN IF SecondRoot(w) THEN Fail(w)
     ELSE Go(Event(made, opt, says, tok.val[1] # "xml"), LAMBDA a : Descend(SetFirst(a), opt))

ReadDeclaration(w, opt, tok, says) ==
  LET made == [w EXCEPT !.h = NewDeclaration(w.h, w.l.par, tok.val), !.l.node = Fresh(w.h)]
  IN IF SecondRoot(w) THEN Fail(w) ELSE Go(Event(made, opt, says, TRUE), LAMBDA a : Descend(SetFirst(a), opt))

(* The name of the open element is compared, and it is a directive's or a  *)
(* declaration's text when one of these is the parent, which is then       *)
(* released, with what was retained of it, as if it had been opened.  The  *)
(* outermost open element may also be the caller's top node.               *)
ReadClose(w, opt, tok, says) ==
  LET n == w.l.par
      lost == {m \in w.l.kept : w.h[n].type # "element" /\ n \in Above(w.h, m) \cup {m}}
      up == [w EXCEPT !.l.node = n, !.l.par = w.h[n].parent, !.l.kept = @ \ lost]
      Ascended(a) == [a EXCEPT !.l.type = ValueType(a.h, opt, a.l.par, a.l.type),
                               !.l.topless = @ \/ (n = a.l.top /\ a.l.node = Nil)]
  IN IF n = Nil \/ w.h[n].val # tok.val THEN Fail(w) ELSE Go(Event(up, opt, says, TRUE), Ascended)

(* The attributes up to the first without a value or with the name of an   *)
(* earlier one.                                                            *)
Faulty(attrs) == {i \in DOMAIN attrs : attrs[i].value = Null \/ \E j \in 1..(i - 1) : attrs[j].name = attrs[i].name}
ParseElement(h, n, attrs) ==
  LET good == IF Faulty(attrs) = {} THEN attrs ELSE SubSeq(attrs, 1, Min(Faulty(attrs)) - 1)
  IN Seqs!FoldLeft(LAMBDA g, a : SetAttr(g, n, a.name, a.value), h, good)

(* A tag ends the element at once (/), with the document (cut) or by an    *)
(* error (bad), or the element is open from here on.                       *)
ReadOpen(w, opt, tok, says) ==
  LET n == Fresh(w.h)
      made == NewElement(w.h, w.l.par, tok.val)
      full == [w EXCEPT !.h = ParseElement(made, n, tok.attrs), !.l.node = n]
      After(a) == CASE tok.end = "/" -> Event(a, opt, says, TRUE)
                    [] tok.end = "cut" -> End(a)
                    [] OTHER -> [a EXCEPT !.l.par = n, !.l.type = ValueType(a.h, opt, n, "text")]
  IN CASE SecondRoot(w) -> Fail(w)
       [] ~SecondRoot(w) /\ tok.attrs = <<>> /\ tok.end = "bad" -> Fail([w EXCEPT !.h = Delete(made, n)])
       [] ~SecondRoot(w) /\ tok.attrs # <<>> /\ (tok.end = "bad" \/ Faulty(tok.attrs) # {}) -> Fail(full)
       [] OTHER -> Go(Event(full, opt, says, FALSE), LAMBDA a : After(SetFirst(a)))

ReadTag(w, opt, tok, says) ==
  CASE tok.k = "comment" -> ReadComment(w, opt, tok, says)
    [] tok.k = "cdata" -> ReadCDATA(w, opt, tok, says)
    [] tok.k = "directive" -> ReadDirective(w, opt, tok, says)
    [] tok.k = "declaration" -> ReadDeclaration(w, opt, tok, says)
    [] tok.k = "close" -> ReadClose(w, opt, tok, says)
    [] tok.k = "open" -> ReadOpen(w, opt, tok, says)
    [] OTHER -> Fail(w)

(* One token.  Without a top node a document has to begin with a tag.      *)
Read(w, opt, tok, says) ==
  LET begun == [w EXCEPT !.l.begun = TRUE]
      Spaced(a) == IF IsTag(tok) /\ a.l.ws /\ a.l.type = "text" THEN AddSpace(a, opt, says) ELSE a
      Taken(a) == IF IsTag(tok) THEN Go(ReadTag(a, opt, tok, says), LAMBDA b : [b EXCEPT !.l.buf = <<>>])
                  ELSE AddChars(a, tok)
  IN IF ~w.l.begun /\ w.l.top = Nil /\ ~IsTag(tok) THEN Fail(w)
     ELSE Go(Go(ReadValue(begun, opt, tok, says), Spaced), Taken)

(* A whole document at once.                                               *)
LoadData(h, top, opt, toks) ==
  Go(Seqs!FoldLeft(LAMBDA w, tok : Go(w, LAMBDA a : Read(a, opt, tok, "go")), Begin(h, top, opt), toks), End)

-----------------------------------------------------------------------------
(* Writing.                                                                *)

WriteChar(c) == CASE c = " " -> Space [] c \in Special -> Entity(c) [] OTHER -> Char(c)
WriteString(s) == [i \in DOMAIN s |-> WriteChar(s[i])]

(* (slip: the space before a text is not written)                          *)
WriteNodeClose(h, n, written) ==
  LET d == h[n]
      lead == IF d.type \in {"integer", "real"} /\ d.prev # Nil THEN <<Space>> ELSE <<>>
  IN CASE d.type = "cdata" -> <<Cdata(GetCDATA(h, n))>>
       [] d.type = "comment" -> <<Comment(GetComment(h, n))>>
       [] d.type = "declaration" -> <<Declaration(GetDeclaration(h, n))>>
       [] d.type = "directive" -> <<Directive(GetDirective(h, n))>>
       [] d.type = "element" -> <<Open(GetElement(h, n), d.attrs, IF GetFirstChild(h, n) # Nil THEN "" ELSE "/")>>
       [] d.type \in ValueTypes -> lead \o WriteString(d.val)

(* What stands for a node before its children.  A number is set off from   *)
(* the node before it, a text as it was read, except where a line begins.  *)
WriteNode(h, n, written) ==
  LET d == h[n]
      apart == CASE d.type \in {"integer", "real"} -> d.prev # Nil
                 [] d.type = "text" -> d.ws /\ written # <<>>
                 [] OTHER -> FALSE
      lead == IF apart THEN <<Space>> ELSE <<>>
  IN CASE d.type = "cdata" -> <<Cdata(GetCDATA(h, n))>>
       [] d.type = "comment" -> <<Comment(GetComment(h, n))>>
       [] d.type = "declaration" -> <<Declaration(GetDeclaration(h, n))>>
       [] d.type = "directive" -> <<Directive(GetDirective(h, n))>>
       [] d.type = "element" -> <<Open(GetElement(h, n), d.attrs, IF GetFirstChild(h, n) # Nil THEN "" ELSE "/")>>
       [] d.type \in ValueTypes -> lead \o WriteString(d.val)

(* From a node without children to the next one, closing the elements that *)
(* end on the way, the node the writing began with among them.             *)
RECURSIVE Ascend(_, _, _, _)
Ascend(h, top, n, out) ==
  LET up == GetParent(h, n)
      closed == IF GetType(h, up) = "element" THEN Append(out, Close(GetElement(h, up))) ELSE out
  IN CASE GetNextSibling(h, n) # Nil -> [out |-> out, next |-> GetNextSibling(h, n)]
       [] GetNextSibling(h, n) = Nil /\ (n = top \/ up = Nil) -> [out |-> out, next |-> Nil]
       [] OTHER -> IF up = top THEN [out |-> closed, next |-> Nil] ELSE Ascend(h, top, up, closed)

RECURSIVE WriteFrom(_, _, _, _)
WriteFrom(h, top, n, out) ==
  LET wrote == out \o WriteNode(h, n, out)
      on == Ascend(h, top, n, wrote)
  IN CASE GetFirstChild(h, n) # Nil -> WriteFrom(h, top, GetFirstChild(h, n), wrote)
       [] GetFirstChild(h, n) = Nil /\ n = top -> wrote
       [] OTHER -> IF on.next = Nil THEN on.out ELSE WriteFrom(h, top, on.next, on.out)

Save(h, n) == WriteFrom(h, n, n, <<>>)

(* A file ends with a newline unless nothing stands on its last line.      *)
SaveFile(h, n) == IF Save(h, n) = <<>> THEN <<>> ELSE Append(Save(h, n), Space)
=============================================================================
