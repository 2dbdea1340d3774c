----------------------------- MODULE MxmlChecks ----------------------------
(* What the operators of Mini-XML and of the configuration files must      *)
(* compute, over bounded inputs; TLC evaluates the assumptions when it     *)
(* loads the module.                                                       *)
EXTENDS TlsConfig

X == INSTANCE MxmlText

-----------------------------------------------------------------------------
(* A character that is written is read back, in UTF-8 at every length and  *)
(* in both orders of UTF-16; a byte order mark goes before it.             *)
Boundaries == {9, 10, 13, 32, 127, 128, 2047, 2048, 55295, 65278, 65280, 65535, 65536, 1114110}
Wide(ch) ==
  LET c == ch - 65536 IN IF ch < 65536 THEN <<ch>> ELSE <<55296 + (c \div 1024), 56320 + (c % 1024)>>
Bytes(ch, order) ==
  LET u == Wide(ch)
      two(x) == IF order = "utf16be" THEN <<x \div 256, x % 256>> ELSE <<x % 256, x \div 256>>
  IN IF Len(u) = 1 THEN two(u[1]) ELSE two(u[1]) \o two(u[2])
ASSUME Utf8ReadsBack ==
  \A ch \in Boundaries : X!GetC(X!AddChar(ch) \o <<65>>, "utf8") = [ch |-> ch, enc |-> "utf8", left |-> <<65>>]
ASSUME Utf16ReadsBack ==
  \A ch \in Boundaries \ {65278, 65534}, order \in {"utf16be", "utf16le"} :
    LET mark == IF order = "utf16be" THEN <<254, 255>> ELSE <<255, 254>>
    IN X!GetC(mark \o Bytes(ch, order), "utf8") = [ch |-> ch, enc |-> order, left |-> <<>>]

(* A control character, a sequence that is longer than it needs to be, one *)
(* that is cut and a pair that is none are refused; so is the last pair    *)
(* there is, which is one.                                                 *)
ASSUME WrongRefused ==
  /\ \A bytes \in {<<>>, <<0>>, <<31>>, <<128>>, <<192, 128>>, <<193, 191>>, <<224, 159, 191>>, <<240, 143, 191, 191>>,
                    <<194>>, <<226, 130>>, <<240, 159, 146>>, <<195, 65>>, <<254, 255, 216, 0>>,
                    <<254, 255, 216, 0, 0, 65>>, <<254, 255, 219, 255, 223, 255>>} : X!GetC(bytes, "utf8").ch = X!EOF
  /\ X!GetC(<<239, 187, 191, 65>>, "utf8").ch = 65

(* The buffer has room for the longest character and the NUL.              *)
ASSUME RoomForCharacter ==
  \A size \in {64, 128, 1024, 2048} : \A used \in 0..(size - 1) : used + 4 < X!BufferSize(size, used)

(* A name of 64 characters, one that does not end with a semicolon and one *)
(* the callback does not know are no entities; amp, lt, gt and quot are    *)
(* written as they are read.                                               *)
Knows == [name \in {"nbsp", "#0"} |-> IF name = "nbsp" THEN 160 ELSE 0]
ASSUME EntitiesRead ==
  /\ \A ch \in {38, 60, 62, 34} : X!GetEntity(X!EntityString(ch), 4, ";", Knows) = ch
  /\ X!GetEntity("nbsp", 63, ";", Knows) = 160 /\ X!GetEntity("nbsp", 64, ";", Knows) = X!EOF
  /\ \A name \in {"none", "#0"} : X!GetEntity(name, 4, ";", Knows) = X!EOF
  /\ X!GetEntity("amp", 3, "<", Knows) = X!EOF

(* A document fits into a string that grows, whatever its pieces; one that *)
(* does not fit into the caller's buffer with its NUL has the length 0.    *)
Pieces == UNION {[1..k -> {1, 5, 1100}] : k \in 0..4}
Total(pieces) == SumSet({i * 10000 + pieces[i] : i \in DOMAIN pieces}) - SumSet({i * 10000 : i \in DOMAIN pieces})
ASSUME StringsWhole ==
  \A pieces \in Pieces :
    /\ LET s == X!SaveAllocString(pieces) IN s.ok /\ s.sb.at = Total(pieces) /\ s.sb.at < s.sb.size
    /\ \A size \in {1, 2, 6, 1106} : X!SaveString(pieces, size) = IF Total(pieces) < size THEN Total(pieces) ELSE 0

(* A read hands out what is there and no more.                             *)
ASSUME ReadBounded ==
  \A size \in 0..3, at \in 0..3, bytes \in 1..4 :
    at <= size => LET r == X!ReadString([size |-> size, at |-> at], bytes)
                  IN r.sb.at = at + r.took /\ r.sb.at <= size /\ (r.took = bytes \/ r.sb.at = size)

-----------------------------------------------------------------------------
(* The configuration files of the repository (xmlfile/*.xml).              *)

An(value) == [name |-> value, value |-> value]
Single(name, values) == Open(name, [i \in DOMAIN values |-> An(values[i])], "/")
Line(name, values) == << Space, Single(name, values) >>
Around(name, inner) == << Directive(<<"xml">>), Space, Open(name, <<>>, "") >> \o inner \o << Space, Close(name), Space >>
Empty8 == [priority |-> 0, buffsize |-> 0, buffcount |-> 0]

Queue(p, size, count) == Single(<<"queue">>, << <<p>>, <<size, "0">>, <<count, "1">> >>)
TlsFile ==
  Around(<<"tls_config">>,
    << Space, Open(<<"tls_transmit_queue">>, <<>>, ""), Queue("0", "5", "6"), Space, Queue("1", "8", "4"), Space,
       Close(<<"tls_transmit_queue">>) >>
    \o Line(<<"tls_udp">>, << <<"local">>, <<"9", "0", "0", "0">>, <<"remote">>, <<"6", "0", "0", "5">>, <<"9", "0">>, <<"7">> >>)
    \o Line(<<"tls_subscribe">>, << <<"server">>, <<"pass">>, <<"url">> >>)
    \o Line(<<"tls_publish">>, << <<"server">>, <<"pass">>, <<"ip">>, <<"6", "5", "5", "3", "7">>, <<"url">> >>))
Loaded(toks) == LoadData(Empty(32), Nil, NoOptions, toks)

(* Every section is found and every attribute ends in its field; a port is *)
(* kept in 16 bits.                                                        *)
ASSUME TlsFileLoads ==
  LET f == Loaded(TlsFile)
      cfg == TlsConfigLoadAll(f.h, f.l.result, ClearedConfig(8))
  IN /\ f.l.st = "done" /\ ~cfg.over
     /\ cfg.udp = [local_ip |-> <<"local">>, local_port |-> 9000, remote_ip |-> <<"remote">>, remote_port |-> 6005,
                   local_id |-> 90, local_sub_id |-> 7]
     /\ cfg.sub = [servername |-> <<"server">>, serverpass |-> <<"pass">>, url |-> <<"url">>]
     /\ cfg.pub = [servername |-> <<"server">>, serverpass |-> <<"pass">>, serverip |-> <<"ip">>, serverport |-> 1,
                   url |-> <<"url">>]
     /\ cfg.queues = [i \in 1..8 |->
          CASE i = 1 -> [priority |-> 0, buffsize |-> 50, buffcount |-> 61]
            [] i = 2 -> [priority |-> 1, buffsize |-> 80, buffcount |-> 41]
            [] OTHER -> Empty8]

(* The sections of the other two files do not get into each other's way.   *)
AppFile ==
  Around(<<"app_config">>,
    Line(<<"app_udp">>, << <<"ip">> >>) \o Line(<<"app_rpc_server">>, << <<"rpc">> >>)
    \o Line(<<"app_publish">>, << <<"pub">> >>) \o Line(<<"app_subscribe">>, << <<"sub">>, <<>>, <<"url">>, <<"more">> >>))
FileFile ==
  Around(<<"file_config">>,
    Line(<<"file_base">>, << <<"dir">>, <<"1", "0">>, <<"2", "0">> >>) \o << Space, Comment(<<"note">>) >>
    \o Line(<<"file_publish">>, << <<"1">>, <<"9", "0">>, <<"3">>, <<"url">> >>)
    \o Line(<<"file_subscribe">>, << <<"server">> >>))
ASSUME OtherFilesLoad ==
  LET a == Loaded(AppFile)
      app == AppConfigLoadAll(a.h, a.l.result,
               [udp |-> Cleared(UdpFields), rpc |-> Cleared(PublishFields),
                pub |-> Cleared(PublishFields), sub |-> Cleared(SubscribeFields)])
      f == Loaded(FileFile)
      file == FileConfigLoadAll(f.h, f.l.result,
                [base |-> Cleared(FileBaseFields), pub |-> Cleared(FilePublishFields),
                 sub |-> Cleared(SubscribeFields)])
  IN /\ app = [udp |-> [Cleared(UdpFields) EXCEPT !.local_ip = <<"ip">>],
               rpc |-> [Cleared(PublishFields) EXCEPT !.servername = <<"rpc">>],
               pub |-> [Cleared(PublishFields) EXCEPT !.servername = <<"pub">>],
               sub |-> [servername |-> <<"sub">>, serverpass |-> <<>>, url |-> <<"url">>]]
     /\ file = [base |-> [dir |-> <<"dir">>, block_count |-> 10, block_size |-> 20],
                pub |-> [interval |-> 1, dst_addr |-> 90, dst_entry |-> 3, url |-> <<"url">>],
                sub |-> [Cleared(SubscribeFields) EXCEPT !.servername = <<"server">>]]

(* Of the older files a value that is there is taken, one that is missing  *)
(* has its default, and nothing but the remote port is lost when there is  *)
(* no file.                                                                *)
OldFile == Around(<<"tls">>, << Open(<<"tls_local_port">>, <<>>, ""), Char("8"), Close(<<"tls_local_port">>) >>)
ASSUME OldFilesLoad ==
  LET f == Loaded(OldFile)
      all == LoadTexts(<<>>, Nil, Tags, Defaults)
  IN /\ TlsConfigLoad(f.h, f.l.result) = [all EXCEPT !.local_port = 8]
     /\ TlsConfigLoad(<<>>, Nil) = [all EXCEPT !.remote_port = 0]
     /\ UdpEndpointConfigLoad(f.h, f.l.result) =
          [all EXCEPT !.local_id = 2, !.local_sub_id = 2]
     /\ UdpEndpointConfigLoad(<<>>, Nil) = Cleared(UdpFields)

-----------------------------------------------------------------------------
(* A path leads from element to element, * over any number of them, and at *)
(* its end to the value of an element that has one.                        *)
ASSUME PathsLead ==
  LET f == Loaded(OldFile)
      g == Loaded(TlsFile)
      Type(w, path) == LET n == FindPath(w.h, w.l.result, path) IN IF n = Nil THEN "none" ELSE w.h[n].type
      Name(w, path) == w.h[FindPath(w.h, w.l.result, path)].attrs[1].value
  IN /\ Type(f, << <<"tls">>, <<"tls_local_port">> >>) = "text"
     /\ Type(f, << Star, <<"tls_local_port">> >>) = "text"
     /\ Type(f, << <<"tls_local_port">> >>) = "none" /\ Type(f, <<>>) = "none" /\ Type(f, << <<"tls">>, <<>> >>) = "none"
     /\ Type(g, << <<"tls_config">>, Star, <<"queue">> >>) = "element"
     /\ Name(g, << Star, <<"queue">> >>) = <<"0">>
     /\ Name(g, << <<"tls_config">>, <<"tls_publish">> >>) = <<"server">>
=============================================================================
