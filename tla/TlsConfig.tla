----------------------------- MODULE TlsConfig -----------------------------
(* The daemon's configuration files: config/tls_config.c and               *)
(* config/app_config.c, on the tree that Mini-XML has read.  A section is  *)
(* an element; its attributes are taken by their place, not their name.    *)
EXTENDS MxmlFile

Field(name, kind) == [name |-> name, kind |-> kind]
UdpFields == << Field("local_ip", "str"), Field("local_port", "u16"), Field("remote_ip", "str"),
                Field("remote_port", "u16"), Field("local_id", "u32"), Field("local_sub_id", "u32") >>
SubscribeFields == << Field("servername", "str"), Field("serverpass", "str"), Field("url", "str") >>
PublishFields == << Field("servername", "str"), Field("serverpass", "str"), Field("serverip", "str"),
                    Field("serverport", "u16"), Field("url", "str") >>
QueueFields == << Field("priority", "u32"), Field("buffsize", "u32"), Field("buffcount", "u32") >>
FileBaseFields == << Field("dir", "str"), Field("block_count", "u32"), Field("block_size", "u32") >>
FilePublishFields == << Field("interval", "u32"), Field("dst_addr", "u32"), Field("dst_entry", "u32"), Field("url", "str") >>

Names(fields) == {fields[i].name : i \in DOMAIN fields}
PlaceOf(fields, name) == CHOOSE i \in DOMAIN fields : fields[i].name = name
Cleared(fields) == [name \in Names(fields) |-> IF fields[PlaceOf(fields, name)].kind = "str" THEN <<>> ELSE 0]

DigitValue(c) == CHOOSE d \in 0..9 : <<"0", "1", "2", "3", "4", "5", "6", "7", "8", "9">>[d + 1] = c
Atoi(text) == Seqs!FoldLeft(LAMBDA n, c : 10 * n + DigitValue(c), 0, Number(text))
Stored(kind, text) ==
  CASE kind = "str" -> text [] kind = "u16" -> Atoi(text) % 65536 [] kind = "u32" -> Atoi(text)

(* Attribute i goes to field i; an empty one and one too many leave all as *)
(* it was, and so does a section that is missing.                          *)
LoadFields(h, n, fields, cfg) ==
  IF n = Nil THEN cfg
  ELSE [name \in Names(fields) |->
          LET i == PlaceOf(fields, name)
              text == GetAttrByIndex(h, n, i - 1)
          IN IF text \in {Null, <<>>} THEN cfg[name] ELSE Stored(fields[i].kind, text)]

Section(h, root, name) == FindElement(h, root, root, name, Null, Null, "all")

LoadUdp(h, n, cfg) == [cfg EXCEPT !.udp = LoadFields(h, n, UdpFields, @)]
LoadSubscribe(h, n, cfg) == [cfg EXCEPT !.sub = LoadFields(h, n, SubscribeFields, @)]
LoadPublish(h, n, cfg) == [cfg EXCEPT !.pub = LoadFields(h, n, PublishFields, @)]

(* (slip: after the last place the first one is used again)                *)
RECURSIVE LoadQueuesAround(_, _, _, _, _)
LoadQueuesAround(h, n, transmit, i, cfg) ==
  LET next == FindElement(h, n, transmit, <<"queue">>, Null, Null, "all")
      at == IF i > Len(cfg.queues) THEN 1 ELSE i
  IN IF n = Nil THEN cfg
     ELSE LoadQueuesAround(h, next, transmit, at + 1, [cfg EXCEPT !.queues[at] = LoadFields(h, n, QueueFields, @)])

(* The queues in the order of the document; nothing stops at the end of    *)
(* the array, of 8 in tls_config_t (over).                                 *)
RECURSIVE LoadQueues(_, _, _, _, _)
LoadQueues(h, n, transmit, i, cfg) ==
  LET next == FindElement(h, n, transmit, <<"queue">>, Null, Null, "all")
  IN CASE n = Nil -> cfg
       [] n # Nil /\ i > Len(cfg.queues) -> [cfg EXCEPT !.over = TRUE]
       [] OTHER -> LoadQueues(h, next, transmit, i + 1,
                              [cfg EXCEPT !.queues[i] = LoadFields(h, n, QueueFields, @)])
LoadTransmitQueue(h, n, cfg) ==
  LoadQueues(h, FindElement(h, n, n, <<"queue">>, Null, Null, "all"), n, 1, cfg)

ClearedConfig(places) ==
  [udp |-> Cleared(UdpFields), sub |-> Cleared(SubscribeFields), pub |-> Cleared(PublishFields),
   queues |-> [i \in 1..places |-> Cleared(QueueFields)], over |-> FALSE]

(* tls_config_load_all on the tree of the file, Nil when it did not load.  *)
TlsConfigLoadAll(h, root, cfg) ==
  LET udp == LoadUdp(h, Section(h, root, <<"tls_udp">>), cfg)
      sub == LoadSubscribe(h, Section(h, root, <<"tls_subscribe">>), udp)
      pub == LoadPublish(h, Section(h, root, <<"tls_publish">>), sub)
  IN IF root = Nil THEN cfg ELSE LoadTransmitQueue(h, Section(h, root, <<"tls_transmit_queue">>), pub)

FileConfigLoadAll(h, root, cfg) ==
  IF root = Nil THEN cfg
  ELSE [cfg EXCEPT !.base = LoadFields(h, Section(h, root, <<"file_base">>), FileBaseFields, @),
                   !.pub = LoadFields(h, Section(h, root, <<"file_publish">>), FilePublishFields, @),
                   !.sub = LoadFields(h, Section(h, root, <<"file_subscribe">>), SubscribeFields, @)]

AppUdp(h, n, cfg) == LoadFields(h, n, UdpFields, cfg)
AppRpcServer(h, n, cfg) == LoadFields(h, n, PublishFields, cfg)
AppPublish(h, n, cfg) == LoadFields(h, n, PublishFields, cfg)
AppSubscribe(h, n, cfg) == LoadFields(h, n, SubscribeFields, cfg)
AppConfigLoadAll(h, root, cfg) ==
  IF root = Nil THEN cfg
  ELSE [cfg EXCEPT !.udp = AppUdp(h, Section(h, root, <<"app_udp">>), @),
                   !.rpc = AppRpcServer(h, Section(h, root, <<"app_rpc_server">>), @),
                   !.pub = AppPublish(h, Section(h, root, <<"app_publish">>), @),
                   !.sub = AppSubscribe(h, Section(h, root, <<"app_subscribe">>), @)]

-----------------------------------------------------------------------------
(* The older files have an element for every field and the value in it.    *)

NodeText(h, root, name) ==
  LET n == Section(h, root, name)
  IN IF root = Nil \/ n = Nil THEN <<>>
     ELSE IF GetText(h, n).string = Null THEN <<>> ELSE GetText(h, n).string
TextOr(h, root, field, tag, default) ==
  LET text == NodeText(h, root, tag) IN Stored(field.kind, IF text = <<>> THEN default ELSE text)

Tags == << <<"tls_local_ip">>, <<"tls_local_port">>, <<"tls_remote_ip">>, <<"tls_remote_port">>,
           <<"tls_local_id">>, <<"tls_local_sub_id">> >>
UdpTags == << <<"udp_local_ip">>, <<"udp_local_port">>, <<"udp_remote_ip">>, <<"udp_remote_port">>,
              <<"tls_remote_id">>, <<"tls_remote_sub_id">> >>
Defaults == << <<"192.168.0.83">>, <<"9", "0", "0", "0">>, <<"192.168.0.90">>, <<"9", "0", "0", "0">>, <<"1">>, <<"1">> >>
UdpDefaults == [Defaults EXCEPT ![5] = <<"2">>, ![6] = <<"2">>]

LoadTexts(h, root, tags, defaults) ==
  [name \in Names(UdpFields) |->
     LET i == PlaceOf(UdpFields, name) IN TextOr(h, root, UdpFields[i], tags[i], defaults[i])]

(* What is set when the file does not load: the local port twice, the      *)
(* remote one not at all.                                                  *)
SetDefault == [LoadTexts(<<>>, Nil, Tags, Defaults) EXCEPT !.remote_port = 0]
TlsConfigLoad(h, root) == IF root = Nil THEN SetDefault ELSE LoadTexts(h, root, Tags, Defaults)
UdpEndpointConfigLoad(h, root) == IF root = Nil THEN Cleared(UdpFields) ELSE LoadTexts(h, root, UdpTags, UdpDefaults)
=============================================================================
