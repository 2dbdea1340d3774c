------------------------------- MODULE MCMxml ------------------------------
(* The instance for TLC of Mxml: tags of the daemon's configuration, tags  *)
(* that are cut off or wrong, and values of every kind.                    *)
EXTENDS Mxml, MxmlChecks

MCOrder(c) == CASE c = "tls_transmit_queue" -> 3 [] c = "queue" -> 2 [] c = "x" -> 4 [] c = "xml" -> 5 [] OTHER -> 1
MCDigits == {"0", "1", "2", "3", "4", "5", "6", "7", "8", "9"}
MCSpecial == {"&"}
MCTypeCallback(name) ==
  CASE name = <<"queue">> -> "integer" [] name = <<"x">> -> "custom" [] OTHER -> "opaque"

section == <<"tls_transmit_queue">>
queue == <<"queue">>
attr(name, value) == [name |-> <<name>>, value |-> value]
MCTopName == <<"x">>
MCTokens ==
  { Space, Char("1"), Char("x"), Entity("&"), Entity(""), Broken,
    Comment(<<"x">>), Cdata(<<"x">>), Directive(<<"xml">>), Declaration(<<"x">>),
    Close(section), Close(queue), Close(MCTopName), Close(<<"xml">>),
    Open(section, <<>>, ""), Open(queue, <<attr("priority", <<"1">>), attr("buffsize", <<"8">>)>>, "/"),
    Open(queue, <<attr("x", <<>>)>>, ""),
    Open(queue, <<attr("x", <<"1">>), attr("x", <<"8">>)>>, "/"),
    Open(<<"x">>, <<>>, "bad"), Open(<<"x">>, <<attr("x", Null)>>, "cut") }
MCConfigTokens ==
  { Directive(<<"xml">>), Open(section, <<>>, ""), Close(section),
    Open(queue, <<attr("priority", <<"1">>), attr("buffsize", <<"8">>)>>, "/"),
    Open(queue, <<attr("priority", <<>>), attr("buffsize", <<"9">>)>>, ""), Close(queue) }
MCOptionSets ==
  { NoOptions, OptionsSetTypeValue(OptionsNew, "opaque"),
    OptionsSetCustomCallbacks(OptionsSetTypeCallback(OptionsNew)), OptionsSetSAXCallback(OptionsNew) }
MCEditValues == {<<"x">>}
=============================================================================
