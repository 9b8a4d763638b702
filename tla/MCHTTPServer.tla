---------------------------- MODULE MCHTTPServer ----------------------------
(* HTTPServer for TLC: the messages that make a difference to the parser,  *)
(* and bytes behind a copy that are none or look like a header's value and *)
(* make a registered uri of another.                                       *)
EXTENDS HTTPServer

Header(k, v) == [key |-> k, colon |-> <<":", " ">>, value |-> v]
Message(uri, hs, text) ==
    [method |-> <<"GET">>, uri |-> uri, http_version |-> <<"HTTP/1.1">>,
     headers |-> hs, body |-> text, eol |-> <<LF>>]

Host   == Header(<<"Host">>, <<"localhost", ":", "8085">>)
Typed  == Header(ContentType, <<"text/plain">>)
Form   == Header(ContentType, FormType)
Odd    == [key |-> <<"Odd">>, colon |-> <<>>, value |-> <<>>]
Bare   == [key |-> <<"Bare">>, colon |-> <<":">>, value |-> <<>>]
Near   == <<"/index">>
Reload == <<":", "reload">>
Index  == Near \o Reload
Other  == <<"/other">>

Requests == {
    Message(Near, <<Host>>, <<>>),
    Message(Index \o <<" ", "now">>, <<Host>>, <<>>),
    Message(Other, <<Bare, Host, Host>>, <<>>),
    Message(Index, <<Typed, Odd>>, <<"some", LF, "text">>),
    Message(Index, <<Typed>>, <<"some", LF, LF, "text">>),
    Message(Index, <<Typed>>, <<>>),
    Message(Other, <<Form>>, <<"key", "=", "value">>),
    Message(Other, <<Form>>, <<"&">>),
    Message(Index, <<>>, <<"text">>),
    [Message(Index, <<Host>>, <<"text">>) EXCEPT !.eol = <<CR, LF>>],
    [Message(Index, <<Host>>, <<>>) EXCEPT !.http_version = <<>>]
}
\* One client asks for all of this, the others for what has no surprises.
Curious == CHOOSE c \in Clients : TRUE
ByClient == [c \in Clients |-> IF c = Curious THEN Requests ELSE {Message(Other, <<Host>>, <<>>)}]
OneUri == {Index}
Behind == {<<>>, Reload}
=============================================================================
