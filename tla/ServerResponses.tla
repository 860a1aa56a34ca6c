-------------------------- MODULE ServerResponses --------------------------
(***************************************************************************)
(* Responses of a server to the opening handshake, for module HttpResponse.*)
(***************************************************************************)
EXTENDS Naturals, Sequences

Status == {<<"S">>, <<"x">>}

\* Headers: blanks around the name or the value, a return in the value, a name that
\* begins like Content-Length, and lengths with a number or empty.
Headers ==
    {<<"SP", "x", "SP", ":">>, <<"x", ":", "CR">>, <<"L", "L", ":", "x">>,
     <<"L", "SP", ":", "2">>, <<"L", ":", "CR", "1">>, <<"L", ":", "SP">>}
\* And lines that are refused: a length without a number, a line without a name, and
\* names with a return, a blank, or a letter that may not be in one.
WrongLines ==
    {<<"L", ":", "x">>, <<"x">>, <<"x", "CR", ":">>, <<"x", "SP", "x", ":">>, <<"S", ":">>}

Rests == {<<>>, <<"x", "CR", "LF">>, <<"CR", "LF", "x", "x">>}

Long == <<"x", ":">> \o [i \in 1 .. 20 |-> "x"]

AllResponses ==
    {[lines |-> <<<<"S">>, Long>>, rest |-> <<"x">>]} \cup
    {[lines |-> ls, rest |-> r] :
        ls \in {<<>>} \cup {<<s>> : s \in Status}
                 \cup {<<<<"S">>, h>> : h \in Headers \cup WrongLines}
                 \cup {<<<<"S">>, h, g>> : h \in Headers, g \in Headers \cup {<<"L", ":", "x">>, <<"x", "CR", ":">>}},
        r \in Rests}
=============================================================================
