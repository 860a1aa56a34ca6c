---------------------------- MODULE ServerFrames ----------------------------
(***************************************************************************)
(* Frames a server may send, for module FrameReader: records [op, fin, rsv,*)
(* masked, code, payload], where code is the value of the length bits.     *)
(***************************************************************************)
EXTENDS Naturals, Sequences

CONSTANTS PayloadSizeBasic, PayloadSizeExtended
Code16 == PayloadSizeBasic + 1
Code64 == PayloadSizeBasic + 2

F(op, fin, code, payload) ==
    [op |-> op, fin |-> fin, rsv |-> FALSE, masked |-> FALSE, code |-> code, payload |-> payload]
\* A frame whose length is encoded as it should be.
Good(op, fin, payload) ==
    F(op, fin, IF Len(payload) <= PayloadSizeBasic THEN Len(payload)
               ELSE IF Len(payload) <= PayloadSizeExtended THEN Code16 ELSE Code64, payload)

Alphabet ==
    { Good("text", TRUE, <<"a">>), Good("text", TRUE, <<"L", "c">>), Good("text", TRUE, <<"L">>),
      Good("text", TRUE, <<>>),
      Good("text", FALSE, <<"a", "L">>), Good("text", FALSE, <<>>),
      Good("binary", FALSE, <<"c", "L", "L">>), Good("binary", TRUE, <<"c", "a", "a", "a", "a">>),
      Good("continuation", TRUE, <<"c">>), Good("continuation", FALSE, <<"c", "a", "a">>),
      Good("continuation", TRUE, <<>>), Good("continuation", TRUE, <<"L">>),
      Good("ping", TRUE, <<"L">>), Good("pong", TRUE, <<>>), Good("close", TRUE, <<"c", "c">>) }
Wrong ==
    { Good("ping", FALSE, <<>>), F("ping", TRUE, Code16, <<"a", "a", "a">>),
      Good("reserved", TRUE, <<>>), Good("reservedControl", TRUE, <<>>),
      [Good("text", TRUE, <<"a">>) EXCEPT !.rsv = TRUE],
      [Good("text", TRUE, <<"a">>) EXCEPT !.masked = TRUE],
      F("text", TRUE, Code16, <<"a">>), F("binary", TRUE, Code64, <<"a", "a", "a", "a">>),
      Good("binary", TRUE, <<"a", "a", "a", "a", "a", "a">>) }

Streams3 == {<<f, g, h>> : f \in Alphabet, g \in Alphabet, h \in Alphabet}
StreamsWrong == {<<f, g>> : f \in Alphabet, g \in Wrong} \cup {<<f, g>> : f \in Wrong, g \in Alphabet}
FragmentedText == {<<Good("text", FALSE, <<"a">>), Good("continuation", TRUE, p)>> :
                       p \in {<<"a">>, <<"L">>, <<"L", "c">>}}
                    \cup {<<Good("text", FALSE, <<"a">>), Good("ping", TRUE, <<>>),
                            Good("continuation", TRUE, <<"L">>)>>}
AllStreams == Streams3 \cup StreamsWrong \cup {<<>>}
=============================================================================
