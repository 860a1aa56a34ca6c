---------------------------- MODULE MCConnection ----------------------------
EXTENDS ConnectionRefinement

\* One symbol, or two of which the second may not be UTF-8.
OneSymbol  == <<"BTC">>
GoodAndBad == <<"BTC", "bad">>

\* One frame a read, and the pairs in which the second frame meets the state the
\* first one leaves.
AllBursts == {<<>>} \cup {<<f>> : f \in PeerFrame}
                \cup {<<"ping", "data">>, <<"close", "data">>, <<"close", "badClose">>,
                      <<"malformed", "data">>, <<"badClose", "malformed">>, <<"ping", "notJson">>}
FewBursts == {<<>>, <<"data">>, <<"ping">>, <<"close">>, <<"malformed">>}
CloseBursts == {<<>>, <<"close">>, <<"badClose">>}
=============================================================================
