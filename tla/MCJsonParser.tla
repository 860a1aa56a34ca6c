---------------------------- MODULE MCJsonParser ----------------------------
(***************************************************************************)
(* What a document is, written a second time as a grammar, for json::parse *)
(* (module JsonParser) to be checked against.  The run is that of          *)
(* MCAnswers, which looks at the scanner as well.                          *)
(***************************************************************************)
EXTENDS MCAnswers

-----------------------------------------------------------------------------
(***************************************************************************)
(* The reference: the grammar of RFC 8259, as the documents that the       *)
(* tokens i to j of a text may denote.  A "value" is a scalar or, within   *)
(* its brackets, the elements of a container.  The elements of an "array"  *)
(* or of an "object" are read with the bracket that ends them: the first   *)
(* one, which in an object has a key and a colon before its value, and     *)
(* that bracket, or a comma and the others.                                *)
(***************************************************************************)
Containers == {"array", "object"}
Opener(kind) == IF kind = "array" THEN "[" ELSE "{"
Closer(kind) == IF kind = "array" THEN "]" ELSE "}"

\* What a container is made of: a sequence, or a function on its keys.  Of two members
\* with one key the later one counts.
Nothing(kind)    == IF kind = "array" THEN <<>> ELSE [k \in {} |-> 0]
One(kind, t, v)  == IF kind = "array" THEN <<v>> ELSE [k \in {t} |-> v]
Join(kind, x, y) == IF kind = "array" THEN x \o y
                    ELSE [k \in DOMAIN x \cup DOMAIN y |-> IF k \in DOMAIN y THEN y[k] ELSE x[k]]
Made(kind, x)    == IF kind = "array" THEN [kind |-> "array", items |-> x]
                                      ELSE [kind |-> "object", members |-> x]

\* Where the value of the element that begins at i begins; whether a key comes before it.
ValueAt(kind, i)  == IF kind = "array" THEN i ELSE i + 2
Begins(s, kind, i) == kind = "object" => s[i] \in Strings /\ s[i + 1] = ":"

\* What tokens i to j of s denote as a value, as elements, by what fewer tokens denote (D).
AllMade(kind, ys)         == {Made(kind, y) : y \in ys}
AllJoined(kind, t, vs, ys) == {Join(kind, One(kind, t, v), y) : v \in vs, y \in ys}

Values(D, s, i, j) ==
    IF i = j THEN {Scalar(t) : t \in {s[i]} \cap Scalars}
    ELSE IF i < j
    THEN UNION {AllMade(k, IF j = i + 1 THEN {Nothing(k)} ELSE D[<<k, i + 1, j>>]) :
                k \in {k \in Containers : s[i] = Opener(k) /\ s[j] = Closer(k)}}
    ELSE {}

Ends(s, i, j)         == {c \in i .. j : c = j \/ s[c] = ","}
Others(D, kind, c, j) == IF c = j THEN {Nothing(kind)} ELSE D[<<kind, c + 1, j>>]
Elements(D, s, kind, i, j) ==
    IF i < j /\ s[j] = Closer(kind) /\ Begins(s, kind, i)
    THEN UNION {AllJoined(kind, s[i], D[<<"value", ValueAt(kind, i), c - 1>>], Others(D, kind, c, j)) :
                c \in Ends(s, ValueAt(kind, i) + 1, j)}
    ELSE {}

Phrases == (Containers \cup {"value"}) \X Nat \X Nat
Denoted(s) ==
    LET D[x \in Phrases] == IF x[1] = "value" THEN Values(D, s, x[2], x[3])
                                              ELSE Elements(D, s, x[1], x[2], x[3])
    IN  D
Documents(s) == Denoted(s)[<<"value", 1, Len(s)>>]

\* The document below a node.
Tree[n \in DOMAIN heap] ==
    IF heap[n].kind = "array"
    THEN [kind |-> "array", items |-> [i \in DOMAIN heap[n].items |-> Tree[heap[n].items[i]]]]
    ELSE IF heap[n].kind = "object"
    THEN [kind |-> "object", members |-> [k \in DOMAIN heap[n].members |-> Tree[heap[n].members[k]]]]
    ELSE heap[n]

\* What may be missing of the container or the member that has begun, and as many ends
\* as there are containers open.
Middles == {<<>>, <<"v">>, <<":", "v">>, <<"k", ":", "v">>}
Count(brackets) == Cardinality({i \in DOMAIN text : text[i] \in brackets})
Closers == [1 .. Count({"[", "{"}) - Count({"]", "}"}) -> {"]", "}"}]

\* json::parse gives the document its text denotes, keys that come twice included.
ParsesTheDocument == wants = "parsed" => {Tree[1]} = Documents(Front(text))

\* A text is refused only when no document begins with it, or, at its end, when it is none.
RefusesOnlyWrongText ==
    wants = "refused" =>
        IF Last(text) = "end" THEN Documents(Front(text)) = {}
        ELSE \A m \in Middles, c \in Closers : Documents(text \o m \o c) = {}
=============================================================================
