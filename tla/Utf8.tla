-------------------------------- MODULE Utf8 --------------------------------
(***************************************************************************)
(* utf8_validator: the table-driven decoder that send(), consume() and the *)
(* close frames use to check text, byte by byte, against the definition of *)
(* UTF-8 (RFC 3629: shortest form, no surrogates, nothing past U+10FFFF).  *)
(* FrameReader uses it on two-byte characters only.                        *)
(*                                                                         *)
(* The message handler gives the same text to json::parse, whose lexer has *)
(* a decoder of its own, a table of byte ranges: both read the same bytes. *)
(***************************************************************************)
EXTENDS Integers, Sequences, FiniteSets

CONSTANT Byte           \* the bytes the text is made of
ASSUME ByteAssumption == Byte \subseteq 0 .. 255

\* utf8d, the first half: the type of a byte.
\* Fault: F4 is followed by any continuation byte.
TypeWithoutLimit(b) ==
    IF b < 128 THEN 0 ELSE IF b < 144 THEN 1 ELSE IF b < 160 THEN 9 ELSE IF b < 192 THEN 7
    ELSE IF b < 194 THEN 8 ELSE IF b < 224 THEN 2 ELSE IF b = 224 THEN 10
    ELSE IF b = 237 THEN 4 ELSE IF b < 240 THEN 3 ELSE IF b = 240 THEN 11
    ELSE IF b < 245 THEN 6 ELSE 8
Type(b) ==
    IF b < 128 THEN 0 ELSE IF b < 144 THEN 1 ELSE IF b < 160 THEN 9 ELSE IF b < 192 THEN 7
    ELSE IF b < 194 THEN 8 ELSE IF b < 224 THEN 2 ELSE IF b = 224 THEN 10
    ELSE IF b = 237 THEN 4 ELSE IF b < 240 THEN 3 ELSE IF b = 240 THEN 11
    ELSE IF b < 244 THEN 6 ELSE IF b = 244 THEN 5 ELSE 8

Accept == 0
Reject == 1
\* The second half: what is not listed is a rejection.  A state is what is still
\* to come: 2, 3: one, two continuation bytes; 4: A0..BF and one; 5: 80..9F and
\* one; 6: 90..BF and two; 7: three; 8: 80..8F and two.
Begin(t) == <<0, 1, 2, 3, 5, 8, 7, 1, 1, 1, 4, 6>>[t + 1]
Continues(s) ==
    IF s \in {2, 3, 7} THEN {1, 7, 9} ELSE IF s = 4 THEN {7} ELSE IF s = 5 THEN {1, 9}
    ELSE IF s = 6 THEN {7, 9} ELSE IF s = 8 THEN {1} ELSE {}
Transition(s, t) ==
    IF s = 0 THEN Begin(t) ELSE IF t \notin Continues(s) THEN 1
    ELSE IF s = 2 THEN 0 ELSE IF s \in 3 .. 5 THEN 2 ELSE 3

-----------------------------------------------------------------------------
\* lexer::scan_string: the ranges of the bytes that must follow, by the first
\* byte.  IllFormed are the bytes that begin no character.
Rest == 128 .. 191
\* Fault: E0 is followed by any continuation byte, so that a character has two forms.
RangesWithOverlong(b) ==
    IF b < 128 THEN <<>> ELSE IF b \in 194 .. 223 THEN <<Rest>>
    ELSE IF b = 237 THEN <<128 .. 159, Rest>>
    ELSE IF b \in 224 .. 239 THEN <<Rest, Rest>>
    ELSE IF b = 240 THEN <<144 .. 191, Rest, Rest>>
    ELSE IF b \in 241 .. 243 THEN <<Rest, Rest, Rest>> ELSE <<128 .. 143, Rest, Rest>>
Ranges(b) ==
    IF b < 128 THEN <<>> ELSE IF b \in 194 .. 223 THEN <<Rest>>
    ELSE IF b = 224 THEN <<160 .. 191, Rest>> ELSE IF b = 237 THEN <<128 .. 159, Rest>>
    ELSE IF b \in 225 .. 239 THEN <<Rest, Rest>>
    ELSE IF b = 240 THEN <<144 .. 191, Rest, Rest>>
    ELSE IF b \in 241 .. 243 THEN <<Rest, Rest, Rest>> ELSE <<128 .. 143, Rest, Rest>>
IllFormed(b) == b \in 128 .. 193 \/ b \in 245 .. 255

VARIABLES
    m_state, m_codepoint,
    char,       \* history: the bytes since the last complete character
    ranges,     \* what next_byte_in_range still asks for
    parse_error
vars == <<m_state, m_codepoint, char, ranges, parse_error>>

-----------------------------------------------------------------------------

\* Fault: the bits of the lead byte are not masked by its type.
LeadBitsUnmasked(b) == b
\* (0xff >> type) & byte
LeadBits(b) == b % (2 ^ (8 - Type(b)))

\* decode, and the validator's members that call it.  A character ends or is
\* rejected by its fourth byte, so that m_codepoint never outgrows its 32 bits.
Decode(b) ==
    /\ m_codepoint' = IF m_state # Accept
                      THEN 64 * m_codepoint + (b % 64)
                      ELSE IF Type(b) <= 8 THEN LeadBits(b) ELSE 0
    /\ m_state' = Transition(m_state, Type(b))
    /\ char' = IF m_state = Accept THEN <<b>> ELSE Append(char, b)

\* scan_string and next_byte_in_range on the same byte
ScanByte(b) ==
    LET wrong == IF ranges = <<>> THEN IllFormed(b) ELSE b \notin Head(ranges)
    IN  /\ parse_error' = (parse_error \/ wrong)
        /\ ranges' = IF wrong \/ parse_error THEN <<>>
                     ELSE IF ranges = <<>> THEN Ranges(b) ELSE Tail(ranges)

\* The caller reads nothing more once a byte was rejected.
Next == m_state # Reject /\ \E b \in Byte : Decode(b) /\ ScanByte(b)
Init == /\ m_state = Accept /\ m_codepoint = 0 /\ char = <<>>
        /\ ranges = <<>> /\ parse_error = FALSE
Spec == Init /\ [][Next]_vars

-----------------------------------------------------------------------------
\* The reference: a character is the shortest encoding of a Unicode scalar value.
ScalarValue(n) == (0 <= n /\ n < 55296) \/ (57344 <= n /\ n <= 1114111)
Continuation(b) == b \in 128 .. 191
Lead  == <<0 .. 127, 192 .. 223, 224 .. 239, 240 .. 247>>    \* by the length
Least == <<0, 128, 2048, 65536>>
Value(c) ==
    LET n     == Len(c)
        lead  == c[1] - <<0, 192, 224, 240>>[n]
        at(i) == c[i] - 128
    IN  IF n = 1 THEN lead
        ELSE IF n = 2 THEN 64 * lead + at(2)
        ELSE IF n = 3 THEN 4096 * lead + 64 * at(2) + at(3)
        ELSE 262144 * lead + 4096 * at(2) + 64 * at(3) + at(4)
WellFormed(c) ==
    /\ Len(c) \in 1 .. 4
    /\ c[1] \in Lead[Len(c)]
    /\ \A i \in 2 .. Len(c) : Continuation(c[i])
    /\ ScalarValue(Value(c)) /\ Value(c) >= Least[Len(c)]
\* Some way to go on from c ends in a character: it is enough to try the least and
\* the greatest continuation.
Extends(c, b, n) == [i \in 1 .. n |-> IF i <= Len(c) THEN c[i] ELSE b]
Begins(c) == \E n \in Len(c) .. 4 : \E b \in {128, 191} : WellFormed(Extends(c, b, n))

\* The decoder is back in its first state exactly at the end of a character, with
\* its code point; and it rejects a byte exactly when nothing that follows could
\* make a character of it, so that a text is refused at its first wrong byte and
\* never later.
DecodesCharacters ==
    /\ m_state = Accept => char = <<>> \/ (WellFormed(char) /\ m_codepoint = Value(char))
    /\ char # <<>> => (m_state = Reject <=> ~Begins(char))

\* The two decoders agree on every byte: the lexer refuses no text that passed the
\* validator, and where one is between characters so is the other.
SameText == /\ parse_error <=> m_state = Reject
            /\ m_state # Reject => (ranges = <<>> <=> m_state = Accept)
=============================================================================
