---------------------------- MODULE HttpResponse ----------------------------
(***************************************************************************)
(* http::parser::response::consume: how the client reads the answer to its *)
(* opening handshake, which is sent line by line and cut into reads        *)
(* anywhere, also between the two bytes of a line's end.                   *)
(* handle_read_http_response calls it once a read until the header is      *)
(* complete, and takes what is left of that read for the first frames of   *)
(* the stream.                                                             *)
(*                                                                         *)
(* One call of consume is: the read is appended to m_buf; then one step    *)
(* per turn of its loop, each of which takes one line off m_buf.  A byte   *)
(* is CR, LF, a blank "SP", "S" (which makes a line a status line, and is  *)
(* no letter of a name), "L" (a header of that name is Content-Length),    *)
(* ":", a digit, or "x".                                                   *)
(***************************************************************************)
EXTENDS Integers, Sequences, FiniteSets, SequencesExt

CONSTANTS
    Responses,      \* what the server may send: records [lines, rest]
    MaxHeaderSize,  \* max_header_size, 16000 in the code
    MaxChunk        \* bound: bytes of one read

Digits == <<"1", "2", "3">>
Letters == {"CR", "LF", "SP", "S", "L", ":", "1", "2", "3", "x"}
\* header_token: what may stand in a name.
TokenLetters == {"L", "1", "2", "3", "x"}
\* What >> skips.
Spaces == {"SP", "CR", "LF"}

VARIABLES
    response,       \* what the server sends in this run, line by line
    sent,           \* the bytes it has sent
    ends,           \* history: where each line begins, and where what was sent of the header ends
    seen,           \* how many of the bytes have been read
    m_state,        \* "RESPONSE_LINE", "HEADERS", "BODY" or "DONE"
    m_buf, m_header_bytes, m_read,
    m_headers,      \* the header lines processed
    len,            \* the bytes of the read being consumed, 0 between calls
    last,           \* that read
    processed,      \* what consume returned when the header was complete
    thrown          \* the exception, or "none"

vars == <<response, sent, ends, seen, m_state, m_buf, m_header_bytes, m_read, m_headers,
          len, last, processed, thrown>>

Delimiter == <<"CR", "LF">>
\* The blank line is the one behind the last.
LineOf(r, i) == IF i <= Len(r.lines) THEN r.lines[i] ELSE <<>>

-----------------------------------------------------------------------------
\* Fault: a carriage return alone ends a line.
FirstReturn(b) == LET at == {i \in 1 .. Len(b) - 1 : b[i] = "CR"}
                  IN  IF at = {} THEN 0 ELSE CHOOSE i \in at : \A j \in at : i <= j

\* std::search: where the first delimiter of the buffer begins, or 0.
FirstDelimiter(b) == LET at == {i \in 1 .. Len(b) - 1 : SubSeq(b, i, i + 1) = Delimiter}
                     IN  IF at = {} THEN 0 ELSE CHOOSE i \in at : \A j \in at : i <= j

IsStatusLine(line) == Contains(line, "S")

\* strip_lws: without the blanks around it.
NotBlank(c) == c # "SP"
Strip(s) == LET first == SelectInSeq(s, NotBlank)
            IN  IF first = 0 THEN <<>> ELSE SubSeq(s, first, SelectLastInSeq(s, NotBlank))

\* process_header: the name is before the first separator, the value is what follows.
IsSeparator(c) == c = ":"
Separator(line) == SelectInSeq(line, IsSeparator)
Name(line)  == Strip(SubSeq(line, 1, Separator(line) - 1))
Value(line) == Strip(SubSeq(line, Separator(line) + 1, Len(line)))

\* Fault: a header of any name is stored.
AnyName(name) == TRUE
\* append_header refuses a name with anything else in it.  The empty name has nothing.
ValidName(name) == \A i \in 1 .. Len(name) : name[i] \in TokenLetters

IsHeader(line) == Separator(line) > 0 /\ ValidName(Name(line))

\* append_header appends ", " and the value to a value that is not empty, so that
\* get_header("Content-Length") begins with the first of these.
LengthLines(hs) == {i \in 1 .. Len(hs) : Name(hs[i]) = <<"L">> /\ Value(hs[i]) # <<>>}
\* What >> makes of it: the number, or -1.
NotSpace(c) == c \notin Spaces
ParseLength(value) ==
    LET at == SelectInSeq(value, NotSpace)
    IN  IF \E d \in DOMAIN Digits : at > 0 /\ Digits[d] = value[at]
        THEN CHOOSE d \in DOMAIN Digits : Digits[d] = value[at]
        ELSE -1
ContentLength(hs) == IF LengthLines(hs) = {} THEN 0 ELSE ParseLength(Value(hs[Min(LengthLines(hs))]))

\* Fault: the delimiter's length is counted as sizeof gives it, in the result as well.
ReadSoFarWithNul(n, left) == n - left + Len(Delimiter) + 1
\* consume's result: the bytes of this read up to the end of the header; left is
\* the buffer from the blank line on.  The difference is negative when the blank
\* line began in an earlier read.
ReadSoFar(n, left) == n - left + Len(Delimiter)

\* Fault: only the line is counted.
CountedLine(n) == n
\* The bytes a turn adds to m_header_bytes: sizeof(header_delimiter) counts the
\* terminating NUL of the literal.
Counted(n) == n + Len(Delimiter) + 1
TooBig(n) == m_header_bytes + Counted(n) > MaxHeaderSize

-----------------------------------------------------------------------------
HeadersReady == m_state \in {"BODY", "DONE"}

\* The server sends its next line; what follows the header comes with the blank line.
Send ==
    /\ Len(ends) <= Len(response.lines) + 1
    /\ LET line == LineOf(response, Len(ends))
       IN  /\ sent' = sent \o line \o Delimiter
                         \o (IF Len(ends) > Len(response.lines) THEN response.rest ELSE <<>>)
           /\ ends' = Append(ends, ends[Len(ends)] + Len(line) + Len(Delimiter))
    /\ UNCHANGED <<response, seen, m_state, m_buf, m_header_bytes, m_read, m_headers,
                   len, last, processed, thrown>>

\* handle_read_http_response calls consume with the next read.
Receive ==
    /\ len = 0 /\ thrown = "none" /\ ~HeadersReady
    /\ \E n \in 1 .. MaxChunk :
          /\ n <= Len(sent) - seen
          /\ len' = n
          /\ last' = SubSeq(sent, seen + 1, seen + n)
          /\ m_buf' = m_buf \o SubSeq(sent, seen + 1, seen + n)
          /\ seen' = seen + n
    /\ UNCHANGED <<response, sent, ends, m_state, m_header_bytes, m_read, m_headers, processed, thrown>>

Throw(e) == thrown' = e /\ UNCHANGED <<m_state, m_buf, m_read, m_headers, len, processed>>

\* A turn of the loop that finds no delimiter keeps what is left for the next call.
OutOfBytes ==
    /\ len > 0 /\ thrown = "none" /\ FirstDelimiter(m_buf) = 0
    /\ IF TooBig(Len(m_buf))
       THEN Throw("too_large") /\ UNCHANGED m_header_bytes
       ELSE /\ m_header_bytes' = m_header_bytes + Counted(Len(m_buf)) - Len(m_buf)
            /\ m_read' = m_read + len
            /\ len' = 0
            /\ UNCHANGED <<m_state, m_buf, m_headers, processed, thrown>>
    /\ UNCHANGED <<response, sent, ends, seen, last>>

\* A turn that finds a line: the status line, or a header.
Line ==
    LET at   == FirstDelimiter(m_buf)
        line == SubSeq(m_buf, 1, at - 1)
    IN  /\ len > 0 /\ thrown = "none" /\ at > 1
        /\ m_header_bytes' = m_header_bytes + Counted(at - 1)
        /\ IF TooBig(at - 1) THEN Throw("too_large")
           ELSE IF m_state = "RESPONSE_LINE" /\ ~IsStatusLine(line) THEN Throw("bad_request")
           ELSE IF m_state = "HEADERS" /\ ~IsHeader(line) THEN Throw("bad_request")
           ELSE /\ m_state' = "HEADERS"
                /\ m_headers' = IF m_state = "HEADERS" THEN Append(m_headers, line) ELSE m_headers
                /\ m_buf' = SubSeq(m_buf, at + Len(Delimiter), Len(m_buf))
                /\ UNCHANGED <<m_read, len, processed, thrown>>
        /\ UNCHANGED <<response, sent, ends, seen, last>>

\* A turn that finds the blank line, and process_body for what is left.
BlankLine ==
    /\ len > 0 /\ thrown = "none" /\ FirstDelimiter(m_buf) = 1
    /\ m_header_bytes' = m_header_bytes + Counted(0)
    /\ IF TooBig(0) THEN Throw("too_large")
       ELSE IF m_state = "RESPONSE_LINE" \/ ContentLength(m_headers) < 0 THEN Throw("bad_request")
       ELSE LET length == ContentLength(m_headers)
                read   == ReadSoFar(len, Len(m_buf))
                body   == IF len - read < length THEN len - read ELSE length
            IN  /\ m_read' = length - body
                /\ m_state' = IF read < len /\ body = length THEN "DONE" ELSE "BODY"
                /\ processed' = read + body
                /\ m_buf' = <<>>
                /\ len' = 0
                /\ UNCHANGED <<m_headers, thrown>>
    /\ UNCHANGED <<response, sent, ends, seen, last>>

-----------------------------------------------------------------------------
Init ==
    /\ response \in Responses
    /\ sent = <<>> /\ ends = <<0>> /\ seen = 0
    /\ m_state = "RESPONSE_LINE" /\ m_buf = <<>> /\ m_header_bytes = 0 /\ m_read = 0
    /\ m_headers = <<>>
    /\ len = 0 /\ last = <<>> /\ processed = 0 /\ thrown = "none"

Next == Send \/ Receive \/ OutOfBytes \/ Line \/ BlankLine
Spec == Init /\ [][Next]_vars

-----------------------------------------------------------------------------
(***************************************************************************)
(* The reference: the response as the server composed it, by the grammar   *)
(* of a header line, which finds no name and strips no value.              *)
(***************************************************************************)
Headers(r) == Tail(r.lines)

\* Position k is the colon that ends the name.
Colon(l, k) == k \in 1 .. Len(l) /\ l[k] = ":" /\ \A i \in 1 .. k - 1 : l[i] # ":"
Blank(l, a, b) == \A i \in a .. b : l[i] = "SP"
\* Before it are letters of a token, and blanks only before or behind all of them.
FieldLine(l) ==
    \E k \in 1 .. Len(l) :
        /\ Colon(l, k)
        /\ \A i \in 1 .. k - 1 : l[i] \in TokenLetters \/ Blank(l, 1, i) \/ Blank(l, i, k - 1)
\* The line of a Content-Length that is not blank.
LengthLine(l) ==
    \E k \in 1 .. Len(l) :
        /\ Colon(l, k)
        /\ \E i \in 1 .. k - 1 : l[i] = "L" /\ Blank(l, 1, i - 1) /\ Blank(l, i + 1, k - 1)
        /\ ~Blank(l, k + 1, Len(l))
\* It says d: behind the colon is that number, with nothing but spaces between.
Says(l, d) ==
    \E k \in 1 .. Len(l) : \E p \in k + 1 .. Len(l) :
        Colon(l, k) /\ l[p] = Digits[d] /\ \A i \in k + 1 .. p - 1 : l[i] \in Spaces
\* The length of the body: the first such line says it, and -1 is none of a number.
BodyLength(r) ==
    LET at == {i \in 1 .. Len(Headers(r)) : LengthLine(Headers(r)[i])}
        l  == Headers(r)[Min(at)]
    IN  IF at = {} THEN 0
        ELSE IF \E d \in DOMAIN Digits : Says(l, d) THEN CHOOSE d \in DOMAIN Digits : Says(l, d)
        ELSE -1

BadHeader(r) ==
    \/ r.lines = <<>> \/ ~IsStatusLine(r.lines[1])
    \/ \E i \in 2 .. Len(r.lines) : ~FieldLine(r.lines[i])
    \/ BodyLength(r) < 0

HeaderSent == Len(ends) = Len(response.lines) + 2
HeaderSize == ends[Len(ends)]

\* What the connection will read as frames.
Frames == SubSeq(last, processed + 1, Len(last)) \o SubSeq(sent, seen + 1, Len(sent))

\* However the response is cut into reads: it is refused as a bad request only when
\* it is one, and accepted only with all of its header lines and nothing else; and
\* the stream of frames starts right behind the header and the part of the body
\* that came with it: no byte is lost and none is read twice.
ReadsResponse ==
    /\ thrown = "bad_request" => BadHeader(response)
    /\ HeadersReady => ~BadHeader(response) /\ m_headers = Headers(response)
    /\ HeadersReady =>
        LET body == BodyLength(response) - m_read
        IN  /\ HeaderSent /\ Frames = SubSeq(sent, HeaderSize + body + 1, Len(sent))
            /\ processed <= Len(last)

\* No header longer than the limit is accepted, and what is kept of an unfinished
\* line stays below it.
LimitHolds ==
    /\ HeadersReady => HeaderSize <= MaxHeaderSize
    /\ len = 0 => Len(m_buf) <= MaxHeaderSize

\* `Maximum size in bytes before rejecting an HTTP header as too big'
\* (http/constants.hpp:64): a header of no more bytes is not rejected.  Does not
\* hold (README, section 7): the counter takes in the NUL of the delimiter.
RejectsOnlyBigger == HeaderSent /\ thrown = "too_large" => HeaderSize > MaxHeaderSize
=============================================================================
