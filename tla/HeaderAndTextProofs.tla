------------------------- MODULE HeaderAndTextProofs -------------------------
(***************************************************************************)
(* Two of the readers of MCReading, for inputs of any length: first that   *)
(* of the response's header (HttpResponse), then the decoders of the text  *)
(* of a message (Utf8).  The third, of the frames, is FrameReaderProofs.   *)
(***************************************************************************)
EXTENDS MCReading, SequenceTheorems, WellFoundedInduction, TLAPS

-----------------------------------------------------------------------------
(***************************************************************************)
(* The reader of the response's header (HttpResponse), for responses of    *)
(* any lines and reads of any size: the theorems are about the readers of  *)
(* MCReading, of which it is one.                                          *)
(*                                                                         *)
(* The bytes are known by their place: what was sent is the lines one      *)
(* behind the other (SentInv), and the buffer begins where a line does     *)
(* (AtLine), so that the first delimiter in it is the end of that line.    *)
(***************************************************************************)

Chars == Seq(Header!Letters)

\* b begins a line l: it is a prefix of the line with its delimiter, or goes on behind it.
BeginsLine(b, l) ==
    \A i \in 1 .. Len(b) : /\ i <= Len(l) => b[i] = l[i]
                           /\ i = Len(l) + 1 => b[i] = "CR"
                           /\ i = Len(l) + 2 => b[i] = "LF"
OneLine(l) == \A k \in 1 .. Len(l) - 1 : ~(l[k] = "CR" /\ l[k + 1] = "LF")

LEMMA Pairs ==
    ASSUME NEW S, NEW a \in S, NEW b \in S
    PROVE  <<a, b>> \in Seq(S) /\ Len(<<a, b>>) = 2 /\ <<a, b>>[1] = a /\ <<a, b>>[2] = b
    OBVIOUS

LEMMA TheDelimiter ==
    /\ Header!Delimiter \in Chars /\ Len(Header!Delimiter) = 2
    /\ Header!Delimiter[1] = "CR" /\ Header!Delimiter[2] = "LF"
  <1>1. "CR" \in Header!Letters /\ "LF" \in Header!Letters
    BY DEF Header!Letters
  <1> QED
    BY <1>1, Pairs DEF Header!Delimiter, Chars

LEMMA DelimiterOfLine ==
    ASSUME NEW b \in Chars, NEW l \in Chars, OneLine(l), BeginsLine(b, l)
    PROVE  Header!FirstDelimiter(b) = IF Len(b) >= Len(l) + 2 THEN Len(l) + 1 ELSE 0
  <1> DEFINE at == {i \in 1 .. Len(b) - 1 : SubSeq(b, i, i + 1) = Header!Delimiter}
  <1>0. Len(b) \in Nat /\ Len(l) \in Nat
    BY LenProperties DEF Chars
  <1>1. ASSUME NEW i \in 1 .. Len(b) - 1
        PROVE  SubSeq(b, i, i + 1) = Header!Delimiter <=> b[i] = "CR" /\ b[i + 1] = "LF"
    <2>1. i \in Int /\ i + 1 \in Int /\ i <= i + 1 /\ i + 1 - i + 1 = 2
          /\ \A j \in i .. i + 1 : j \in 1 .. Len(b)
      BY <1>0, <1>1
    <2>2. \A j \in i .. i + 1 : b[j] \in Header!Letters
      BY <2>1, ElementOfSeq DEF Chars
    <2>3. /\ SubSeq(b, i, i + 1) \in Seq(Header!Letters) /\ Len(SubSeq(b, i, i + 1)) = 2
          /\ SubSeq(b, i, i + 1)[1] = b[i] /\ SubSeq(b, i, i + 1)[2] = b[i + 1]
      <3>1. /\ SubSeq(b, i, i + 1) \in Seq(Header!Letters) /\ Len(SubSeq(b, i, i + 1)) = i + 1 - i + 1
            /\ \A j \in 1 .. i + 1 - i + 1 : SubSeq(b, i, i + 1)[j] = b[i + j - 1]
        BY <2>1, <2>2, SubSeqProperties
      <3> QED
        BY <2>1, <3>1
    <2>4. Header!Delimiter \in Seq(Header!Letters) /\ Len(Header!Delimiter) = 2
          /\ Header!Delimiter[1] = "CR" /\ Header!Delimiter[2] = "LF"
      BY TheDelimiter DEF Chars
    <2>5. b[i] = "CR" /\ b[i + 1] = "LF" => SubSeq(b, i, i + 1) = Header!Delimiter
      <3> SUFFICES ASSUME b[i] = "CR", b[i + 1] = "LF" PROVE SubSeq(b, i, i + 1) = Header!Delimiter
        OBVIOUS
      <3>1. \A j \in 1 .. Len(SubSeq(b, i, i + 1)) : SubSeq(b, i, i + 1)[j] = Header!Delimiter[j]
        BY <2>3, <2>4
      <3> QED
        BY <2>3, <2>4, <3>1, SeqEqual
    <2> QED
      BY <2>3, <2>4, <2>5
  <1>2. \A i \in at : b[i] = "CR" /\ b[i + 1] = "LF" /\ i \in 1 .. Len(b) - 1
    BY <1>1
  <1>3. \A i \in at : i >= Len(l) + 1
    <2> SUFFICES ASSUME NEW i \in 1 .. Len(b) - 1, b[i] = "CR", b[i + 1] = "LF", i <= Len(l)
                 PROVE  FALSE
      BY <1>0, <1>2
    <2>1. CASE i = Len(l)
      BY <1>0, <2>1 DEF BeginsLine
    <2>2. CASE i < Len(l)
      BY <1>0, <2>2 DEF BeginsLine, OneLine
    <2> QED
      BY <1>0, <2>1, <2>2
  <1>4. CASE Len(b) >= Len(l) + 2
    <2>1. Len(l) + 1 \in at
      <3>1. Len(l) + 1 \in 1 .. Len(b) - 1 /\ b[Len(l) + 1] = "CR" /\ b[Len(l) + 1 + 1] = "LF"
        BY <1>0, <1>4 DEF BeginsLine
      <3> QED
        BY <1>1, <3>1
    <2>2. \A i, k \in at : (\A j \in at : i <= j) /\ (\A j \in at : k <= j) => i = k
      OBVIOUS
    <2>3. (CHOOSE i \in at : \A j \in at : i <= j) = Len(l) + 1
      BY <1>0, <1>3, <2>1, <2>2
    <2> HIDE DEF at
    <2>4. at # {}
      BY <2>1
    <2> QED
      BY <1>0, <1>4, <2>3, <2>4 DEF Header!FirstDelimiter, at
  <1>5. CASE ~(Len(b) >= Len(l) + 2)
    <2>1. \A i \in at : FALSE
      <3> HIDE DEF at
      <3> QED
        BY <1>0, <1>2, <1>3, <1>5
    <2>2. at = {}
      BY <2>1
    <2> QED
      BY <2>2, <1>5 DEF Header!FirstDelimiter
  <1> QED
    BY <1>4, <1>5
-----------------------------------------------------------------------------
(***************************************************************************)
(* The header of the response.  What was sent is the lines one behind the  *)
(* other, up to the place where ends stops; the buffer begins where a line *)
(* does, and every line before that one was taken as it was sent.          *)
(***************************************************************************)
Lines  == response.lines
LineAt(i) == Header!LineOf(response, i)
\* Line i, with its delimiter, lies between ends[i] and ends[i + 1].
LineSent(i) ==
    /\ ends[i + 1] = ends[i] + Len(LineAt(i)) + 2
    /\ ends[i + 1] <= Len(header_sent)
    /\ \A k \in 1 .. Len(LineAt(i)) : header_sent[ends[i] + k] = LineAt(i)[k]
    /\ header_sent[ends[i] + Len(LineAt(i)) + 1] = "CR"
    /\ header_sent[ends[i] + Len(LineAt(i)) + 2] = "LF"
SentInv ==
    /\ response \in Responses
    /\ header_sent \in Chars
    /\ ends \in Seq(Nat) /\ Len(ends) >= 1 /\ Len(ends) <= Len(Lines) + 2
    /\ \A i \in 1 .. Len(ends) - 1 : LineSent(i)
    /\ Len(ends) <= Len(Lines) + 1 => ends[Len(ends)] = Len(header_sent)

\* Where the buffer lies in what was sent, when line j is to be taken next.
AtLine(j) ==
    /\ j \in 1 .. Len(Lines) + 1 /\ j <= Len(ends)
    /\ header_seen \in Nat /\ header_seen <= Len(header_sent)
    /\ m_buf \in Chars /\ ends[j] + Len(m_buf) = header_seen
    /\ \A i \in 1 .. Len(m_buf) : m_buf[i] = header_sent[ends[j] + i]
\* What is known of the lines that were taken.
TakenLines(j) ==
    /\ header_state = IF j = 1 THEN "RESPONSE_LINE" ELSE "HEADERS"
    /\ j > 1 => Header!IsStatusLine(Lines[1])
    /\ \A i \in 2 .. j - 1 : Header!IsHeader(Lines[i])
    /\ m_headers = SubSeq(Lines, 2, j - 1)
\* The read that is being consumed is the last one, and line j was not complete before it.
ThisRead(j) ==
    /\ len \in Nat /\ len <= header_seen
    /\ len > 0 => last = SubSeq(header_sent, header_seen - len + 1, header_seen)
    /\ j < Len(ends) => header_seen - len < ends[j + 1]
CountInv(j) ==
    /\ m_header_bytes \in Nat /\ m_header_bytes >= ends[j]
    /\ len = 0 => Len(m_buf) <= MaxHeaderSize

\* The header was accepted.
Done == /\ len = 0 /\ m_buf = <<>>
        /\ Len(ends) = Len(Lines) + 2 /\ Header!HeaderSize <= MaxHeaderSize
        /\ ReadsResponse

Ready == header_state \in {"BODY", "DONE"}
HeaderInv ==
    /\ SentInv
    /\ thrown = "none" /\ ~Ready =>
          \E j \in Nat : AtLine(j) /\ TakenLines(j) /\ ThisRead(j) /\ CountInv(j)
    /\ thrown # "none" => len \in Nat \ {0} /\ ~Ready
    /\ thrown = "bad_request" => Header!BadHeader(response)
    /\ Ready => Done
-----------------------------------------------------------------------------
LEMMA ResponseTypes ==
    ASSUME response \in Responses
    PROVE  /\ Lines \in Seq(Chars) /\ Len(Lines) \in Nat /\ response.rest \in Chars
           /\ \A i \in 1 .. Len(Lines) + 1 : LineAt(i) \in Chars /\ OneLine(LineAt(i))
           /\ \A i \in 1 .. Len(Lines) : LineAt(i) = Lines[i] /\ Len(LineAt(i)) > 0
           /\ Len(LineAt(Len(Lines) + 1)) = 0
  <1>1. /\ Lines \in Seq(Chars) /\ response.rest \in Chars
        /\ \A i \in 1 .. Len(Lines) : Lines[i] # <<>> /\ OneLine(Lines[i])
    BY ResponsesAssumption DEF Lines, Chars, OneLine
  <1>2. Len(Lines) \in Nat /\ \A i \in 1 .. Len(Lines) : Lines[i] \in Chars
    BY <1>1, LenProperties, ElementOfSeq
  <1>3. \A i \in 1 .. Len(Lines) : LineAt(i) = Lines[i]
    BY <1>2 DEF LineAt, Header!LineOf, Lines
  <1>4. \A i \in 1 .. Len(Lines) : Len(Lines[i]) > 0
    <2> SUFFICES ASSUME NEW i \in 1 .. Len(Lines) PROVE Len(Lines[i]) > 0
      OBVIOUS
    <2>1. Lines[i] \in Chars /\ Lines[i] # <<>>
      BY <1>1, <1>2
    <2> QED
      BY <2>1, EmptySeq, LenProperties DEF Chars
  <1>5. LineAt(Len(Lines) + 1) = <<>>
    BY <1>2 DEF LineAt, Header!LineOf, Lines
  <1>6. <<>> \in Chars /\ Len(<<>>) = 0 /\ OneLine(<<>>)
    BY EmptySeq DEF Chars, OneLine
  <1>7. \A i \in 1 .. Len(Lines) + 1 : i \in 1 .. Len(Lines) \/ i = Len(Lines) + 1
    BY <1>2
  <1> QED
    BY <1>1, <1>2, <1>3, <1>4, <1>5, <1>6, <1>7

\* The state's positions are numbers.
LEMMA Places ==
    ASSUME SentInv
    PROVE  /\ Len(ends) \in Nat /\ Len(header_sent) \in Nat
           /\ \A i \in 1 .. Len(ends) : ends[i] \in Nat
           /\ \A i \in 1 .. Len(header_sent) : header_sent[i] \in Header!Letters
    BY LenProperties, ElementOfSeq DEF SentInv, Chars

\* consume finds the end of line j exactly when all of it is there.
LEMMA FindsLine ==
    ASSUME SentInv, NEW j \in Nat, AtLine(j)
    PROVE  /\ Len(m_buf) \in Nat /\ Len(LineAt(j)) \in Nat
           /\ Header!FirstDelimiter(m_buf)
                = IF Len(m_buf) >= Len(LineAt(j)) + 2 THEN Len(LineAt(j)) + 1 ELSE 0
           /\ Len(m_buf) > 0 => j < Len(ends) /\ LineSent(j)
  <1>1. /\ LineAt(j) \in Chars /\ OneLine(LineAt(j)) /\ j \in 1 .. Len(Lines) + 1 /\ m_buf \in Chars
        /\ Len(m_buf) \in Nat /\ Len(LineAt(j)) \in Nat /\ Len(Lines) \in Nat
    BY ResponseTypes, LenProperties DEF SentInv, AtLine, Chars
  <1>2. Len(m_buf) > 0 => j < Len(ends) /\ LineSent(j)
    <2> SUFFICES ASSUME Len(m_buf) > 0 PROVE j < Len(ends) /\ LineSent(j)
      OBVIOUS
    <2>1. j < Len(ends)
      BY <1>1, Places DEF SentInv, AtLine
    <2> QED
      BY <1>1, <2>1, Places DEF SentInv
  <1>3. BeginsLine(m_buf, LineAt(j))
    <2>1. CASE Len(m_buf) = 0
      BY <2>1 DEF BeginsLine
    <2>2. CASE Len(m_buf) > 0
      <3>1. j \in 1 .. Len(ends) /\ ends[j] \in Nat
        BY <1>1, <1>2, <2>2, Places
      <3>2. /\ \A k \in 1 .. Len(LineAt(j)) : header_sent[ends[j] + k] = LineAt(j)[k]
            /\ header_sent[ends[j] + (Len(LineAt(j)) + 1)] = "CR"
            /\ header_sent[ends[j] + (Len(LineAt(j)) + 2)] = "LF"
        BY <1>1, <1>2, <2>2, <3>1, SMTT(30) DEF LineSent
      <3>3. \A i \in 1 .. Len(m_buf) : m_buf[i] = header_sent[ends[j] + i]
        BY DEF AtLine
      <3> QED
        BY <1>1, <3>2, <3>3 DEF BeginsLine
    <2> QED
      BY <1>1, <2>1, <2>2
  <1> QED
    BY <1>1, <1>2, <1>3, DelimiterOfLine

\* What the server sends is put behind what it sent before.
LEMMA SendGrows ==
    ASSUME SentInv, Header!Send
    PROVE  LET n == Len(ends)
               l == LineAt(n)
           IN  /\ n \in 1 .. Len(Lines) + 1 /\ l \in Chars
               /\ header_sent' \in Chars /\ Len(header_sent') \in Nat
               /\ Len(header_sent') >= Len(header_sent) + Len(l) + 2
               /\ n <= Len(Lines) => Len(header_sent') = Len(header_sent) + Len(l) + 2
               /\ \A i \in 1 .. Len(header_sent) : header_sent'[i] = header_sent[i]
               /\ \A i \in 1 .. Len(l) : header_sent'[Len(header_sent) + i] = l[i]
               /\ header_sent'[Len(header_sent) + Len(l) + 1] = "CR"
               /\ header_sent'[Len(header_sent) + Len(l) + 2] = "LF"
               /\ ends' \in Seq(Nat) /\ Len(ends') = n + 1
               /\ \A i \in 1 .. n : ends'[i] = ends[i]
               /\ ends'[n + 1] = Len(header_sent) + Len(l) + 2
  <1> DEFINE n == Len(ends)
             l == LineAt(n)
             more == IF n > Len(Lines) THEN response.rest ELSE <<>>
  <1>1. /\ n \in 1 .. Len(Lines) + 1 /\ l \in Chars /\ more \in Chars /\ Len(Lines) \in Nat
        /\ n <= Len(Lines) => Len(more) = 0
    <2>1. n \in 1 .. Len(Lines) + 1
      BY ResponseTypes, Places DEF SentInv, Header!Send, Lines
    <2> QED
      BY <2>1, ResponseTypes, EmptySeq DEF SentInv, Chars
  <1>2. /\ header_sent' = ((header_sent \o l) \o Header!Delimiter) \o more
        /\ ends' = Append(ends, ends[n] + Len(l) + Len(Header!Delimiter))
    BY DEF Header!Send, LineAt, Lines
  <1>3. header_sent \in Chars /\ Len(header_sent) \in Nat /\ Len(l) \in Nat /\ Len(more) \in Nat
    BY <1>1, LenProperties DEF SentInv, Chars
  <1> HIDE DEF n, l, more
  <1> DEFINE a == header_sent \o l
             b == a \o Header!Delimiter
  <1>4. /\ a \in Chars /\ Len(a) = Len(header_sent) + Len(l)
        /\ \A i \in 1 .. Len(a) : a[i] = IF i <= Len(header_sent) THEN header_sent[i]
                                                                  ELSE l[i - Len(header_sent)]
    BY <1>1, <1>3, ConcatProperties DEF Chars
  <1>13. header_sent' = b \o more
    BY <1>2
  <1> HIDE DEF a
  <1>5. /\ b \in Chars /\ Len(b) = Len(a) + 2
        /\ \A i \in 1 .. Len(b) : b[i] = IF i <= Len(a) THEN a[i] ELSE Header!Delimiter[i - Len(a)]
    <2>1. Header!Delimiter \in Seq(Header!Letters) /\ Len(Header!Delimiter) = 2
          /\ a \in Seq(Header!Letters)
      BY <1>4, TheDelimiter DEF Chars
    <2>2. /\ a \o Header!Delimiter \in Seq(Header!Letters)
          /\ Len(a \o Header!Delimiter) = Len(a) + Len(Header!Delimiter)
          /\ \A i \in 1 .. Len(a) + Len(Header!Delimiter) : (a \o Header!Delimiter)[i]
                = IF i <= Len(a) THEN a[i] ELSE Header!Delimiter[i - Len(a)]
      BY <2>1, ConcatProperties
    <2> QED
      BY <2>1, <2>2 DEF Chars
  <1> HIDE DEF b
  <1>6. /\ header_sent' \in Chars /\ Len(header_sent') = Len(b) + Len(more)
        /\ \A i \in 1 .. Len(header_sent') :
              header_sent'[i] = IF i <= Len(b) THEN b[i] ELSE more[i - Len(b)]
    <2>1. b \in Seq(Header!Letters) /\ more \in Seq(Header!Letters)
      BY <1>1, <1>5 DEF Chars
    <2>2. /\ b \o more \in Seq(Header!Letters)
          /\ Len(b \o more) = Len(b) + Len(more)
          /\ \A i \in 1 .. Len(b) + Len(more) : (b \o more)[i]
                = IF i <= Len(b) THEN b[i] ELSE more[i - Len(b)]
      BY <2>1, ConcatProperties
    <2> QED
      BY <1>13, <2>1, <2>2 DEF Chars
  <1>7. \A i \in 1 .. Len(header_sent) : header_sent'[i] = header_sent[i]
    BY <1>3, <1>4, <1>5, <1>6
  <1>8. \A i \in 1 .. Len(l) : header_sent'[Len(header_sent) + i] = l[i]
    <2> SUFFICES ASSUME NEW i \in 1 .. Len(l) PROVE header_sent'[Len(header_sent) + i] = l[i]
      OBVIOUS
    <2> DEFINE k == Len(header_sent) + i
    <2>1. /\ k \in 1 .. Len(a) /\ k \in 1 .. Len(b) /\ k \in 1 .. Len(header_sent')
          /\ ~(k <= Len(header_sent)) /\ k - Len(header_sent) = i
      BY <1>3, <1>4, <1>5, <1>6
    <2> QED
      BY <1>3, <1>4, <1>5, <1>6, <2>1
  <1>9. /\ header_sent'[Len(header_sent) + Len(l) + 1] = "CR"
        /\ header_sent'[Len(header_sent) + Len(l) + 2] = "LF"
    BY <1>3, <1>4, <1>5, <1>6, TheDelimiter
  <1>10. ends[n] \in Nat /\ ends \in Seq(Nat)
    BY <1>1, Places DEF SentInv, n
  <1>11. /\ ends' \in Seq(Nat) /\ Len(ends') = n + 1
         /\ \A i \in 1 .. n : ends'[i] = ends[i]
         /\ ends'[n + 1] = ends[n] + Len(l) + 2
    BY <1>2, <1>3, <1>10, TheDelimiter, AppendProperties, SMTT(30) DEF n
  <1>12. ends[n] = Len(header_sent)
    BY <1>1 DEF SentInv, n
  <1> QED
    BY <1>1, <1>3, <1>4, <1>5, <1>6, <1>7, <1>8, <1>9, <1>11, <1>12, SMTT(30) DEF n, l

LEMMA SendKeepsSent ==
    ASSUME SentInv, Header!Send
    PROVE  SentInv'
  <1>0. PICK n \in Nat : n = Len(ends)
    BY Places
  <1> DEFINE l == LineAt(n)
  <1>1. response' = response /\ n \in 1 .. Len(Lines) + 1 /\ Len(Lines) \in Nat
    BY <1>0, SendGrows, ResponseTypes DEF Header!Send, SentInv
  <1>2. Lines' = Lines /\ \A i : LineAt(i)' = LineAt(i)
    BY <1>1 DEF Lines, LineAt
  <1>3. /\ Len(l) \in Nat /\ Len(header_sent) \in Nat /\ ends[n] = Len(header_sent)
        /\ \A i \in 1 .. n : ends[i] \in Nat
    BY <1>0, <1>1, Places, SendGrows, LenProperties DEF SentInv, Chars
  <1>4. /\ header_sent' \in Chars /\ Len(header_sent') \in Nat
        /\ Len(header_sent') >= Len(header_sent) + Len(l) + 2
        /\ n <= Len(Lines) => Len(header_sent') = Len(header_sent) + Len(l) + 2
        /\ \A i \in 1 .. Len(header_sent) : header_sent'[i] = header_sent[i]
        /\ \A i \in 1 .. Len(l) : header_sent'[Len(header_sent) + i] = l[i]
        /\ header_sent'[Len(header_sent) + Len(l) + 1] = "CR"
        /\ header_sent'[Len(header_sent) + Len(l) + 2] = "LF"
    BY <1>0, SendGrows
  <1>5. /\ ends' \in Seq(Nat) /\ Len(ends') = n + 1
        /\ \A i \in 1 .. n : ends'[i] = ends[i]
        /\ ends'[n + 1] = Len(header_sent) + Len(l) + 2
    BY <1>0, SendGrows
  <1>6. LineSent(n)'
    <2>1. ends'[n] = ends[n] /\ n \in 1 .. n
      BY <1>1, <1>5
    <2>2. LineAt(n)' = l
      BY <1>2
    <2> HIDE DEF l
    <2> QED
      BY <1>3, <1>4, <1>5, <2>1, <2>2 DEF LineSent
  <1>7. ASSUME NEW i \in 1 .. n - 1
        PROVE  LineSent(i)'
    <2> DEFINE m == Len(LineAt(i))
    <2>1. LineSent(i) /\ i \in 1 .. n /\ i + 1 \in 1 .. n /\ Len(LineAt(i)) \in Nat
      <3>1. i \in 1 .. Len(Lines) + 1
        BY <1>1
      <3>2. LineAt(i) \in Chars
        BY <3>1, ResponseTypes DEF SentInv
      <3> QED
        BY <1>0, <1>1, <1>7, <3>2, LenProperties DEF SentInv, Chars
    <2>2. /\ ends'[i] = ends[i] /\ ends'[i + 1] = ends[i + 1]
          /\ ends[i] \in Nat /\ ends[i + 1] \in Nat
      BY <1>3, <1>5, <2>1
    <2>8. m \in Nat /\ ends[i + 1] = ends[i] + m + 2 /\ ends[i + 1] <= Len(header_sent)
      BY <2>1 DEF LineSent
    <2> HIDE DEF m
    <2>3. \A k \in 1 .. m + 2 : ends[i] + k \in 1 .. Len(header_sent)
      BY <1>3, <2>2, <2>8, SMTT(30)
    <2>4. \A k \in 1 .. m + 2 : header_sent'[ends[i] + k] = header_sent[ends[i] + k]
      BY <1>4, <2>3
    <2>9. /\ header_sent[ends[i] + (m + 1)] = "CR" /\ header_sent[ends[i] + (m + 2)] = "LF"
          /\ \A k \in 1 .. m : header_sent[ends[i] + k] = LineAt(i)[k]
      BY <2>1, <2>2 DEF LineSent, m
    <2>5. /\ header_sent'[ends[i] + (m + 1)] = "CR" /\ header_sent'[ends[i] + (m + 2)] = "LF"
          /\ \A k \in 1 .. m : header_sent'[ends[i] + k] = LineAt(i)[k]
      BY <2>4, <2>8, <2>9
    <2>6. ends'[i + 1] = ends'[i] + m + 2 /\ ends'[i + 1] <= Len(header_sent')
      <3>1. Len(l) \in Nat
        BY <1>3
      <3> QED
        BY <1>3, <1>4, <2>2, <2>8, <3>1
    <2>7. m = Len(LineAt(i)') /\ LineAt(i)' = LineAt(i)
      BY <1>2 DEF m
    <2> QED
      BY <2>2, <2>5, <2>6, <2>7, <2>8, SMTT(30) DEF LineSent
  <1>8. \A i \in 1 .. Len(ends') - 1 : LineSent(i)'
    <2>1. \A i \in 1 .. Len(ends') - 1 : i = n \/ i \in 1 .. n - 1
      BY <1>1, <1>5
    <2> QED
      BY <1>6, <1>7, <2>1
  <1> QED
    BY <1>1, <1>2, <1>3, <1>4, <1>5, <1>8 DEF SentInv

\* The extension of what was sent changes nothing of what was read.
LEMMA SendKeepsRead ==
    ASSUME SentInv, Header!Send, NEW j \in Nat,
           AtLine(j), TakenLines(j), ThisRead(j), CountInv(j)
    PROVE  AtLine(j)' /\ TakenLines(j)' /\ ThisRead(j)' /\ CountInv(j)'
  <1>1. /\ response' = response /\ header_seen' = header_seen /\ header_state' = header_state
        /\ m_buf' = m_buf /\ m_header_bytes' = m_header_bytes /\ m_headers' = m_headers
        /\ len' = len /\ last' = last /\ Lines' = Lines
    BY DEF Header!Send, Lines
  <1>2. /\ j \in 1 .. Len(ends) /\ ends'[j] = ends[j] /\ ends[j] \in Nat
        /\ Len(ends') = Len(ends) + 1 /\ Len(ends) \in Nat
        /\ header_sent \in Chars /\ header_sent' \in Chars
        /\ Len(header_sent) \in Nat /\ Len(header_sent') \in Nat
        /\ Len(header_sent') >= Len(header_sent)
        /\ \A i \in 1 .. Len(header_sent) : header_sent'[i] = header_sent[i]
    <2>1. j \in 1 .. Len(ends) /\ ends[j] \in Nat /\ Len(header_sent) \in Nat /\ Len(ends) \in Nat
      BY Places DEF AtLine
    <2>2. Len(LineAt(Len(ends))) \in Nat
      BY SendGrows, LenProperties DEF Chars
    <2> QED
      BY <2>1, <2>2, SendGrows DEF SentInv
  <1>3. AtLine(j)'
    <2>1. \A i \in 1 .. Len(m_buf) : ends[j] + i \in 1 .. Len(header_sent)
      BY <1>2, LenProperties DEF AtLine, Chars
    <2>2. \A i \in 1 .. Len(m_buf) : m_buf[i] = header_sent[ends[j] + i]
      BY DEF AtLine
    <2>3. \A i \in 1 .. Len(m_buf') : m_buf'[i] = header_sent'[ends'[j] + i]
      BY <1>1, <1>2, <2>1, <2>2
    <2>4. /\ j \in 1 .. Len(Lines) + 1 /\ header_seen \in Nat /\ header_seen <= Len(header_sent)
          /\ m_buf \in Chars /\ ends[j] + Len(m_buf) = header_seen
      BY DEF AtLine
    <2>5. j <= Len(ends') /\ header_seen <= Len(header_sent')
      BY <1>2, <2>4
    <2> QED
      BY <1>1, <1>2, <2>3, <2>4, <2>5 DEF AtLine
  <1>4. TakenLines(j)'
    BY <1>1 DEF TakenLines
  <1>5. CountInv(j)'
    BY <1>1, <1>2 DEF CountInv
  <1>6. len > 0 => last = SubSeq(header_sent', header_seen - len + 1, header_seen)
    <2> SUFFICES ASSUME len > 0
                 PROVE  last = SubSeq(header_sent', header_seen - len + 1, header_seen)
      OBVIOUS
    <2> DEFINE p == header_seen - len + 1
    <2>1. /\ last = SubSeq(header_sent, p, header_seen) /\ p \in Int /\ header_seen \in Int
          /\ \A i \in p .. header_seen : i \in 1 .. Len(header_sent)
          /\ \A i \in p .. header_seen : i \in 1 .. Len(header_sent')
      BY <1>2 DEF ThisRead, AtLine
    <2>2. \A i \in p .. header_seen : /\ header_sent[i] \in Header!Letters
                                      /\ header_sent'[i] = header_sent[i]
      BY <1>2, <2>1, ElementOfSeq DEF Chars
    <2> HIDE DEF p
    <2>3. /\ SubSeq(header_sent, p, header_seen) \in Chars
          /\ Len(SubSeq(header_sent, p, header_seen)) = IF p <= header_seen THEN header_seen - p + 1 ELSE 0
          /\ \A i \in 1 .. header_seen - p + 1 : SubSeq(header_sent, p, header_seen)[i] = header_sent[p + i - 1]
      BY <2>1, <2>2, SubSeqProperties DEF Chars
    <2>4. /\ SubSeq(header_sent', p, header_seen) \in Chars
          /\ Len(SubSeq(header_sent', p, header_seen)) = IF p <= header_seen THEN header_seen - p + 1 ELSE 0
          /\ \A i \in 1 .. header_seen - p + 1 : SubSeq(header_sent', p, header_seen)[i] = header_sent'[p + i - 1]
      BY <2>1, <2>2, SubSeqProperties DEF Chars
    <2>5. \A i \in 1 .. Len(SubSeq(header_sent, p, header_seen)) :
              SubSeq(header_sent, p, header_seen)[i] = SubSeq(header_sent', p, header_seen)[i]
      BY <2>1, <2>2, <2>3, <2>4
    <2> QED
      BY <2>1, <2>3, <2>4, <2>5, SeqEqual DEF Chars, p
  <1>7. j < Len(ends') => header_seen - len < ends'[j + 1]
    <2>1. CASE j < Len(ends)
      <3>1. j + 1 \in 1 .. Len(ends)
        BY <1>2, <2>1
      <3>2. ends'[j + 1] = ends[j + 1]
        BY <3>1, SendGrows
      <3> QED
        BY <2>1, <3>2 DEF ThisRead
    <2>2. CASE j = Len(ends)
      <3>1. Len(LineAt(Len(ends))) \in Nat
        BY SendGrows, LenProperties DEF Chars
      <3> QED
        BY <1>2, <2>2, <3>1, SendGrows DEF ThisRead, AtLine
    <2> QED
      BY <1>2, <2>1, <2>2
  <1> QED
    BY <1>1, <1>3, <1>4, <1>5, <1>6, <1>7 DEF ThisRead

\* n elements of a sequence, behind the first a.
LEMMA PartOf ==
    ASSUME NEW S, NEW s \in Seq(S), NEW a \in Nat, NEW n \in Nat, a + n <= Len(s)
    PROVE  /\ SubSeq(s, a + 1, a + n) \in Seq(S)
           /\ Len(SubSeq(s, a + 1, a + n)) = n
           /\ \A i \in 1 .. n : SubSeq(s, a + 1, a + n)[i] = s[a + i]
  <1>1. \A i \in a + 1 .. a + n : s[i] \in S
    BY LenProperties, ElementOfSeq
  <1> DEFINE p == SubSeq(s, a + 1, a + n)
  <1>2. /\ p \in Seq(S) /\ Len(p) = IF a + 1 <= a + n THEN a + n - (a + 1) + 1 ELSE 0
        /\ \A i \in 1 .. a + n - (a + 1) + 1 : p[i] = s[a + 1 + i - 1]
    BY <1>1, SubSeqProperties
  <1>3. a + n - (a + 1) + 1 = n /\ (~(a + 1 <= a + n) => n = 0)
    OBVIOUS
  <1>4. \A i \in 1 .. n : a + 1 + i - 1 = a + i
    OBVIOUS
  <1> HIDE DEF p
  <1>5. Len(p) = n /\ \A i \in 1 .. n : p[i] = s[a + i]
    BY <1>2, <1>3, <1>4
  <1> QED
    BY <1>2, <1>5 DEF p

LEMMA ReceiveStep ==
    ASSUME SentInv, Header!Receive, NEW j \in Nat,
           AtLine(j), TakenLines(j), ThisRead(j), CountInv(j)
    PROVE  AtLine(j)' /\ TakenLines(j)' /\ ThisRead(j)' /\ CountInv(j)'
  <1>1. /\ response' = response /\ header_sent' = header_sent /\ ends' = ends /\ Lines' = Lines
        /\ header_state' = header_state /\ m_header_bytes' = m_header_bytes
        /\ m_headers' = m_headers /\ len = 0
    BY DEF Header!Receive, Lines
  <1>2. PICK n \in 1 .. MaxHeaderChunk :
              /\ n <= Len(header_sent) - header_seen
              /\ len' = n /\ last' = SubSeq(header_sent, header_seen + 1, header_seen + n)
              /\ m_buf' = m_buf \o SubSeq(header_sent, header_seen + 1, header_seen + n)
              /\ header_seen' = header_seen + n
    BY DEF Header!Receive
  <1>3. /\ header_seen \in Nat /\ Len(header_sent) \in Nat /\ n \in Nat /\ n > 0
        /\ header_seen + n <= Len(header_sent) /\ j \in 1 .. Len(ends) /\ ends[j] \in Nat
        /\ m_buf \in Chars /\ Len(m_buf) \in Nat /\ ends[j] + Len(m_buf) = header_seen
        /\ header_sent \in Chars
    <2>1. n \in Nat /\ n > 0
      BY <1>2
    <2> QED
      BY <1>2, <2>1, Places, LenProperties DEF AtLine, SentInv, Chars
  <1> DEFINE part == SubSeq(header_sent, header_seen + 1, header_seen + n)
  <1>4. /\ part \in Seq(Header!Letters) /\ Len(part) = n
        /\ \A i \in 1 .. n : part[i] = header_sent[header_seen + i]
    BY <1>3, PartOf DEF Chars
  <1> HIDE DEF part
  <1>5. /\ m_buf' \in Chars /\ Len(m_buf') = Len(m_buf) + n
        /\ \A i \in 1 .. Len(m_buf) + n : m_buf'[i]
              = IF i <= Len(m_buf) THEN m_buf[i] ELSE part[i - Len(m_buf)]
    <2>1. m_buf \in Seq(Header!Letters) /\ m_buf' = m_buf \o part
      BY <1>2, <1>3 DEF Chars, part
    <2>2. /\ m_buf \o part \in Seq(Header!Letters) /\ Len(m_buf \o part) = Len(m_buf) + Len(part)
          /\ \A i \in 1 .. Len(m_buf) + Len(part) : (m_buf \o part)[i]
                = IF i <= Len(m_buf) THEN m_buf[i] ELSE part[i - Len(m_buf)]
      BY <1>4, <2>1, ConcatProperties
    <2> QED
      BY <1>4, <2>1, <2>2 DEF Chars
  <1>6. \A i \in 1 .. Len(m_buf') : m_buf'[i] = header_sent[ends[j] + i]
    <2> SUFFICES ASSUME NEW i \in 1 .. Len(m_buf) + n PROVE m_buf'[i] = header_sent[ends[j] + i]
      BY <1>5
    <2>1. CASE i <= Len(m_buf)
      <3>1. i \in 1 .. Len(m_buf)
        BY <1>3, <2>1
      <3> QED
        BY <1>5, <2>1, <3>1 DEF AtLine
    <2>2. CASE ~(i <= Len(m_buf))
      <3>1. i - Len(m_buf) \in 1 .. n /\ header_seen + (i - Len(m_buf)) = ends[j] + i
        <4>1. /\ i \in Nat /\ i <= Len(m_buf) + n /\ n \in Nat /\ Len(m_buf) \in Nat
              /\ ends[j] \in Nat /\ ends[j] + Len(m_buf) = header_seen
          BY <1>3
        <4> QED
          BY ONLY <2>2, <4>1, SMTT(30)
      <3> QED
        BY <1>4, <1>5, <2>2, <3>1
    <2> QED
      BY <2>1, <2>2
  <1>7. AtLine(j)'
    <2>1. header_seen' \in Nat /\ header_seen' <= Len(header_sent)
          /\ ends[j] + Len(m_buf') = header_seen'
      <3>1. header_seen' = header_seen + n /\ Len(m_buf') = Len(m_buf) + n
        BY <1>2, <1>5
      <3> QED
        BY <1>3, <3>1
    <2> QED
      BY <1>1, <1>5, <1>6, <2>1 DEF AtLine
  <1>8. ThisRead(j)'
    <2>1. j < Len(ends) => header_seen < ends[j + 1]
      BY <1>1, <1>3 DEF ThisRead
    <2>2. header_seen' - len' = header_seen /\ header_seen' - len' + 1 = header_seen + 1
      BY <1>2, <1>3
    <2> QED
      BY <1>1, <1>2, <1>3, <2>1, <2>2 DEF ThisRead
  <1>9. TakenLines(j)' /\ CountInv(j)'
    BY <1>1, <1>2, <1>3 DEF TakenLines, CountInv
  <1> QED
    BY <1>7, <1>8, <1>9

LEMMA OutOfBytesStep ==
    ASSUME SentInv, Header!OutOfBytes, NEW j \in Nat,
           AtLine(j), TakenLines(j), ThisRead(j), CountInv(j)
    PROVE  \/ thrown' = "too_large" /\ len' = len /\ len > 0 /\ header_state' = header_state
           \/ thrown' = "none" /\ AtLine(j)' /\ TakenLines(j)' /\ ThisRead(j)' /\ CountInv(j)'
  <1>1. CASE Header!TooBig(Len(m_buf))
    BY <1>1 DEF Header!OutOfBytes, Header!Throw
  <1>2. CASE ~Header!TooBig(Len(m_buf))
    <2>1. /\ UNCHANGED <<response, header_sent, ends, header_seen, last, header_state, m_buf,
                         m_headers, thrown>>
          /\ thrown = "none" /\ len' = 0 /\ Header!FirstDelimiter(m_buf) = 0
          /\ m_header_bytes' = m_header_bytes + Header!Counted(Len(m_buf)) - Len(m_buf)
      BY <1>2 DEF Header!OutOfBytes
    <2>2. /\ Len(m_buf) \in Nat /\ Len(LineAt(j)) \in Nat /\ m_header_bytes \in Nat
          /\ MaxHeaderSize \in Nat /\ ends[j] \in Nat /\ j \in 1 .. Len(ends) /\ Len(ends) \in Nat
          /\ header_seen \in Nat
      BY FindsLine, Places, SizesAssumption DEF CountInv, AtLine
    <2>3. Header!Counted(Len(m_buf)) = Len(m_buf) + 3
      BY <2>2, TheDelimiter DEF Header!Counted
    <2>4. m_header_bytes' = m_header_bytes + 3 /\ m_header_bytes + Len(m_buf) + 3 <= MaxHeaderSize
      BY <1>2, <2>1, <2>2, <2>3 DEF Header!TooBig
    <2>5. CountInv(j)'
      BY <2>1, <2>2, <2>4 DEF CountInv
    <2>6. Len(m_buf) < Len(LineAt(j)) + 2
      BY <2>1, <2>2, FindsLine
    <2>7. ThisRead(j)'
      <3>1. j < Len(ends) => header_seen < ends[j + 1]
        <4> SUFFICES ASSUME j < Len(ends) PROVE header_seen < ends[j + 1]
          OBVIOUS
        <4>1. LineSent(j)
          BY <2>2 DEF SentInv
        <4> QED
          BY <2>2, <2>6, <4>1, SMTT(30) DEF LineSent, AtLine
      <3> QED
        BY <2>1, <2>2, <3>1 DEF ThisRead
    <2>8. Lines' = Lines
      BY <2>1 DEF Lines
    <2> QED
      BY <2>1, <2>5, <2>7, <2>8 DEF AtLine, TakenLines
  <1> QED
    BY <1>1, <1>2

-----------------------------------------------------------------------------
(***************************************************************************)
(* What consume makes of a line is what the grammar says of it.            *)
(***************************************************************************)
LEMMA MinOf ==
    ASSUME NEW T \in SUBSET Nat, T # {}
    PROVE  Header!Min(T) \in T /\ \A y \in T : Header!Min(T) <= y
  <1> DEFINE R == {ss \in Nat \X Nat : ss[1] < ss[2]}
  <1>1. IsWellFoundedOn(R, Nat)
    BY NatLessThanWellFounded DEF OpToRel
  <1>2. PICK x \in T : \A y \in T : ~(<<y, x>> \in R)
    <2> HIDE DEF R
    <2>1. T \subseteq Nat
      OBVIOUS
    <2> QED
      BY <1>1, <2>1, WFMin, Zenon
  <1>3. \A y \in T : ~(y < x)
    BY <1>2
  <1>4. x \in T /\ \A y \in T : x <= y
    BY <1>3
  <1> QED
    BY <1>4 DEF Header!Min

LEMMA MaxOf ==
    ASSUME NEW n \in Nat, NEW T \in SUBSET (1 .. n), T # {}
    PROVE  Header!Max(T) \in T /\ \A y \in T : Header!Max(T) >= y
  <1> DEFINE below == {m \in Nat : n - m \in T}
  <1>1. PICK t \in T : TRUE
    OBVIOUS
  <1>2. n - t \in below
    BY <1>1
  <1>3. below \in SUBSET Nat /\ below # {}
    BY <1>2
  <1>4. Header!Min(below) \in below /\ \A y \in below : Header!Min(below) <= y
    <2> HIDE DEF below
    <2> QED
      BY <1>3, MinOf
  <1>5. PICK x : x = n - Header!Min(below)
    OBVIOUS
  <1>6. x \in T
    BY <1>4, <1>5
  <1>7. \A y \in T : x >= y
    <2> SUFFICES ASSUME NEW y \in T PROVE x >= y
      OBVIOUS
    <2>1. n - y \in below /\ y \in Int
      OBVIOUS
    <2>2. Header!Min(below) <= n - y /\ Header!Min(below) \in Nat
      BY <1>4, <2>1
    <2> QED
      BY <1>5, <2>1, <2>2
  <1> QED
    BY <1>6, <1>7 DEF Header!Max

LEMMA FirstColon ==
    ASSUME NEW l \in Chars
    PROVE  IF \E i \in 1 .. Len(l) : l[i] = ":"
           THEN Header!Separator(l) \in 1 .. Len(l) /\ Header!Colon(l, Header!Separator(l))
           ELSE Header!Separator(l) = 0
  <1> DEFINE T == {i \in 1 .. Len(l) : l[i] = ":"}
  <1>1. Header!Separator(l) = IF T # {} THEN Header!Min(T) ELSE 0
    BY DEF Header!Separator, Header!SelectInSeq, Header!IsSeparator
  <1>2. CASE T = {}
    BY <1>1, <1>2
  <1>3. CASE T # {}
    <2>1. T \in SUBSET Nat
      OBVIOUS
    <2>2. Header!Min(T) \in T /\ \A y \in T : Header!Min(T) <= y
      <3> HIDE DEF T
      <3> QED
        BY <1>3, <2>1, MinOf
    <2>3. Len(l) \in Nat
      BY LenProperties DEF Chars
    <2>4. PICK k \in T : k = Header!Min(T)
      BY <2>2
    <2>5. k \in 1 .. Len(l) /\ l[k] = ":" /\ \A i \in 1 .. k - 1 : l[i] # ":"
      <3>1. k \in 1 .. Len(l) /\ l[k] = ":"
        OBVIOUS
      <3>2. ASSUME NEW i \in 1 .. k - 1, l[i] = ":" PROVE FALSE
        <4>1. i \in T
          BY <2>3, <3>1, <3>2
        <4>2. k <= i
          BY <2>2, <2>4, <4>1
        <4> QED
          BY <3>1, <4>2
      <3> QED
        BY <3>1, <3>2
    <2> QED
      BY <1>1, <1>3, <2>4, <2>5 DEF Header!Colon
  <1> QED
    BY <1>2, <1>3

LEMMA OneColon ==
    ASSUME NEW l, Len(l) \in Nat, NEW k, NEW m, Header!Colon(l, k), Header!Colon(l, m)
    PROVE  k = m
  BY DEF Header!Colon

LEMMA Stripped ==
    ASSUME NEW s \in Chars
    PROVE  IF Header!Blank(s, 1, Len(s)) THEN Header!Strip(s) = <<>>
           ELSE \E f, g \in 1 .. Len(s) :
                  /\ f <= g /\ s[f] # "SP" /\ s[g] # "SP"
                  /\ Header!Blank(s, 1, f - 1) /\ Header!Blank(s, g + 1, Len(s))
                  /\ Header!Strip(s) \in Chars /\ Len(Header!Strip(s)) = g - f + 1
                  /\ \A i \in 1 .. g - f + 1 : Header!Strip(s)[i] = s[f + i - 1]
  <1> DEFINE T == {i \in 1 .. Len(s) : s[i] # "SP"}
  <1>1. Len(s) \in Nat
    BY LenProperties DEF Chars
  <1>2. /\ Header!SelectInSeq(s, Header!NotBlank) = IF T # {} THEN Header!Min(T) ELSE 0
        /\ Header!SelectLastInSeq(s, Header!NotBlank) = IF T # {} THEN Header!Max(T) ELSE 0
    BY DEF Header!SelectInSeq, Header!SelectLastInSeq, Header!NotBlank
  <1>3. CASE T = {}
    BY <1>2, <1>3 DEF Header!Strip, Header!Blank
  <1>4. CASE T # {}
    <2>1. T \in SUBSET Nat /\ T \in SUBSET (1 .. Len(s))
      OBVIOUS
    <2>2. /\ Header!Min(T) \in T /\ \A y \in T : Header!Min(T) <= y
          /\ Header!Max(T) \in T /\ \A y \in T : Header!Max(T) >= y
      <3> HIDE DEF T
      <3> QED
        BY <1>1, <1>4, <2>1, MinOf, MaxOf
    <2>3. PICK f \in T : f = Header!Min(T)
      BY <2>2
    <2>4. PICK g \in T : g = Header!Max(T)
      BY <2>2
    <2>5. f \in 1 .. Len(s) /\ g \in 1 .. Len(s) /\ f <= g /\ s[f] # "SP" /\ s[g] # "SP"
      BY <2>2, <2>3, <2>4
    <2>6. Header!Blank(s, 1, f - 1) /\ Header!Blank(s, g + 1, Len(s))
      <3>1. ASSUME NEW i \in 1 .. f - 1 PROVE s[i] = "SP"
        <4>1. i \in 1 .. Len(s) /\ ~(f <= i)
          BY <1>1, <2>5
        <4> QED
          BY <2>2, <2>3, <4>1
      <3>2. ASSUME NEW i \in g + 1 .. Len(s) PROVE s[i] = "SP"
        <4>1. i \in 1 .. Len(s) /\ ~(g >= i)
          BY <1>1, <2>5
        <4> QED
          BY <2>2, <2>4, <4>1
      <3> QED
        BY <3>1, <3>2 DEF Header!Blank
    <2>7. Header!Strip(s) = SubSeq(s, f, g)
      <3>1. /\ Header!SelectInSeq(s, Header!NotBlank) = f
            /\ Header!SelectLastInSeq(s, Header!NotBlank) = g /\ f # 0
        BY <1>2, <1>4, <2>3, <2>4, <2>5
      <3> QED
        BY <3>1, Zenon DEF Header!Strip
    <2>8. ~Header!Blank(s, 1, Len(s))
      BY <2>5 DEF Header!Blank
    <2>9. /\ SubSeq(s, f, g) \in Chars /\ Len(SubSeq(s, f, g)) = g - f + 1
          /\ \A i \in 1 .. g - f + 1 : SubSeq(s, f, g)[i] = s[f + i - 1]
      <3> DEFINE a == f - 1
                 n == g - f + 1
      <3>1. a \in Nat /\ n \in Nat /\ a + n <= Len(s) /\ a + 1 = f /\ a + n = g
        BY <1>1, <2>5
      <3> HIDE DEF a, n
      <3>2. /\ SubSeq(s, f, g) \in Chars /\ Len(SubSeq(s, f, g)) = n
            /\ \A i \in 1 .. n : SubSeq(s, f, g)[i] = s[a + i]
        BY <3>1, PartOf DEF Chars
      <3>3. \A i \in 1 .. n : a + i = f + i - 1
        BY <2>5 DEF a
      <3> QED
        BY <3>2, <3>3 DEF n
    <2> QED
      BY <2>5, <2>6, <2>7, <2>8, <2>9
  <1> QED
    BY <1>3, <1>4

\* The texts before and behind the colon.
LEMMA Halves ==
    ASSUME NEW l \in Chars, NEW k \in 1 .. Len(l)
    PROVE  /\ Len(l) \in Nat
           /\ SubSeq(l, 1, k - 1) \in Chars /\ Len(SubSeq(l, 1, k - 1)) = k - 1
           /\ \A i \in 1 .. k - 1 : SubSeq(l, 1, k - 1)[i] = l[i]
           /\ SubSeq(l, k + 1, Len(l)) \in Chars /\ Len(SubSeq(l, k + 1, Len(l))) = Len(l) - k
           /\ \A i \in 1 .. Len(l) - k : SubSeq(l, k + 1, Len(l))[i] = l[k + i]
  <1>1. Len(l) \in Nat
    BY LenProperties DEF Chars
  <1>2. /\ SubSeq(l, 1, k - 1) \in Chars /\ Len(SubSeq(l, 1, k - 1)) = k - 1
        /\ \A i \in 1 .. k - 1 : SubSeq(l, 1, k - 1)[i] = l[i]
    <2> DEFINE n == k - 1
    <2>1. n \in Nat /\ 0 + n <= Len(l) /\ 0 + 1 = 1 /\ 0 + n = n /\ \A i \in 1 .. n : 0 + i = i
      BY <1>1
    <2> HIDE DEF n
    <2>2. /\ SubSeq(l, 0 + 1, 0 + n) \in Chars /\ Len(SubSeq(l, 0 + 1, 0 + n)) = n
          /\ \A i \in 1 .. n : SubSeq(l, 0 + 1, 0 + n)[i] = l[0 + i]
      BY <2>1, PartOf DEF Chars
    <2> QED
      BY <2>1, <2>2 DEF n
  <1>3. /\ SubSeq(l, k + 1, Len(l)) \in Chars /\ Len(SubSeq(l, k + 1, Len(l))) = Len(l) - k
        /\ \A i \in 1 .. Len(l) - k : SubSeq(l, k + 1, Len(l))[i] = l[k + i]
    <2> DEFINE n == Len(l) - k
    <2>1. n \in Nat /\ k \in Nat /\ k + n = Len(l) /\ k + n <= Len(l)
      BY <1>1
    <2> HIDE DEF n
    <2>2. /\ SubSeq(l, k + 1, k + n) \in Chars /\ Len(SubSeq(l, k + 1, k + n)) = n
          /\ \A i \in 1 .. n : SubSeq(l, k + 1, k + n)[i] = l[k + i]
      BY <2>1, PartOf DEF Chars
    <2> QED
      BY <2>1, <2>2 DEF n
  <1> QED
    BY <1>1, <1>2, <1>3

\* A line is stored as a header if it is one by the grammar.
LEMMA HeaderLines ==
    ASSUME NEW l \in Chars
    PROVE  Header!IsHeader(l) <=> Header!FieldLine(l)
  <1> DEFINE k == Header!Separator(l)
             n == SubSeq(l, 1, k - 1)
  <1>1. CASE ~\E i \in 1 .. Len(l) : l[i] = ":"
    <2>1. k = 0
      BY <1>1, FirstColon
    <2> QED
      BY <1>1, <2>1 DEF Header!IsHeader, Header!FieldLine, Header!Colon
  <1>2. CASE \E i \in 1 .. Len(l) : l[i] = ":"
    <2>1. k \in 1 .. Len(l) /\ Header!Colon(l, k)
      BY <1>2, FirstColon
    <2>2. /\ Len(l) \in Nat /\ n \in Chars /\ Len(n) = k - 1
          /\ \A i \in 1 .. k - 1 : n[i] = l[i]
      <3> HIDE DEF k
      <3> QED
        BY <2>1, Halves
    <2>3. Header!IsHeader(l) <=> Header!ValidName(Header!Strip(n))
      BY <2>1 DEF Header!IsHeader, Header!Name
    <2>4. Header!FieldLine(l) <=>
            \A i \in 1 .. k - 1 : \/ l[i] \in Header!TokenLetters
                                  \/ Header!Blank(l, 1, i) \/ Header!Blank(l, i, k - 1)
      <3> HIDE DEF k
      <3>1. \A m : Header!Colon(l, m) => m = k
        BY <2>1, <2>2, OneColon
      <3> QED
        BY <2>1, <3>1 DEF Header!FieldLine
    <2>5. CASE Header!Blank(n, 1, Len(n))
      <3>1. Header!Strip(n) = <<>>
        <4> HIDE DEF n
        <4> QED
          BY <2>2, <2>5, Stripped
      <3>2. Header!ValidName(Header!Strip(n))
        BY <3>1 DEF Header!ValidName
      <3>3. ASSUME NEW i \in 1 .. k - 1 PROVE Header!Blank(l, 1, i)
        <4>1. \A j \in 1 .. i : j \in 1 .. k - 1
          BY <2>1
        <4> HIDE DEF k, n
        <4> QED
          BY <2>2, <2>5, <4>1 DEF Header!Blank
      <3> QED
        BY <2>3, <2>4, <3>2, <3>3
    <2>6. CASE ~Header!Blank(n, 1, Len(n))
      <3>1. PICK f, g \in 1 .. Len(n) :
                  /\ f <= g /\ n[f] # "SP" /\ n[g] # "SP"
                  /\ Header!Blank(n, 1, f - 1) /\ Header!Blank(n, g + 1, Len(n))
                  /\ Header!Strip(n) \in Chars /\ Len(Header!Strip(n)) = g - f + 1
                  /\ \A i \in 1 .. g - f + 1 : Header!Strip(n)[i] = n[f + i - 1]
        <4> HIDE DEF n
        <4> QED
          BY <2>2, <2>6, Stripped
      <3>2. /\ f \in 1 .. k - 1 /\ g \in 1 .. k - 1 /\ k \in Nat /\ f \in Nat /\ g \in Nat
            /\ l[f] # "SP" /\ l[g] # "SP"
        BY <2>1, <2>2, <3>1
      <3>3. Header!ValidName(Header!Strip(n)) <=> \A i \in f .. g : l[i] \in Header!TokenLetters
        <4>1. ASSUME Header!ValidName(Header!Strip(n)), NEW i \in f .. g
              PROVE  l[i] \in Header!TokenLetters
          <5>1. i - f + 1 \in 1 .. g - f + 1 /\ f + (i - f + 1) - 1 = i /\ i \in 1 .. k - 1
            BY <3>1, <3>2
          <5> HIDE DEF k, n
          <5>2. Header!Strip(n)[i - f + 1] = n[i] /\ n[i] = l[i]
            BY <2>2, <3>1, <5>1
          <5> QED
            BY <3>1, <4>1, <5>1, <5>2 DEF Header!ValidName
        <4>2. ASSUME \A i \in f .. g : l[i] \in Header!TokenLetters, NEW i \in 1 .. g - f + 1
              PROVE  Header!Strip(n)[i] \in Header!TokenLetters
          <5>1. f + i - 1 \in f .. g /\ f + i - 1 \in 1 .. k - 1
            BY <3>1, <3>2
          <5> HIDE DEF k, n
          <5> QED
            BY <2>2, <3>1, <4>2, <5>1
        <4> QED
          BY <3>1, <4>1, <4>2 DEF Header!ValidName
      <3>4. ASSUME \A i \in f .. g : l[i] \in Header!TokenLetters, NEW i \in 1 .. k - 1
            PROVE  \/ l[i] \in Header!TokenLetters
                   \/ Header!Blank(l, 1, i) \/ Header!Blank(l, i, k - 1)
        <4>1. CASE i < f
          <5>1. \A j \in 1 .. i : j \in 1 .. f - 1 /\ j \in 1 .. k - 1
            BY <3>2, <4>1
          <5> HIDE DEF k, n
          <5> QED
            BY <2>2, <3>1, <5>1 DEF Header!Blank
        <4>2. CASE i > g
          <5>1. \A j \in i .. k - 1 : j \in g + 1 .. Len(n) /\ j \in 1 .. k - 1
            BY <2>2, <3>2, <4>2
          <5> HIDE DEF k, n
          <5> QED
            BY <2>2, <3>1, <5>1 DEF Header!Blank
        <4>3. CASE i \in f .. g
          BY <3>4, <4>3
        <4> QED
          BY <3>2, <4>1, <4>2, <4>3
      <3>5. ASSUME NEW i \in f .. g,
                   \/ l[i] \in Header!TokenLetters
                   \/ Header!Blank(l, 1, i) \/ Header!Blank(l, i, k - 1)
            PROVE  l[i] \in Header!TokenLetters
        <4>1. f \in 1 .. i /\ g \in i .. k - 1
          BY <3>2
        <4> QED
          BY <3>2, <3>5, <4>1 DEF Header!Blank
      <3>6. \A i \in f .. g : i \in 1 .. k - 1
        BY <3>2
      <3> QED
        BY <2>3, <2>4, <3>3, <3>4, <3>5, <3>6
    <2> QED
      BY <2>5, <2>6
  <1> QED
    BY <1>1, <1>2

\* The line is a Content-Length that is not blank if it is one by the grammar.
LEMMA LengthLinesOf ==
    ASSUME NEW l \in Chars, Header!FieldLine(l)
    PROVE  Header!Name(l) = <<"L">> /\ Header!Value(l) # <<>> <=> Header!LengthLine(l)
  <1> DEFINE k == Header!Separator(l)
             n == SubSeq(l, 1, k - 1)
             v == SubSeq(l, k + 1, Len(l))
  <1>1. k \in 1 .. Len(l) /\ Header!Colon(l, k)
    BY FirstColon DEF Header!FieldLine, Header!Colon
  <1>2. /\ Len(l) \in Nat /\ n \in Chars /\ Len(n) = k - 1
        /\ \A i \in 1 .. k - 1 : n[i] = l[i]
        /\ v \in Chars /\ Len(v) = Len(l) - k
        /\ \A i \in 1 .. Len(l) - k : v[i] = l[k + i]
    <2> HIDE DEF k
    <2> QED
      BY <1>1, Halves
  <1>3. Header!Name(l) = Header!Strip(n) /\ Header!Value(l) = Header!Strip(v)
    BY DEF Header!Name, Header!Value
  <1> HIDE DEF n, v
  <1>4. Header!Strip(n) = <<"L">> <=>
          \E i \in 1 .. k - 1 : /\ l[i] = "L"
                               /\ Header!Blank(l, 1, i - 1) /\ Header!Blank(l, i + 1, k - 1)
    <2> HIDE DEF k
    <2>1. CASE Header!Blank(n, 1, Len(n))
      <3>1. Header!Strip(n) # <<"L">>
        <4>1. Header!Strip(n) = <<>>
          BY <1>2, <2>1, Stripped
        <4> QED
          BY <4>1
      <3>2. \A i \in 1 .. k - 1 : l[i] = "SP"
        BY <1>2, <2>1 DEF Header!Blank
      <3> QED
        BY <3>1, <3>2
    <2>2. CASE ~Header!Blank(n, 1, Len(n))
      <3>1. PICK f, g \in 1 .. Len(n) :
                  /\ f <= g /\ n[f] # "SP" /\ n[g] # "SP"
                  /\ Header!Blank(n, 1, f - 1) /\ Header!Blank(n, g + 1, Len(n))
                  /\ Header!Strip(n) \in Chars /\ Len(Header!Strip(n)) = g - f + 1
                  /\ \A i \in 1 .. g - f + 1 : Header!Strip(n)[i] = n[f + i - 1]
        BY <1>2, <2>2, Stripped
      <3>2. /\ f \in 1 .. k - 1 /\ g \in 1 .. k - 1 /\ k \in Nat /\ f \in Nat /\ g \in Nat
            /\ l[f] # "SP" /\ l[g] # "SP" /\ l[f] = n[f]
        BY <1>1, <1>2, <3>1
      <3>3. ASSUME Header!Strip(n) = <<"L">>
            PROVE  l[f] = "L" /\ Header!Blank(l, 1, f - 1) /\ Header!Blank(l, f + 1, k - 1)
        <4>1. Len(Header!Strip(n)) = 1 /\ Header!Strip(n)[1] = "L"
          BY <3>3
        <4>2. f = g /\ 1 \in 1 .. g - f + 1 /\ f + 1 - 1 = f
          <5>1. g - f + 1 = 1
            BY <3>1, <4>1
          <5>2. f \in Nat /\ g \in Nat
            BY <3>2
          <5> QED
            BY <5>1, <5>2
        <4>3. l[f] = "L"
          BY <3>1, <3>2, <4>1, <4>2
        <4>4. /\ \A i \in 1 .. f - 1 : i \in 1 .. k - 1
              /\ \A i \in f + 1 .. k - 1 : i \in 1 .. k - 1 /\ i \in g + 1 .. Len(n)
          BY <1>2, <3>2, <4>2
        <4> QED
          BY <1>2, <3>1, <4>3, <4>4 DEF Header!Blank
      <3>4. ASSUME NEW i \in 1 .. k - 1, l[i] = "L",
                   Header!Blank(l, 1, i - 1), Header!Blank(l, i + 1, k - 1)
            PROVE  Header!Strip(n) = <<"L">>
        <4>1. f = i
          <5>1. CASE f < i
            <6>1. f \in 1 .. i - 1
              BY <3>2, <5>1
            <6> QED
              BY <3>2, <3>4, <6>1 DEF Header!Blank
          <5>2. CASE f > i
            <6>1. f \in i + 1 .. k - 1
              BY <3>2, <5>2
            <6> QED
              BY <3>2, <3>4, <6>1 DEF Header!Blank
          <5> QED
            BY <3>2, <5>1, <5>2
        <4>2. g = i
          <5>1. CASE g < i
            <6>1. g \in 1 .. i - 1
              BY <3>2, <5>1
            <6> QED
              BY <3>2, <3>4, <6>1 DEF Header!Blank
          <5>2. CASE g > i
            <6>1. g \in i + 1 .. k - 1
              BY <3>2, <5>2
            <6> QED
              BY <3>2, <3>4, <6>1 DEF Header!Blank
          <5> QED
            BY <3>2, <5>1, <5>2
        <4>3. Len(Header!Strip(n)) = 1 /\ 1 \in 1 .. g - f + 1 /\ f + 1 - 1 = f
          BY <3>1, <3>2, <4>1, <4>2
        <4>4. Header!Strip(n)[1] = "L"
          BY <3>1, <3>2, <3>4, <4>1, <4>3
        <4>5. /\ <<"L">> \in Chars /\ Len(<<"L">>) = 1 /\ <<"L">>[1] = "L"
          BY DEF Chars, Header!Letters
        <4>6. \A j \in 1 .. Len(Header!Strip(n)) : Header!Strip(n)[j] = <<"L">>[j]
          BY <4>3, <4>4, <4>5
        <4> QED
          BY <3>1, <4>3, <4>5, <4>6, SeqEqual DEF Chars
      <3> QED
        BY <3>2, <3>3, <3>4
    <2> QED
      BY <2>1, <2>2
  <1>5. Header!Strip(v) # <<>> <=> ~Header!Blank(l, k + 1, Len(l))
    <2> HIDE DEF k
    <2>1. Header!Blank(v, 1, Len(v)) <=> Header!Blank(l, k + 1, Len(l))
      <3>1. ASSUME Header!Blank(v, 1, Len(v)), NEW i \in k + 1 .. Len(l) PROVE l[i] = "SP"
        <4>1. i - k \in 1 .. Len(l) - k /\ k + (i - k) = i
          BY <1>1, <1>2
        <4> QED
          BY <1>2, <3>1, <4>1 DEF Header!Blank
      <3>2. ASSUME Header!Blank(l, k + 1, Len(l)), NEW i \in 1 .. Len(v) PROVE v[i] = "SP"
        <4>1. k + i \in k + 1 .. Len(l)
          BY <1>1, <1>2
        <4> QED
          BY <1>2, <3>2, <4>1 DEF Header!Blank
      <3> QED
        BY <3>1, <3>2 DEF Header!Blank
    <2>2. Header!Strip(v) = <<>> <=> Header!Blank(v, 1, Len(v))
      <3>1. Header!Blank(v, 1, Len(v)) => Header!Strip(v) = <<>>
        BY <1>2, Stripped
      <3>2. ~Header!Blank(v, 1, Len(v)) => \E f, g \in 1 .. Len(v) : f <= g /\ Len(Header!Strip(v)) = g - f + 1
        BY <1>2, Stripped
      <3>3. Len(<<>>) = 0 /\ Len(v) \in Nat
        BY <1>2, EmptySeq, LenProperties DEF Chars
      <3>4. \A f, g \in 1 .. Len(v) : f <= g => g - f + 1 # 0
        BY <3>3
      <3> QED
        BY <3>1, <3>2, <3>3, <3>4
    <2> QED
      BY <2>1, <2>2
  <1>6. Header!LengthLine(l) <=>
          /\ \E i \in 1 .. k - 1 : /\ l[i] = "L"
                                  /\ Header!Blank(l, 1, i - 1) /\ Header!Blank(l, i + 1, k - 1)
          /\ ~Header!Blank(l, k + 1, Len(l))
    <2> HIDE DEF k
    <2>1. \A m : Header!Colon(l, m) => m = k
      BY <1>1, <1>2, OneColon
    <2> QED
      BY <1>1, <2>1 DEF Header!LengthLine
  <1> QED
    BY <1>3, <1>4, <1>5, <1>6

LEMMA TheDigits ==
    /\ DOMAIN Header!Digits = 1 .. 3
    /\ \A d \in DOMAIN Header!Digits : Header!Digits[d] \notin Header!Spaces
    /\ \A d, e \in DOMAIN Header!Digits : Header!Digits[d] = Header!Digits[e] => d = e
    /\ "SP" \in Header!Spaces
  BY DEF Header!Digits, Header!Spaces

\* The number that >> reads is the one the line says.
LEMMA NumberOfLine ==
    ASSUME NEW l \in Chars, Header!FieldLine(l)
    PROVE  Header!ParseLength(Header!Value(l)) =
             IF \E d \in DOMAIN Header!Digits : Header!Says(l, d)
             THEN CHOOSE d \in DOMAIN Header!Digits : Header!Says(l, d) ELSE -1
  <1> DEFINE k == Header!Separator(l)
             v == SubSeq(l, k + 1, Len(l))
             s == Header!Strip(v)
             T == {i \in 1 .. Len(s) : s[i] \notin Header!Spaces}
             at == Header!SelectInSeq(s, Header!NotSpace)
  <1>1. k \in 1 .. Len(l) /\ Header!Colon(l, k)
    BY FirstColon DEF Header!FieldLine, Header!Colon
  <1>2. /\ Len(l) \in Nat /\ k \in Nat /\ v \in Chars /\ Len(v) = Len(l) - k
        /\ \A i \in 1 .. Len(l) - k : v[i] = l[k + i]
    <2> HIDE DEF k
    <2> QED
      BY <1>1, Halves
  <1>3. Header!Value(l) = s
    BY DEF Header!Value
  <1>4. \A m : Header!Colon(l, m) => m = k
    <2> HIDE DEF k
    <2> QED
      BY <1>1, <1>2, OneColon
  <1>5. at = IF T # {} THEN Header!Min(T) ELSE 0
    BY DEF Header!SelectInSeq, Header!NotSpace
  <1>6. T # {} => Header!Min(T) \in T /\ \A y \in T : Header!Min(T) <= y
    <2>1. T \in SUBSET Nat
      OBVIOUS
    <2> HIDE DEF T
    <2> QED
      BY <2>1, MinOf
  <1> HIDE DEF k, v, s, at
  <1>7. ASSUME NEW d \in DOMAIN Header!Digits
        PROVE  Header!Says(l, d) <=> at > 0 /\ Header!Digits[d] = s[at]
    <2>1. Header!Says(l, d) <=>
            \E p \in k + 1 .. Len(l) : /\ l[p] = Header!Digits[d]
                                      /\ \A i \in k + 1 .. p - 1 : l[i] \in Header!Spaces
      BY <1>1, <1>4 DEF Header!Says
    <2>2. CASE Header!Blank(v, 1, Len(v))
      <3>1. s = <<>>
        BY <1>2, <2>2, Stripped DEF s
      <3>2. at = 0
        BY <1>5, <3>1
      <3>3. ASSUME NEW p \in k + 1 .. Len(l), l[p] = Header!Digits[d] PROVE FALSE
        <4>1. p - k \in 1 .. Len(l) - k /\ k + (p - k) = p
          BY <1>2
        <4>2. l[p] = "SP"
          BY <1>2, <2>2, <4>1 DEF Header!Blank
        <4> QED
          BY <3>3, <4>2, TheDigits
      <3> QED
        BY <2>1, <3>2, <3>3
    <2>3. CASE ~Header!Blank(v, 1, Len(v))
      <3>1. PICK f, g \in 1 .. Len(v) :
                  /\ f <= g /\ v[f] # "SP" /\ v[g] # "SP"
                  /\ Header!Blank(v, 1, f - 1) /\ Header!Blank(v, g + 1, Len(v))
                  /\ s \in Chars /\ Len(s) = g - f + 1
                  /\ \A i \in 1 .. g - f + 1 : s[i] = v[f + i - 1]
        BY <1>2, <2>3, Stripped DEF s
      <3>2. f \in Nat /\ g \in Nat /\ f >= 1 /\ g >= f /\ g <= Len(l) - k
        BY <1>2, <3>1
      <3>3. \A i \in 1 .. Len(s) : s[i] = l[k + f + i - 1] /\ k + f + i - 1 \in k + 1 .. Len(l)
        <4> SUFFICES ASSUME NEW i \in 1 .. Len(s)
                     PROVE  s[i] = l[k + f + i - 1] /\ k + f + i - 1 \in k + 1 .. Len(l)
          OBVIOUS
        <4>1. /\ i \in 1 .. g - f + 1 /\ f + i - 1 \in 1 .. Len(l) - k
              /\ k + (f + i - 1) = k + f + i - 1 /\ k + f + i - 1 \in k + 1 .. Len(l)
          BY <1>2, <3>1, <3>2
        <4> QED
          BY <1>2, <3>1, <4>1
      \* Behind the colon is nothing but blanks and the stripped value.
      <3>4. ASSUME NEW i \in k + 1 .. Len(l)
            PROVE  \/ l[i] = "SP"
                   \/ i - k - f + 1 \in 1 .. Len(s) /\ k + f + (i - k - f + 1) - 1 = i
        <4>1. i - k \in 1 .. Len(v) /\ l[i] = v[i - k]
          <5>1. i - k \in 1 .. Len(l) - k /\ k + (i - k) = i
            BY <1>2
          <5> QED
            BY <1>2, <5>1
        <4>2. CASE i - k < f
          <5>1. i - k \in 1 .. f - 1
            BY <1>2, <3>2, <4>1, <4>2
          <5> QED
            BY <3>1, <4>1, <5>1 DEF Header!Blank
        <4>3. CASE i - k > g
          <5>1. i - k \in g + 1 .. Len(v)
            BY <1>2, <3>2, <4>1, <4>3
          <5> QED
            BY <3>1, <4>1, <5>1 DEF Header!Blank
        <4>4. CASE i - k >= f /\ i - k <= g
          BY <1>2, <3>1, <3>2, <4>4
        <4> QED
          BY <1>2, <3>2, <4>2, <4>3, <4>4
      <3>5. ASSUME at > 0, Header!Digits[d] = s[at] PROVE Header!Says(l, d)
        <4>1. at \in T /\ at \in 1 .. Len(s) /\ \A y \in T : at <= y
          <5>1. T # {}
            <6> HIDE DEF T
            <6> QED
              BY <1>5, <3>5
          <5>2. at \in T /\ \A y \in T : at <= y
            <6> HIDE DEF T
            <6> QED
              BY <1>5, <1>6, <5>1
          <5> QED
            BY <5>2
        <4>2. PICK p : p = k + f + at - 1
          OBVIOUS
        <4>3. p \in k + 1 .. Len(l) /\ l[p] = Header!Digits[d]
          BY <3>3, <3>5, <4>1, <4>2
        <4>4. ASSUME NEW i \in k + 1 .. p - 1 PROVE l[i] \in Header!Spaces
          <5>1. i \in k + 1 .. Len(l) /\ i < p
            BY <1>2, <4>3
          <5>2. CASE l[i] = "SP"
            BY <5>2, TheDigits
          <5>3. CASE i - k - f + 1 \in 1 .. Len(s) /\ k + f + (i - k - f + 1) - 1 = i
            <6> DEFINE q == i - k - f + 1
            <6>1. q \in 1 .. Len(s) /\ s[q] = l[i]
              BY <3>3, <5>3
            <6>2. q < at
              BY <1>2, <3>2, <4>1, <4>2, <5>1
            <6> HIDE DEF q
            <6>3. ~(at <= q)
              <7>1. at \in Int /\ q \in Int
                BY <4>1, <6>1
              <7> QED
                BY <6>2, <7>1
            <6> QED
              BY <4>1, <6>1, <6>3
          <5> QED
            BY <3>4, <5>1, <5>2, <5>3
        <4> QED
          BY <2>1, <4>3, <4>4
      <3>6. ASSUME NEW p \in k + 1 .. Len(l), l[p] = Header!Digits[d],
                   \A i \in k + 1 .. p - 1 : l[i] \in Header!Spaces
            PROVE  at > 0 /\ Header!Digits[d] = s[at]
        <4> DEFINE q == p - k - f + 1
        <4>1. q \in 1 .. Len(s) /\ k + f + q - 1 = p
          BY <3>4, <3>6, TheDigits
        <4>2. s[q] = l[p]
          BY <3>3, <4>1
        <4>3. q \in T
          BY <3>6, <4>1, <4>2, TheDigits
        <4>4. at \in T /\ at <= q /\ at \in 1 .. Len(s)
          BY <1>5, <1>6, <4>3
        <4>5. ~(at < q)
          <5> SUFFICES ASSUME at < q PROVE FALSE
            OBVIOUS
          <5>1. s[at] = l[k + f + at - 1]
            BY <3>3, <4>4
          <5>2. k + f + at - 1 \in k + 1 .. p - 1
            BY <1>2, <3>2, <4>1, <4>4
          <5> QED
            BY <3>6, <4>4, <5>1, <5>2
        <4>6. at = q
          BY <4>1, <4>4, <4>5
        <4> QED
          BY <3>6, <4>2, <4>4, <4>6
      <3> QED
        BY <2>1, <3>5, <3>6
    <2> QED
      BY <2>2, <2>3
  <1>8. Header!ParseLength(s) =
          IF \E d \in DOMAIN Header!Digits : at > 0 /\ Header!Digits[d] = s[at]
          THEN CHOOSE d \in DOMAIN Header!Digits : Header!Digits[d] = s[at] ELSE -1
    BY DEF Header!ParseLength, at
  <1>9. CASE ~\E d \in DOMAIN Header!Digits : Header!Says(l, d)
    BY <1>3, <1>7, <1>8, <1>9
  <1>10. ASSUME NEW d \in DOMAIN Header!Digits, Header!Says(l, d)
         PROVE  /\ Header!ParseLength(s) = d
                /\ d = CHOOSE e \in DOMAIN Header!Digits : Header!Says(l, e)
    <2>1. at > 0 /\ Header!Digits[d] = s[at]
      BY <1>7, <1>10
    <2>2. \A e \in DOMAIN Header!Digits : Header!Digits[e] = s[at] => e = d
      BY <2>1, TheDigits
    <2>3. \A e \in DOMAIN Header!Digits : Header!Says(l, e) => e = d
      BY <1>7, <2>2
    <2>4. (CHOOSE e \in DOMAIN Header!Digits : Header!Digits[e] = s[at]) = d
      BY <2>1, <2>2
    <2>5. (CHOOSE e \in DOMAIN Header!Digits : Header!Says(l, e)) = d
      BY <1>10, <2>3
    <2> QED
      BY <1>8, <2>1, <2>4, <2>5
  <1> QED
    BY <1>3, <1>9, <1>10

LEMMA LengthOfBody ==
    ASSUME NEW hs \in Seq(Chars), \A i \in 1 .. Len(hs) : Header!FieldLine(hs[i]),
           NEW r, Header!Headers(r) = hs
    PROVE  Header!ContentLength(hs) = Header!BodyLength(r) /\ Header!ContentLength(hs) \in Int
  <1> DEFINE at == {i \in 1 .. Len(hs) : Header!LengthLine(hs[i])}
             l == hs[Header!Min(at)]
  <1>1. \A i \in 1 .. Len(hs) : hs[i] \in Chars
    BY ElementOfSeq
  <1>2. Header!LengthLines(hs) = at
    BY <1>1, LengthLinesOf DEF Header!LengthLines
  <1>3. CASE at = {}
    BY <1>2, <1>3 DEF Header!ContentLength, Header!BodyLength
  <1>4. CASE at # {}
    <2>1. Header!Min(at) \in at
      <3>1. at \in SUBSET Nat
        OBVIOUS
      <3> HIDE DEF at
      <3> QED
        BY <1>4, <3>1, MinOf
    <2>2. l \in Chars /\ Header!FieldLine(l)
      BY <1>1, <2>1
    <2>3. Header!ContentLength(hs) = Header!ParseLength(Header!Value(l))
      BY <1>2, <1>4 DEF Header!ContentLength
    <2>4. Header!BodyLength(r) = IF \E d \in DOMAIN Header!Digits : Header!Says(l, d)
                                 THEN CHOOSE d \in DOMAIN Header!Digits : Header!Says(l, d) ELSE -1
      BY <1>4 DEF Header!BodyLength
    <2> HIDE DEF at, l
    <2>5. Header!ContentLength(hs) = Header!BodyLength(r)
      BY <2>2, <2>3, <2>4, NumberOfLine
    <2>6. Header!BodyLength(r) \in Int
      BY <2>4, TheDigits
    <2> QED
      BY <2>5, <2>6
  <1> QED
    BY <1>3, <1>4

-----------------------------------------------------------------------------
\* The header lines taken so far and one more.
LEMMA OneLineMore ==
    ASSUME NEW S, NEW s \in Seq(S), NEW j \in Nat, j >= 2, j <= Len(s)
    PROVE  Append(SubSeq(s, 2, j - 1), s[j]) = SubSeq(s, 2, j)
  <1>1. 2 \in 1 .. Len(s) /\ j \in 2 .. Len(s) /\ Len(s) \in Nat
    BY LenProperties
  <1>2. SubSeq(s, 2, j) = SubSeq(s, 2, j - 1) \o <<s[j]>>
    BY <1>1, SubSeqRecursiveSecond
  <1>3. s[j] \in S /\ SubSeq(s, 2, j - 1) \in Seq(S)
    <2>1. \A i \in 2 .. j - 1 : s[i] \in S
      BY <1>1, ElementOfSeq
    <2> QED
      BY <1>1, <2>1, SubSeqProperties, ElementOfSeq
  <1> QED
    BY <1>2, <1>3, AppendIsConcat

LEMMA Sums ==
    ASSUME NEW e \in Nat, NEW l \in Nat, NEW m \in Nat, NEW i \in Nat
    PROVE  /\ 1 <= i /\ i <= m - (l + 2) => l + 2 + i \in 1 .. m
           /\ e + (l + 2 + i) = e + l + 2 + i
           /\ m >= e => m + (l + 3) \in Nat /\ m + (l + 3) >= e + l + 2
    OBVIOUS

LEMMA LineStep ==
    ASSUME SentInv, Header!Line, NEW j \in Nat,
           AtLine(j), TakenLines(j), ThisRead(j), CountInv(j), ~Ready
    PROVE  \/ /\ thrown' \in {"too_large", "bad_request"} /\ len' = len /\ len > 0
              /\ header_state' = header_state
              /\ thrown' = "bad_request" => Header!BadHeader(response)
           \/ /\ thrown' = "none" /\ AtLine(j + 1)' /\ TakenLines(j + 1)' /\ ThisRead(j + 1)'
              /\ CountInv(j + 1)' /\ header_state' = "HEADERS"
  <1> DEFINE at == Header!FirstDelimiter(m_buf)
             line == SubSeq(m_buf, 1, at - 1)
  <1>1. /\ len > 0 /\ thrown = "none" /\ at > 1
        /\ m_header_bytes' = m_header_bytes + Header!Counted(at - 1)
        /\ IF Header!TooBig(at - 1) THEN Header!Throw("too_large")
           ELSE IF header_state = "RESPONSE_LINE" /\ ~Header!IsStatusLine(line) THEN Header!Throw("bad_request")
           ELSE IF header_state = "HEADERS" /\ ~Header!IsHeader(line) THEN Header!Throw("bad_request")
           ELSE /\ header_state' = "HEADERS"
                /\ m_headers' = IF header_state = "HEADERS" THEN Append(m_headers, line) ELSE m_headers
                /\ m_buf' = SubSeq(m_buf, at + Len(Header!Delimiter), Len(m_buf))
                /\ UNCHANGED <<len, thrown>>
        /\ UNCHANGED <<response, header_sent, ends, header_seen, last>>
    BY DEF Header!Line
  <1> HIDE DEF at, line
  <1>2. /\ Len(m_buf) \in Nat /\ Len(LineAt(j)) \in Nat /\ Len(LineAt(j)) + 2 <= Len(m_buf)
        /\ at = Len(LineAt(j)) + 1 /\ j < Len(ends) /\ LineSent(j) /\ m_buf \in Chars
        /\ Len(LineAt(j)) > 0
    BY <1>1, FindsLine DEF at, AtLine
  <1>3. /\ Lines \in Seq(Chars) /\ Len(Lines) \in Nat /\ j \in 1 .. Len(Lines)
        /\ LineAt(j) = Lines[j] /\ Lines[j] \in Chars
    <2>1. Lines \in Seq(Chars) /\ Len(Lines) \in Nat /\ j \in 1 .. Len(Lines) + 1
      BY ResponseTypes DEF SentInv, AtLine
    <2>2. j # Len(Lines) + 1
      BY <1>2, ResponseTypes DEF SentInv
    <2>3. j \in 1 .. Len(Lines)
      BY <2>1, <2>2
    <2> QED
      BY <2>1, <2>3, ResponseTypes DEF SentInv
  <1>4. /\ header_sent \in Chars /\ Len(header_sent) \in Nat /\ ends[j] \in Nat /\ ends[j + 1] \in Nat
        /\ Len(ends) \in Nat /\ ends[j] + Len(m_buf) = header_seen /\ header_seen \in Nat
        /\ \A i \in 1 .. Len(m_buf) : m_buf[i] = header_sent[ends[j] + i]
        /\ ends[j + 1] = ends[j] + Len(LineAt(j)) + 2
    <2>1. Len(ends) \in Nat /\ j \in 1 .. Len(ends) /\ j + 1 \in 1 .. Len(ends)
      BY <1>2, <1>3, Places
    <2>2. ends[j] \in Nat /\ ends[j + 1] \in Nat /\ header_sent \in Chars /\ Len(header_sent) \in Nat
      BY <2>1, Places DEF SentInv
    <2> QED
      BY <1>2, <2>1, <2>2 DEF AtLine, LineSent
  <1>10. /\ Len(m_buf) \in Nat /\ Len(LineAt(j)) \in Nat /\ Len(LineAt(j)) + 2 <= Len(m_buf)
         /\ at = Len(LineAt(j)) + 1 /\ j < Len(ends) /\ Len(ends) \in Nat
         /\ Len(Lines) \in Nat /\ j >= 1 /\ j <= Len(Lines)
         /\ ends[j] \in Nat /\ header_seen \in Nat
         /\ ends[j] + Len(m_buf) = header_seen /\ ends[j + 1] = ends[j] + Len(LineAt(j)) + 2
    BY <1>2, <1>3, <1>4
  <1>5. line = Lines[j]
    <2>1. /\ line \in Chars /\ Len(line) = Len(LineAt(j))
          /\ \A i \in 1 .. Len(LineAt(j)) : line[i] = m_buf[0 + i]
      <3>1. at - 1 = 0 + Len(LineAt(j)) /\ 0 + Len(LineAt(j)) <= Len(m_buf) /\ 0 + 1 = 1
        BY <1>2
      <3>2. line = SubSeq(m_buf, 0 + 1, 0 + Len(LineAt(j)))
        BY <3>1 DEF line
      <3> QED
        BY <1>2, <3>1, <3>2, PartOf DEF Chars
    <2>2. \A i \in 1 .. Len(LineAt(j)) : /\ i \in 1 .. Len(m_buf) /\ 0 + i = i
                                         /\ header_sent[ends[j] + i] = LineAt(j)[i]
      BY <1>2 DEF LineSent
    <2>3. \A i \in 1 .. Len(line) : line[i] = Lines[j][i]
      BY <1>3, <1>4, <2>1, <2>2
    <2> QED
      BY <1>3, <2>1, <2>3, SeqEqual DEF Chars
  <1>6. ASSUME Header!TooBig(at - 1) PROVE thrown' = "too_large" /\ len' = len /\ header_state' = header_state
    BY <1>1, <1>6 DEF Header!Throw
  <1>7. ASSUME header_state = "RESPONSE_LINE", ~Header!IsStatusLine(line), ~Header!TooBig(at - 1)
        PROVE  thrown' = "bad_request" /\ len' = len /\ header_state' = header_state /\ Header!BadHeader(response)
    <2>1. j = 1
      BY <1>7 DEF TakenLines
    <2> QED
      BY <1>1, <1>5, <1>7, <2>1 DEF Header!Throw, Header!BadHeader, Lines
  <1>8. ASSUME header_state = "HEADERS", ~Header!IsHeader(line), ~Header!TooBig(at - 1)
        PROVE  thrown' = "bad_request" /\ len' = len /\ header_state' = header_state /\ Header!BadHeader(response)
    <2>1. j \in 2 .. Len(Lines)
      BY <1>3, <1>8 DEF TakenLines
    <2>2. ~Header!FieldLine(Lines[j])
      BY <1>3, <1>5, <1>8, HeaderLines
    <2> QED
      BY <1>1, <1>8, <2>1, <2>2 DEF Header!Throw, Header!BadHeader, Lines
  <1>9. ASSUME ~Header!TooBig(at - 1), header_state = "RESPONSE_LINE" => Header!IsStatusLine(line),
               header_state = "HEADERS" => Header!IsHeader(line)
        PROVE  /\ thrown' = "none" /\ AtLine(j + 1)' /\ TakenLines(j + 1)' /\ ThisRead(j + 1)'
               /\ CountInv(j + 1)' /\ header_state' = "HEADERS"
    <2>1. /\ header_state' = "HEADERS" /\ thrown' = "none" /\ len' = len
          /\ m_headers' = IF header_state = "HEADERS" THEN Append(m_headers, line) ELSE m_headers
          /\ m_buf' = SubSeq(m_buf, at + 2, Len(m_buf)) /\ Lines' = Lines
      BY <1>1, <1>9, TheDelimiter DEF Lines
    <2>2. /\ m_buf' \in Chars /\ Len(m_buf') = Len(m_buf) - (Len(LineAt(j)) + 2)
          /\ \A i \in 1 .. Len(m_buf') : m_buf'[i] = m_buf[Len(LineAt(j)) + 2 + i]
      <3> DEFINE a == Len(LineAt(j)) + 2
                 n == Len(m_buf) - a
      <3>1. a \in Nat /\ n \in Nat /\ a + n = Len(m_buf) /\ at + 2 = a + 1
        BY <1>2
      <3>2. m_buf' = SubSeq(m_buf, a + 1, a + n)
        BY <2>1, <3>1
      <3> HIDE DEF a, n
      <3>3. m_buf \in Seq(Header!Letters) /\ a \in Nat /\ n \in Nat /\ a + n <= Len(m_buf)
        BY <1>2, <3>1 DEF Chars
      <3>4. /\ SubSeq(m_buf, a + 1, a + n) \in Seq(Header!Letters)
            /\ Len(SubSeq(m_buf, a + 1, a + n)) = n
            /\ \A i \in 1 .. n : SubSeq(m_buf, a + 1, a + n)[i] = m_buf[a + i]
        BY ONLY <3>3, PartOf
      <3>5. m_buf' \in Chars /\ Len(m_buf') = n /\ \A i \in 1 .. n : m_buf'[i] = m_buf[a + i]
        BY <3>2, <3>4 DEF Chars
      <3> QED
        BY <3>5 DEF a, n
    <2>3. AtLine(j + 1)'
      <3>1. /\ header_seen' = header_seen /\ header_sent' = header_sent /\ ends' = ends
            /\ j + 1 \in 1 .. Len(Lines) + 1 /\ j + 1 <= Len(ends)
        BY <1>1, <1>10
      <3>2. ends[j + 1] + Len(m_buf') = header_seen
        <4>1. Len(m_buf') = Len(m_buf) - (Len(LineAt(j)) + 2)
          BY <2>2
        <4> QED
          BY <1>10, <4>1, SMTT(30)
      <3>3. \A i \in 1 .. Len(m_buf') : m_buf'[i] = header_sent[ends[j + 1] + i]
        <4> SUFFICES ASSUME NEW i \in 1 .. Len(m_buf') PROVE m_buf'[i] = header_sent[ends[j + 1] + i]
          OBVIOUS
        <4>1. /\ Len(LineAt(j)) + 2 + i \in 1 .. Len(m_buf)
              /\ ends[j] + (Len(LineAt(j)) + 2 + i) = ends[j + 1] + i
          <5>1. Len(m_buf') = Len(m_buf) - (Len(LineAt(j)) + 2) /\ Len(m_buf') \in Nat
            BY <1>10, <2>2
          <5>2. i \in Nat /\ 1 <= i /\ i <= Len(m_buf')
            BY <5>1
          <5>3. Len(LineAt(j)) + 2 + i \in 1 .. Len(m_buf)
            BY <1>10, <5>1, <5>2, Sums
          <5>4. ends[j] + (Len(LineAt(j)) + 2 + i) = ends[j] + Len(LineAt(j)) + 2 + i
            BY <1>10, <5>2, Sums, SMTT(30)
          <5> QED
            BY <1>10, <5>3, <5>4
        <4> QED
          BY <1>4, <2>2, <4>1
      <3> QED
        BY <1>4, <2>1, <2>2, <3>1, <3>2, <3>3 DEF AtLine
    <2>4. TakenLines(j + 1)'
      <3>1. CASE j = 1
        <4>1. /\ header_state = "RESPONSE_LINE" /\ m_headers' = m_headers /\ j + 1 = 2 /\ 2 - 1 = 1
              /\ m_headers = SubSeq(Lines, 2, 0)
          BY <2>1, <3>1 DEF TakenLines
        <4>2. m_headers' = SubSeq(Lines, 2, 1)
          <5>1. SubSeq(Lines, 2, 0) = <<>> /\ SubSeq(Lines, 2, 1) = <<>>
            BY SubSeqEmpty
          <5> QED
            BY <4>1, <5>1
        <4>3. Header!IsStatusLine(Lines[1])
          BY <1>5, <1>9, <3>1, <4>1
        <4> QED
          BY <2>1, <4>1, <4>2, <4>3, <3>1 DEF TakenLines
      <3>2. CASE j > 1
        <4>1. /\ header_state = "HEADERS" /\ m_headers' = Append(SubSeq(Lines, 2, j - 1), Lines[j])
              /\ Header!IsStatusLine(Lines[1]) /\ Header!IsHeader(Lines[j])
              /\ \A i \in 2 .. j - 1 : Header!IsHeader(Lines[i])
          BY <1>5, <1>9, <2>1, <3>2 DEF TakenLines
        <4>2. m_headers' = SubSeq(Lines, 2, j) /\ j + 1 - 1 = j /\ j + 1 > 1 /\ j + 1 # 1
          BY <1>3, <3>2, <4>1, OneLineMore
        <4>3. \A i \in 2 .. j : i \in 2 .. j - 1 \/ i = j
          BY <3>2
        <4> QED
          BY <2>1, <4>1, <4>2, <4>3 DEF TakenLines
      <3> QED
        BY <1>3, <3>1, <3>2
    <2>5. ThisRead(j + 1)'
      <3>1. header_seen - len < ends[j + 1] /\ len \in Nat
        BY <1>2 DEF ThisRead
      <3>2. j + 1 < Len(ends) => ends[j + 1] < ends[j + 1 + 1] /\ ends[j + 1 + 1] \in Nat
        <4> SUFFICES ASSUME j + 1 < Len(ends) PROVE ends[j + 1] < ends[j + 1 + 1] /\ ends[j + 1 + 1] \in Nat
          OBVIOUS
        <4>1. j + 1 \in 1 .. Len(ends) - 1 /\ j + 1 \in 1 .. Len(Lines) + 1 /\ j + 1 + 1 \in 1 .. Len(ends)
          BY <1>10
        <4>2. LineSent(j + 1) /\ Len(LineAt(j + 1)) \in Nat /\ ends[j + 1 + 1] \in Nat
          BY <4>1, Places, ResponseTypes, LenProperties DEF SentInv, Chars
        <4>3. ends[j + 1 + 1] = ends[j + 1] + Len(LineAt(j + 1)) + 2
          BY <4>2 DEF LineSent
        <4> QED
          BY <1>10, <4>2, <4>3, SMTT(30)
      <3>3. j + 1 < Len(ends) => header_seen - len < ends[j + 1 + 1]
        BY <1>4, <3>1, <3>2, SMTT(30)
      <3> QED
        BY <1>1, <2>1, <3>3 DEF ThisRead
    <2>6. CountInv(j + 1)'
      <3>1. m_header_bytes' = m_header_bytes + (at - 1 + 2 + 1) /\ m_header_bytes \in Nat
            /\ m_header_bytes >= ends[j]
        BY <1>1, TheDelimiter DEF Header!Counted, CountInv
      <3>2. m_header_bytes' \in Nat /\ m_header_bytes' >= ends[j + 1]
        <4>1. m_header_bytes' = m_header_bytes + (Len(LineAt(j)) + 3)
          BY <1>10, <3>1
        <4>2. /\ m_header_bytes + (Len(LineAt(j)) + 3) \in Nat
              /\ m_header_bytes + (Len(LineAt(j)) + 3) >= ends[j] + Len(LineAt(j)) + 2
          BY <1>10, <3>1, Sums
        <4> QED
          BY <1>10, <4>1, <4>2
      <3> QED
        BY <1>1, <2>1, <3>2 DEF CountInv
    <2> QED
      BY <2>1, <2>3, <2>4, <2>5, <2>6
  <1> QED
    BY <1>1, <1>6, <1>7, <1>8, <1>9

\* What is left of a part of a sequence, and all behind it.
LEMMA RestOf ==
    ASSUME NEW S, NEW s \in Seq(S), NEW a \in Nat, NEW n \in Nat, NEW p \in Nat,
           a + n <= Len(s), p <= n
    PROVE  /\ Len(SubSeq(s, a + 1, a + n)) = n
           /\ SubSeq(SubSeq(s, a + 1, a + n), p + 1, n) \o SubSeq(s, a + n + 1, Len(s))
                = SubSeq(s, a + p + 1, Len(s))
  <1> DEFINE l == SubSeq(s, a + 1, a + n)
             x == SubSeq(l, p + 1, n)
             y == SubSeq(s, a + p + 1, a + n)
  <1>0. Len(s) \in Nat
    BY LenProperties
  <1>1. l \in Seq(S) /\ Len(l) = n /\ \A i \in 1 .. n : l[i] = s[a + i]
    BY PartOf
  <1>2. x = y
    <2> DEFINE q == n - p
    <2>1. q \in Nat /\ p + q = n /\ a + p \in Nat /\ a + p + q = a + n
      BY <1>0
    <2> HIDE DEF q, l
    <2>2. x \in Seq(S) /\ Len(x) = q /\ \A i \in 1 .. q : x[i] = l[p + i]
      <3>1. x = SubSeq(l, p + 1, p + q) /\ p + q <= Len(l)
        BY <1>1, <2>1
      <3> QED
        BY <1>1, <2>1, <3>1, PartOf, SMTT(30)
    <2>3. y \in Seq(S) /\ Len(y) = q /\ \A i \in 1 .. q : y[i] = s[a + p + i]
      <3> DEFINE c == a + p
      <3>1. y = SubSeq(s, c + 1, c + q) /\ c + q <= Len(s) /\ c \in Nat
        BY <1>1, <2>1
      <3> HIDE DEF c, y
      <3>2. /\ SubSeq(s, c + 1, c + q) \in Seq(S) /\ Len(SubSeq(s, c + 1, c + q)) = q
            /\ \A i \in 1 .. q : SubSeq(s, c + 1, c + q)[i] = s[c + i]
        BY <2>1, <3>1, PartOf
      <3> QED
        BY <3>1, <3>2 DEF c
    <2>4. \A i \in 1 .. q : p + i \in 1 .. n /\ a + (p + i) = a + p + i
      BY <2>1
    <2> HIDE DEF x, y
    <2>5. \A i \in 1 .. q : x[i] = y[i]
      BY <1>1, <2>2, <2>3, <2>4
    <2> QED
      BY <2>2, <2>3, <2>5, SeqEqual
  <1>3. a + p + 1 \in 1 .. Len(s) + 1 /\ a + n \in a + p + 1 - 1 .. Len(s) /\ Len(s) \in a + n .. Len(s)
    BY <1>0
  <1>4. y \o SubSeq(s, a + n + 1, Len(s)) = SubSeq(s, a + p + 1, Len(s))
    <2>1. PICK m \in 1 .. Len(s) + 1 : m = a + p + 1
      BY <1>3
    <2>2. PICK k \in m - 1 .. Len(s) : k = a + n
      BY <1>3, <2>1
    <2>3. Len(s) \in k .. Len(s)
      BY <1>3, <2>2
    <2>4. SubSeq(s, m, k) \o SubSeq(s, k + 1, Len(s)) = SubSeq(s, m, Len(s))
      BY <2>3, ConcatAdjacentSubSeq
    <2> QED
      BY <2>1, <2>2, <2>4
  <1> QED
    BY <1>1, <1>2, <1>4

LEMMA BlankLineStep ==
    ASSUME SentInv, Header!BlankLine, NEW j \in Nat,
           AtLine(j), TakenLines(j), ThisRead(j), CountInv(j)
    PROVE  \/ /\ thrown' \in {"too_large", "bad_request"} /\ len' = len /\ len > 0
              /\ header_state' = header_state
              /\ thrown' = "bad_request" => Header!BadHeader(response)
           \/ thrown' = "none" /\ Ready' /\ Done'
  <1>1. /\ len > 0 /\ thrown = "none" /\ Header!FirstDelimiter(m_buf) = 1
        /\ UNCHANGED <<response, header_sent, ends, header_seen, last>>
    BY DEF Header!BlankLine
  <1>2. /\ Len(m_buf) \in Nat /\ 2 <= Len(m_buf) /\ Len(LineAt(j)) = 0
        /\ j < Len(ends) /\ LineSent(j)
    <2>1. Len(m_buf) \in Nat /\ Len(LineAt(j)) \in Nat
      BY FindsLine
    <2>2. Len(m_buf) >= Len(LineAt(j)) + 2 /\ Len(LineAt(j)) + 1 = 1
      BY <1>1, <2>1, FindsLine
    <2>3. Len(LineAt(j)) = 0 /\ Len(m_buf) > 0 /\ 2 <= Len(m_buf)
      BY <2>1, <2>2
    <2> QED
      BY <2>1, <2>3, FindsLine
  <1>3. Lines \in Seq(Chars) /\ Len(Lines) \in Nat /\ j = Len(Lines) + 1
    <2>1. Lines \in Seq(Chars) /\ Len(Lines) \in Nat /\ j \in 1 .. Len(Lines) + 1
      BY ResponseTypes DEF SentInv, AtLine
    <2>2. j \notin 1 .. Len(Lines)
      BY <1>2, ResponseTypes DEF SentInv
    <2> QED
      BY <2>1, <2>2
  <1>4. /\ Len(ends) = Len(Lines) + 2 /\ Len(ends) = j + 1 /\ ends[j] \in Nat /\ ends[j + 1] \in Nat
        /\ header_sent \in Chars /\ Len(header_sent) \in Nat
        /\ ends[j] + Len(m_buf) = header_seen /\ header_seen \in Nat /\ header_seen <= Len(header_sent)
        /\ ends[j + 1] = ends[j] + 2
    <2>1. Len(ends) \in Nat /\ Len(ends) <= Len(Lines) + 2
      BY Places DEF SentInv
    <2>2. Len(ends) = Len(Lines) + 2 /\ Len(ends) = j + 1
      BY <1>2, <1>3, <2>1
    <2>3. j \in 1 .. Len(ends) /\ j + 1 \in 1 .. Len(ends)
      BY <1>3, <2>1, <2>2
    <2>4. ends[j] \in Nat /\ ends[j + 1] \in Nat /\ header_sent \in Chars /\ Len(header_sent) \in Nat
      BY <2>3, Places DEF SentInv
    <2> QED
      BY <1>2, <2>2, <2>4 DEF LineSent, AtLine
  <1>5. ASSUME Header!TooBig(0) PROVE thrown' = "too_large" /\ len' = len /\ header_state' = header_state
    BY <1>5 DEF Header!BlankLine, Header!Throw
  <1>6. j = 1 => header_state = "RESPONSE_LINE" /\ Header!BadHeader(response)
    <2> SUFFICES ASSUME j = 1 PROVE header_state = "RESPONSE_LINE" /\ Header!BadHeader(response)
      OBVIOUS
    <2>1. Len(Lines) = 0
      BY <1>3
    <2>2. Lines = <<>>
      BY <1>3, <2>1, EmptySeq, SeqEqual
    <2> QED
      BY <2>2 DEF TakenLines, Header!BadHeader, Lines
  <1>7. j # 1 => /\ header_state = "HEADERS" /\ m_headers = Header!Headers(response)
                 /\ Header!ContentLength(m_headers) = Header!BodyLength(response)
                 /\ Header!ContentLength(m_headers) \in Int
                 /\ Header!BadHeader(response) <=> Header!ContentLength(m_headers) < 0
    <2> SUFFICES ASSUME j # 1
                 PROVE  /\ header_state = "HEADERS" /\ m_headers = Header!Headers(response)
                        /\ Header!ContentLength(m_headers) = Header!BodyLength(response)
                        /\ Header!ContentLength(m_headers) \in Int
                        /\ Header!BadHeader(response) <=> Header!ContentLength(m_headers) < 0
      OBVIOUS
    <2>1. j > 1 /\ Len(Lines) >= 1 /\ j - 1 = Len(Lines)
      BY <1>3
    <2>2. Lines # <<>>
      BY <2>1, EmptySeq
    <2>3. m_headers = Tail(Lines)
      BY <1>3, <2>1, <2>2, TailIsSubSeq DEF TakenLines
    <2>4. Header!IsStatusLine(Lines[1]) /\ \A i \in 2 .. Len(Lines) : Header!FieldLine(Lines[i])
      <3>1. Header!IsStatusLine(Lines[1]) /\ \A i \in 2 .. Len(Lines) : Header!IsHeader(Lines[i])
        BY <2>1 DEF TakenLines
      <3>2. \A i \in 2 .. Len(Lines) : Lines[i] \in Chars
        BY <1>3, ElementOfSeq
      <3> QED
        BY <3>1, <3>2, HeaderLines
    <2>5. /\ m_headers \in Seq(Chars) /\ Len(m_headers) = Len(Lines) - 1
          /\ \A i \in 1 .. Len(m_headers) : m_headers[i] = Lines[i + 1]
      BY <1>3, <2>2, <2>3, HeadTailProperties
    <2>6. \A i \in 1 .. Len(m_headers) : Header!FieldLine(m_headers[i])
      <3>1. \A i \in 1 .. Len(m_headers) : i + 1 \in 2 .. Len(Lines)
        BY <1>3, <2>5
      <3> QED
        BY <2>4, <2>5, <3>1
    <2>7. m_headers = Header!Headers(response)
      BY <2>3 DEF Header!Headers, Lines
    <2>8. /\ Header!ContentLength(m_headers) = Header!BodyLength(response)
          /\ Header!ContentLength(m_headers) \in Int
      BY <2>5, <2>6, <2>7, LengthOfBody
    <2> QED
      BY <2>1, <2>2, <2>4, <2>7, <2>8 DEF TakenLines, Header!BadHeader, Lines
  <1>8. ASSUME ~Header!TooBig(0), header_state = "RESPONSE_LINE" \/ Header!ContentLength(m_headers) < 0
        PROVE  /\ thrown' = "bad_request" /\ len' = len /\ header_state' = header_state
               /\ Header!BadHeader(response)
    <2>1. thrown' = "bad_request" /\ len' = len /\ header_state' = header_state
      BY <1>8 DEF Header!BlankLine, Header!Throw
    <2> QED
      BY <1>6, <1>7, <1>8, <2>1
  <1>9. ASSUME ~Header!TooBig(0), ~(header_state = "RESPONSE_LINE" \/ Header!ContentLength(m_headers) < 0)
        PROVE  thrown' = "none" /\ Ready' /\ Done'
    <2> DEFINE length == Header!ContentLength(m_headers)
               behind == Len(m_buf) - 2
               body == IF behind < length THEN behind ELSE length
    <2>0. /\ len \in Nat /\ len <= header_seen /\ MaxHeaderSize \in Nat
          /\ m_header_bytes \in Nat /\ m_header_bytes >= ends[j]
          /\ header_seen - len < ends[j + 1]
          /\ last = SubSeq(header_sent, header_seen - len + 1, header_seen)
      BY <1>1, <1>2, SizesAssumption DEF ThisRead, CountInv
    <2>1. /\ j # 1 /\ length \in Nat /\ m_headers = Header!Headers(response)
          /\ ~Header!BadHeader(response)
      <3>1. length \in Int /\ ~(length < 0)
        BY <1>6, <1>7, <1>9
      <3> QED
        BY <1>6, <1>7, <1>9, <3>1
    <2>2. Header!ReadSoFar(len, Len(m_buf)) = len - behind
      BY <1>2, <2>0, TheDelimiter DEF Header!ReadSoFar
    <2>3. /\ behind \in Nat /\ body \in Nat /\ body <= behind /\ len - (len - behind) = behind
          /\ behind < len + 1 /\ behind <= len
      BY <1>2, <1>4, <2>0, <2>1, SMTT(30)
    <2>4. /\ m_read' = length - body /\ header_state' \in {"BODY", "DONE"}
          /\ processed' = len - behind + body /\ m_buf' = <<>> /\ len' = 0
          /\ m_headers' = m_headers /\ thrown' = thrown
      <3> DEFINE read == Header!ReadSoFar(len, Len(m_buf))
                 part == IF len - read < length THEN len - read ELSE length
      <3>1. /\ m_read' = length - part
            /\ header_state' = IF read < len /\ part = length THEN "DONE" ELSE "BODY"
            /\ processed' = read + part /\ m_buf' = <<>> /\ len' = 0
            /\ m_headers' = m_headers /\ thrown' = thrown
        BY <1>9 DEF Header!BlankLine
      <3>2. read = len - behind /\ part = body
        BY <2>2, <2>3
      <3> HIDE DEF read, part, body, behind, length
      <3> QED
        BY <3>1, <3>2
    <2> DEFINE a == header_seen - len
               p == len - behind + body
    <2>5. a \in Nat /\ p \in Nat /\ p <= len /\ a + len = header_seen /\ a + p = ends[j + 1] + body
      <3>1. /\ a \in Nat /\ a + len = header_seen
        BY <1>4, <2>0
      <3>2. p \in Nat /\ p <= len
        BY <2>0, <2>3
      <3>3. header_seen = ends[j] + behind + 2
        BY <1>2, <1>4
      <3> HIDE DEF body, behind
      <3>4. a + p = ends[j] + 2 + body
        <4>1. /\ len \in Nat /\ header_seen \in Nat /\ behind \in Nat /\ body \in Nat
              /\ ends[j] \in Nat /\ header_seen = ends[j] + behind + 2
          BY <1>4, <2>0, <2>3, <3>3
        <4>2. \A x, y, z, v, e \in Nat : y = e + z + 2 => (y - x) + (x - z + v) = e + 2 + v
          OBVIOUS
        <4> QED
          BY <4>1, <4>2
      <3> HIDE DEF a, p
      <3> QED
        BY <1>4, <3>1, <3>2, <3>4
    <2> HIDE DEF a, p, body, behind, length
    <2>6. /\ Len(last) = len
          /\ SubSeq(last, p + 1, len) \o SubSeq(header_sent, header_seen + 1, Len(header_sent))
                = SubSeq(header_sent, ends[j + 1] + body + 1, Len(header_sent))
      <3>1. last = SubSeq(header_sent, a + 1, a + len) /\ a + len <= Len(header_sent)
            /\ header_sent \in Seq(Header!Letters)
        BY <1>4, <2>0, <2>5 DEF a, Chars
      <3>2. /\ Len(last) = len
            /\ SubSeq(last, p + 1, len) \o SubSeq(header_sent, a + len + 1, Len(header_sent))
                  = SubSeq(header_sent, a + p + 1, Len(header_sent))
        <4> DEFINE l == SubSeq(header_sent, a + 1, a + len)
        <4>1. len \in Nat /\ a \in Nat /\ p \in Nat /\ p <= len
          BY <2>0, <2>5
        <4>2. /\ Len(l) = len
              /\ SubSeq(l, p + 1, len) \o SubSeq(header_sent, a + len + 1, Len(header_sent))
                    = SubSeq(header_sent, a + p + 1, Len(header_sent))
          BY ONLY <3>1, <4>1, RestOf, ZenonT(40)
        <4>3. last = l
          BY <3>1
        <4> QED
          BY <4>2, <4>3
      <3> QED
        BY <2>5, <3>2
    <2>7. Header!HeaderSize <= MaxHeaderSize /\ Header!HeaderSize = ends[j + 1]
      <3>1. m_header_bytes + 3 <= MaxHeaderSize
        BY <1>9, <2>0, TheDelimiter DEF Header!TooBig, Header!Counted
      <3>2. Header!HeaderSize = ends[j + 1]
        BY <1>4 DEF Header!HeaderSize
      <3>3. ends[j + 1] <= MaxHeaderSize
        BY <1>4, <2>0, <3>1
      <3> QED
        BY <3>2, <3>3
    <2>8. Header!HeaderSize' = Header!HeaderSize /\ Lines' = Lines
      BY <1>1 DEF Header!HeaderSize, Lines
    <2>9. Header!BodyLength(response) - m_read' = body /\ processed' = p
      <3>1. m_read' = length - body /\ length \in Nat /\ body \in Nat
        BY <2>1, <2>3, <2>4
      <3>2. length = Header!BodyLength(response)
        BY <1>7, <2>1 DEF length
      <3>3. length - (length - body) = body
        BY <3>1
      <3> QED
        BY <2>4, <3>1, <3>2, <3>3 DEF p
    <2>10. Header!ReadsResponse'
      <3>1. (Header!Frames)' = SubSeq(header_sent, Header!HeaderSize + body + 1, Len(header_sent))
        BY <1>1, <2>6, <2>7, <2>9 DEF Header!Frames
      <3>2. Header!HeaderSent'
        BY <1>1, <1>4 DEF Header!HeaderSent, Lines
      <3>3. processed' <= Len(last')
        BY <1>1, <2>5, <2>6, <2>9
      <3> QED
        BY <1>1, <2>1, <2>4, <2>8, <2>9, <3>1, <3>2, <3>3 DEF Header!ReadsResponse
    <2> QED
      BY <1>1, <1>4, <2>4, <2>7, <2>8, <2>10 DEF Done, Ready, ReadsResponse
  <1> QED
    BY <1>1, <1>5, <1>8, <1>9

-----------------------------------------------------------------------------
LEMMA InitHeaderInv == Header!Init => HeaderInv
  <1> SUFFICES ASSUME Header!Init PROVE HeaderInv
    OBVIOUS
  <1>1. /\ response \in Responses /\ header_sent = <<>> /\ ends = <<0>> /\ header_seen = 0
        /\ header_state = "RESPONSE_LINE" /\ m_buf = <<>> /\ m_header_bytes = 0
        /\ m_headers = <<>> /\ len = 0 /\ thrown = "none"
    BY DEF Header!Init
  <1>2. /\ header_sent \in Chars /\ m_buf \in Chars /\ Len(header_sent) = 0 /\ Len(m_buf) = 0
        /\ ends \in Seq(Nat) /\ Len(ends) = 1 /\ ends[1] = 0 /\ Len(Lines) \in Nat
    BY <1>1, EmptySeq, ResponseTypes DEF Chars
  <1>3. SentInv
    BY <1>1, <1>2 DEF SentInv
  <1>4. AtLine(1) /\ CountInv(1)
    BY <1>1, <1>2, SizesAssumption DEF AtLine, CountInv
  <1>5. TakenLines(1) /\ ThisRead(1)
    <2>1. SubSeq(Lines, 2, 0) = <<>>
      BY SubSeqEmpty
    <2> QED
      BY <1>1, <1>2, <2>1 DEF TakenLines, ThisRead
  <1> QED
    BY <1>1, <1>3, <1>4, <1>5 DEF HeaderInv, Ready

\* A step that is not the server's leaves what was sent alone.
LEMMA SentStays ==
    ASSUME SentInv, UNCHANGED <<response, header_sent, ends>>
    PROVE  SentInv'
  <1>1. Lines' = Lines /\ \A i : LineAt(i)' = LineAt(i)
    BY DEF Lines, LineAt
  <1>2. \A i : LineSent(i) => LineSent(i)'
    BY <1>1 DEF LineSent
  <1> QED
    BY <1>1, <1>2 DEF SentInv

LEMMA NextHeaderInv == HeaderInv /\ [Header!Next]_header => HeaderInv'
  <1> SUFFICES ASSUME HeaderInv, [Header!Next]_header PROVE HeaderInv'
    OBVIOUS
  <1>0. SentInv
    BY DEF HeaderInv
  <1>1. CASE Header!Send
    <2>1. SentInv'
      BY <1>0, <1>1, SendKeepsSent
    <2>2. /\ UNCHANGED <<response, header_state, len, thrown>>
          /\ Len(ends) <= Len(Lines) + 1
      BY <1>1 DEF Header!Send, Lines
    <2>3. ~Ready
      BY <1>0, <2>2, Places, ResponseTypes DEF HeaderInv, Done, SentInv
    <2>4. ASSUME thrown = "none"
          PROVE  \E j \in Nat : AtLine(j)' /\ TakenLines(j)' /\ ThisRead(j)' /\ CountInv(j)'
      BY <1>0, <1>1, <2>3, <2>4, SendKeepsRead DEF HeaderInv
    <2> QED
      BY <2>1, <2>2, <2>3, <2>4 DEF HeaderInv, Ready
  <1>2. CASE \/ Header!Receive \/ Header!OutOfBytes \/ Header!Line \/ Header!BlankLine
    <2>1. UNCHANGED <<response, header_sent, ends>> /\ thrown = "none"
      BY <1>2 DEF Header!Receive, Header!OutOfBytes, Header!Line, Header!BlankLine
    <2>2. SentInv'
      BY <1>0, <2>1, SentStays
    <2>3. ~Ready
      <3>1. len > 0 \/ ~Header!HeadersReady
        BY <1>2 DEF Header!Receive, Header!OutOfBytes, Header!Line, Header!BlankLine
      <3> QED
        BY <3>1 DEF HeaderInv, Done, Ready, Header!HeadersReady
    <2>4. PICK j \in Nat : AtLine(j) /\ TakenLines(j) /\ ThisRead(j) /\ CountInv(j)
      BY <2>1, <2>3 DEF HeaderInv
    <2>5. \/ /\ thrown' \in {"too_large", "bad_request"} /\ len' = len /\ len > 0
             /\ header_state' = header_state
             /\ thrown' = "bad_request" => Header!BadHeader(response)
          \/ /\ thrown' = "none"
             /\ \E k \in Nat : AtLine(k)' /\ TakenLines(k)' /\ ThisRead(k)' /\ CountInv(k)'
             /\ ~Ready'
          \/ thrown' = "none" /\ Ready' /\ Done'
      <3>1. CASE Header!Receive
        <4>1. thrown' = "none" /\ ~Ready'
          BY <2>1, <2>3, <3>1 DEF Header!Receive, Ready
        <4> QED
          BY <1>0, <2>4, <3>1, <4>1, ReceiveStep
      <3>2. CASE Header!OutOfBytes
        <4>1. header_state' = header_state
          BY <3>2 DEF Header!OutOfBytes, Header!Throw
        <4> QED
          BY <1>0, <2>3, <2>4, <3>2, <4>1, OutOfBytesStep DEF Ready
      <3>3. CASE Header!Line
        <4>1. j + 1 \in Nat
          OBVIOUS
        <4>2. header_state' = "HEADERS" => ~Ready'
          BY DEF Ready
        <4> QED
          BY <1>0, <2>3, <2>4, <3>3, <4>1, <4>2, LineStep
      <3>4. CASE Header!BlankLine
        BY <1>0, <2>4, <3>4, BlankLineStep
      <3> QED
        BY <1>2, <3>1, <3>2, <3>3, <3>4
    <2>6. len' = len /\ len > 0 /\ header_state' = header_state => len' \in Nat \ {0} /\ ~Ready'
      BY <2>3, <2>4 DEF Ready, ThisRead
    <2>7. Header!BadHeader(response)' <=> Header!BadHeader(response)
      BY <2>1
    <2> QED
      BY <2>2, <2>5, <2>6, <2>7 DEF HeaderInv
  <1>3. CASE UNCHANGED header
    <2>1. UNCHANGED <<response, header_sent, ends, header_seen, header_state, m_buf, m_header_bytes,
                      m_read, m_headers, len, last, processed, thrown>>
      BY <1>3 DEF header
    <2>2. SentInv' /\ Lines' = Lines
      BY <1>0, <2>1, SentStays DEF Lines
    <2>3. Ready' = Ready /\ (Done => Done')
      BY <2>1, <2>2 DEF Ready, Done, Header!HeaderSize, ReadsResponse, Header!ReadsResponse,
                  Header!Frames, Header!HeaderSent, Header!HeadersReady
    <2>4. \A j : AtLine(j) /\ TakenLines(j) /\ ThisRead(j) /\ CountInv(j)
                   => AtLine(j)' /\ TakenLines(j)' /\ ThisRead(j)' /\ CountInv(j)'
      BY <2>1, <2>2 DEF AtLine, TakenLines, ThisRead, CountInv
    <2> QED
      BY <2>1, <2>2, <2>3, <2>4 DEF HeaderInv
  <1> QED
    BY <1>1, <1>2, <1>3 DEF Header!Next

\* However the response is cut into reads, it is refused as a bad request only when it is
\* one, and accepted only with all its header lines; the stream of frames then starts right
\* behind the header and the part of the body that came with it.
THEOREM ResponseIsRead == ReadingSpec => []ReadsResponse
  <1>1. ReadingInit => HeaderInv
    BY InitHeaderInv DEF ReadingInit
  <1>2. HeaderInv /\ [ReadingNext]_<<vars, framing, header, layer>> => HeaderInv'
    <2>1. [ReadingNext]_<<vars, framing, header, layer>> => [Header!Next]_header
      BY DEF ReadingNext, header
    <2> QED
      BY <2>1, NextHeaderInv
  <1>3. HeaderInv => ReadsResponse
    <2> SUFFICES ASSUME HeaderInv PROVE Header!ReadsResponse
      BY DEF ReadsResponse
    <2>1. CASE Ready
      BY <2>1 DEF HeaderInv, Done, ReadsResponse
    <2>2. CASE ~Ready
      BY <2>2 DEF HeaderInv, Ready, Header!ReadsResponse, Header!HeadersReady
    <2> QED
      BY <2>1, <2>2
  <1> QED
    BY <1>1, <1>2, <1>3, PTL DEF ReadingSpec

\* No header beyond max_header_size is accepted, and no unfinished line beyond it is kept.
THEOREM HeaderLimit == ReadingSpec => []LimitHolds
  <1>1. ReadingInit => HeaderInv
    BY InitHeaderInv DEF ReadingInit
  <1>2. HeaderInv /\ [ReadingNext]_<<vars, framing, header, layer>> => HeaderInv'
    <2>1. [ReadingNext]_<<vars, framing, header, layer>> => [Header!Next]_header
      BY DEF ReadingNext, header
    <2> QED
      BY <2>1, NextHeaderInv
  <1>3. HeaderInv => LimitHolds
    <2> SUFFICES ASSUME HeaderInv PROVE Header!LimitHolds
      BY DEF LimitHolds
    <2>1. CASE Ready
      <3>1. Len(<<>>) = 0 /\ MaxHeaderSize \in Nat
        BY SizesAssumption
      <3> QED
        BY <2>1, <3>1 DEF HeaderInv, Done, Header!LimitHolds, Header!HeadersReady, Ready
    <2>2. CASE ~Ready
      BY <2>2 DEF HeaderInv, Ready, CountInv, Header!LimitHolds, Header!HeadersReady
    <2> QED
      BY <2>1, <2>2
  <1> QED
    BY <1>1, <1>2, <1>3, PTL DEF ReadingSpec

-----------------------------------------------------------------------------
(***************************************************************************)
(* The two decoders agree on texts of any bytes and any length.  SameText  *)
(* is not inductive: that both are between characters says nothing of what *)
(* they expect within one.  IInv adds that: the ranges the JSON scanner    *)
(* still asks for are those that the validator's state stands for.         *)
(***************************************************************************)

\* What the state of the validator stands for.
Follows(s) ==
    IF s = 0 THEN <<>> ELSE IF s = 2 THEN <<Rest>> ELSE IF s = 3 THEN <<Rest, Rest>>
    ELSE IF s = 4 THEN <<160 .. 191, Rest>> ELSE IF s = 5 THEN <<128 .. 159, Rest>>
    ELSE IF s = 6 THEN <<144 .. 191, Rest, Rest>>
    ELSE IF s = 7 THEN <<Rest, Rest, Rest>> ELSE <<128 .. 143, Rest, Rest>>

IInv ==
    /\ m_state \in 0 .. 8
    /\ parse_error = (m_state = Reject)
    /\ m_state # Reject => ranges = Follows(m_state)

\* The next byte within a character is in the first of the ranges exactly when the table
\* does not reject it, and then the state stands for the others.
LEMMA NextByte ==
    ASSUME NEW b \in 0 .. 255, NEW s \in 2 .. 8
    PROVE  /\ Follows(s) # <<>>
           /\ Transition(s, Type(b)) \in 0 .. 8
           /\ Transition(s, Type(b)) = Reject <=> b \notin Head(Follows(s))
           /\ Transition(s, Type(b)) # Reject => Follows(Transition(s, Type(b))) = Tail(Follows(s))
  <1>1. CASE s = 2
    BY <1>1 DEF Follows, Transition, Continues, Type, Rest, Reject
  <1>2. CASE s = 3
    BY <1>2 DEF Follows, Transition, Continues, Type, Rest, Reject
  <1>3. CASE s = 4
    BY <1>3 DEF Follows, Transition, Continues, Type, Rest, Reject
  <1>4. CASE s = 5
    BY <1>4 DEF Follows, Transition, Continues, Type, Rest, Reject
  <1>5. CASE s = 6
    BY <1>5 DEF Follows, Transition, Continues, Type, Rest, Reject
  <1>6. CASE s = 7
    BY <1>6 DEF Follows, Transition, Continues, Type, Rest, Reject
  <1>7. CASE s = 8
    BY <1>7 DEF Follows, Transition, Continues, Type, Rest, Reject
  <1>8. s \in {2, 3, 4, 5, 6, 7, 8}
    OBVIOUS
  <1> QED BY <1>1, <1>2, <1>3, <1>4, <1>5, <1>6, <1>7, <1>8, Zenon

\* The same for the first byte of a character.
LEMMA FirstByte ==
    ASSUME NEW b \in 0 .. 255
    PROVE  /\ Transition(0, Type(b)) \in 0 .. 8
           /\ Transition(0, Type(b)) = Reject <=> IllFormed(b)
           /\ ~IllFormed(b) => Follows(Transition(0, Type(b))) = Ranges(b)
  <1> DEFINE t == Type(b)
             s == Begin(t)
  <1>1. Transition(0, Type(b)) = s
    BY DEF Transition
  <1>2. /\ b \in 0 .. 127 => t = 0
        /\ b \in 194 .. 223 => t = 2
        /\ b = 224 => t = 10
        /\ b = 237 => t = 4
        /\ b \in 225 .. 239 /\ b # 237 => t = 3
        /\ b = 240 => t = 11
        /\ b \in 241 .. 243 => t = 6
        /\ b = 244 => t = 5
        /\ IllFormed(b) => t \in {1, 7, 8, 9}
    <2>1. b \in 0 .. 127 => t = 0
      BY DEF Type
    <2>2. b \in 194 .. 223 => t = 2
      BY DEF Type
    <2>3. b = 224 => t = 10
      BY DEF Type
    <2>4. b = 237 => t = 4
      BY DEF Type
    <2>5. b \in 225 .. 239 /\ b # 237 => t = 3
      BY DEF Type
    <2>6. b = 240 => t = 11
      BY DEF Type
    <2>7. b \in 241 .. 243 => t = 6
      BY DEF Type
    <2>8. b = 244 => t = 5
      BY DEF Type
    <2>9. IllFormed(b) => t \in {1, 7, 8, 9}
      BY DEF Type, IllFormed
    <2> QED
      BY <2>1, <2>2, <2>3, <2>4, <2>5, <2>6, <2>7, <2>8, <2>9
  <1> HIDE DEF t
  <1>3. /\ b \in 0 .. 127 => s = 0
        /\ b \in 194 .. 223 => s = 2
        /\ b = 224 => s = 4
        /\ b = 237 => s = 5
        /\ b \in 225 .. 239 /\ b # 237 => s = 3
        /\ b = 240 => s = 6
        /\ b \in 241 .. 243 => s = 7
        /\ b = 244 => s = 8
        /\ IllFormed(b) => s = 1
    BY <1>2 DEF Begin
  <1> HIDE DEF s
  <1>4. s \in 0 .. 8 /\ (s = 1 <=> IllFormed(b))
    BY <1>3 DEF IllFormed
  <1>5. ~IllFormed(b) => Follows(s) = Ranges(b)
    BY <1>3 DEF IllFormed, Follows, Ranges
  <1> QED
    BY <1>1, <1>4, <1>5 DEF Reject

LEMMA InitIInv == Init => IInv
  <1>1. Init => m_state \in 0 .. 8 /\ m_state # Reject /\ ranges = Follows(m_state)
    BY DEF Init, Follows, Accept, Reject
  <1>2. Init => parse_error = FALSE
    BY DEF Init
  <1> QED
    BY <1>1, <1>2 DEF IInv

LEMMA NextIInv == IInv /\ [Next]_vars => IInv'
  <1> SUFFICES ASSUME IInv, [Next]_vars PROVE IInv'
    OBVIOUS
  <1>1. CASE UNCHANGED vars
    BY <1>1 DEF IInv, vars
  <1>2. CASE Next
    <2>1. PICK b \in Byte : Decode(b) /\ ScanByte(b)
      BY <1>2 DEF Next
    <2>2. b \in 0 .. 255 /\ m_state # 1 /\ parse_error = FALSE /\ ranges = Follows(m_state)
      BY <1>2, ByteAssumption DEF Next, IInv, Reject
    <2>3. m_state' = Transition(m_state, Type(b))
      BY <2>1 DEF Decode
    <2>4. CASE m_state = 0
      <3>0. IllFormed(b) \in BOOLEAN
        BY DEF IllFormed
      <3>1. ranges = <<>>
        BY <2>2, <2>4 DEF Follows
      <3>2. parse_error' = IllFormed(b) /\ ranges' = IF IllFormed(b) THEN <<>> ELSE Ranges(b)
        BY <2>1, <2>2, <3>1, <3>0 DEF ScanByte
      <3>3. m_state' \in 0 .. 8 /\ (m_state' = Reject <=> IllFormed(b))
        BY <2>2, <2>3, <2>4, FirstByte
      <3>4. m_state' # Reject => ranges' = Follows(m_state')
        BY <2>2, <2>3, <2>4, <3>2, <3>3, FirstByte
      <3> QED
        BY <3>0, <3>2, <3>3, <3>4, Zenon DEF IInv
    <2>5. CASE m_state \in 2 .. 8
      <3>1. ranges # <<>>
        BY <2>2, <2>5, NextByte
      <3>2. /\ parse_error' = (b \notin Head(ranges))
            /\ ranges' = IF b \notin Head(ranges) THEN <<>> ELSE Tail(ranges)
        BY <2>1, <2>2, <3>1 DEF ScanByte
      <3>3. m_state' \in 0 .. 8 /\ (m_state' = Reject <=> b \notin Head(ranges))
        BY <2>2, <2>3, <2>5, NextByte
      <3>4. m_state' # Reject => ranges' = Follows(m_state')
        BY <2>2, <2>3, <2>5, <3>2, <3>3, NextByte
      <3> QED
        BY <3>2, <3>3, <3>4, Zenon DEF IInv
    <2> QED
      BY <2>2, <2>4, <2>5 DEF IInv
  <1> QED
    BY <1>1, <1>2

LEMMA InvImpliesSameText == IInv => SameText
  <1> SUFFICES ASSUME IInv PROVE SameText
    OBVIOUS
  <1>1. parse_error <=> m_state = Reject
    BY DEF IInv
  <1>2. m_state # Reject => (ranges = <<>> <=> m_state = Accept)
    <2>1. CASE m_state = 0
      BY <2>1 DEF IInv, Follows, Accept, Reject
    <2>2. CASE m_state \in 2 .. 8
      <3>1. Follows(m_state) # <<>>
        BY <2>2 DEF Follows
      <3>2. m_state # Reject /\ m_state # Accept
        BY <2>2 DEF Accept, Reject
      <3>3. ranges # <<>>
        BY <3>1, <3>2, Zenon DEF IInv
      <3> QED
        BY <3>2, <3>3
    <2> QED
      BY <2>1, <2>2 DEF IInv, Reject
  <1> QED
    BY <1>1, <1>2, Zenon DEF SameText

\* The JSON scanner refuses a byte of a text exactly when the validator does, and they are
\* between characters together: no text that the connection delivered is refused by
\* json::parse for its encoding, whatever bytes it is made of.
THEOREM SameTextAlways == Spec => []SameText
  <1>1. Spec => []IInv
    BY InitIInv, NextIInv, PTL DEF Spec
  <1> QED
    BY <1>1, InvImpliesSameText, PTL
-----------------------------------------------------------------------------
(***************************************************************************)
(* The validator decodes characters.  The invariant says what its state    *)
(* knows of the bytes since the last character: that they are the          *)
(* beginning of one (Legal), how much of it is to come (StateOf) and what  *)
(* the code point is so far.  Legal says of the bytes one by one what      *)
(* WellFormed says of the number they encode.                              *)
(***************************************************************************)
Octet == 0 .. 255
Text  == Seq(Octet)
Between(b, low, high) == low <= b /\ b <= high

\* The length of the character that begins with b, and whether x may be second in it.
Total(b) == IF b < 128 THEN 1 ELSE IF b < 224 THEN 2 ELSE IF b < 240 THEN 3 ELSE 4
Second(b, x) ==
    /\ Between(x, 128, 191)
    /\ (b = 224 => x >= 160) /\ (b = 237 => x <= 159)
    /\ (b = 240 => x >= 144) /\ (b = 244 => x <= 143)

LegalFirst(b) == b < 128 \/ Between(b, 194, 244)
Legal(c) ==
    /\ Len(c) >= 1 /\ LegalFirst(c[1]) /\ Len(c) <= Total(c[1])
    /\ Len(c) >= 2 => Second(c[1], c[2])
    /\ Len(c) >= 3 => Between(c[3], 128, 191)
    /\ Len(c) >= 4 => Between(c[4], 128, 191)

\* The state of the validator behind a first byte, and behind the bytes of c.
FirstState(b) ==
    IF b < 128 THEN 0 ELSE IF b < 224 THEN 2 ELSE IF b = 224 THEN 4 ELSE IF b = 237 THEN 5
    ELSE IF b < 240 THEN 3 ELSE IF b = 240 THEN 6 ELSE IF b < 244 THEN 7 ELSE 8
StateOf(c) ==
    IF Len(c) = 1 THEN FirstState(c[1])
    ELSE IF Total(c[1]) - Len(c) = 0 THEN 0 ELSE IF Total(c[1]) - Len(c) = 1 THEN 2 ELSE 3

\* The code point, as far as c goes.
LeadPart(b) == IF b < 128 THEN b ELSE IF b < 224 THEN b - 192 ELSE IF b < 240 THEN b - 224 ELSE b - 240
SoFar(c) ==
    IF Len(c) = 1 THEN LeadPart(c[1])
    ELSE IF Len(c) = 2 THEN 64 * LeadPart(c[1]) + c[2] - 128
    ELSE IF Len(c) = 3 THEN 4096 * LeadPart(c[1]) + 64 * (c[2] - 128) + c[3] - 128
    ELSE 262144 * LeadPart(c[1]) + 4096 * (c[2] - 128) + 64 * (c[3] - 128) + c[4] - 128

CharInv ==
    /\ char \in Text
    /\ m_state # Reject =>
          \/ char = <<>> /\ m_state = Accept
          \/ Legal(char) /\ m_state = StateOf(char) /\ m_codepoint = SoFar(char)
    /\ m_state = Reject => char # <<>> /\ ~Legal(char)

-----------------------------------------------------------------------------
LEMMA Numbers ==
    \A n \in Nat : /\ n = 1 \/ n = 2 \/ n = 3 \/ n = 4 \/ n = 0 \/ n > 4
                   /\ n >= 1 /\ n <= 3 => n = 1 \/ n = 2 \/ n = 3
                   /\ n = 0 \/ n = 1 \/ n >= 2
                   /\ n < 3 \/ n >= 3
                   /\ n < 4 \/ n >= 4
    OBVIOUS

LEMMA Octets == \A b : b \in Octet <=> b \in Nat /\ b <= 255
    BY DEF Octet

LEMMA TextBytes ==
    ASSUME NEW c \in Text
    PROVE  Len(c) \in Nat /\ \A i \in 1 .. Len(c) : c[i] \in Nat /\ c[i] <= 255
  <1>1. Len(c) \in Nat /\ \A i \in 1 .. Len(c) : c[i] \in Octet
    BY DEF Text
  <1> QED
    BY <1>1, Octets

LEMMA TextGrows ==
    ASSUME NEW c \in Text, NEW b \in Octet
    PROVE  /\ Append(c, b) \in Text /\ Append(c, b) # <<>> /\ <<b>> \in Text
           /\ Len(Append(c, b)) = Len(c) + 1 /\ Append(c, b)[Len(c) + 1] = b
           /\ \A i \in 1 .. Len(c) : Append(c, b)[i] = c[i]
    BY DEF Text

LEMMA ExtendsText ==
    ASSUME NEW c \in Text, NEW b \in Octet, NEW n \in Nat, Len(c) <= n
    PROVE  /\ Extends(c, b, n) \in Text /\ Len(Extends(c, b, n)) = n
           /\ \A i \in 1 .. Len(c) : Extends(c, b, n)[i] = c[i]
           /\ \A i \in Len(c) + 1 .. n : Extends(c, b, n)[i] = b
  <1> DEFINE d == Extends(c, b, n)
  <1>1. Len(c) \in Nat /\ \A i \in 1 .. Len(c) : c[i] \in Octet
    BY DEF Text
  <1>2. d \in [1 .. n -> Octet]
    BY <1>1 DEF Extends
  <1>3. d \in Text /\ Len(d) = n
    BY <1>2 DEF Text
  <1> QED
    BY <1>1, <1>3 DEF Extends

\* The number that four bytes encode.
FourBytes(a, x, y, z) == 262144 * (a - 240) + 4096 * (x - 128) + 64 * (y - 128) + z - 128

\* Which bytes make the shortest encoding of a scalar value, by the length.
LEMMA Scalar2 ==
    ASSUME NEW a \in Nat, NEW x \in Nat, Between(a, 192, 223), Between(x, 128, 191),
           NEW v, v = 64 * (a - 192) + x - 128
    PROVE  ScalarValue(v) /\ v >= 128 <=> a >= 194
    BY SMT DEF ScalarValue, Between

LEMMA Scalar3 ==
    ASSUME NEW a \in Nat, NEW x \in Nat, NEW y \in Nat,
           Between(a, 224, 239), Between(x, 128, 191), Between(y, 128, 191),
           NEW v, v = 4096 * (a - 224) + 64 * (x - 128) + y - 128
    PROVE  ScalarValue(v) /\ v >= 2048 <=> Second(a, x)
    BY SMT DEF ScalarValue, Second, Between

LEMMA Scalar4 ==
    ASSUME NEW a \in Nat, NEW x \in Nat, NEW y \in Nat, NEW z \in Nat, Between(a, 240, 247),
           Between(x, 128, 191), Between(y, 128, 191), Between(z, 128, 191)
    PROVE  ScalarValue(FourBytes(a, x, y, z)) /\ FourBytes(a, x, y, z) >= Least[4]
              <=> a <= 244 /\ Second(a, x)
  <1>1. Least[4] = 65536
    BY SMT DEF Least
  <1> QED
    BY <1>1, SMT DEF ScalarValue, Second, Between, FourBytes

\* The tables of the reference, as inequalities.
LEMMA Tables ==
    /\ \A b \in Nat : /\ b \in Lead[1] <=> b < 128
                      /\ b \in Lead[2] <=> Between(b, 192, 223)
                      /\ b \in Lead[3] <=> Between(b, 224, 239)
                      /\ b \in Lead[4] <=> Between(b, 240, 247)
                      /\ Continuation(b) <=> Between(b, 128, 191)
    /\ Least[1] = 0 /\ Least[2] = 128 /\ Least[3] = 2048 /\ Least[4] = 65536
    BY SMT DEF Lead, Least, Continuation, Between

\* A character is well formed exactly when its bytes are legal and none is missing.
LEMMA LegalIsWellFormed ==
    ASSUME NEW c \in Text
    PROVE  /\ WellFormed(c) <=> Legal(c) /\ Len(c) = Total(c[1])
           /\ WellFormed(c) => Value(c) = SoFar(c)
  <1>0. Len(c) \in Nat /\ \A i \in 1 .. Len(c) : c[i] \in Nat /\ c[i] <= 255
    BY TextBytes
  <1>1. CASE Len(c) = 1
    <2>1. c[1] \in Nat /\ c[1] <= 255
      BY <1>0, <1>1
    <2>2. Value(c) = c[1]
      BY <1>1, <2>1, SMT DEF Value
    <2>3. WellFormed(c) <=> c[1] < 128
      <3>1. c[1] < 128 => ScalarValue(c[1]) /\ c[1] >= 0
        BY <2>1, SMT DEF ScalarValue
      <3> QED
        BY <1>1, <2>1, <2>2, <3>1, Tables, SMT DEF WellFormed
    <2>4. Legal(c) /\ Len(c) = Total(c[1]) <=> c[1] < 128
      BY <1>1, <2>1, SMT DEF Legal, Total, LegalFirst, Between
    <2> QED
      BY <1>1, <2>2, <2>3, <2>4, SMT DEF SoFar, LeadPart
  <1>2. CASE Len(c) = 2
    <2>1. c[1] \in Nat /\ c[2] \in Nat /\ c[1] <= 255 /\ c[2] <= 255
      BY <1>0, <1>2
    <2>2. Value(c) = 64 * (c[1] - 192) + c[2] - 128
      BY <1>2, <2>1, SMT DEF Value
    <2>3. WellFormed(c) <=> /\ Between(c[1], 192, 223) /\ Between(c[2], 128, 191)
                            /\ ScalarValue(Value(c)) /\ Value(c) >= 128
      BY <1>2, <2>1, Tables, SMT DEF WellFormed
    <2>4. Legal(c) /\ Len(c) = Total(c[1]) <=>
             Between(c[1], 192, 223) /\ Between(c[2], 128, 191) /\ c[1] >= 194
      BY <1>2, <2>1, SMT DEF Legal, Total, Second, LegalFirst, Between
    <2>5. ASSUME Between(c[1], 192, 223), Between(c[2], 128, 191)
          PROVE  ScalarValue(Value(c)) /\ Value(c) >= 128 <=> c[1] >= 194
      BY <2>1, <2>2, <2>5, Scalar2, SMT
    <2>6. Between(c[1], 192, 223) => Value(c) = SoFar(c)
      BY <1>2, <2>1, <2>2, SMT DEF SoFar, LeadPart, Between
    <2> QED
      BY <2>3, <2>4, <2>5, <2>6
  <1>3. CASE Len(c) = 3
    <2>1. /\ c[1] \in Nat /\ c[2] \in Nat /\ c[3] \in Nat
          /\ c[1] <= 255 /\ c[2] <= 255 /\ c[3] <= 255
      BY <1>0, <1>3
    <2>2. Value(c) = 4096 * (c[1] - 224) + 64 * (c[2] - 128) + c[3] - 128
      BY <1>3, <2>1, SMT DEF Value
    <2>3. WellFormed(c) <=>
             /\ Between(c[1], 224, 239) /\ Between(c[2], 128, 191) /\ Between(c[3], 128, 191)
             /\ ScalarValue(Value(c)) /\ Value(c) >= 2048
      BY <1>3, <2>1, Tables, SMT DEF WellFormed
    <2>4. Legal(c) /\ Len(c) = Total(c[1]) <=>
             /\ Between(c[1], 224, 239) /\ Between(c[2], 128, 191) /\ Between(c[3], 128, 191)
             /\ Second(c[1], c[2])
      BY <1>3, <2>1, SMT DEF Legal, Total, Second, LegalFirst, Between
    <2>5. ASSUME Between(c[1], 224, 239), Between(c[2], 128, 191), Between(c[3], 128, 191)
          PROVE  ScalarValue(Value(c)) /\ Value(c) >= 2048 <=> Second(c[1], c[2])
      BY <2>1, <2>2, <2>5, Scalar3, SMTT(30)
    <2>6. Between(c[1], 224, 239) => Value(c) = SoFar(c)
      BY <1>3, <2>1, <2>2, SMT DEF SoFar, LeadPart, Between
    <2> QED
      BY <2>3, <2>4, <2>5, <2>6
  <1>4. CASE Len(c) = 4
    <2>1. /\ c[1] \in Nat /\ c[2] \in Nat /\ c[3] \in Nat /\ c[4] \in Nat
          /\ c[1] <= 255 /\ c[2] <= 255 /\ c[3] <= 255 /\ c[4] <= 255
      BY <1>0, <1>4
    <2>2. Value(c) = FourBytes(c[1], c[2], c[3], c[4])
      BY <1>4, <2>1, SMT DEF Value, FourBytes
    <2>3. WellFormed(c) <=>
             /\ Between(c[1], 240, 247)
             /\ Between(c[2], 128, 191) /\ Between(c[3], 128, 191) /\ Between(c[4], 128, 191)
             /\ ScalarValue(Value(c)) /\ Value(c) >= Least[4]
      BY <1>4, <2>1, Tables, SMT DEF WellFormed
    <2>4. Legal(c) /\ Len(c) = Total(c[1]) <=>
             /\ Between(c[1], 240, 247)
             /\ Between(c[2], 128, 191) /\ Between(c[3], 128, 191) /\ Between(c[4], 128, 191)
             /\ c[1] <= 244 /\ Second(c[1], c[2])
      BY <1>4, <2>1, SMT DEF Legal, Total, Second, LegalFirst, Between
    <2>5. ASSUME Between(c[1], 240, 247), Between(c[2], 128, 191),
                 Between(c[3], 128, 191), Between(c[4], 128, 191)
          PROVE  ScalarValue(Value(c)) /\ Value(c) >= Least[4] <=> c[1] <= 244 /\ Second(c[1], c[2])
      <3>1. Between(c[1], 240, 247) /\ Between(c[2], 128, 191)
            /\ Between(c[3], 128, 191) /\ Between(c[4], 128, 191)
        BY <2>5
      <3> QED
        BY <2>1, <2>2, <3>1, Scalar4, SMTT(30)
    <2>6. Between(c[1], 240, 247) => Value(c) = SoFar(c)
      BY <1>4, <2>1, <2>2, SMT DEF SoFar, LeadPart, Between, FourBytes
    <2> QED
      BY <2>3, <2>4, <2>5, <2>6
  <1>5. CASE Len(c) = 0 \/ Len(c) > 4
    <2>1. ~WellFormed(c)
      BY <1>5, SMT DEF WellFormed
    <2>2. ~Legal(c)
      BY <1>0, <1>5, SMT DEF Legal, Total
    <2> QED
      BY <2>1, <2>2
  <1>6. Len(c) = 1 \/ Len(c) = 2 \/ Len(c) = 3 \/ Len(c) = 4 \/ Len(c) = 0 \/ Len(c) > 4
    <2>1. Len(c) \in Nat
      BY <1>0
    <2> QED
      BY <2>1, Numbers, Zenon
  <1> QED
    BY <1>1, <1>2, <1>3, <1>4, <1>5, <1>6, Zenon

\* Some way to go on from the bytes ends in a character exactly when they are legal.
LEMMA LegalBegins ==
    ASSUME NEW c \in Text, c # <<>>
    PROVE  Begins(c) <=> Legal(c)
  <1>0. Len(c) \in Nat \ {0} /\ \A i \in 1 .. Len(c) : c[i] \in Nat /\ c[i] <= 255
    <2>1. Len(c) # 0
      BY DEF Text
    <2> QED
      BY <2>1, TextBytes
  <1>1. ASSUME Begins(c) PROVE Legal(c)
    <2>1. PICK n \in Len(c) .. 4, b \in {128, 191} : WellFormed(Extends(c, b, n))
      BY <1>1 DEF Begins
    <2> DEFINE d == Extends(c, b, n)
    <2>2. n \in Nat /\ Len(c) <= n /\ b \in Octet
      BY <1>0, <2>1, Octets
    <2>3. d \in Text /\ Len(d) = n /\ \A i \in 1 .. Len(c) : d[i] = c[i]
      BY <2>2, ExtendsText
    <2>4. Legal(d)
      BY <2>1, <2>3, LegalIsWellFormed
    <2> HIDE DEF d
    <2>5. /\ c[1] = d[1]
          /\ Len(c) >= 2 => c[2] = d[2]
          /\ Len(c) >= 3 => c[3] = d[3]
          /\ Len(c) >= 4 => c[4] = d[4]
      BY <1>0, <2>3
    <2>6. Total(c[1]) \in Nat
      BY DEF Total
    <2> QED
      BY <1>0, <2>2, <2>3, <2>4, <2>5, <2>6 DEF Legal
  <1>2. ASSUME Legal(c) PROVE Begins(c)
    <2> DEFINE n == Total(c[1])
               b == IF c[1] \in {224, 240} THEN 191 ELSE 128
               d == Extends(c, b, n)
    <2>1. c[1] \in Nat /\ c[1] <= 255 /\ n \in 1 .. 4 /\ Len(c) <= n /\ b \in {128, 191}
      BY <1>0, <1>2 DEF Legal, Total
    <2>2. Second(c[1], b)
      BY <2>1 DEF Second, Between
    <2>0. (Len(c) = 1 \/ Len(c) >= 2) /\ (Len(c) < 3 \/ Len(c) >= 3) /\ (Len(c) < 4 \/ Len(c) >= 4)
      <3>1. Len(c) \in Nat /\ Len(c) # 0
        BY <1>0
      <3> QED
        BY <3>1, Numbers, Zenon
    <2>3. Between(b, 128, 191)
      BY DEF Between
    <2> HIDE DEF n, b
    <2>4. /\ d \in Text /\ Len(d) = n
          /\ \A i \in 1 .. Len(c) : d[i] = c[i]
          /\ \A i \in Len(c) + 1 .. n : d[i] = b
      <3>1. b \in Octet /\ n \in Nat
        BY <2>1, Octets
      <3> QED
        BY <2>1, <3>1, ExtendsText
    <2> HIDE DEF d
    <2>5. d[1] = c[1]
      BY <1>0, <2>4
    <2>6. n >= 2 => Second(c[1], d[2])
      <3>1. CASE Len(c) = 1 /\ n >= 2
        <4>1. d[2] = b
          BY <2>1, <2>4, <3>1
        <4> QED
          BY <2>2, <4>1
      <3>2. CASE Len(c) >= 2
        <4>1. d[2] = c[2]
          BY <1>0, <2>4, <3>2
        <4> QED
          BY <1>2, <3>2, <4>1 DEF Legal
      <3> QED
        BY <2>0, <3>1, <3>2
    <2>7. n >= 3 => Between(d[3], 128, 191)
      <3>1. CASE Len(c) < 3 /\ n >= 3
        <4>1. d[3] = b
          BY <1>0, <2>1, <2>4, <3>1
        <4> QED
          BY <2>3, <4>1
      <3>2. CASE Len(c) >= 3
        <4>1. d[3] = c[3]
          BY <1>0, <2>4, <3>2
        <4> QED
          BY <1>2, <3>2, <4>1 DEF Legal
      <3> QED
        BY <2>0, <3>1, <3>2
    <2>8. n >= 4 => Between(d[4], 128, 191)
      <3>1. CASE Len(c) < 4 /\ n >= 4
        <4>1. d[4] = b
          BY <1>0, <2>1, <2>4, <3>1
        <4> QED
          BY <2>3, <4>1
      <3>2. CASE Len(c) >= 4
        <4>1. d[4] = c[4]
          BY <1>0, <2>4, <3>2
        <4> QED
          BY <1>2, <3>2, <4>1 DEF Legal
      <3> QED
        BY <2>0, <3>1, <3>2
    <2>9. Legal(d) /\ Len(d) = Total(d[1])
      <3>1. LegalFirst(d[1])
        BY <1>2, <2>5 DEF Legal
      <3>2. Len(d) = Total(d[1])
        BY <2>4, <2>5 DEF n
      <3> QED
        BY <2>1, <2>4, <2>5, <2>6, <2>7, <2>8, <3>1, <3>2 DEF Legal
    <2>10. WellFormed(d)
      BY <2>4, <2>9, LegalIsWellFormed
    <2> QED
      BY <1>0, <2>1, <2>10 DEF Begins, d
  <1> QED
    BY <1>1, <1>2

\* A first byte is rejected exactly when it is illegal, and gives its part of the code point.
LEMMA DecodesFirst ==
    ASSUME NEW b \in Nat, b <= 255
    PROVE  /\ Transition(0, Type(b)) = IF LegalFirst(b) THEN FirstState(b) ELSE 1
           /\ LegalFirst(b) => (IF Type(b) <= 8 THEN LeadBits(b) ELSE 0) = LeadPart(b)
  <1> DEFINE t == Type(b)
  <1>1. /\ b < 128 => t = 0
        /\ Between(b, 194, 223) => t = 2
        /\ b = 224 => t = 10
        /\ b = 237 => t = 4
        /\ Between(b, 225, 239) /\ b # 237 => t = 3
        /\ b = 240 => t = 11
        /\ Between(b, 241, 243) => t = 6
        /\ b = 244 => t = 5
        /\ ~LegalFirst(b) => t \in {1, 7, 8, 9}
    <2>1. b < 128 => t = 0
      BY SMT DEF Type
    <2>2. Between(b, 194, 223) => t = 2
      BY SMT DEF Type, Between
    <2>3. /\ b = 224 => t = 10
          /\ b = 237 => t = 4
          /\ b = 240 => t = 11
          /\ b = 244 => t = 5
      <3>1. Type(224) = 10 /\ Type(237) = 4 /\ Type(240) = 11 /\ Type(244) = 5
        BY DEF Type
      <3> QED
        BY <3>1, Zenon
    <2>4. Between(b, 225, 239) /\ b # 237 => t = 3
      BY SMT DEF Type, Between
    <2>5. Between(b, 241, 243) => t = 6
      BY SMT DEF Type, Between
    <2>6. ~LegalFirst(b) => t \in {1, 7, 8, 9}
      BY SMT DEF Type, LegalFirst, Between
    <2> QED
      BY <2>1, <2>2, <2>3, <2>4, <2>5, <2>6
  <1>2. LeadBits(b) = b % (2 ^ (8 - t))
    BY DEF LeadBits
  <1> HIDE DEF t
  <1>3. Transition(0, t) = IF LegalFirst(b) THEN FirstState(b) ELSE 1
    <2>1. /\ Begin(0) = 0 /\ Begin(1) = 1 /\ Begin(2) = 2 /\ Begin(3) = 3 /\ Begin(4) = 5
          /\ Begin(5) = 8 /\ Begin(6) = 7 /\ Begin(7) = 1 /\ Begin(8) = 1 /\ Begin(9) = 1
          /\ Begin(10) = 4 /\ Begin(11) = 6
      BY DEF Begin
    <2>2. Transition(0, t) = Begin(t)
      BY DEF Transition
    <2> QED
      BY <1>1, <2>1, <2>2, SMT DEF FirstState, LegalFirst, Between
  <1>4. LegalFirst(b) => (IF t <= 8 THEN LeadBits(b) ELSE 0) = LeadPart(b)
    <2>1. 2 ^ 8 = 256 /\ 2 ^ 6 = 64 /\ 2 ^ 5 = 32 /\ 2 ^ 4 = 16 /\ 2 ^ 3 = 8 /\ 2 ^ 2 = 4
      OBVIOUS
    <2>2. CASE b < 128
      <3>1. LeadBits(b) = b % 256
        BY <1>1, <1>2, <2>1, <2>2
      <3> QED
        BY <1>1, <2>2, <3>1, SMT DEF LeadPart
    <2>3. CASE Between(b, 194, 223)
      <3>1. LeadBits(b) = b % 64
        BY <1>1, <1>2, <2>1, <2>3
      <3> QED
        BY <1>1, <2>3, <3>1, SMT DEF LeadPart, Between
    <2>4. CASE b = 237
      <3>1. LeadBits(b) = b % 16
        BY <1>1, <1>2, <2>1, <2>4
      <3> QED
        BY <1>1, <2>4, <3>1, SMT DEF LeadPart
    <2>5. CASE Between(b, 225, 239) /\ b # 237
      <3>1. LeadBits(b) = b % 32
        BY <1>1, <1>2, <2>1, <2>5
      <3> QED
        BY <1>1, <2>5, <3>1, SMT DEF LeadPart, Between
    <2>6. CASE Between(b, 241, 243)
      <3>1. LeadBits(b) = b % 4
        BY <1>1, <1>2, <2>1, <2>6
      <3> QED
        BY <1>1, <2>6, <3>1, SMT DEF LeadPart, Between
    <2>7. CASE b = 244
      <3>1. LeadBits(b) = b % 8
        BY <1>1, <1>2, <2>1, <2>7
      <3> QED
        BY <1>1, <2>7, <3>1, SMT DEF LeadPart
    <2>8. CASE b = 224 \/ b = 240
      BY <1>1, <2>8, SMT DEF LeadPart
    <2> QED
      BY <2>2, <2>3, <2>4, <2>5, <2>6, <2>7, <2>8, SMT DEF LegalFirst, Between
  <1> QED
    BY <1>3, <1>4 DEF t

\* The same for a byte within a character.
LEMMA DecodesNext ==
    ASSUME NEW c \in Text, Legal(c), Len(c) < Total(c[1]), NEW b \in Octet
    PROVE  LET d == Append(c, b)
           IN  /\ Transition(StateOf(c), Type(b)) = IF Legal(d) THEN StateOf(d) ELSE 1
               /\ Legal(d) => 64 * SoFar(c) + (b % 64) = SoFar(d)
  <1> DEFINE d == Append(c, b)
             t == Type(b)
  <1>0. /\ Len(c) \in Nat /\ Len(d) = Len(c) + 1 /\ d[Len(c) + 1] = b /\ b \in Nat /\ b <= 255
        /\ \A i \in 1 .. Len(c) : d[i] = c[i] /\ c[i] \in Nat /\ c[i] <= 255
    BY TextBytes, TextGrows, Octets
  <1> HIDE DEF d
  <1>1. Between(b, 128, 191) => b % 64 = b - 128
    BY <1>0, SMT DEF Between
  <1>2. /\ t = 1 <=> Between(b, 128, 143)
        /\ t = 9 <=> Between(b, 144, 159)
        /\ t = 7 <=> Between(b, 160, 191)
    BY <1>0, SMT DEF Type, Between
  <1> HIDE DEF t
  <1>3. /\ c[1] = d[1] /\ c[1] \in Nat /\ Between(c[1], 194, 244)
        /\ Len(c) = 1 \/ Len(c) = 2 \/ Len(c) = 3
    <2>0. Len(c) \in Nat
      BY <1>0
    <2>1. Len(c) >= 1 /\ Len(c) <= 3
      BY <2>0, SMT DEF Legal, Total
    <2>2. c[1] = d[1] /\ c[1] \in Nat
      BY <1>0, <2>1
    <2>3. LegalFirst(c[1]) /\ ~(c[1] < 128)
      BY <2>0, <2>1, SMT DEF Legal, Total
    <2>4. Between(c[1], 194, 244)
      BY <2>3 DEF LegalFirst
    <2>5. Len(c) = 1 \/ Len(c) = 2 \/ Len(c) = 3
      BY <2>0, <2>1, Numbers, Zenon
    <2> QED
      BY <2>2, <2>4, <2>5, Zenon
  <1>6. /\ c[1] < 224 => Total(c[1]) = 2
        /\ ~(c[1] < 224) /\ c[1] < 240 => Total(c[1]) = 3
        /\ ~(c[1] < 240) => Total(c[1]) = 4
    BY <1>3, SMT DEF Total, Between
  <1>4. CASE Len(c) = 1
    <2>1. d[2] = b /\ Len(d) = 2
      BY <1>0, <1>4
    <2>2. Legal(d) <=> Second(c[1], b)
      BY <1>3, <1>4, <2>1, SMT DEF Legal, Total
    <2>3. StateOf(c) = FirstState(c[1])
      BY <1>4 DEF StateOf
    <2>4. StateOf(d) = IF c[1] < 224 THEN 0 ELSE IF c[1] < 240 THEN 2 ELSE 3
      BY <1>3, <2>1, SMT DEF StateOf, Total, Between
    <2>5. Transition(FirstState(c[1]), t) =
             IF Second(c[1], b) THEN (IF c[1] < 224 THEN 0 ELSE IF c[1] < 240 THEN 2 ELSE 3) ELSE 1
      <3>1. CASE c[1] < 224
        BY <1>0, <1>2, <1>3, <3>1, SMT DEF FirstState, Transition, Continues, Second, Between
      <3>2. CASE c[1] = 224
        BY <1>0, <1>2, <3>2, SMT DEF FirstState, Transition, Continues, Second, Between
      <3>3. CASE c[1] = 237
        BY <1>0, <1>2, <3>3, SMT DEF FirstState, Transition, Continues, Second, Between
      <3>4. CASE c[1] > 224 /\ c[1] < 240 /\ c[1] # 237
        BY <1>0, <1>2, <1>3, <3>4, SMT DEF FirstState, Transition, Continues, Second, Between
      <3>5. CASE c[1] = 240
        BY <1>0, <1>2, <3>5, SMT DEF FirstState, Transition, Continues, Second, Between
      <3>6. CASE c[1] > 240 /\ c[1] < 244
        BY <1>0, <1>2, <1>3, <3>6, SMT DEF FirstState, Transition, Continues, Second, Between
      <3>7. CASE c[1] = 244
        BY <1>0, <1>2, <3>7, SMT DEF FirstState, Transition, Continues, Second, Between
      <3> QED
        BY <1>3, <3>1, <3>2, <3>3, <3>4, <3>5, <3>6, <3>7, SMT DEF Between
    <2>6. Second(c[1], b) => Between(b, 128, 191)
      BY DEF Second
    <2>7. Legal(d) => 64 * SoFar(c) + (b % 64) = SoFar(d)
      BY <1>0, <1>1, <1>3, <1>4, <2>1, <2>2, <2>6, SMT DEF SoFar, LeadPart, Between
    <2> QED
      BY <2>2, <2>3, <2>4, <2>5, <2>7 DEF d, t
  <1>5. CASE Len(c) = 2 \/ Len(c) = 3
    <2>1. d[Len(c) + 1] = b /\ Len(d) = Len(c) + 1 /\ d[2] = c[2] /\ c[2] \in Nat
      BY <1>0, <1>5
    <2>2. Len(c) = 3 => d[3] = c[3] /\ c[3] \in Nat
      BY <1>0
    <2>3. Legal(d) <=> Between(b, 128, 191)
      BY <1>3, <1>5, <2>1, <2>2, SMT DEF Legal, Total
    <2>4. /\ StateOf(c) = 2 \/ StateOf(c) = 3
          /\ StateOf(d) = IF StateOf(c) = 2 THEN 0 ELSE 2
      <3>1. Total(c[1]) \in {2, 3, 4} /\ Total(d[1]) = Total(c[1])
        BY <1>3, <1>6
      <3> QED
        BY <1>5, <2>1, <3>1, SMT DEF StateOf
    <2>5. Transition(StateOf(c), t) = IF Between(b, 128, 191) THEN (IF StateOf(c) = 2 THEN 0 ELSE 2) ELSE 1
      <3>1. CASE StateOf(c) = 2
        BY <1>0, <1>2, <3>1, SMT DEF Transition, Continues, Between
      <3>2. CASE StateOf(c) = 3
        BY <1>0, <1>2, <3>2, SMT DEF Transition, Continues, Between
      <3> QED
        BY <2>4, <3>1, <3>2
    <2>6. Legal(d) => 64 * SoFar(c) + (b % 64) = SoFar(d)
      <3>1. Legal(d) => b % 64 = b - 128
        BY <1>1, <2>3
      <3>2. LeadPart(c[1]) \in Int /\ LeadPart(d[1]) = LeadPart(c[1])
        BY <1>3, SMT DEF LeadPart
      <3>3. CASE Len(c) = 2
        BY <1>0, <2>1, <3>1, <3>2, <3>3, SMT DEF SoFar
      <3>4. CASE Len(c) = 3
        BY <1>0, <2>1, <2>2, <3>1, <3>2, <3>4, SMT DEF SoFar
      <3> QED
        BY <1>5, <3>3, <3>4
    <2> QED
      BY <2>3, <2>4, <2>5, <2>6 DEF d, t
  <1> QED
    BY <1>3, <1>4, <1>5

\* The state behind legal bytes says whether they are a character.
LEMMA EndOfCharacter ==
    ASSUME NEW c \in Text, Legal(c)
    PROVE  (StateOf(c) = 0 <=> Len(c) = Total(c[1])) /\ StateOf(c) # 1
  <1>1. Len(c) \in Nat /\ Len(c) >= 1
    BY TextBytes DEF Legal
  <1>2. c[1] \in Nat
    BY <1>1, TextBytes
  <1>3. CASE Len(c) = 1
    BY <1>2, <1>3, SMT DEF StateOf, FirstState, Total, Legal, LegalFirst, Between
  <1>4. CASE Len(c) > 1
    <2>1. PICK n \in Nat : n = Total(c[1])
      BY DEF Total
    <2>2. PICK m \in Nat : m = Len(c)
      BY <1>1
    <2>3. StateOf(c) = IF n - m = 0 THEN 0 ELSE IF n - m = 1 THEN 2 ELSE 3
      BY <1>4, <2>1, <2>2, SMTT(30) DEF StateOf
    <2>4. (StateOf(c) = 0 <=> m = n) /\ StateOf(c) # 1
      BY <2>3
    <2> QED
      BY <2>1, <2>2, <2>4, Zenon
  <1>5. Len(c) = 1 \/ Len(c) > 1
    BY <1>1
  <1> QED
    BY <1>3, <1>4, <1>5

-----------------------------------------------------------------------------
LEMMA InitCharInv == Init => CharInv
    BY DEF Init, CharInv, Text, Accept, Reject

LEMMA NextCharInv == CharInv /\ [Next]_vars => CharInv'
  <1> SUFFICES ASSUME CharInv, [Next]_vars PROVE CharInv'
    OBVIOUS
  <1>1. CASE UNCHANGED vars
    BY <1>1 DEF CharInv, vars
  <1>2. CASE Next
    <2>1. PICK b \in Byte : Decode(b)
      BY <1>2 DEF Next
    <2>2. b \in Octet /\ b \in Nat /\ b <= 255 /\ m_state # Reject /\ char \in Text
      <3>1. b \in Octet
        BY <2>1, ByteAssumption DEF Octet
      <3> QED
        BY <1>2, <3>1, Octets DEF Next, CharInv
    <2>3. CASE m_state = 0
      <3>1. /\ m_state' = Transition(0, Type(b)) /\ char' = <<b>>
            /\ m_codepoint' = IF Type(b) <= 8 THEN LeadBits(b) ELSE 0
        BY <2>1, <2>3 DEF Decode, Accept
      <3>2. <<b>> \in Text /\ <<b>> # <<>> /\ Len(<<b>>) = 1 /\ <<b>>[1] = b
        BY <2>2, TextGrows
      <3>3. Legal(<<b>>) <=> LegalFirst(b)
        BY <2>2, <3>2, SMT DEF Legal, Total
      <3>4. StateOf(<<b>>) = FirstState(b) /\ SoFar(<<b>>) = LeadPart(b)
        BY <3>2 DEF StateOf, SoFar
      <3>5. /\ m_state' = IF LegalFirst(b) THEN FirstState(b) ELSE 1
            /\ LegalFirst(b) => m_codepoint' = LeadPart(b)
        BY <2>2, <3>1, DecodesFirst
      <3>6. FirstState(b) # 1
        BY DEF FirstState
      <3> QED
        BY <3>1, <3>2, <3>3, <3>4, <3>5, <3>6 DEF CharInv, Reject
    <2>4. CASE m_state # 0
      <3>1. Legal(char) /\ m_state = StateOf(char) /\ m_codepoint = SoFar(char)
        BY <2>2, <2>4 DEF CharInv, Accept
      <3>2. Len(char) < Total(char[1])
        <4>1. Len(char) \in Nat /\ Len(char) <= Total(char[1]) /\ Total(char[1]) \in Nat
          BY <2>2, <3>1, TextBytes DEF Legal, Total
        <4>2. Len(char) # Total(char[1])
          BY <2>2, <2>4, <3>1, EndOfCharacter
        <4> QED
          BY <4>1, <4>2
      <3> DEFINE d == Append(char, b)
      <3>3. /\ m_state' = Transition(StateOf(char), Type(b)) /\ char' = d
            /\ m_codepoint' = 64 * SoFar(char) + (b % 64)
        BY <2>1, <2>4, <3>1 DEF Decode, Accept
      <3>4. /\ m_state' = IF Legal(d) THEN StateOf(d) ELSE 1
            /\ Legal(d) => m_codepoint' = SoFar(d)
        BY <2>2, <3>1, <3>2, <3>3, DecodesNext
      <3>5. d \in Text /\ d # <<>>
        BY <2>2, TextGrows
      <3>6. Legal(d) => StateOf(d) # 1
        BY <3>5, EndOfCharacter
      <3> QED
        BY <3>3, <3>4, <3>5, <3>6 DEF CharInv, Reject
    <2> QED
      BY <2>3, <2>4
  <1> QED
    BY <1>1, <1>2

\* utf8_validator is between characters exactly when it has read a whole one, the shortest
\* encoding of a Unicode scalar value, and has its code point; and it rejects a byte exactly
\* when nothing that could follow makes a character of what it read.
THEOREM DecodesAllCharacters == Spec => []DecodesCharacters
  <1>1. CharInv => DecodesCharacters
    <2> SUFFICES ASSUME CharInv PROVE DecodesCharacters
      OBVIOUS
    <2>1. char # <<>> => (m_state = Reject <=> ~Begins(char))
      BY LegalBegins DEF CharInv
    <2>2. ASSUME m_state = Accept, char # <<>>
          PROVE  WellFormed(char) /\ m_codepoint = Value(char)
      <3>1. char \in Text /\ Legal(char) /\ StateOf(char) = 0 /\ m_codepoint = SoFar(char)
        BY <2>2 DEF CharInv, Accept, Reject
      <3> QED
        BY <3>1, EndOfCharacter, LegalIsWellFormed
    <2> QED
      BY <2>1, <2>2 DEF DecodesCharacters
  <1>2. Spec => []CharInv
    BY InitCharInv, NextCharInv, PTL DEF Spec
  <1> QED
    BY <1>1, <1>2, PTL
=============================================================================
