-------------------------- MODULE FrameReaderProofs --------------------------
(***************************************************************************)
(* The reader of the frames (FrameReader), for streams of any frames, any  *)
(* sizes and reads cut anywhere: the theorems are about the readers of     *)
(* MCReading, of which it is one.                                          *)
(*                                                                         *)
(* The reader is known by its place: it has used up c bytes of frame i     *)
(* (Place), and what it holds of the message is what the reference says is *)
(* open before that frame, with the part of the frame's payload read so    *)
(* far (Content).                                                          *)
(***************************************************************************)
EXTENDS MCReading, SequenceTheorems, TLAPS

Payload  == Seq(Framing!PayloadByte)
Ops      == Framing!ControlOps \cup Framing!DataOps \cup Framing!ReservedOps
WireByte == [field : {"b0"}, op : Ops, fin : BOOLEAN, rsv : BOOLEAN]
              \cup [field : {"b1"}, masked : BOOLEAN, code : 0 .. Framing!SizeCode64]
              \cup [field : {"length"}, v : Nat]
              \cup [field : {"payload"}, v : Framing!PayloadByte]
Wire     == Seq(WireByte)

Validation == {"accept", "inside", "reject"}
Msg  == [op : Ops \cup {"none"}, payload : Payload, validator : Validation]
Out  == Seq([op : Ops \cup {"none"}, payload : Payload])
Code == {"none", "protocol_error", "internal_endpoint_error", "message_too_big", "invalid_payload"}
Said == [end : Nat, open : Msg, out : Out, code : Code]

\* The bytes of a frame: two of header, those of the length, the payload.
Size(f) == 2 + Framing!LengthSize(f.code) + Len(f.payload)
\* Its header, as it is kept.
HeaderOf(f) == [op |-> f.op, fin |-> f.fin, rsv |-> f.rsv, masked |-> f.masked, code |-> f.code]
\* A message of these bytes, as it is kept: a text has been looked at so far.
Holding(op, p) == [op |-> op, payload |-> p,
                   validator |-> IF op = "text" THEN Framing!Utf8("accept", p) ELSE "accept"]

-----------------------------------------------------------------------------
(***************************************************************************)
(* What was sent: the bytes of the frames, one frame behind the other, and *)
(* after each of them what the reference says.                             *)
(***************************************************************************)
OpenOK(o) == /\ o.op \in {"none", "text", "binary"} /\ o.validator = "accept"
             /\ o.op = "none" => o = Framing!NoMessage
FrameSent(i) ==
    /\ log[i + 1] = Framing!ReadFrame(log[i], frames[i])
    /\ log[i + 1].end = log[i].end + Size(frames[i])
    /\ log[i + 1].end <= Len(sent)
    /\ \A k \in 1 .. Size(frames[i]) : sent[log[i].end + k] = Framing!Bytes(frames[i])[k]
\* What the reference says after frame i - 1 it does not take back.
GoesOn(i) ==
    /\ OpenOK(log[i].open)
    /\ Framing!IsPrefix(log[i].out, Framing!Reference.out)
    /\ log[i].code # "none" => /\ Framing!Reference.out = log[i].out
                               /\ Framing!Reference.code = log[i].code
LogInv ==
    /\ frames \in Streams
    /\ sent \in Wire
    /\ log \in Seq(Said) /\ Len(log) >= 1 /\ Len(log) <= Len(frames) + 1
    /\ \A i \in 1 .. Len(log) - 1 : FrameSent(i)
    /\ \A i \in 1 .. Len(log) : GoesOn(i)
    /\ Framing!Reference.end = Len(sent)

\* The buffer lies in what was sent, behind the first p bytes.
BufAt(p) == /\ seen \in Nat /\ seen <= Len(sent)
            /\ buf \in Wire /\ p + Len(buf) = seen
            /\ \A k \in 1 .. Len(buf) : buf[k] = sent[p + k]

\* What the checks of its header have left of a frame.
Plain(f) == /\ ~f.rsv /\ ~f.masked /\ f.op \notin Framing!ReservedOps
            /\ f.op \in Framing!ControlOps => f.fin /\ f.code <= PayloadSizeBasic

\* The reader is c bytes into frame i.
AtBasic(i, c) ==
    /\ c + m_bytes_needed = 2 /\ m_bytes_needed > 0
    /\ m_basic_header = IF c = 0 THEN <<>> ELSE <<Framing!Bytes(frames[i])[1]>>
    /\ m_extended_header = <<>>
AtExtended(i, c) ==
    LET f == frames[i]
    IN  /\ i < Len(log) /\ Plain(f) /\ m_basic_header = HeaderOf(f)
        /\ c >= 2 /\ c + m_bytes_needed = 2 + Framing!LengthSize(f.code)
        /\ m_extended_header \in Wire /\ Len(m_extended_header) = c - 2
        /\ \A k \in 1 .. c - 2 : m_extended_header[k] = Framing!Bytes(f)[2 + k]
AtPayload(i, c) ==
    LET f == frames[i]
    IN  /\ i < Len(log) /\ Plain(f) /\ m_basic_header = HeaderOf(f)
        /\ c >= 2 + Framing!LengthSize(f.code) /\ c + m_bytes_needed = Size(f)
        /\ m_current_msg = IF Framing!IsControl(f.op) THEN "control" ELSE "data"
        /\ Framing!Current.op # "none"
        /\ m_current_msg = "data" => Len(m_data_msg.payload) + m_bytes_needed <= MaxMessageSize
Place(i, c) ==
    /\ i \in 1 .. Len(log) /\ c \in Nat /\ m_bytes_needed \in Nat /\ (i = Len(log) => c = 0)
    /\ BufAt(log[i].end + c)
    /\ reader_state = "HEADER_BASIC" => AtBasic(i, c)
    /\ reader_state = "HEADER_EXTENDED" => AtExtended(i, c)
    /\ reader_state \in {"APPLICATION", "READY"} => AtPayload(i, c)
    /\ reader_state = "READY" => m_bytes_needed = 0 /\ frames[i].fin

\* And what it holds, while no text ended inside a character.
HeldPayload(i, c) ==
    LET f    == frames[i]
        o    == log[i].open
        part == SubSeq(f.payload, 1, c - (2 + Framing!LengthSize(f.code)))
    IN  IF Framing!IsControl(f.op)
        THEN m_control_msg = Holding(f.op, part) /\ m_data_msg = Holding(o.op, o.payload)
        ELSE m_data_msg = Holding(Framing!OpOf(f, o), o.payload \o part)
Content(i, c) ==
    /\ log[i].code = "none" /\ delivered = log[i].out
    /\ reader_state \in {"HEADER_BASIC", "HEADER_EXTENDED"}
          => m_data_msg = Holding(log[i].open.op, log[i].open.payload)
    /\ reader_state = "HEADER_EXTENDED" => Framing!FrameCode(frames[i], log[i].open) # "protocol_error"
    /\ reader_state = "APPLICATION" => Framing!FrameCode(frames[i], log[i].open) \in {"none", "invalid_payload"}
    /\ reader_state = "READY" => Framing!FrameCode(frames[i], log[i].open) = "none"
    /\ reader_state \in {"APPLICATION", "READY"} => HeldPayload(i, c)

Messages == /\ m_data_msg \in Msg /\ m_control_msg \in Msg
            /\ m_data_msg.op = "none" => m_data_msg = Framing!NoMessage
Reads == /\ Messages
         /\ \E i, c \in Nat : Place(i, c) /\ (Framing!CharactersEnd => Content(i, c))
Failed == Framing!CharactersEnd => /\ delivered = Framing!Reference.out
                                   /\ Framing!to_ws(ec) = Framing!Reference.code
FrameInv ==
    /\ LogInv
    /\ Framing!TypeOK
    /\ ec = "none" => Reads
    /\ ec # "none" => Failed

\* What the validator says after these bytes of a message, and the message with them.
Verdict(m, a) == IF m.op = "text" THEN Framing!Utf8(m.validator, a) ELSE m.validator
Grown(m, a) == [m EXCEPT !.payload = @ \o a, !.validator = Verdict(m, a)]

-----------------------------------------------------------------------------
LEMMA PartOf ==
    ASSUME NEW S, NEW s \in Seq(S), NEW a \in Nat, NEW n \in Nat, a + n <= Len(s)
    PROVE  /\ SubSeq(s, a + 1, a + n) \in Seq(S)
           /\ Len(SubSeq(s, a + 1, a + n)) = n
           /\ \A i \in 1 .. n : SubSeq(s, a + 1, a + n)[i] = s[a + i]
  <1>1. \A i \in a + 1 .. a + n : s[i] \in S
    BY LenProperties, ElementOfSeq
  <1> DEFINE p == SubSeq(s, a + 1, a + n)
  <1>2. /\ p \in Seq(S) /\ Len(p) = IF a + 1 <= a + n THEN a + n - (a + 1) + 1 ELSE 0
        /\ \A i \in 1 .. a + n - (a + 1) + 1 : p[i] = s[a + 1 + i - 1]
    BY <1>1, SubSeqProperties
  <1>3. a + n - (a + 1) + 1 = n /\ (~(a + 1 <= a + n) => n = 0)
    OBVIOUS
  <1>4. \A i \in 1 .. n : a + 1 + i - 1 = a + i
    OBVIOUS
  <1> HIDE DEF p
  <1>5. Len(p) = n /\ \A i \in 1 .. n : p[i] = s[a + i]
    BY <1>2, <1>3, <1>4
  <1> QED
    BY <1>2, <1>5 DEF p

LEMMA FunctionIsSeq ==
    ASSUME NEW S, NEW n \in Nat, NEW g \in [1 .. n -> S]
    PROVE  g \in Seq(S) /\ Len(g) = n
  <1>1. g \in Seq(S)
    BY SeqDef
  <1>2. DOMAIN g = 1 .. Len(g) /\ Len(g) \in Nat /\ DOMAIN g = 1 .. n
    BY <1>1, LenProperties
  <1> QED
    BY <1>1, <1>2

LEMMA Singleton ==
    ASSUME NEW S, NEW a \in S
    PROVE  <<a>> \in Seq(S) /\ Len(<<a>>) = 1 /\ <<a>>[1] = a
    OBVIOUS

LEMMA Pair ==
    ASSUME NEW S, NEW a \in S, NEW b \in S
    PROVE  <<a, b>> \in Seq(S) /\ Len(<<a, b>>) = 2 /\ <<a, b>>[1] = a /\ <<a, b>>[2] = b
    OBVIOUS

\* A sequence and what follows it: the elements by their place.
LEMMA Joined ==
    ASSUME NEW S, NEW s \in Seq(S), NEW t \in Seq(S)
    PROVE  /\ s \o t \in Seq(S) /\ Len(s \o t) = Len(s) + Len(t)
           /\ \A i \in 1 .. Len(s) : (s \o t)[i] = s[i]
           /\ \A i \in 1 .. Len(t) : (s \o t)[Len(s) + i] = t[i]
  <1>1. Len(s) \in Nat /\ Len(t) \in Nat
    BY LenProperties
  <1>2. /\ s \o t \in Seq(S) /\ Len(s \o t) = Len(s) + Len(t)
        /\ \A i \in 1 .. Len(s) + Len(t) : (s \o t)[i] = IF i <= Len(s) THEN s[i] ELSE t[i - Len(s)]
    BY ConcatProperties
  <1>3. \A i \in 1 .. Len(s) : i \in 1 .. Len(s) + Len(t) /\ i <= Len(s)
    BY <1>1
  <1>4. \A i \in 1 .. Len(t) : /\ Len(s) + i \in 1 .. Len(s) + Len(t) /\ ~(Len(s) + i <= Len(s))
                               /\ Len(s) + i - Len(s) = i
    BY <1>1
  <1> QED
    BY <1>2, <1>3, <1>4

-----------------------------------------------------------------------------
(***************************************************************************)
(* The bytes of a frame.                                                   *)
(***************************************************************************)
LEMMA FrameTypes ==
    ASSUME NEW f \in Framing!Frame, Framing!CodeFits(f)
    PROVE  /\ f.op \in Ops /\ f.fin \in BOOLEAN /\ f.rsv \in BOOLEAN /\ f.masked \in BOOLEAN
           /\ f.code \in 0 .. Framing!SizeCode64
           /\ f.payload \in Payload /\ Len(f.payload) \in Nat
           /\ Framing!LengthSize(f.code) \in Nat /\ Size(f) \in Nat
           /\ PayloadSizeBasic \in Nat
           /\ f.code <= PayloadSizeBasic => /\ Framing!LengthSize(f.code) = 0
                                            /\ f.code = Len(f.payload)
           /\ f.code > PayloadSizeBasic => /\ Framing!LengthSize(f.code) > 0
                                           /\ f.code \in {Framing!SizeCode16, Framing!SizeCode64}
  <1>1. /\ f.op \in Ops /\ f.fin \in BOOLEAN /\ f.rsv \in BOOLEAN /\ f.masked \in BOOLEAN
        /\ f.code \in 0 .. Framing!SizeCode64 /\ f.payload \in Payload
    BY DEF Framing!Frame, Ops, Payload
  <1>2. Len(f.payload) \in Nat
    BY <1>1, LenProperties DEF Payload
  <1>3. PayloadSizeBasic \in Nat /\ Extended16 \in Nat \ {0} /\ Extended64 \in Nat \ {0}
    BY SizesAssumption
  <1>4. /\ Framing!SizeCode16 = PayloadSizeBasic + 1 /\ Framing!SizeCode64 = PayloadSizeBasic + 2
    BY DEF Framing!SizeCode16, Framing!SizeCode64
  <1>5. Framing!LengthSize(f.code) \in Nat
    BY <1>3 DEF Framing!LengthSize
  <1>6. f.code <= PayloadSizeBasic => Framing!LengthSize(f.code) = 0 /\ f.code = Len(f.payload)
    BY <1>1, <1>3, <1>4 DEF Framing!LengthSize, Framing!CodeFits
  <1>7. f.code > PayloadSizeBasic => /\ Framing!LengthSize(f.code) > 0
                                     /\ f.code \in {Framing!SizeCode16, Framing!SizeCode64}
    BY <1>1, <1>3, <1>4 DEF Framing!LengthSize
  <1> QED
    BY <1>1, <1>2, <1>3, <1>5, <1>6, <1>7 DEF Size

LEMMA BytesOf ==
    ASSUME NEW f \in Framing!Frame, Framing!CodeFits(f)
    PROVE  LET b == Framing!Bytes(f)
               n == Framing!LengthSize(f.code)
           IN  /\ b \in Wire /\ Len(b) = Size(f)
               /\ b[1] = [field |-> "b0", op |-> f.op, fin |-> f.fin, rsv |-> f.rsv]
               /\ b[2] = [field |-> "b1", masked |-> f.masked, code |-> f.code]
               /\ n > 0 => b[2 + n].v = Len(f.payload)
               /\ \A k \in 1 .. Len(f.payload) : b[2 + n + k].v = f.payload[k]
  <1> DEFINE n == Framing!LengthSize(f.code)
             h == Framing!HeaderBytes(f)
             l == Framing!LengthBytes(f)
             p == Framing!PayloadBytes(f)
             hl == h \o l
  <1>0. n \in Nat /\ Len(f.payload) \in Nat
    BY FrameTypes
  <1>1. /\ h \in Wire /\ Len(h) = 2
        /\ h[1] = [field |-> "b0", op |-> f.op, fin |-> f.fin, rsv |-> f.rsv]
        /\ h[2] = [field |-> "b1", masked |-> f.masked, code |-> f.code]
    <2> DEFINE x == [field |-> "b0", op |-> f.op, fin |-> f.fin, rsv |-> f.rsv]
               y == [field |-> "b1", masked |-> f.masked, code |-> f.code]
    <2>1. x \in WireByte /\ y \in WireByte
      BY FrameTypes DEF WireByte
    <2>2. h = <<x, y>>
      BY DEF Framing!HeaderBytes
    <2> HIDE DEF x, y, h
    <2>3. <<x, y>> \in Seq(WireByte) /\ Len(<<x, y>>) = 2 /\ <<x, y>>[1] = x /\ <<x, y>>[2] = y
      BY <2>1, Pair
    <2> QED
      BY <2>2, <2>3 DEF Wire, x, y
  <1>2. l \in Wire /\ Len(l) = n /\ (n > 0 => l[n].v = Len(f.payload))
    <2>1. l = [i \in 1 .. n |-> [field |-> "length", v |-> IF i = n THEN Len(f.payload) ELSE 0]]
      BY DEF Framing!LengthBytes
    <2>2. l \in [1 .. n -> WireByte]
      BY <1>0, <2>1 DEF WireByte
    <2>3. n > 0 => l[n].v = Len(f.payload)
      BY <1>0, <2>1
    <2> HIDE DEF l, n
    <2>4. l \in Seq(WireByte) /\ Len(l) = n
      BY <1>0, <2>2, FunctionIsSeq
    <2> QED
      BY <2>3, <2>4 DEF Wire
  <1>3. p \in Wire /\ Len(p) = Len(f.payload) /\ \A k \in 1 .. Len(f.payload) : p[k].v = f.payload[k]
    <2>1. p = [i \in 1 .. Len(f.payload) |-> [field |-> "payload", v |-> f.payload[i]]]
      BY DEF Framing!PayloadBytes
    <2>2. \A i \in 1 .. Len(f.payload) : f.payload[i] \in Framing!PayloadByte
      BY FrameTypes, ElementOfSeq DEF Payload
    <2>3. p \in [1 .. Len(f.payload) -> WireByte]
      BY <2>1, <2>2 DEF WireByte
    <2>4. \A k \in 1 .. Len(f.payload) : p[k].v = f.payload[k]
      BY <2>1
    <2> HIDE DEF p
    <2>5. p \in Seq(WireByte) /\ Len(p) = Len(f.payload)
      BY <1>0, <2>3, FunctionIsSeq
    <2> QED
      BY <2>4, <2>5 DEF Wire
  <1>4. Framing!Bytes(f) = hl \o p
    BY DEF Framing!Bytes
  <1> HIDE DEF h, l, p
  <1>5. /\ hl \in Wire /\ Len(hl) = 2 + n /\ \A i \in 1 .. 2 : hl[i] = h[i]
        /\ \A i \in 1 .. n : hl[2 + i] = l[i]
    <2>1. h \in Seq(WireByte) /\ l \in Seq(WireByte)
      BY <1>1, <1>2 DEF Wire
    <2>2. /\ h \o l \in Seq(WireByte) /\ Len(h \o l) = Len(h) + Len(l)
          /\ \A i \in 1 .. Len(h) : (h \o l)[i] = h[i]
          /\ \A i \in 1 .. Len(l) : (h \o l)[Len(h) + i] = l[i]
      BY <2>1, Joined
    <2> QED
      BY <1>1, <1>2, <2>2 DEF Wire
  <1> HIDE DEF hl, n
  <1>6. LET b == Framing!Bytes(f)
        IN  /\ b \in Wire /\ Len(b) = 2 + n + Len(f.payload)
            /\ \A i \in 1 .. 2 + n : b[i] = hl[i]
            /\ \A i \in 1 .. Len(f.payload) : b[2 + n + i] = p[i]
    <2>1. hl \in Seq(WireByte) /\ p \in Seq(WireByte)
      BY <1>3, <1>5 DEF Wire
    <2>2. /\ hl \o p \in Seq(WireByte) /\ Len(hl \o p) = Len(hl) + Len(p)
          /\ \A i \in 1 .. Len(hl) : (hl \o p)[i] = hl[i]
          /\ \A i \in 1 .. Len(p) : (hl \o p)[Len(hl) + i] = p[i]
      BY <2>1, Joined
    <2> QED
      BY <1>3, <1>4, <1>5, <2>2 DEF Wire
  <1>7. n > 0 => n \in 1 .. n /\ 2 + n \in 1 .. 2 + n
    BY <1>0
  <1>8. 1 \in 1 .. 2 + n /\ 2 \in 1 .. 2 + n
    BY <1>0
  <1>9. Size(f) = 2 + n + Len(f.payload)
    BY DEF Size, n
  <1> QED
    BY <1>1, <1>2, <1>3, <1>5, <1>6, <1>7, <1>8, <1>9, SMTT(30) DEF n

-----------------------------------------------------------------------------
(***************************************************************************)
(* The characters of a text that comes in parts.                           *)
(***************************************************************************)
\* A character is begun before byte i of x, when s is the state before x.
Begun(s, x, i) == IF i = 1 THEN s = "inside" ELSE x[i - 1] = "L"
Misplaced(s, x) == \E i \in 1 .. Len(x) : ~(x[i] = "c" <=> Begun(s, x, i))

LEMMA Utf8Is ==
    ASSUME NEW s \in Validation, NEW x \in Payload
    PROVE  Framing!Utf8(s, x)
             = IF s = "reject" \/ Misplaced(s, x) THEN "reject"
               ELSE IF Len(x) = 0 THEN s ELSE IF x[Len(x)] = "L" THEN "inside" ELSE "accept"
  <1>1. x = <<>> <=> Len(x) = 0
    BY EmptySeq DEF Payload
  <1> QED
    BY <1>1 DEF Framing!Utf8, Misplaced, Begun

LEMMA Utf8Type ==
    ASSUME NEW s \in Validation, NEW x \in Payload
    PROVE  Framing!Utf8(s, x) \in Validation
  BY Utf8Is DEF Validation

LEMMA Utf8Joined ==
    ASSUME NEW a \in Payload, NEW b \in Payload
    PROVE  Framing!Utf8("accept", a \o b) = Framing!Utf8(Framing!Utf8("accept", a), b)
  <1> DEFINE s == Framing!Utf8("accept", a)
             ab == a \o b
  <1>1. /\ ab \in Payload /\ Len(ab) = Len(a) + Len(b) /\ Len(a) \in Nat /\ Len(b) \in Nat
        /\ \A i \in 1 .. Len(a) : ab[i] = a[i]
        /\ \A i \in 1 .. Len(b) : ab[Len(a) + i] = b[i]
    BY Joined, LenProperties DEF Payload
  <1>2. /\ s \in Validation
        /\ s = IF Misplaced("accept", a) THEN "reject"
               ELSE IF Len(a) = 0 THEN "accept" ELSE IF a[Len(a)] = "L" THEN "inside" ELSE "accept"
    <2>1. "accept" \in Validation
      BY DEF Validation
    <2> QED
      BY <2>1, Utf8Is, Utf8Type
  <1>3. "accept" \in Validation
    BY DEF Validation
  <1> HIDE DEF s, ab
  <1>4. \A i \in 1 .. Len(a) : Begun("accept", ab, i) <=> Begun("accept", a, i)
    <2> SUFFICES ASSUME NEW i \in 1 .. Len(a) PROVE Begun("accept", ab, i) <=> Begun("accept", a, i)
      OBVIOUS
    <2>1. i # 1 => i - 1 \in 1 .. Len(a)
      BY <1>1
    <2> QED
      BY <1>1, <2>1 DEF Begun
  <1>5. s # "reject" => \A i \in 1 .. Len(b) : Begun("accept", ab, Len(a) + i) <=> Begun(s, b, i)
    <2> SUFFICES ASSUME s # "reject", NEW i \in 1 .. Len(b)
                 PROVE  Begun("accept", ab, Len(a) + i) <=> Begun(s, b, i)
      OBVIOUS
    <2>1. CASE i = 1 /\ Len(a) = 0
      <3>1. s = "accept" /\ Len(a) + i = 1
        BY <1>1, <1>2, <2>1
      <3> QED
        BY <2>1, <3>1 DEF Begun
    <2>2. CASE i = 1 /\ Len(a) # 0
      <3>1. Len(a) + i # 1 /\ Len(a) + i - 1 = Len(a) /\ Len(a) \in 1 .. Len(a)
        BY <1>1, <2>2
      <3>2. ab[Len(a)] = a[Len(a)]
        BY <1>1, <3>1
      <3>3. s = "inside" <=> a[Len(a)] = "L"
        BY <1>2, <2>2
      <3> QED
        BY <2>2, <3>1, <3>2, <3>3 DEF Begun
    <2>3. CASE i # 1
      <3>1. Len(a) + i # 1 /\ i - 1 \in 1 .. Len(b) /\ Len(a) + i - 1 = Len(a) + (i - 1)
        BY <1>1, <2>3
      <3>2. ab[Len(a) + (i - 1)] = b[i - 1]
        BY <1>1, <3>1
      <3> QED
        BY <2>3, <3>1, <3>2 DEF Begun
    <2> QED
      BY <2>1, <2>2, <2>3
  <1>6. \A i \in 1 .. Len(ab) : i \in 1 .. Len(a) \/ \E k \in 1 .. Len(b) : i = Len(a) + k
    <2> SUFFICES ASSUME NEW i \in 1 .. Len(ab), ~(i <= Len(a)) PROVE \E k \in 1 .. Len(b) : i = Len(a) + k
      BY <1>1
    <2>1. i - Len(a) \in 1 .. Len(b) /\ i = Len(a) + (i - Len(a))
      BY <1>1
    <2> QED
      BY <2>1
  <1>7. \A i \in 1 .. Len(a) : i \in 1 .. Len(ab)
    BY <1>1
  <1>8. \A i \in 1 .. Len(b) : Len(a) + i \in 1 .. Len(ab)
    BY <1>1
  <1>9. Misplaced("accept", ab) <=> s = "reject" \/ Misplaced(s, b)
    <2>1. Misplaced("accept", a) <=> s = "reject"
      BY <1>2
    <2>2. Misplaced("accept", a) => Misplaced("accept", ab)
      BY <1>1, <1>4, <1>7 DEF Misplaced
    <2>3. s # "reject" /\ Misplaced(s, b) => Misplaced("accept", ab)
      BY <1>1, <1>5, <1>8 DEF Misplaced
    <2>4. ASSUME Misplaced("accept", ab), s # "reject" PROVE Misplaced(s, b)
      <3>1. PICK i \in 1 .. Len(ab) : ~(ab[i] = "c" <=> Begun("accept", ab, i))
        BY <2>4 DEF Misplaced
      <3>2. CASE i \in 1 .. Len(a)
        BY <1>1, <1>4, <2>1, <2>4, <3>1, <3>2 DEF Misplaced
      <3>3. CASE \E k \in 1 .. Len(b) : i = Len(a) + k
        BY <1>1, <1>5, <2>4, <3>1, <3>3 DEF Misplaced
      <3> QED
        BY <1>6, <3>2, <3>3
    <2> QED
      BY <2>1, <2>2, <2>3, <2>4
  <1>10. /\ Framing!Utf8("accept", ab)
              = IF Misplaced("accept", ab) THEN "reject"
                ELSE IF Len(ab) = 0 THEN "accept" ELSE IF ab[Len(ab)] = "L" THEN "inside" ELSE "accept"
         /\ Framing!Utf8(s, b)
              = IF s = "reject" \/ Misplaced(s, b) THEN "reject"
                ELSE IF Len(b) = 0 THEN s ELSE IF b[Len(b)] = "L" THEN "inside" ELSE "accept"
    BY <1>1, <1>2, <1>3, Utf8Is
  <1>11. CASE Len(b) = 0
    <2>1. Len(ab) = Len(a) /\ (Len(a) # 0 => Len(a) \in 1 .. Len(a))
      BY <1>1, <1>11
    <2> QED
      BY <1>1, <1>2, <1>9, <1>10, <1>11, <2>1 DEF s, ab
  <1>12. CASE Len(b) # 0
    <2>1. Len(ab) # 0 /\ Len(b) \in 1 .. Len(b) /\ ab[Len(ab)] = b[Len(b)]
      BY <1>1, <1>12
    <2> QED
      BY <1>9, <1>10, <1>12, <2>1 DEF s, ab
  <1> QED
    BY <1>11, <1>12

LEMMA Utf8Empty == Framing!Utf8("accept", <<>>) = "accept" /\ <<>> \in Payload
  <1>1. <<>> \in Payload /\ Len(<<>>) = 0 /\ "accept" \in Validation
    BY EmptySeq DEF Payload, Validation
  <1> QED
    BY <1>1, Utf8Is DEF Misplaced

-----------------------------------------------------------------------------
(***************************************************************************)
(* What is wrong with a frame f that comes while o is open.                *)
(***************************************************************************)
BadHeader(f, o) ==
    \/ f.rsv \/ f.masked \/ f.op \in Framing!ReservedOps
    \/ f.op \in Framing!ControlOps /\ (~f.fin \/ f.code > PayloadSizeBasic)
    \/ f.op \in Framing!DataOps /\ ((f.op = "continuation") # (o # Framing!NoMessage))
BadLength(f) == \/ f.code = Framing!SizeCode16 /\ Len(f.payload) <= PayloadSizeBasic
                \/ f.code = Framing!SizeCode64 /\ Len(f.payload) <= PayloadSizeExtended
BadSize(f, o) == f.op \in Framing!DataOps /\ Len(o.payload) + Len(f.payload) > MaxMessageSize
BadText(f, o) == /\ Framing!IsText(f, o)
                 /\ LET u == Framing!Utf8("accept", o.payload \o f.payload)
                    IN  u = "reject" \/ (f.fin /\ u # "accept")

LEMMA FrameCodeIs ==
    ASSUME NEW f, NEW o
    PROVE  Framing!FrameCode(f, o) = IF BadHeader(f, o) THEN "protocol_error"
                                     ELSE IF BadLength(f) THEN "internal_endpoint_error"
                                     ELSE IF BadSize(f, o) THEN "message_too_big"
                                     ELSE IF BadText(f, o) THEN "invalid_payload" ELSE "none"
  BY DEF Framing!FrameCode, BadHeader, BadLength, BadSize, BadText

LEMMA Opcodes ==
    /\ \A op \in Ops : \/ op \in Framing!ControlOps
                       \/ op \in Framing!DataOps
                       \/ op \in Framing!ReservedOps
    /\ \A op \in Framing!ControlOps : /\ op \notin Framing!DataOps \cup Framing!ReservedOps
                                      /\ Framing!IsControl(op)
                                      /\ op \notin {"none", "text", "binary", "continuation"}
    /\ \A op \in Framing!DataOps : /\ op \notin Framing!ControlOps \cup Framing!ReservedOps
                                   /\ ~Framing!IsControl(op)
                                   /\ op \in {"text", "binary", "continuation"}
    /\ "none" \notin Ops
  BY DEF Ops, Framing!ControlOps, Framing!DataOps, Framing!ReservedOps, Framing!IsControl

\* validate_incoming_basic_header refuses what the reference calls a protocol error.
LEMMA BasicHeaderChecks ==
    ASSUME NEW f \in Framing!Frame, Framing!CodeFits(f), NEW o \in Msg, OpenOK(o),
           NEW e, e = Framing!BasicHeaderError(HeaderOf(f), o = Framing!NoMessage)
    PROVE  /\ e # "none" <=> BadHeader(f, o)
           /\ e # "none" => Framing!to_ws(e) = "protocol_error"
           /\ e = "none" => Plain(f)
  <1>1. /\ f.op \in Ops /\ f.fin \in BOOLEAN /\ f.rsv \in BOOLEAN /\ f.masked \in BOOLEAN
    BY FrameTypes
  <1>2. /\ HeaderOf(f).op = f.op /\ HeaderOf(f).fin = f.fin /\ HeaderOf(f).rsv = f.rsv
        /\ HeaderOf(f).masked = f.masked /\ HeaderOf(f).code = f.code
    BY DEF HeaderOf
  <1>3. f.code \in Nat /\ PayloadSizeBasic \in Nat
    <2>1. f.code \in 0 .. Framing!SizeCode64 /\ PayloadSizeBasic \in Nat
      BY FrameTypes
    <2> QED
      BY <2>1
  <1>4. e = Framing!BasicHeaderError(HeaderOf(f), o = Framing!NoMessage)
    OBVIOUS
  <1> HIDE DEF HeaderOf
  <1>5. e \in {"none", "control_too_big", "invalid_rsv_bit", "invalid_opcode", "fragmented_control",
               "masking_forbidden", "invalid_continuation"}
    BY <1>4 DEF Framing!BasicHeaderError
  <1>6. e # "none" => Framing!to_ws(e) = "protocol_error"
    BY <1>5 DEF Framing!to_ws
  <1>7. e # "none" <=> BadHeader(f, o)
    BY <1>1, <1>2, <1>3, <1>4 DEF BadHeader, Framing!BasicHeaderError, Ops, Framing!ControlOps,
       Framing!DataOps, Framing!ReservedOps, Framing!IsControl
  <1>8. e = "none" => Plain(f)
    BY <1>1, <1>2, <1>3, <1>7 DEF BadHeader, Plain
  <1> QED
    BY <1>6, <1>7, <1>8

LEMMA PlainOpcode ==
    ASSUME NEW f \in Framing!Frame, Framing!CodeFits(f), Plain(f)
    PROVE  \/ /\ f.op \in Framing!ControlOps /\ Framing!IsControl(f.op) /\ f.fin
              /\ f.op \notin Framing!DataOps
           \/ /\ f.op \in Framing!DataOps /\ ~Framing!IsControl(f.op)
              /\ f.op \notin Framing!ControlOps
  BY FrameTypes, Opcodes DEF Plain

LEMMA Holdings ==
    ASSUME NEW o \in Msg, OpenOK(o)
    PROVE  /\ Framing!NoMessage = Holding("none", <<>>)
           /\ \A op : Framing!Message(op) = Holding(op, <<>>)
           /\ o.payload \in Payload /\ o.op \in Ops \cup {"none"}
           /\ Holding(o.op, o.payload) = Framing!NoMessage <=> o = Framing!NoMessage
  <1>1. /\ Framing!NoMessage = Holding("none", <<>>)
        /\ \A op : Framing!Message(op) = Holding(op, <<>>)
    BY Utf8Empty DEF Framing!NoMessage, Framing!Message, Holding
  <1>2. o.payload \in Payload /\ o.op \in Ops \cup {"none"}
    BY DEF Msg
  <1>3. o = Framing!NoMessage => o.op = "none" /\ o.payload = <<>>
    BY DEF Framing!NoMessage
  <1>4. Holding(o.op, o.payload) = Framing!NoMessage => o.op = "none"
    BY DEF Framing!NoMessage, Holding
  <1> QED
    BY <1>1, <1>2, <1>3, <1>4 DEF OpenOK

LEMMA HoldingType ==
    ASSUME NEW op \in Ops \cup {"none"}, NEW p \in Payload
    PROVE  /\ Holding(op, p) \in Msg
           /\ Holding(op, p).op = op /\ Holding(op, p).payload = p
  <1>1. "accept" \in Validation
    BY DEF Validation
  <1>2. (IF op = "text" THEN Framing!Utf8("accept", p) ELSE "accept") \in Validation
    BY <1>1, Utf8Type
  <1> QED
    BY <1>2 DEF Holding, Msg

\* The message a good frame is part of.
LEMMA MessageOf ==
    ASSUME NEW f \in Framing!Frame, Framing!CodeFits(f), NEW o \in Msg, OpenOK(o), ~BadHeader(f, o)
    PROVE  /\ Plain(f)
           /\ Framing!OpOf(f, o) \in Ops /\ Framing!AllOf(f, o) \in Payload
           /\ f.op \in Framing!DataOps => Framing!OpOf(f, o) \in {"text", "binary"}
           /\ f.op \in Framing!DataOps => Framing!AllOf(f, o) = o.payload \o f.payload
           /\ f.op \notin Framing!DataOps => Framing!OpOf(f, o) = f.op /\ Framing!AllOf(f, o) = f.payload
           /\ f.op \in Framing!DataOps /\ o = Framing!NoMessage => Framing!OpOf(f, o) = f.op
           /\ f.op \in Framing!DataOps /\ o # Framing!NoMessage => Framing!OpOf(f, o) = o.op
           /\ f.op \in Framing!DataOps => (Framing!IsText(f, o) <=> Framing!OpOf(f, o) = "text")
           /\ f.op \notin Framing!DataOps => ~Framing!IsText(f, o)
  <1>1. f.op \in Ops /\ f.payload \in Payload /\ o.payload \in Payload /\ PayloadSizeBasic \in Nat
        /\ f.code \in 0 .. Framing!SizeCode64
    BY FrameTypes DEF Msg
  <1>2. f.op \in Framing!ControlOps \cup Framing!DataOps
    BY <1>1, Opcodes DEF BadHeader
  <1>3. Plain(f)
    BY <1>1 DEF BadHeader, Plain
  <1>4. f.op \in Framing!DataOps => (f.op = "continuation" <=> o # Framing!NoMessage)
    BY DEF BadHeader
  <1>5. o # Framing!NoMessage => o.op \in {"text", "binary"}
    BY DEF OpenOK
  <1>6. f.op \notin Framing!DataOps => f.op \notin {"text", "binary", "continuation"}
    BY DEF Framing!DataOps
  <1>7. f.op \in Framing!DataOps => f.op \in {"text", "binary", "continuation"}
    BY Opcodes
  <1>8. o.payload \o f.payload \in Payload
    BY <1>1, Joined DEF Payload
  <1>9. "text" \in Ops /\ "binary" \in Ops
    BY DEF Ops, Framing!DataOps
  <1>10. Framing!AllOf(f, o) = IF f.op \in Framing!DataOps THEN o.payload \o f.payload ELSE f.payload
    BY DEF Framing!AllOf
  <1>11. Framing!OpOf(f, o) = IF f.op = "continuation" THEN o.op ELSE f.op
    BY DEF Framing!OpOf
  <1>12. Framing!IsText(f, o) <=> f.op = "text" \/ (f.op = "continuation" /\ o.op = "text")
    BY DEF Framing!IsText
  <1> QED
    BY <1>1, <1>2, <1>3, <1>4, <1>5, <1>6, <1>7, <1>8, <1>9, <1>10, <1>11, <1>12

LEMMA PrefixOfSelf ==
    ASSUME NEW S, NEW s \in Seq(S)
    PROVE  Framing!IsPrefix(s, s)
  BY LenProperties DEF Framing!IsPrefix

\* SequencesExt's definition, by the elements.
LEMMA PrefixIs ==
    ASSUME NEW S, NEW s \in Seq(S), NEW t \in Seq(S)
    PROVE  Framing!IsPrefix(s, t) <=> Len(s) <= Len(t) /\ \A i \in 1 .. Len(s) : s[i] = t[i]
  <1>1. Len(s) \in Nat /\ Len(t) \in Nat /\ SubSeq(s, 1, Len(s)) = s
    BY LenProperties, SubSeqFull
  <1>2. CASE ~(Len(s) <= Len(t))
    BY <1>2 DEF Framing!IsPrefix
  <1>3. CASE Len(s) <= Len(t)
    <2> DEFINE p == SubSeq(t, 1, Len(s))
    <2>1. p \in Seq(S) /\ Len(p) = Len(s) /\ \A i \in 1 .. Len(s) : p[i] = t[i]
      <3>1. \A i \in 1 .. Len(s) : t[i] \in S
        BY <1>1, <1>3, ElementOfSeq
      <3>2. /\ p \in Seq(S) /\ Len(p) = IF 1 <= Len(s) THEN Len(s) - 1 + 1 ELSE 0
            /\ \A i \in 1 .. Len(s) - 1 + 1 : p[i] = t[1 + i - 1]
        BY <1>1, <3>1, SubSeqProperties
      <3> QED
        BY <1>1, <3>2
    <2>2. Framing!IsPrefix(s, t) <=> s = p
      BY <1>1, <1>3 DEF Framing!IsPrefix
    <2> HIDE DEF p
    <2>3. s = p <=> \A i \in 1 .. Len(s) : s[i] = p[i]
      BY <2>1, SeqEqual
    <2> QED
      BY <1>3, <2>1, <2>2, <2>3
  <1> QED
    BY <1>2, <1>3

LEMMA PrefixOfMore ==
    ASSUME NEW S, NEW s \in Seq(S), NEW t \in Seq(S), NEW u \in Seq(S),
           Framing!IsPrefix(s, t), Framing!IsPrefix(t, u)
    PROVE  Framing!IsPrefix(s, u)
  <1>1. Len(s) \in Nat /\ Len(t) \in Nat /\ Len(u) \in Nat
    BY LenProperties
  <1>2. Len(s) <= Len(t) /\ \A i \in 1 .. Len(s) : s[i] = t[i]
    BY PrefixIs
  <1>3. Len(t) <= Len(u) /\ \A i \in 1 .. Len(t) : t[i] = u[i]
    BY PrefixIs
  <1>4. Len(s) <= Len(u) /\ \A i \in 1 .. Len(s) : s[i] = u[i]
    BY <1>1, <1>2, <1>3
  <1> QED
    BY <1>4, PrefixIs

LEMMA PrefixAppend ==
    ASSUME NEW S, NEW s \in Seq(S), NEW a \in S
    PROVE  Append(s, a) \in Seq(S) /\ Framing!IsPrefix(s, Append(s, a))
  <1>1. /\ Append(s, a) \in Seq(S) /\ Len(Append(s, a)) = Len(s) + 1 /\ Len(s) \in Nat
        /\ \A i \in 1 .. Len(s) : Append(s, a)[i] = s[i]
    BY AppendProperties, LenProperties
  <1>2. Len(s) <= Len(Append(s, a))
    BY <1>1
  <1> HIDE DEF Framing!IsPrefix
  <1> QED
    BY <1>1, <1>2, PrefixIs

\* What the reference says of a frame.
LEMMA ReadFrameIs ==
    ASSUME NEW said \in Said, OpenOK(said.open),
           NEW f \in Framing!Frame, Framing!CodeFits(f),
           NEW r, r = Framing!ReadFrame(said, f)
    PROVE  LET o == said.open
               all == [op |-> Framing!OpOf(f, o), payload |-> Framing!AllOf(f, o)]
           IN  /\ r \in Said /\ OpenOK(r.open) /\ r.end = said.end + Size(f)
               /\ Framing!IsPrefix(said.out, r.out)
               /\ r.code # "none" => r.out = said.out
               /\ said.code # "none" => r.code = said.code
               /\ said.code = "none" => r.code = Framing!FrameCode(f, o)
               /\ r.code = "none" => /\ said.code = "none" /\ ~BadHeader(f, o)
                                     /\ IF f.fin
                                        THEN /\ r.out = Append(said.out, all)
                                             /\ r.open = IF f.op \in Framing!DataOps
                                                         THEN Framing!NoMessage ELSE o
                                        ELSE /\ r.out = said.out /\ f.op \in Framing!DataOps
                                             /\ r.open.op = all.op /\ r.open.payload = all.payload
  <1> DEFINE o == said.open
             op == Framing!OpOf(f, o)
             p == Framing!AllOf(f, o)
             code == Framing!FrameCode(f, o)
  <1>1. /\ said.end \in Nat /\ o \in Msg /\ said.out \in Out /\ said.code \in Code
        /\ said = [end |-> said.end, open |-> o, out |-> said.out, code |-> said.code]
    BY DEF Said
  <1>2. code \in Code /\ (code = "none" => ~BadHeader(f, o))
    <2>1. code = IF BadHeader(f, o) THEN "protocol_error"
                 ELSE IF BadLength(f) THEN "internal_endpoint_error"
                 ELSE IF BadSize(f, o) THEN "message_too_big"
                 ELSE IF BadText(f, o) THEN "invalid_payload" ELSE "none"
      BY FrameCodeIs
    <2> HIDE DEF code
    <2> QED
      BY <2>1 DEF Code
  <1>3. Size(f) \in Nat /\ Len(Framing!Bytes(f)) = Size(f)
    BY FrameTypes, BytesOf
  <1>4. r = [end  |-> said.end + Size(f),
             open |-> IF said.code # "none" \/ code # "none" THEN o
                      ELSE IF f.fin THEN (IF f.op \in Framing!DataOps THEN Framing!NoMessage ELSE o)
                      ELSE [op |-> op, payload |-> p, validator |-> "accept"],
             out  |-> IF said.code = "none" /\ code = "none" /\ f.fin
                      THEN Append(said.out, [op |-> op, payload |-> p]) ELSE said.out,
             code |-> IF said.code # "none" THEN said.code ELSE code]
    <2> DEFINE more == Len(Framing!Bytes(f))
               new  == [Framing!Message(op) EXCEPT !.payload = p]
               far  == [said EXCEPT !.end = @ + more]
    <2>1. new = [op |-> op, payload |-> p, validator |-> "accept"]
      <3> HIDE DEF op, p
      <3> QED
        BY DEF Framing!Message
    <2>2. far = [end |-> said.end + Size(f), open |-> o, out |-> said.out, code |-> said.code]
      <3> HIDE DEF o, more
      <3>1. more = Size(f)
        BY <1>3 DEF more
      <3> QED
        BY <1>1, <3>1
    <2>3. r = IF said.code # "none" THEN far
              ELSE IF code # "none" THEN [far EXCEPT !.code = code]
              ELSE IF f.fin
              THEN [far EXCEPT !.out = Append(@, [op |-> new.op, payload |-> new.payload]),
                               !.open = IF f.op \in Framing!DataOps THEN Framing!NoMessage ELSE @]
              ELSE [far EXCEPT !.open = new]
      BY DEF Framing!ReadFrame
    <2> HIDE DEF far, new, o, op, p, code, more
    <2>4. CASE said.code # "none"
      BY <2>2, <2>3, <2>4
    <2>5. CASE said.code = "none" /\ code # "none"
      BY <2>2, <2>3, <2>5
    <2>6. CASE said.code = "none" /\ code = "none" /\ f.fin
      BY <2>1, <2>2, <2>3, <2>6
    <2>7. CASE said.code = "none" /\ code = "none" /\ ~f.fin
      BY <2>1, <2>2, <2>3, <2>7
    <2> QED
      BY <2>4, <2>5, <2>6, <2>7
  <1>5. f.fin \in BOOLEAN
    BY FrameTypes
  <1>6. code = "none" => /\ op \in Ops /\ p \in Payload
                         /\ ~f.fin => f.op \in Framing!DataOps /\ op \in {"text", "binary"}
    <2> SUFFICES ASSUME code = "none"
                 PROVE  /\ op \in Ops /\ p \in Payload
                        /\ ~f.fin => f.op \in Framing!DataOps /\ op \in {"text", "binary"}
      OBVIOUS
    <2>1. /\ Plain(f) /\ op \in Ops /\ p \in Payload
          /\ f.op \in Framing!DataOps => op \in {"text", "binary"}
      BY <1>1, <1>2, MessageOf
    <2> QED
      BY <2>1, PlainOpcode
  <1>7. "accept" \in Validation /\ OpenOK(Framing!NoMessage) /\ Framing!NoMessage \in Msg
    <2>1. <<>> \in Payload
      BY Utf8Empty
    <2> QED
      BY <2>1 DEF Validation, OpenOK, Framing!NoMessage, Msg
  <1>8. Framing!IsPrefix(said.out, said.out)
    BY <1>1, PrefixOfSelf DEF Out
  <1>9. code = "none" => /\ Append(said.out, [op |-> op, payload |-> p]) \in Out
                         /\ Framing!IsPrefix(said.out, Append(said.out, [op |-> op, payload |-> p]))
    <2> SUFFICES ASSUME code = "none"
                 PROVE  /\ Append(said.out, [op |-> op, payload |-> p]) \in Out
                        /\ Framing!IsPrefix(said.out, Append(said.out, [op |-> op, payload |-> p]))
      OBVIOUS
    <2> HIDE DEF op, p
    <2>1. [op |-> op, payload |-> p] \in [op : Ops \cup {"none"}, payload : Payload]
      BY <1>6
    <2> QED
      BY <1>1, <2>1, PrefixAppend DEF Out
  <1>10. OpenOK(o)
    OBVIOUS
  <1> HIDE DEF o, op, p, code
  <1>11. code = "none" /\ ~f.fin =>
            /\ [op |-> op, payload |-> p, validator |-> "accept"] \in Msg
            /\ OpenOK([op |-> op, payload |-> p, validator |-> "accept"])
    BY <1>6, <1>7 DEF Msg, OpenOK
  <1>12. r \in Said /\ OpenOK(r.open) /\ r.end = said.end + Size(f)
    <2>1. r.open \in Msg /\ OpenOK(r.open)
      BY <1>1, <1>4, <1>5, <1>7, <1>10, <1>11
    <2>2. r.out \in Out /\ r.code \in Code /\ r.end = said.end + Size(f)
      BY <1>1, <1>2, <1>4, <1>9
    <2> QED
      BY <1>1, <1>3, <1>4, <2>1, <2>2 DEF Said
  <1>13. /\ Framing!IsPrefix(said.out, r.out)
         /\ r.code # "none" => r.out = said.out
         /\ said.code # "none" => r.code = said.code
         /\ said.code = "none" => r.code = code
    BY <1>4, <1>8, <1>9
  <1>14. r.code = "none" => /\ said.code = "none" /\ code = "none"
                            /\ IF f.fin
                               THEN /\ r.out = Append(said.out, [op |-> op, payload |-> p])
                                    /\ r.open = IF f.op \in Framing!DataOps
                                                THEN Framing!NoMessage ELSE o
                               ELSE /\ r.out = said.out
                                    /\ r.open.op = op /\ r.open.payload = p
    BY <1>4
  <1> QED
    BY <1>2, <1>5, <1>6, <1>12, <1>13, <1>14 DEF o, op, p, code

-----------------------------------------------------------------------------
LEMMA StreamTypes ==
    ASSUME LogInv
    PROVE  /\ Len(frames) \in Nat /\ Len(log) \in Nat /\ Len(sent) \in Nat
           /\ \A i \in 1 .. Len(frames) : frames[i] \in Framing!Frame /\ Framing!CodeFits(frames[i])
           /\ \A i \in 1 .. Len(log) : log[i] \in Said /\ OpenOK(log[i].open)
           /\ \A i \in 1 .. Len(log) : log[i].end \in Nat /\ log[i].open \in Msg /\ log[i].out \in Out
           /\ Len(log) \in 1 .. Len(log)
  <1>1. frames \in Seq(Framing!Frame) /\ \A i \in 1 .. Len(frames) : Framing!CodeFits(frames[i])
    BY StreamsAssumption DEF LogInv
  <1>2. Len(frames) \in Nat /\ \A i \in 1 .. Len(frames) : frames[i] \in Framing!Frame
    BY <1>1, LenProperties, ElementOfSeq
  <1>3. log \in Seq(Said) /\ sent \in Seq(WireByte)
    BY DEF LogInv, Wire
  <1>4. Len(log) \in Nat /\ Len(sent) \in Nat /\ \A i \in 1 .. Len(log) : log[i] \in Said
    BY <1>3, LenProperties, ElementOfSeq
  <1>5. \A i \in 1 .. Len(log) : OpenOK(log[i].open)
    BY DEF LogInv, GoesOn
  <1>6. Len(log) \in 1 .. Len(log)
    BY <1>4 DEF LogInv
  <1>7. \A i \in 1 .. Len(log) : log[i].end \in Nat /\ log[i].open \in Msg /\ log[i].out \in Out
    BY <1>4 DEF Said
  <1> QED
    BY <1>1, <1>2, <1>4, <1>5, <1>6, <1>7

\* What the server sends is put behind what it sent before, and the reference goes on.
LEMMA SendGrows ==
    ASSUME LogInv, Framing!Send
    PROVE  LET n == Len(log)
               f == frames[n]
           IN  /\ n \in 1 .. Len(frames) /\ frames' = frames
               /\ sent' \in Wire /\ Len(sent') = Len(sent) + Size(f)
               /\ \A k \in 1 .. Len(sent) : sent'[k] = sent[k]
               /\ \A k \in 1 .. Size(f) : sent'[Len(sent) + k] = Framing!Bytes(f)[k]
               /\ log' \in Seq(Said) /\ Len(log') = n + 1
               /\ \A i \in 1 .. n : log'[i] = log[i]
               /\ log'[n + 1] = Framing!ReadFrame(log[n], f)
               /\ log[n].end = Len(sent)
  <1> DEFINE n == Len(log)
             f == frames[n]
             r == Framing!ReadFrame(log[n], f)
  <1>1. n \in 1 .. Len(frames) /\ n \in 1 .. Len(log) /\ log[n].end = Len(sent)
    BY StreamTypes DEF LogInv, Framing!Send, Framing!Reference
  <1>2. f \in Framing!Frame /\ Framing!CodeFits(f) /\ log[n] \in Said /\ OpenOK(log[n].open)
    BY <1>1, StreamTypes
  <1>3. sent' = sent \o Framing!Bytes(f) /\ log' = Append(log, r) /\ frames' = frames
    BY DEF Framing!Send, Framing!Reference
  <1>4. r \in Said
    <2> HIDE DEF f, r, n
    <2> QED
      BY <1>2, ReadFrameIs DEF r
  <1>5. /\ Framing!Bytes(f) \in Seq(WireByte) /\ Len(Framing!Bytes(f)) = Size(f)
        /\ sent \in Seq(WireByte) /\ log \in Seq(Said)
    BY <1>2, BytesOf DEF Wire, LogInv
  <1> HIDE DEF f, r
  <1>6. /\ sent' \in Seq(WireByte) /\ Len(sent') = Len(sent) + Size(f)
        /\ \A k \in 1 .. Len(sent) : sent'[k] = sent[k]
        /\ \A k \in 1 .. Size(f) : sent'[Len(sent) + k] = Framing!Bytes(f)[k]
    <2> DEFINE b == Framing!Bytes(f)
    <2>1. /\ sent \o b \in Seq(WireByte) /\ Len(sent \o b) = Len(sent) + Len(b)
          /\ \A k \in 1 .. Len(sent) : (sent \o b)[k] = sent[k]
          /\ \A k \in 1 .. Len(b) : (sent \o b)[Len(sent) + k] = b[k]
      BY <1>5, Joined
    <2> QED
      BY <1>3, <1>5, <2>1
  <1>7. /\ log' \in Seq(Said) /\ Len(log') = n + 1
        /\ \A i \in 1 .. n : log'[i] = log[i]
        /\ log'[n + 1] = r
    BY <1>3, <1>4, <1>5, AppendProperties
  <1> QED
    BY <1>1, <1>3, <1>6, <1>7 DEF f, r, Wire

LEMMA SendKeepsLog ==
    ASSUME LogInv, Framing!Send
    PROVE  LogInv'
  <1>0. PICK n \in Nat : n = Len(log)
    BY StreamTypes
  <1> DEFINE f == frames[n]
             r == log'[n + 1]
  <1>1. /\ n \in 1 .. Len(frames) /\ frames' = frames
        /\ sent' \in Wire /\ Len(sent') = Len(sent) + Size(f)
        /\ \A k \in 1 .. Len(sent) : sent'[k] = sent[k]
        /\ \A k \in 1 .. Size(f) : sent'[Len(sent) + k] = Framing!Bytes(f)[k]
        /\ log' \in Seq(Said) /\ Len(log') = n + 1
        /\ \A i \in 1 .. n : log'[i] = log[i]
        /\ r = Framing!ReadFrame(log[n], f)
        /\ log[n].end = Len(sent)
    BY <1>0, SendGrows
  <1>2. /\ f \in Framing!Frame /\ Framing!CodeFits(f) /\ log[n] \in Said /\ OpenOK(log[n].open)
        /\ Len(sent) \in Nat /\ Len(frames) \in Nat /\ Size(f) \in Nat /\ n \in 1 .. Len(log)
    <2>1. f \in Framing!Frame /\ Framing!CodeFits(f)
      BY <1>1, StreamTypes
    <2>2. Size(f) \in Nat
      BY <2>1, FrameTypes
    <2> QED
      BY <1>0, <2>1, <2>2, StreamTypes
  <1>3. /\ r \in Said /\ OpenOK(r.open) /\ r.end = log[n].end + Size(f)
        /\ Framing!IsPrefix(log[n].out, r.out)
        /\ r.code # "none" => r.out = log[n].out
        /\ log[n].code # "none" => r.code = log[n].code
    <2> HIDE DEF f, r
    <2>1. PICK s \in Said : s = log[n]
      BY <1>2
    <2>2. PICK g \in Framing!Frame : g = f
      BY <1>2
    <2>3. PICK t : t = Framing!ReadFrame(s, g)
      OBVIOUS
    <2>4. /\ t \in Said /\ OpenOK(t.open) /\ t.end = s.end + Size(g)
          /\ Framing!IsPrefix(s.out, t.out)
          /\ t.code # "none" => t.out = s.out
          /\ s.code # "none" => t.code = s.code
      <3>1. OpenOK(s.open) /\ Framing!CodeFits(g)
        BY <1>2, <2>1, <2>2
      <3> QED
        BY <2>3, <3>1, ReadFrameIs
    <2>5. t = r
      BY <1>1, <2>1, <2>2, <2>3
    <2> QED
      BY <2>1, <2>2, <2>4, <2>5
  <1>4. Framing!Reference = log[n] /\ Framing!Reference' = r
    BY <1>0, <1>1 DEF Framing!Reference
  <1> HIDE DEF f, r
  <1>5. \A i \in 1 .. Len(log') - 1 : FrameSent(i)'
    <2> SUFFICES ASSUME NEW i \in 1 .. n PROVE FrameSent(i)'
      BY <1>0, <1>1
    <2>1. CASE i = n
      <3>1. /\ log'[i + 1] = Framing!ReadFrame(log'[i], frames'[i])
            /\ log'[i + 1].end = log'[i].end + Size(frames'[i])
            /\ log'[i + 1].end <= Len(sent')
        BY <1>1, <1>2, <1>3, <2>1 DEF f, r
      <3>2. \A k \in 1 .. Size(frames'[i]) : sent'[log'[i].end + k] = Framing!Bytes(frames'[i])[k]
        BY <1>1, <1>2, <2>1, ZenonT(40) DEF f
      <3> QED
        BY <3>1, <3>2 DEF FrameSent
    <2>2. CASE i # n
      <3>1. i \in 1 .. Len(log) - 1 /\ i \in 1 .. n /\ i + 1 \in 1 .. n /\ i \in 1 .. Len(frames)
            /\ i \in 1 .. Len(log)
        BY <1>0, <1>1, <1>2, <2>2
      <3>2. /\ log[i + 1] = Framing!ReadFrame(log[i], frames[i])
            /\ log[i + 1].end = log[i].end + Size(frames[i])
            /\ log[i + 1].end <= Len(sent)
            /\ \A k \in 1 .. Size(frames[i]) : sent[log[i].end + k] = Framing!Bytes(frames[i])[k]
        BY <3>1 DEF LogInv, FrameSent
      <3>3. log[i].end \in Nat /\ Size(frames[i]) \in Nat
        BY <3>1, StreamTypes, FrameTypes
      <3>4. \A k \in 1 .. Size(frames[i]) : log[i].end + k \in 1 .. Len(sent)
        BY <1>2, <3>2, <3>3, SMTT(30)
      <3>5. Len(sent) <= Len(sent')
        BY <1>1, <1>2
      <3>6. log'[i + 1].end <= Len(sent')
        <4>1. log[i + 1].end \in Nat /\ log'[i + 1] = log[i + 1]
          BY <1>1, <3>1, <3>2, <3>3, SMTT(30)
        <4> QED
          BY <1>1, <1>2, <3>2, <3>5, <4>1
      <3>7. \A k \in 1 .. Size(frames[i]) : sent'[log[i].end + k] = Framing!Bytes(frames[i])[k]
        BY <1>1, <3>2, <3>4
      <3>8. log'[i] = log[i] /\ log'[i + 1] = log[i + 1] /\ frames'[i] = frames[i]
        BY <1>1, <3>1
      <3> QED
        BY <3>2, <3>6, <3>7, <3>8 DEF FrameSent
    <2> QED
      BY <2>1, <2>2
  <1>6. \A i \in 1 .. Len(log') : GoesOn(i)'
    <2> SUFFICES ASSUME NEW i \in 1 .. n + 1 PROVE GoesOn(i)'
      BY <1>1
    <2>1. CASE i = n + 1
      <3>1. r.out \in Out
        BY <1>3 DEF Said
      <3>2. Framing!IsPrefix(r.out, r.out)
        BY <3>1, PrefixOfSelf DEF Out
      <3>3. log'[i] = r
        BY <2>1 DEF r
      <3> QED
        BY <1>3, <1>4, <3>2, <3>3 DEF GoesOn
    <2>2. CASE i # n + 1
      <3>1. i \in 1 .. n /\ i \in 1 .. Len(log) /\ log'[i] = log[i]
        BY <1>0, <1>1, <2>2
      <3>2. /\ OpenOK(log[i].open) /\ Framing!IsPrefix(log[i].out, log[n].out)
            /\ log[i].code # "none" => log[n].out = log[i].out /\ log[n].code = log[i].code
        BY <1>4, <3>1 DEF LogInv, GoesOn
      <3>3. log[i].out \in Out /\ log[n].out \in Out /\ r.out \in Out
        BY <1>2, <1>3, <3>1, StreamTypes DEF Said
      <3>4. Framing!IsPrefix(log[i].out, r.out)
        BY <1>3, <3>2, <3>3, PrefixOfMore DEF Out
      <3>5. log[i].code # "none" => r.out = log[i].out /\ r.code = log[i].code
        BY <1>3, <3>2
      <3> QED
        BY <1>4, <3>1, <3>2, <3>4, <3>5 DEF GoesOn
    <2> QED
      BY <2>1, <2>2
  <1>7. Framing!Reference'.end = Len(sent')
    BY <1>1, <1>2, <1>3, <1>4
  <1>8. frames' \in Streams /\ Len(log') >= 1 /\ Len(log') <= Len(frames') + 1
    BY <1>1, <1>2 DEF LogInv
  <1> QED
    BY <1>1, <1>5, <1>6, <1>7, <1>8 DEF LogInv

LEMMA Within ==
    ASSUME NEW p \in Nat, NEW b \in Nat, NEW s \in Nat, NEW t \in Nat, p + b = s, s <= t
    PROVE  \A k \in 1 .. b : p + k \in 1 .. t
  OBVIOUS

LEMMA SendKeepsPlace ==
    ASSUME LogInv, Framing!Send, NEW i \in Nat, NEW c \in Nat, Place(i, c)
    PROVE  Place(i, c)'
  <1>0. PICK n \in Nat : n = Len(log)
    BY StreamTypes
  <1>1. /\ n \in 1 .. Len(frames) /\ frames' = frames /\ n \in 1 .. Len(log)
        /\ sent' \in Wire /\ Len(sent') = Len(sent) + Size(frames[n])
        /\ \A k \in 1 .. Len(sent) : sent'[k] = sent[k]
        /\ log' \in Seq(Said) /\ Len(log') = n + 1
        /\ \A k \in 1 .. n : log'[k] = log[k]
        /\ Size(frames[n]) \in Nat /\ Len(sent) \in Nat
    BY <1>0, SendGrows, StreamTypes, FrameTypes
  <1>2. /\ seen' = seen /\ buf' = buf /\ reader_state' = reader_state
        /\ m_bytes_needed' = m_bytes_needed /\ m_basic_header' = m_basic_header
        /\ m_extended_header' = m_extended_header /\ m_data_msg' = m_data_msg
        /\ m_control_msg' = m_control_msg /\ m_current_msg' = m_current_msg
    BY DEF Framing!Send
  <1>3. /\ i \in 1 .. n /\ i < Len(log') /\ i # Len(log') /\ i \in 1 .. Len(log')
        /\ log'[i] = log[i] /\ log[i].end \in Nat
    BY <1>0, <1>1, StreamTypes DEF Place
  <1>4. BufAt(log[i].end + c) => BufAt(log[i].end + c)'
    <2> SUFFICES ASSUME BufAt(log[i].end + c) PROVE BufAt(log[i].end + c)'
      OBVIOUS
    <2>1. /\ seen \in Nat /\ seen <= Len(sent) /\ buf \in Wire /\ Len(buf) \in Nat
          /\ log[i].end + c + Len(buf) = seen
          /\ \A k \in 1 .. Len(buf) : buf[k] = sent[log[i].end + c + k]
      BY LenProperties DEF BufAt, Wire
    <2>2. \A k \in 1 .. Len(buf) : log[i].end + c + k \in 1 .. Len(sent)
      <3>1. log[i].end + c \in Nat
        BY <1>3
      <3> QED
        BY <1>1, <2>1, <3>1, Within
    <2>3. \A k \in 1 .. Len(buf) : buf[k] = sent'[log[i].end + c + k]
      BY <1>1, <2>1, <2>2
    <2>4. seen <= Len(sent')
      BY <1>1, <2>1
    <2> QED
      BY <1>2, <1>3, <2>1, <2>3, <2>4 DEF BufAt
  <1>5. AtBasic(i, c) => AtBasic(i, c)'
    BY <1>1, <1>2 DEF AtBasic
  <1>6. AtExtended(i, c) => AtExtended(i, c)'
    BY <1>1, <1>2, <1>3 DEF AtExtended
  <1>7. AtPayload(i, c) => AtPayload(i, c)'
    BY <1>1, <1>2, <1>3 DEF AtPayload, Framing!Current
  <1> QED
    BY <1>1, <1>2, <1>3, <1>4, <1>5, <1>6, <1>7 DEF Place

\* Whether a text ended inside a character is not taken back either.
LEMMA SendKeepsCharacters ==
    ASSUME LogInv, Framing!Send, Framing!CharactersEnd'
    PROVE  Framing!CharactersEnd
  <1>0. PICK n \in Nat : n = Len(log)
    BY StreamTypes
  <1>1. Len(log') = n + 1 /\ frames' = frames /\ \A k \in 1 .. n : log'[k] = log[k]
    BY <1>0, SendGrows
  <1>2. \A k \in 1 .. n : ~Framing!EndsInside(frames[k], log[k].open)
    BY <1>1 DEF Framing!CharactersEnd
  <1> QED
    BY <1>0, <1>2 DEF Framing!CharactersEnd

LEMMA SendKeepsContent ==
    ASSUME LogInv, Framing!Send, NEW i \in Nat, NEW c \in Nat, i \in 1 .. Len(log), Content(i, c)
    PROVE  Content(i, c)'
  <1>1. /\ frames' = frames /\ log'[i] = log[i]
    BY SendGrows
  <1>2. /\ reader_state' = reader_state /\ m_data_msg' = m_data_msg
        /\ m_control_msg' = m_control_msg /\ delivered' = delivered
    BY DEF Framing!Send
  <1> QED
    BY <1>1, <1>2 DEF Content, HeldPayload

LEMMA SendStep ==
    ASSUME FrameInv, Framing!Send
    PROVE  FrameInv'
  <1>1. LogInv'
    BY SendKeepsLog DEF FrameInv
  <1>2. ec' = ec /\ delivered' = delivered /\ m_data_msg' = m_data_msg /\ m_control_msg' = m_control_msg
        /\ reader_state' = reader_state /\ m_bytes_needed' = m_bytes_needed
        /\ m_current_msg' = m_current_msg
    BY DEF Framing!Send
  <1>3. Framing!TypeOK'
    BY <1>2 DEF FrameInv, Framing!TypeOK
  <1>4. ASSUME ec = "none" PROVE Reads'
    <2>1. Messages /\ LogInv
      BY <1>4 DEF FrameInv, Reads
    <2>2. PICK i \in Nat, c \in Nat : Place(i, c) /\ (Framing!CharactersEnd => Content(i, c))
      BY <1>4 DEF FrameInv, Reads
    <2>3. Place(i, c)'
      BY <2>1, <2>2, SendKeepsPlace
    <2>4. i \in 1 .. Len(log)
      BY <2>2 DEF Place
    <2>5. Framing!CharactersEnd' => Content(i, c)'
      BY <2>1, <2>2, <2>4, SendKeepsCharacters, SendKeepsContent
    <2>6. Messages'
      BY <1>2, <2>1 DEF Messages
    <2> QED
      BY <2>3, <2>5, <2>6 DEF Reads
  <1>5. ASSUME ec # "none", Framing!CharactersEnd'
        PROVE  delivered' = Framing!Reference'.out /\ Framing!to_ws(ec') = Framing!Reference'.code
    <2>1. LogInv /\ Framing!CharactersEnd
      BY <1>5, SendKeepsCharacters DEF FrameInv
    <2>2. delivered = Framing!Reference.out /\ Framing!to_ws(ec) = Framing!Reference.code
      BY <1>5, <2>1 DEF FrameInv, Failed
    <2>3. Framing!Reference.code # "none"
      BY <1>5, <2>2 DEF Framing!to_ws
    <2>4. PICK n \in Nat : n = Len(log)
      BY <2>1, StreamTypes
    <2>5. n \in 1 .. Len(log') /\ log'[n] = log[n]
      BY <2>1, <2>4, SendGrows
    <2>6. log[n] = Framing!Reference
      BY <2>4 DEF Framing!Reference
    <2>7. GoesOn(n)'
      BY <1>1, <2>5 DEF LogInv
    <2>8. Framing!Reference'.out = log[n].out /\ Framing!Reference'.code = log[n].code
      BY <2>3, <2>5, <2>6, <2>7 DEF GoesOn
    <2> QED
      BY <1>2, <2>2, <2>6, <2>8
  <1> QED
    BY <1>1, <1>2, <1>3, <1>4, <1>5 DEF FrameInv, Failed

-----------------------------------------------------------------------------
(***************************************************************************)
(* The client's steps: what all of them need.                              *)
(***************************************************************************)
LEMMA LogStays ==
    ASSUME LogInv, UNCHANGED <<frames, sent, log>>
    PROVE  /\ LogInv' /\ Framing!Reference' = Framing!Reference
           /\ Framing!CharactersEnd' <=> Framing!CharactersEnd
  BY DEF LogInv, FrameSent, GoesOn, Framing!Reference, Framing!CharactersEnd

\* n bytes of the buffer are used up.
LEMMA BufUsed ==
    ASSUME NEW p \in Nat, BufAt(p), NEW n \in 0 .. Len(buf),
           sent' = sent, seen' = seen, buf' = Framing!Rest(n)
    PROVE  BufAt(p + n)'
  <1> DEFINE m == Len(buf) - n
  <1>1. /\ seen \in Nat /\ seen <= Len(sent) /\ buf \in Wire /\ p + Len(buf) = seen
        /\ Len(buf) \in Nat /\ \A k \in 1 .. Len(buf) : buf[k] = sent[p + k]
    BY LenProperties DEF BufAt, Wire
  <1>2. m \in Nat /\ n + m = Len(buf) /\ n \in Nat
    BY <1>1
  <1>3. buf' = SubSeq(buf, n + 1, n + m)
    BY <1>2 DEF Framing!Rest
  <1> HIDE DEF m
  <1>4. /\ buf' \in Seq(WireByte) /\ Len(buf') = m
        /\ \A k \in 1 .. m : buf'[k] = buf[n + k]
    <2>1. n + m <= Len(buf) /\ buf \in Seq(WireByte)
      BY <1>1, <1>2 DEF Wire
    <2>2. /\ SubSeq(buf, n + 1, n + m) \in Seq(WireByte) /\ Len(SubSeq(buf, n + 1, n + m)) = m
          /\ \A k \in 1 .. m : SubSeq(buf, n + 1, n + m)[k] = buf[n + k]
      BY <1>2, <2>1, PartOf
    <2> QED
      BY <1>3, <2>2
  <1>5. \A k \in 1 .. m : n + k \in 1 .. Len(buf) /\ p + (n + k) = p + n + k
    BY <1>2
  <1>6. \A k \in 1 .. m : buf'[k] = sent[p + n + k]
    BY <1>1, <1>4, <1>5
  <1>7. p + n + m = seen
    BY <1>1, <1>2
  <1> QED
    BY <1>1, <1>4, <1>6, <1>7 DEF BufAt, Wire

\* The first n bytes of the buffer.
LEMMA BufTaken ==
    ASSUME buf \in Wire, NEW n \in 0 .. Len(buf)
    PROVE  /\ SubSeq(buf, 1, n) \in Wire /\ Len(SubSeq(buf, 1, n)) = n
           /\ \A k \in 1 .. n : SubSeq(buf, 1, n)[k] = buf[k]
  <1>1. buf \in Seq(WireByte) /\ n \in Nat /\ 0 \in Nat /\ 0 + n <= Len(buf) /\ 0 + 1 = 1 /\ 0 + n = n
    BY LenProperties DEF Wire
  <1>2. /\ SubSeq(buf, 0 + 1, 0 + n) \in Seq(WireByte) /\ Len(SubSeq(buf, 0 + 1, 0 + n)) = n
        /\ \A k \in 1 .. n : SubSeq(buf, 0 + 1, 0 + n)[k] = buf[0 + k]
    BY <1>1, PartOf
  <1>3. \A k \in 1 .. n : 0 + k = k
    OBVIOUS
  <1> QED
    BY <1>1, <1>2, <1>3 DEF Wire

\* A frame that has been sent.
LEMMA FrameAt ==
    ASSUME LogInv, NEW i \in 1 .. Len(log), i < Len(log)
    PROVE  /\ frames[i] \in Framing!Frame /\ Framing!CodeFits(frames[i])
           /\ FrameSent(i) /\ Size(frames[i]) \in Nat
           /\ log[i] \in Said /\ OpenOK(log[i].open) /\ log[i].open \in Msg
           /\ log[i].end \in Nat /\ log[i].out \in Out
           /\ i + 1 \in 1 .. Len(log) /\ GoesOn(i + 1) /\ GoesOn(i)
           /\ log[i + 1] \in Said
  <1>1. /\ Len(log) \in Nat /\ Len(frames) \in Nat /\ Len(log) <= Len(frames) + 1
    BY StreamTypes DEF LogInv
  <1>2. i \in 1 .. Len(frames) /\ i \in 1 .. Len(log) - 1 /\ i + 1 \in 1 .. Len(log)
    BY <1>1
  <1>3. frames[i] \in Framing!Frame /\ Framing!CodeFits(frames[i])
    BY <1>2, StreamTypes
  <1> QED
    BY <1>2, <1>3, StreamTypes, FrameTypes DEF LogInv

LEMMA BufIs ==
    ASSUME LogInv, NEW i \in 1 .. Len(log), i < Len(log), NEW c \in Nat, BufAt(log[i].end + c)
    PROVE  \A k \in 1 .. Len(buf) :
              c + k <= Size(frames[i]) => buf[k] = Framing!Bytes(frames[i])[c + k]
  <1> SUFFICES ASSUME NEW k \in 1 .. Len(buf), c + k <= Size(frames[i])
               PROVE  buf[k] = Framing!Bytes(frames[i])[c + k]
    OBVIOUS
  <1>1. log[i].end \in Nat /\ Size(frames[i]) \in Nat
    BY FrameAt
  <1>2. buf[k] = sent[log[i].end + c + k]
    BY DEF BufAt
  <1>3. c + k \in 1 .. Size(frames[i]) /\ log[i].end + c + k = log[i].end + (c + k)
    <2>1. k \in Nat /\ k > 0
      OBVIOUS
    <2> QED
      BY <1>1, <2>1
  <1>4. sent[log[i].end + (c + k)] = Framing!Bytes(frames[i])[c + k]
    BY <1>3, FrameAt DEF FrameSent
  <1> QED
    BY <1>2, <1>3, <1>4

\* Bytes that have been read are of a frame that has been sent.
LEMMA HasFrame ==
    ASSUME LogInv, NEW i \in Nat, NEW c \in Nat, Place(i, c), buf # <<>>
    PROVE  i \in 1 .. Len(log) /\ i < Len(log) /\ Len(buf) \in Nat /\ Len(buf) > 0
  <1>1. /\ i \in 1 .. Len(log) /\ buf \in Seq(WireByte) /\ seen <= Len(sent) /\ seen \in Nat
        /\ log[i].end + c + Len(buf) = seen /\ (i = Len(log) => c = 0)
    BY DEF Place, BufAt, Wire
  <1>2. Len(buf) \in Nat /\ Len(buf) > 0
    BY <1>1, EmptySeq
  <1>3. /\ Len(log) \in Nat /\ log[Len(log)].end = Len(sent) /\ Len(sent) \in Nat
        /\ log[i].end \in Nat
    BY <1>1, StreamTypes DEF LogInv, Framing!Reference
  <1>4. ASSUME i = Len(log) PROVE FALSE
    <2>1. log[i].end = Len(sent) /\ c = 0
      BY <1>1, <1>3, <1>4
    <2> QED
      BY <1>1, <1>2, <1>3, <2>1
  <1> QED
    BY <1>1, <1>2, <1>3, <1>4

\* A frame that is refused is the last of which the reference says anything.
LEMMA Refused ==
    ASSUME LogInv, NEW i \in 1 .. Len(log), i < Len(log), log[i].code = "none",
           Framing!FrameCode(frames[i], log[i].open) # "none"
    PROVE  /\ Framing!Reference.out = log[i].out
           /\ Framing!Reference.code = Framing!FrameCode(frames[i], log[i].open)
  <1>1. PICK s \in Said : s = log[i]
    BY FrameAt
  <1>2. PICK f \in Framing!Frame : f = frames[i]
    BY FrameAt
  <1>3. PICK r : r = Framing!ReadFrame(s, f)
    OBVIOUS
  <1>4. Framing!CodeFits(f) /\ OpenOK(s.open)
    BY <1>1, <1>2, FrameAt
  <1>5. /\ r \in Said
        /\ r.code # "none" => r.out = s.out
        /\ s.code = "none" => r.code = Framing!FrameCode(f, s.open)
    BY ONLY <1>3, <1>4, s \in Said, f \in Framing!Frame, ReadFrameIs
  <1>6. r = log[i + 1] /\ GoesOn(i + 1)
    BY <1>1, <1>2, <1>3, FrameAt DEF FrameSent
  <1> QED
    BY <1>1, <1>2, <1>5, <1>6 DEF GoesOn

-----------------------------------------------------------------------------
(***************************************************************************)
(* One lemma for each step of the client.                                  *)
(***************************************************************************)
LEMMA CheckedIsPlain ==
    ASSUME NEW f \in Framing!Frame, Framing!CodeFits(f), NEW b \in BOOLEAN,
           Framing!BasicHeaderError(HeaderOf(f), b) = "none"
    PROVE  Plain(f)
  <1>1. /\ f.op \in Ops /\ f.fin \in BOOLEAN /\ f.rsv \in BOOLEAN /\ f.masked \in BOOLEAN
        /\ f.code \in 0 .. Framing!SizeCode64 /\ PayloadSizeBasic \in Nat
    BY FrameTypes
  <1>2. f.code \in Nat
    BY <1>1
  <1>3. /\ HeaderOf(f).op = f.op /\ HeaderOf(f).fin = f.fin /\ HeaderOf(f).rsv = f.rsv
        /\ HeaderOf(f).masked = f.masked /\ HeaderOf(f).code = f.code
    BY DEF HeaderOf
  <1> HIDE DEF HeaderOf
  <1> QED
    BY <1>1, <1>2, <1>3 DEF Plain, Framing!BasicHeaderError, Framing!IsControl

LEMMA SmallerIs ==
    ASSUME NEW a \in Nat, NEW b \in Nat
    PROVE  LET n == Framing!Smaller(a, b)
           IN  n \in Nat /\ n <= a /\ n <= b /\ (n = a \/ n = b) /\ n \in 0 .. b
  BY DEF Framing!Smaller

\* The bytes of the basic header that are there after n more.
LEMMA BasicHeaderBytes ==
    ASSUME LogInv, NEW i \in Nat, NEW c \in Nat, Place(i, c), reader_state = "HEADER_BASIC",
           buf # <<>>
    PROVE  LET b   == Framing!Bytes(frames[i])
               n   == Framing!Smaller(m_bytes_needed, Len(buf))
               got == m_basic_header \o SubSeq(buf, 1, n)
           IN  /\ n \in 0 .. Len(buf) /\ n <= m_bytes_needed /\ n > 0 /\ c + n <= 2
               /\ c + m_bytes_needed = 2
               /\ n < m_bytes_needed => c = 0 /\ n = 1 /\ m_bytes_needed = 2 /\ got = <<b[1]>>
               /\ n = m_bytes_needed => c + n = 2 /\ got[1] = b[1] /\ got[2] = b[2]
  <1> DEFINE f == frames[i]
             b == Framing!Bytes(f)
             n == Framing!Smaller(m_bytes_needed, Len(buf))
             part == SubSeq(buf, 1, n)
             got == m_basic_header \o part
             x == <<b[1]>>
  <1> HIDE DEF n
  <1>1. /\ i \in 1 .. Len(log) /\ i < Len(log) /\ Len(buf) \in Nat /\ Len(buf) > 0
    BY HasFrame
  <1>2. /\ c + m_bytes_needed = 2 /\ m_bytes_needed > 0 /\ m_bytes_needed \in Nat
        /\ m_basic_header = IF c = 0 THEN <<>> ELSE x
        /\ BufAt(log[i].end + c) /\ buf \in Wire
    BY DEF Place, AtBasic, BufAt
  <1>3. n \in Nat /\ n <= m_bytes_needed /\ n <= Len(buf) /\ n > 0 /\ n \in 0 .. Len(buf)
        /\ (n = m_bytes_needed \/ n = Len(buf))
    <2>1. n = IF m_bytes_needed < Len(buf) THEN m_bytes_needed ELSE Len(buf)
      BY DEF n, Framing!Smaller
    <2>2. m_bytes_needed \in Nat /\ m_bytes_needed > 0 /\ Len(buf) \in Nat /\ Len(buf) > 0
      BY <1>1, <1>2
    <2> QED
      BY <2>1, <2>2
  <1>4. c \in {0, 1} /\ (c = 0 => m_bytes_needed = 2) /\ (c = 1 => m_bytes_needed = 1)
    BY <1>2
  <1>5. f \in Framing!Frame /\ Framing!CodeFits(f) /\ Size(f) \in Nat /\ Size(f) >= 2
    <2>1. f \in Framing!Frame /\ Framing!CodeFits(f)
      BY <1>1, FrameAt
    <2>2. /\ Framing!LengthSize(f.code) \in Nat /\ Len(f.payload) \in Nat
      BY <2>1, FrameTypes
    <2> QED
      BY <2>1, <2>2 DEF Size
  <1>6. b \in Seq(WireByte) /\ Len(b) = Size(f) /\ b[1] \in WireByte /\ b[2] \in WireByte
    <2>1. b \in Seq(WireByte) /\ Len(b) = Size(f)
      BY <1>5, BytesOf DEF Wire
    <2>2. 1 \in 1 .. Len(b) /\ 2 \in 1 .. Len(b)
      BY <1>5, <2>1
    <2> QED
      BY <2>1, <2>2, ElementOfSeq
  <1>7. part \in Seq(WireByte) /\ Len(part) = n /\ \A k \in 1 .. n : part[k] = buf[k]
    BY <1>2, <1>3, BufTaken DEF Wire
  <1>8. \A k \in 1 .. Len(buf) : c + k <= Size(f) => buf[k] = b[c + k]
    BY <1>1, <1>2, BufIs
  <1>9. \A k \in 1 .. n : c + k <= 2 => part[k] = b[c + k]
    <2> SUFFICES ASSUME NEW k \in 1 .. n, c + k <= 2 PROVE part[k] = b[c + k]
      OBVIOUS
    <2>1. k \in 1 .. Len(buf) /\ c + k <= Size(f)
      BY <1>1, <1>3, <1>5
    <2> QED
      BY <1>7, <1>8, <2>1
  <1>10. got = m_basic_header \o part
    OBVIOUS
  <1> HIDE DEF got
  <1>13. x \in Seq(WireByte) /\ Len(x) = 1 /\ x[1] = b[1]
    BY <1>6, Singleton
  <1>14. n < m_bytes_needed => got = x /\ c = 0 /\ n = 1
    <2> HIDE DEF f, b, part, x
    <2> SUFFICES ASSUME n < m_bytes_needed PROVE got = x /\ c = 0 /\ n = 1
      OBVIOUS
    <2>1. n = 1 /\ 1 \in 1 .. n /\ c + 1 = 1 /\ c = 0 /\ c + 1 <= 2
      BY <1>3, <1>4
    <2>2. part[1] = b[1]
      BY <1>9, <2>1
    <2>3. Len(part) = Len(x) /\ \A k \in 1 .. Len(part) : part[k] = x[k]
      BY <1>7, <1>13, <2>1, <2>2
    <2>4. part = x
      BY <1>7, <1>13, <2>3, SeqEqual
    <2>5. got = part
      BY <1>2, <1>7, <1>10, <2>1, ConcatEmptySeq
    <2> QED
      BY <2>1, <2>4, <2>5
  <1>15. n = m_bytes_needed => c + n = 2 /\ got[1] = b[1] /\ got[2] = b[2]
    <2> HIDE DEF f, b, part, x
    <2> SUFFICES ASSUME n = m_bytes_needed PROVE c + n = 2 /\ got[1] = b[1] /\ got[2] = b[2]
      OBVIOUS
    <2>1. CASE c = 0
      <3>1. n = 2 /\ 1 \in 1 .. n /\ 2 \in 1 .. n /\ c + 1 = 1 /\ c + 2 = 2
        BY <1>4, <2>1
      <3>2. part[1] = b[1] /\ part[2] = b[2]
        BY <1>9, <3>1
      <3>3. got = part
        BY <1>2, <1>7, <1>10, <2>1, ConcatEmptySeq
      <3> QED
        BY <3>1, <3>2, <3>3
    <2>2. CASE c = 1
      <3>1. n = 1 /\ 1 \in 1 .. n /\ c + 1 = 2 /\ c # 0
        BY <1>4, <2>2
      <3>2. part[1] = b[2]
        BY <1>9, <3>1
      <3>3. got = x \o part
        BY <1>2, <1>10, <3>1
      <3>4. /\ \A k \in 1 .. Len(x) : (x \o part)[k] = x[k]
            /\ \A k \in 1 .. Len(part) : (x \o part)[Len(x) + k] = part[k]
        <4>1. x \in Seq(WireByte) /\ part \in Seq(WireByte)
          BY <1>7, <1>13
        <4> QED
          BY ONLY <4>1, Joined
      <3>5. got[1] = x[1] /\ got[1 + 1] = part[1]
        BY <1>7, <1>13, <3>1, <3>3, <3>4
      <3> QED
        BY <1>13, <2>2, <3>1, <3>2, <3>5
    <2> QED
      BY <1>4, <2>1, <2>2
  <1>16. n \in 0 .. Len(buf) /\ n <= m_bytes_needed /\ n > 0 /\ c + n <= 2 /\ c + m_bytes_needed = 2
    BY <1>2, <1>3
  <1> QED
    BY <1>4, <1>14, <1>15, <1>16 DEF n, got

LEMMA BufMoves ==
    ASSUME LogInv, NEW i \in 1 .. Len(log), NEW c \in Nat, BufAt(log[i].end + c),
           NEW n \in 0 .. Len(buf), NEW d, d = c + n,
           sent' = sent, seen' = seen, log' = log, buf' = Framing!Rest(n)
    PROVE  BufAt(log[i].end + d)'
  <1>1. log[i].end \in Nat /\ Len(buf) \in Nat
    BY StreamTypes, LenProperties DEF BufAt, Wire
  <1>2. PICK p \in Nat : p = log[i].end + c
    BY <1>1
  <1>3. BufAt(p + n)'
    BY <1>2, BufUsed
  <1>4. p + n = log[i].end + d
    <2>1. n \in Nat
      BY <1>1
    <2> QED
      BY <1>1, <1>2, <2>1
  <1>5. p + n = log'[i].end + d
    BY <1>4
  <1> QED
    BY <1>3, <1>5 DEF BufAt

\* The basic header: refused as the reference refuses it, or a plain one.
LEMMA HeaderBasicStep ==
    ASSUME LogInv, Framing!TypeOK, Messages, NEW i \in Nat, NEW c \in Nat, Place(i, c),
           Framing!CharactersEnd => Content(i, c), Framing!HeaderBasic
    PROVE  LogInv' /\ Framing!TypeOK' /\ (ec' = "none" => Reads') /\ (ec' # "none" => Failed')
  <1> DEFINE f == frames[i]
             o == log[i].open
  <1>1. PICK n : n = Framing!Smaller(m_bytes_needed, Len(buf))
    OBVIOUS
  <1>2. PICK got : got = m_basic_header \o SubSeq(buf, 1, n)
    OBVIOUS
  <1>3. PICK h : h = [op |-> got[1].op, fin |-> got[1].fin, rsv |-> got[1].rsv,
                      masked |-> got[2].masked, code |-> got[2].code]
    OBVIOUS
  <1>4. PICK e : e = Framing!BasicHeaderError(h, m_data_msg = Framing!NoMessage)
    OBVIOUS
  <1>5. /\ ec = "none" /\ reader_state = "HEADER_BASIC" /\ (buf # <<>> \/ m_bytes_needed = 0)
        /\ frames' = frames /\ sent' = sent /\ seen' = seen /\ log' = log
        /\ m_extended_header' = m_extended_header
        /\ m_data_msg' = m_data_msg /\ m_control_msg' = m_control_msg
        /\ m_current_msg' = m_current_msg /\ delivered' = delivered
        /\ buf' = Framing!Rest(n)
        /\ IF n < m_bytes_needed
           THEN /\ m_basic_header' = got /\ m_bytes_needed' = m_bytes_needed - n
                /\ reader_state' = reader_state /\ ec' = ec
           ELSE /\ m_basic_header' = h /\ ec' = e
                /\ IF e # "none"
                   THEN m_bytes_needed' = 0 /\ reader_state' = reader_state
                   ELSE /\ reader_state' = "HEADER_EXTENDED"
                        /\ m_bytes_needed' = Framing!ExtendedLength(h)
    BY <1>1, <1>2, <1>3, <1>4 DEF Framing!HeaderBasic, Framing!Turn
  <1>6. buf # <<>> /\ AtBasic(i, c)
    BY <1>5 DEF Place, AtBasic
  <1>7. LET b == Framing!Bytes(f)
        IN  /\ n \in 0 .. Len(buf) /\ n <= m_bytes_needed /\ n > 0 /\ c + n <= 2
            /\ c + m_bytes_needed = 2
            /\ n < m_bytes_needed => c = 0 /\ n = 1 /\ m_bytes_needed = 2 /\ got = <<b[1]>>
            /\ n = m_bytes_needed => c + n = 2 /\ got[1] = b[1] /\ got[2] = b[2]
    <2>1. reader_state = "HEADER_BASIC" /\ buf # <<>>
      BY <1>5, <1>6
    <2> HIDE DEF f
    <2>2. LET b == Framing!Bytes(frames[i])
          IN  /\ n \in 0 .. Len(buf) /\ n <= m_bytes_needed /\ n > 0 /\ c + n <= 2
              /\ c + m_bytes_needed = 2
              /\ n < m_bytes_needed => c = 0 /\ n = 1 /\ m_bytes_needed = 2 /\ got = <<b[1]>>
              /\ n = m_bytes_needed => c + n = 2 /\ got[1] = b[1] /\ got[2] = b[2]
      BY <1>1, <1>2, <2>1, BasicHeaderBytes
    <2> QED
      BY <2>2 DEF f
  <1>8. /\ LogInv' /\ Framing!Reference' = Framing!Reference
        /\ Framing!CharactersEnd' <=> Framing!CharactersEnd
    BY <1>5, LogStays
  <1>9. i \in 1 .. Len(log) /\ i < Len(log) /\ m_bytes_needed \in Nat
    BY <1>6, HasFrame DEF Place
  <1>10. f \in Framing!Frame /\ Framing!CodeFits(f) /\ o \in Msg /\ OpenOK(o)
         /\ FrameSent(i) /\ n \in Nat
    <2>1. n \in Nat
      BY <1>7, <1>9
    <2> QED
      BY <1>9, <2>1, FrameAt
  <1>11. Messages'
    BY <1>5 DEF Messages
  <1>12. BufAt(log[i].end + (c + n))'
    <2>1. BufAt(log[i].end + c)
      BY DEF Place
    <2> QED
      BY <1>5, <1>7, <1>9, <2>1, BufMoves
  <1>13. CASE n < m_bytes_needed
    <2>1. /\ c + n = 1 /\ m_bytes_needed' = 1 /\ m_basic_header' = <<Framing!Bytes(f)[1]>>
          /\ reader_state' = "HEADER_BASIC" /\ ec' = "none" /\ m_extended_header' = <<>>
      BY <1>5, <1>6, <1>7, <1>13 DEF AtBasic
    <2>2. AtBasic(i, 1)'
      BY <1>5, <2>1 DEF AtBasic
    <2>3. BufAt(log[i].end + 1)'
      BY <1>12, <2>1
    <2>4. Place(i, 1)'
      BY <1>5, <1>9, <2>1, <2>2, <2>3 DEF Place
    <2>5. Framing!CharactersEnd' => Content(i, 1)'
      BY <1>5, <1>8, <2>1 DEF Content
    <2>6. Framing!TypeOK'
      BY <1>5, <2>1 DEF Framing!TypeOK
    <2> QED
      BY <1>8, <1>11, <2>1, <2>4, <2>5, <2>6 DEF Reads
  <1>14. CASE ~(n < m_bytes_needed)
    <2>1. n = m_bytes_needed
      BY <1>7, <1>9, <1>10, <1>14
    <2>2. h = HeaderOf(f)
      <3>1. got[1] = [field |-> "b0", op |-> f.op, fin |-> f.fin, rsv |-> f.rsv]
            /\ got[2] = [field |-> "b1", masked |-> f.masked, code |-> f.code]
        BY <1>7, <1>10, <2>1, BytesOf
      <3> QED
        BY <1>3, <3>1 DEF HeaderOf
    <2>3. e = Framing!BasicHeaderError(HeaderOf(f), m_data_msg = Framing!NoMessage)
      BY <1>4, <2>2
    <2>4. Framing!CharactersEnd =>
            /\ log[i].code = "none" /\ delivered = log[i].out
            /\ m_data_msg = Holding(o.op, o.payload)
            /\ e = Framing!BasicHeaderError(HeaderOf(f), o = Framing!NoMessage)
      <3> SUFFICES ASSUME Framing!CharactersEnd
                   PROVE  /\ log[i].code = "none" /\ delivered = log[i].out
                          /\ m_data_msg = Holding(o.op, o.payload)
                          /\ e = Framing!BasicHeaderError(HeaderOf(f), o = Framing!NoMessage)
        OBVIOUS
      <3>1. /\ log[i].code = "none" /\ delivered = log[i].out
            /\ m_data_msg = Holding(o.op, o.payload)
        BY <1>5 DEF Content
      <3>2. m_data_msg = Framing!NoMessage <=> o = Framing!NoMessage
        BY <1>10, <3>1, Holdings
      <3>3. (m_data_msg = Framing!NoMessage) = (o = Framing!NoMessage)
        BY <3>2
      <3> QED
        BY <2>3, <3>1, <3>3
    <2>5. Framing!CharactersEnd => /\ e # "none" <=> BadHeader(f, o)
                                   /\ e # "none" => Framing!to_ws(e) = "protocol_error"
      <3> HIDE DEF f, o
      <3> QED
        BY <1>10, <2>4, BasicHeaderChecks
    <2>6. Framing!FrameCode(f, o) = "protocol_error" <=> BadHeader(f, o)
      <3> HIDE DEF f, o
      <3> QED
        BY FrameCodeIs
    <2>7. CASE e # "none"
      <3>1. Failed'
        <4> SUFFICES ASSUME Framing!CharactersEnd
                     PROVE  /\ delivered' = Framing!Reference'.out
                            /\ Framing!to_ws(ec') = Framing!Reference'.code
          BY <1>8 DEF Failed
        <4>1. /\ log[i].code = "none" /\ delivered = log[i].out
              /\ Framing!FrameCode(f, o) = "protocol_error" /\ Framing!to_ws(e) = "protocol_error"
          BY <2>4, <2>5, <2>6, <2>7
        <4>2. /\ Framing!Reference.out = log[i].out
              /\ Framing!Reference.code = "protocol_error"
          BY <1>9, <4>1, Refused
        <4> QED
          BY <1>5, <1>8, <1>14, <4>1, <4>2
      <3>2. ec' # "none" /\ Framing!TypeOK'
        BY <1>5, <1>14, <2>7 DEF Framing!TypeOK
      <3> QED
        BY <1>8, <3>1, <3>2
    <2>8. CASE e = "none"
      <3>1. Plain(f)
        <4>1. (m_data_msg = Framing!NoMessage) \in BOOLEAN
          OBVIOUS
        <4> QED
          BY <1>10, <2>3, <2>8, <4>1, CheckedIsPlain
      <3>2. /\ m_bytes_needed' = Framing!LengthSize(f.code) /\ reader_state' = "HEADER_EXTENDED"
            /\ m_basic_header' = HeaderOf(f) /\ ec' = "none" /\ m_extended_header' = <<>>
            /\ Framing!LengthSize(f.code) \in Nat
        <4>1. m_bytes_needed' = Framing!LengthSize(h.code) + (IF h.masked THEN 4 ELSE 0)
          BY <1>5, <1>14, <2>8 DEF Framing!ExtendedLength
        <4>2. h.code = f.code /\ h.masked = f.masked /\ ~f.masked
          BY <2>2, <3>1 DEF HeaderOf, Plain
        <4>3. Framing!LengthSize(f.code) \in Nat
          BY <1>10, FrameTypes
        <4> QED
          BY <1>5, <1>6, <1>14, <2>2, <2>8, <4>1, <4>2, <4>3 DEF AtBasic
      <3>3. AtExtended(i, 2)'
        <4>1. <<>> \in Wire /\ Len(<<>>) = 0 /\ 2 - 2 = 0
          BY EmptySeq DEF Wire
        <4> QED
          BY <1>5, <1>9, <3>1, <3>2, <4>1 DEF AtExtended
      <3>4. BufAt(log[i].end + 2)'
        BY <1>7, <1>12, <2>1
      <3>5. Place(i, 2)'
        BY <1>5, <1>9, <3>2, <3>3, <3>4 DEF Place
      <3>6. Framing!CharactersEnd' => Content(i, 2)'
        BY <1>5, <1>8, <2>4, <2>5, <2>6, <2>8, <3>2 DEF Content
      <3>7. Framing!TypeOK'
        BY <1>5, <3>2 DEF Framing!TypeOK
      <3> QED
        BY <1>8, <1>11, <3>2, <3>5, <3>6, <3>7 DEF Reads
    <2> QED
      BY <2>7, <2>8
  <1> QED
    BY <1>13, <1>14

\* More bytes of the length.
LEMMA HeaderExtendedPartStep ==
    ASSUME LogInv, Framing!TypeOK, Messages, NEW i \in Nat, NEW c \in Nat, Place(i, c),
           Framing!CharactersEnd => Content(i, c), Framing!HeaderExtendedPart
    PROVE  LogInv' /\ Framing!TypeOK' /\ (ec' = "none" => Reads') /\ (ec' # "none" => Failed')
  <1> DEFINE f == frames[i]
             b == Framing!Bytes(f)
  <1>1. PICK n : n = Framing!Smaller(m_bytes_needed, Len(buf))
    OBVIOUS
  <1>2. /\ ec = "none" /\ reader_state = "HEADER_EXTENDED" /\ buf # <<>>
        /\ frames' = frames /\ sent' = sent /\ seen' = seen /\ log' = log
        /\ reader_state' = reader_state /\ m_basic_header' = m_basic_header
        /\ m_data_msg' = m_data_msg /\ m_control_msg' = m_control_msg
        /\ m_current_msg' = m_current_msg /\ delivered' = delivered /\ ec' = ec
        /\ buf' = Framing!Rest(n) /\ m_bytes_needed' = m_bytes_needed - n
        /\ m_extended_header' = m_extended_header \o SubSeq(buf, 1, n)
    <2>1. m_bytes_needed > 0 /\ m_bytes_needed \in Nat
      BY DEF Framing!HeaderExtendedPart, Place
    <2> QED
      BY <1>1, <2>1 DEF Framing!HeaderExtendedPart, Framing!Turn
  <1>3. /\ i \in 1 .. Len(log) /\ i < Len(log) /\ Len(buf) \in Nat /\ m_bytes_needed \in Nat
        /\ BufAt(log[i].end + c) /\ buf \in Wire
    BY <1>2, HasFrame DEF Place, BufAt
  <1>4. n \in Nat /\ n <= m_bytes_needed /\ n \in 0 .. Len(buf) /\ n <= Len(buf)
    BY <1>1, <1>3, SmallerIs
  <1>5. /\ Plain(f) /\ m_basic_header = HeaderOf(f)
        /\ c >= 2 /\ c + m_bytes_needed = 2 + Framing!LengthSize(f.code)
        /\ m_extended_header \in Wire /\ Len(m_extended_header) = c - 2
        /\ \A k \in 1 .. c - 2 : m_extended_header[k] = b[2 + k]
    BY <1>2 DEF Place, AtExtended
  <1>6. /\ LogInv' /\ Framing!Reference' = Framing!Reference
        /\ Framing!CharactersEnd' <=> Framing!CharactersEnd
    BY <1>2, LogStays
  <1>7. Framing!LengthSize(f.code) \in Nat /\ Len(f.payload) \in Nat
        /\ Size(f) = 2 + Framing!LengthSize(f.code) + Len(f.payload)
    <2>1. f \in Framing!Frame /\ Framing!CodeFits(f)
      BY <1>3, FrameAt
    <2> HIDE DEF f
    <2> QED
      BY <2>1, FrameTypes DEF Size
  <1>8. BufAt(log[i].end + (c + n))'
    BY <1>2, <1>3, <1>4, BufMoves
  <1>9. \A k \in 1 .. Len(buf) : c + k <= Size(f) => buf[k] = b[c + k]
    BY <1>3, BufIs
  <1> DEFINE part == SubSeq(buf, 1, n)
  <1>10. part \in Wire /\ Len(part) = n /\ \A k \in 1 .. n : part[k] = buf[k]
    BY <1>3, <1>4, BufTaken
  <1>11. m_extended_header' = m_extended_header \o part
    BY <1>2
  <1> HIDE DEF f, b, part
  <1>12. /\ m_extended_header' \in Wire /\ Len(m_extended_header') = c - 2 + n
         /\ \A k \in 1 .. c - 2 : m_extended_header'[k] = m_extended_header[k]
         /\ \A k \in 1 .. n : m_extended_header'[c - 2 + k] = part[k]
    <2>1. m_extended_header \in Seq(WireByte) /\ part \in Seq(WireByte)
      BY <1>5, <1>10 DEF Wire
    <2>2. LET x == m_extended_header \o part
          IN  /\ x \in Seq(WireByte) /\ Len(x) = Len(m_extended_header) + Len(part)
              /\ \A k \in 1 .. Len(m_extended_header) : x[k] = m_extended_header[k]
              /\ \A k \in 1 .. Len(part) : x[Len(m_extended_header) + k] = part[k]
      BY ONLY <2>1, Joined
    <2> QED
      BY <1>5, <1>10, <1>11, <2>2 DEF Wire
  <1>13. \A k \in 1 .. c + n - 2 : m_extended_header'[k] = b[2 + k]
    <2> SUFFICES ASSUME NEW k \in 1 .. c + n - 2 PROVE m_extended_header'[k] = b[2 + k]
      OBVIOUS
    <2>1. CASE k <= c - 2
      <3>1. k \in 1 .. c - 2
        BY <2>1, <1>5
      <3> QED
        BY <1>5, <1>12, <3>1
    <2>2. CASE ~(k <= c - 2)
      <3> DEFINE j == k - (c - 2)
      <3>1. j \in 1 .. n /\ c - 2 + j = k /\ c + j = 2 + k /\ j \in 1 .. Len(buf)
        BY <1>3, <1>4, <1>5, <2>2
      <3>2. c + j <= Size(f)
        <4>1. j <= n /\ c + n <= 2 + Framing!LengthSize(f.code)
          BY <1>3, <1>4, <1>5, <1>7, <3>1
        <4> QED
          BY <1>4, <1>7, <3>1, <4>1
      <3> HIDE DEF j
      <3> QED
        BY <1>9, <1>10, <1>12, <3>1, <3>2
    <2> QED
      BY <2>1, <2>2
  <1> DEFINE d == c + n
             m == m_bytes_needed - n
  <1>14. /\ d \in Nat /\ d >= 2 /\ m \in Nat /\ d + m = 2 + Framing!LengthSize(f.code)
         /\ c - 2 + n = d - 2 /\ c + n - 2 = d - 2
    <2>1. PICK l \in Nat : l = Framing!LengthSize(f.code)
      BY <1>7
    <2>2. PICK q \in Nat : q = m_bytes_needed
      BY <1>3
    <2>3. c >= 2 /\ c + q = 2 + l /\ n <= q /\ m = q - n
      BY <1>4, <1>5, <2>1, <2>2
    <2>4. d \in Nat /\ d >= 2 /\ q - n \in Nat /\ d + (q - n) = 2 + l
      BY <1>4, <2>3
    <2> QED
      BY <1>4, <2>1, <2>3, <2>4
  <1>15. m_bytes_needed' = m /\ BufAt(log[i].end + d)'
    BY <1>2, <1>8
  <1>16. \A k \in 1 .. d - 2 : m_extended_header'[k] = b[2 + k]
    <2> HIDE DEF d
    <2> QED
      BY <1>13, <1>14
  <1>17. Len(m_extended_header') = d - 2
    BY <1>12, <1>14
  <1> HIDE DEF d, m
  <1>18. AtExtended(i, d)'
    BY <1>2, <1>3, <1>5, <1>12, <1>14, <1>15, <1>16, <1>17 DEF AtExtended, f, b
  <1>19. Place(i, d)'
    BY <1>2, <1>3, <1>14, <1>15, <1>18, SMTT(30) DEF Place
  <1>20. Framing!CharactersEnd' => Content(i, d)'
    BY <1>2, <1>6 DEF Content
  <1>21. Messages' /\ Framing!TypeOK' /\ ec' = "none"
    BY <1>2, <1>14, <1>15 DEF Messages, Framing!TypeOK
  <1> QED
    BY <1>6, <1>14, <1>19, <1>20, <1>21 DEF Reads

\* get_payload_size, when all bytes of the length are there.
LEMMA PayloadSizeIs ==
    ASSUME LogInv, NEW i \in 1 .. Len(log), NEW c \in Nat, AtExtended(i, c), m_bytes_needed = 0
    PROVE  /\ Framing!PayloadSize = Len(frames[i].payload)
           /\ c = 2 + Framing!LengthSize(frames[i].code) /\ i < Len(log)
           /\ Plain(frames[i]) /\ m_basic_header = HeaderOf(frames[i])
  <1> DEFINE f == frames[i]
             n == Framing!LengthSize(f.code)
             b == Framing!Bytes(f)
  <1>1. /\ i < Len(log) /\ Plain(f) /\ m_basic_header = HeaderOf(f)
        /\ c + m_bytes_needed = 2 + n /\ Len(m_extended_header) = c - 2
        /\ \A k \in 1 .. c - 2 : m_extended_header[k] = b[2 + k]
    BY DEF AtExtended
  <1>2. f \in Framing!Frame /\ Framing!CodeFits(f)
    BY <1>1, FrameAt
  <1> HIDE DEF f
  <1>3. /\ n \in Nat /\ PayloadSizeBasic \in Nat
        /\ f.code <= PayloadSizeBasic => f.code = Len(f.payload)
        /\ f.code > PayloadSizeBasic => n > 0
        /\ f.code \in 0 .. Framing!SizeCode64
    BY <1>2, FrameTypes
  <1>4. n > 0 => b[2 + n].v = Len(f.payload)
    BY <1>2, BytesOf
  <1> HIDE DEF n, b
  <1>5. c = 2 + n /\ Len(m_extended_header) = n /\ c - 2 = n
    BY <1>1, <1>3
  <1>6. n > 0 => m_extended_header[Len(m_extended_header)].v = Len(f.payload)
    <2>1. n > 0 => n \in 1 .. c - 2
      BY <1>3, <1>5
    <2> QED
      BY <1>1, <1>4, <1>5, <2>1
  <1>7. m_basic_header.code = f.code /\ f.code \in Nat
    BY <1>1, <1>3 DEF HeaderOf
  <1> QED
    BY <1>1, <1>3, <1>5, <1>6, <1>7 DEF Framing!PayloadSize, f, n

\* The whole header: refused for its length, or the message has a buffer.
LEMMA HeaderExtendedDoneStep ==
    ASSUME LogInv, Framing!TypeOK, Messages, NEW i \in Nat, NEW c \in Nat, Place(i, c),
           Framing!CharactersEnd => Content(i, c), Framing!HeaderExtendedDone
    PROVE  LogInv' /\ Framing!TypeOK' /\ (ec' = "none" => Reads') /\ (ec' # "none" => Failed')
  <1> DEFINE f == frames[i]
             o == log[i].open
             n == Framing!LengthSize(f.code)
             size == Len(f.payload)
  <1>1. /\ ec = "none" /\ reader_state = "HEADER_EXTENDED" /\ m_bytes_needed = 0
        /\ frames' = frames /\ sent' = sent /\ seen' = seen /\ log' = log /\ buf' = buf
        /\ m_basic_header' = m_basic_header /\ m_extended_header' = m_extended_header
        /\ delivered' = delivered
    BY DEF Framing!HeaderExtendedDone, Framing!Turn
  <1>2. i \in 1 .. Len(log) /\ AtExtended(i, c) /\ BufAt(log[i].end + c)
    BY <1>1 DEF Place
  <1>3. /\ Framing!PayloadSize = size /\ c = 2 + n /\ i < Len(log)
        /\ Plain(f) /\ m_basic_header = HeaderOf(f)
    BY <1>1, <1>2, PayloadSizeIs
  <1>4. f \in Framing!Frame /\ Framing!CodeFits(f) /\ o \in Msg /\ OpenOK(o)
    BY <1>2, <1>3, FrameAt
  <1>5. size \in Nat /\ n \in Nat /\ Size(f) = 2 + n + size /\ PayloadSizeBasic \in Nat
        /\ f.payload \in Payload /\ f.op \in Ops
    <2> HIDE DEF f
    <2> QED
      BY <1>4, FrameTypes DEF Size
  <1>6. /\ LogInv' /\ Framing!Reference' = Framing!Reference
        /\ Framing!CharactersEnd' <=> Framing!CharactersEnd
    BY <1>1, LogStays
  <1>7. m_basic_header.op = f.op /\ m_basic_header.code = f.code
    BY <1>3 DEF HeaderOf
  <1>8. IF Framing!ExtendedHeaderError # "none"
        THEN /\ ec' = Framing!ExtendedHeaderError
             /\ UNCHANGED <<reader_state, m_bytes_needed, m_data_msg, m_control_msg, m_current_msg>>
        ELSE /\ reader_state' = "APPLICATION" /\ m_bytes_needed' = size
             /\ IF Framing!IsControl(f.op)
                THEN /\ m_control_msg' = Framing!Message(f.op) /\ m_current_msg' = "control"
                     /\ m_data_msg' = m_data_msg /\ ec' = ec
                ELSE IF Framing!TooBig
                THEN /\ ec' = "message_too_big"
                     /\ UNCHANGED <<m_data_msg, m_control_msg, m_current_msg>>
                ELSE /\ m_data_msg' = IF m_data_msg = Framing!NoMessage THEN Framing!Message(f.op)
                                                                       ELSE m_data_msg
                     /\ m_current_msg' = "data" /\ m_control_msg' = m_control_msg /\ ec' = ec
    <2> HIDE DEF f, size
    <2> QED
      BY <1>3, <1>7 DEF Framing!HeaderExtendedDone
  <1>9. /\ Framing!ExtendedHeaderError # "none" <=> BadLength(f)
        /\ Framing!ExtendedHeaderError \in {"none", "non_minimal_encoding"}
    <2> HIDE DEF f
    <2> QED
      BY <1>3, <1>7 DEF Framing!ExtendedHeaderError, BadLength
  <1>10. Framing!TooBig <=> Len(m_data_msg.payload) + size > MaxMessageSize
    BY <1>3 DEF Framing!TooBig
  <1>11. Framing!CharactersEnd =>
            /\ log[i].code = "none" /\ delivered = log[i].out
            /\ m_data_msg = Holding(o.op, o.payload) /\ m_data_msg.payload = o.payload
            /\ ~BadHeader(f, o)
    <2>1. Framing!CharactersEnd =>
            /\ log[i].code = "none" /\ delivered = log[i].out
            /\ m_data_msg = Holding(o.op, o.payload)
            /\ Framing!FrameCode(f, o) # "protocol_error"
      BY <1>1 DEF Content
    <2>2. Framing!FrameCode(f, o) # "protocol_error" => ~BadHeader(f, o)
      <3> HIDE DEF f, o
      <3> QED
        BY FrameCodeIs
    <2> QED
      BY <2>1, <2>2 DEF Holding
  <1>12. MaxMessageSize \in Nat
    BY SizesAssumption
  <1>13. \/ /\ Framing!IsControl(f.op) /\ f.op \notin Framing!DataOps /\ f.op # "none"
         \/ /\ ~Framing!IsControl(f.op) /\ f.op \in Framing!DataOps /\ f.op # "none"
    <2>1. f.op # "none"
      BY <1>5, Opcodes
    <2> HIDE DEF f
    <2> QED
      BY <1>3, <1>4, <2>1, PlainOpcode
  <1> HIDE DEF f, o, n, size
  <1>14. CASE Framing!ExtendedHeaderError # "none"
    <2>1. ec' = "non_minimal_encoding" /\ ec' # "none" /\ Framing!TypeOK'
      BY <1>8, <1>9, <1>14 DEF Framing!TypeOK
    <2>2. Failed'
      <3> SUFFICES ASSUME Framing!CharactersEnd
                   PROVE  /\ delivered' = Framing!Reference'.out
                          /\ Framing!to_ws(ec') = Framing!Reference'.code
        BY <1>6 DEF Failed
      <3>1. Framing!FrameCode(f, o) = "internal_endpoint_error"
        BY <1>9, <1>11, <1>14, FrameCodeIs
      <3>2. /\ Framing!Reference.out = log[i].out
            /\ Framing!Reference.code = "internal_endpoint_error"
        BY <1>2, <1>3, <1>11, <3>1, Refused DEF f, o
      <3>3. Framing!to_ws("non_minimal_encoding") = "internal_endpoint_error"
        BY DEF Framing!to_ws
      <3> QED
        BY <1>1, <1>6, <1>11, <2>1, <3>2, <3>3
    <2> QED
      BY <1>6, <2>1, <2>2
  <1>15. CASE Framing!ExtendedHeaderError = "none" /\ ~Framing!IsControl(f.op) /\ Framing!TooBig
    <2>1. ec' = "message_too_big" /\ ec' # "none"
      BY <1>8, <1>15
    <2>2. Framing!TypeOK'
      BY <1>5, <1>8, <1>15 DEF Framing!TypeOK
    <2>3. Failed'
      <3> SUFFICES ASSUME Framing!CharactersEnd
                   PROVE  /\ delivered' = Framing!Reference'.out
                          /\ Framing!to_ws(ec') = Framing!Reference'.code
        BY <1>6 DEF Failed
      <3>1. BadSize(f, o)
        BY <1>10, <1>11, <1>13, <1>15 DEF BadSize, size
      <3>2. Framing!FrameCode(f, o) = "message_too_big"
        BY <1>9, <1>11, <1>15, <3>1, FrameCodeIs
      <3>3. /\ Framing!Reference.out = log[i].out
            /\ Framing!Reference.code = "message_too_big"
        BY <1>2, <1>3, <1>11, <3>2, Refused DEF f, o
      <3>4. Framing!to_ws("message_too_big") = "message_too_big"
        BY DEF Framing!to_ws
      <3> QED
        BY <1>1, <1>6, <1>11, <2>1, <3>3, <3>4
    <2> QED
      BY <1>6, <2>1, <2>2, <2>3
  <1>16. CASE /\ Framing!ExtendedHeaderError = "none"
              /\ Framing!IsControl(f.op) \/ ~Framing!TooBig
    <2>1. /\ reader_state' = "APPLICATION" /\ m_bytes_needed' = size /\ ec' = "none"
          /\ m_current_msg' = IF Framing!IsControl(f.op) THEN "control" ELSE "data"
      BY <1>1, <1>8, <1>16
    <2>2. <<>> \in Payload /\ Len(<<>>) = 0 /\ f.op \in Ops \cup {"none"}
      BY <1>5, EmptySeq DEF Payload
    <2>3. Framing!Message(f.op) = Holding(f.op, <<>>) /\ Holding(f.op, <<>>) \in Msg
          /\ Holding(f.op, <<>>).op = f.op /\ Holding(f.op, <<>>).payload = <<>>
      BY <1>4, <2>2, Holdings, HoldingType
    <2>4. Messages'
      BY <1>8, <1>13, <1>16, <2>3 DEF Messages
    <2>5. /\ Framing!IsControl(f.op) => m_control_msg' = Holding(f.op, <<>>) /\ m_data_msg' = m_data_msg
          /\ ~Framing!IsControl(f.op) =>
                /\ m_data_msg' = IF m_data_msg = Framing!NoMessage THEN Holding(f.op, <<>>) ELSE m_data_msg
                /\ Len(m_data_msg.payload) + size <= MaxMessageSize
      <3>1. Len(m_data_msg.payload) \in Nat
        BY LenProperties DEF Messages, Msg, Payload
      <3> QED
        BY <1>5, <1>8, <1>10, <1>12, <1>16, <2>3, <3>1
    <2>6. Framing!Current'.op # "none"
      <3>1. m_data_msg # Framing!NoMessage => m_data_msg.op # "none"
        BY DEF Messages
      <3> QED
        BY <1>13, <2>1, <2>3, <2>5, <3>1 DEF Framing!Current
    <2>7. m_current_msg' = "data" => Len(m_data_msg'.payload) + m_bytes_needed' <= MaxMessageSize
      <3> SUFFICES ASSUME m_current_msg' = "data"
                   PROVE  Len(m_data_msg'.payload) + size <= MaxMessageSize
        BY <2>1
      <3>1. ~Framing!IsControl(f.op)
        BY <2>1
      <3>2. m_data_msg = Framing!NoMessage => m_data_msg.payload = <<>>
        BY DEF Framing!NoMessage
      <3>3. m_data_msg'.payload = m_data_msg.payload
        BY <2>3, <2>5, <3>1, <3>2
      <3> QED
        BY <2>5, <3>1, <3>3
    <2>8. AtPayload(i, c)'
      <3>1. c >= 2 + n /\ c + size = Size(f)
        BY <1>3, <1>5
      <3> QED
        BY <1>1, <1>3, <2>1, <2>6, <2>7, <3>1 DEF AtPayload, f, n
    <2>9. Place(i, c)'
      <3>1. BufAt(log[i].end + c)'
        BY <1>1, <1>2 DEF BufAt
      <3> QED
        BY <1>1, <1>2, <1>3, <1>5, <2>1, <2>8, <3>1 DEF Place
    <2>10. Framing!CharactersEnd' => Content(i, c)'
      <3> SUFFICES ASSUME Framing!CharactersEnd PROVE Content(i, c)'
        BY <1>6
      <3>1. Framing!FrameCode(f, o) \in {"none", "invalid_payload"}
        <4>1. ~BadSize(f, o)
          <5> SUFFICES ASSUME f.op \in Framing!DataOps
                       PROVE  ~(Len(o.payload) + Len(f.payload) > MaxMessageSize)
            BY DEF BadSize
          <5>1. Len(o.payload) + size <= MaxMessageSize /\ Len(f.payload) = size
            BY <1>11, <1>13, <2>5 DEF size
          <5>2. Len(o.payload) \in Nat
            BY <1>4, LenProperties DEF Msg, Payload
          <5> QED
            BY <1>5, <1>12, <5>1, <5>2
        <4> QED
          BY <1>9, <1>11, <1>16, <4>1, FrameCodeIs
      <3>2. SubSeq(f.payload, 1, 0) = <<>> /\ c - (2 + n) = 0
        BY <1>3, <1>5, SubSeqEmpty
      <3>3. Framing!IsControl(f.op) =>
               m_control_msg' = Holding(f.op, <<>>) /\ m_data_msg' = Holding(o.op, o.payload)
        BY <1>11, <2>5
      <3>4. ~Framing!IsControl(f.op) =>
               m_data_msg' = Holding(Framing!OpOf(f, o), o.payload \o <<>>)
        <4> SUFFICES ASSUME ~Framing!IsControl(f.op)
                     PROVE  m_data_msg' = Holding(Framing!OpOf(f, o), o.payload \o <<>>)
          OBVIOUS
        <4>1. f.op \in Framing!DataOps
          BY <1>13
        <4>2. o.payload \in Payload /\ o.payload \o <<>> = o.payload
          BY <1>4, ConcatEmptySeq DEF Msg, Payload
        <4>3. CASE o = Framing!NoMessage
          <5>1. Framing!OpOf(f, o) = f.op
            BY <1>4, <1>11, <4>1, <4>3, MessageOf
          <5>2. o.payload = <<>>
            BY <4>3 DEF Framing!NoMessage
          <5>3. m_data_msg = Framing!NoMessage
            BY <1>4, <1>11, <4>3, Holdings
          <5> QED
            BY <2>5, <4>2, <5>1, <5>2, <5>3
        <4>4. CASE o # Framing!NoMessage
          <5>1. Framing!OpOf(f, o) = o.op
            BY <1>4, <1>11, <4>1, <4>4, MessageOf
          <5>2. m_data_msg # Framing!NoMessage
            BY <1>4, <1>11, <4>4, Holdings
          <5> QED
            BY <1>11, <2>5, <4>2, <5>1, <5>2
        <4> QED
          BY <4>3, <4>4
      <3>5. HeldPayload(i, c)'
        BY <1>1, <3>2, <3>3, <3>4 DEF HeldPayload, f, o, n
      <3> QED
        BY <1>1, <1>11, <2>1, <3>1, <3>5 DEF Content, f, o
    <2>11. Framing!TypeOK'
      BY <1>5, <2>1 DEF Framing!TypeOK
    <2> QED
      BY <1>6, <2>1, <2>4, <2>9, <2>10, <2>11 DEF Reads
  <1> QED
    BY <1>14, <1>15, <1>16

\* The bytes that Application takes are the next ones of the frame's payload.
LEMMA PayloadGrows ==
    ASSUME LogInv, NEW i \in 1 .. Len(log), NEW c \in Nat, AtPayload(i, c),
           BufAt(log[i].end + c), m_bytes_needed \in Nat
    PROVE  LET f   == frames[i]
               q   == c - (2 + Framing!LengthSize(f.code))
               n   == Framing!Smaller(m_bytes_needed, Len(buf))
               new == [k \in 1 .. n |-> buf[k].v]
           IN  /\ n \in 0 .. Len(buf) /\ n <= m_bytes_needed /\ n \in Nat
               /\ q \in Nat /\ q + m_bytes_needed = Len(f.payload) /\ Len(f.payload) \in Nat
               /\ new \in Payload /\ Len(new) = n
               /\ SubSeq(f.payload, 1, q) \in Payload /\ SubSeq(f.payload, 1, q + n) \in Payload
               /\ SubSeq(f.payload, 1, q) \o new = SubSeq(f.payload, 1, q + n)
  <1> DEFINE f   == frames[i]
             l   == Framing!LengthSize(f.code)
             q   == c - (2 + l)
             n   == Framing!Smaller(m_bytes_needed, Len(buf))
             new == [k \in 1 .. n |-> buf[k].v]
             b   == Framing!Bytes(f)
  <1>1. i < Len(log) /\ c >= 2 + l /\ c + m_bytes_needed = Size(f)
    BY DEF AtPayload
  <1>2. f \in Framing!Frame /\ Framing!CodeFits(f)
    BY <1>1, FrameAt
  <1>3. /\ l \in Nat /\ Len(f.payload) \in Nat /\ Size(f) = 2 + l + Len(f.payload)
        /\ f.payload \in Payload
    <2> HIDE DEF f
    <2> QED
      BY <1>2, FrameTypes DEF Size
  <1>4. /\ buf \in Wire /\ Len(buf) \in Nat
    BY LenProperties DEF BufAt, Wire
  <1>5. n \in Nat /\ n <= m_bytes_needed /\ n \in 0 .. Len(buf) /\ n <= Len(buf)
    BY <1>4, SmallerIs
  <1>6. \A k \in 1 .. Len(buf) : c + k <= Size(f) => buf[k] = b[c + k]
    BY <1>1, BufIs
  <1>7. \A k \in 1 .. Len(f.payload) : b[2 + l + k].v = f.payload[k]
    BY <1>2, BytesOf
  <1> HIDE DEF f, l, n, b
  <1>8. q \in Nat /\ q + m_bytes_needed = Len(f.payload) /\ q + n <= Len(f.payload)
        /\ c = 2 + l + q
    <2>1. c + m_bytes_needed = 2 + l + Len(f.payload)
      BY <1>1, <1>3
    <2>2. q \in Nat /\ q + m_bytes_needed = Len(f.payload) /\ c = 2 + l + q
      <3>1. PICK s \in Nat : s = Len(f.payload)
        BY <1>3
      <3>2. PICK m \in Nat : m = m_bytes_needed
        OBVIOUS
      <3>3. c >= 2 + l /\ c + m = 2 + l + s /\ q = c - (2 + l)
        BY <1>1, <2>1, <3>1, <3>2
      <3> HIDE DEF q
      <3>4. q \in Nat /\ q + m = s /\ c = 2 + l + q
        BY <1>3, <3>3
      <3> QED
        BY <3>1, <3>2, <3>4
    <2> QED
      BY <1>5, <2>2
  <1> HIDE DEF q
  <1>9. \A k \in 1 .. n : new[k] = f.payload[q + k] /\ q + k \in 1 .. Len(f.payload)
    <2> SUFFICES ASSUME NEW k \in 1 .. n
                 PROVE  buf[k].v = f.payload[q + k] /\ q + k \in 1 .. Len(f.payload)
      OBVIOUS
    <2>1. k \in Nat /\ k > 0 /\ k <= n
      BY <1>5
    <2>2. q + k \in 1 .. Len(f.payload) /\ k \in 1 .. Len(buf)
      BY <1>3, <1>4, <1>5, <1>8, <2>1
    <2>3. c + k <= Size(f) /\ c + k = 2 + l + (q + k)
      <3>1. q + k <= Len(f.payload)
        BY <1>3, <1>8, <2>1, <2>2
      <3> QED
        <4>1. PICK s \in Nat : s = Len(f.payload)
          BY <1>3
        <4>2. PICK t \in Nat : t = q
          BY <1>8
        <4>3. t + k <= s /\ c = 2 + l + t
          BY <1>8, <3>1, <4>1, <4>2
        <4>4. c + k <= 2 + l + s /\ c + k = 2 + l + (t + k)
          BY <1>3, <2>1, <4>3
        <4> QED
          BY <1>3, <4>1, <4>2, <4>4
    <2>4. buf[k] = b[2 + l + (q + k)]
      BY <1>6, <2>2, <2>3
    <2> QED
      BY <1>7, <2>2, <2>4
  <1>10. \A k \in 1 .. Len(f.payload) : f.payload[k] \in Framing!PayloadByte
    BY <1>3, ElementOfSeq DEF Payload
  <1>11. new \in Seq(Framing!PayloadByte) /\ Len(new) = n
    <2>1. new \in [1 .. n -> Framing!PayloadByte]
      <3>1. \A k \in 1 .. n : buf[k].v \in Framing!PayloadByte
        BY <1>9, <1>10
      <3> QED
        BY <3>1
    <2> HIDE DEF new
    <2> QED
      BY <1>5, <2>1, FunctionIsSeq
  <1> HIDE DEF new
  <1> DEFINE part == SubSeq(f.payload, 1, q)
             more == SubSeq(f.payload, 1, q + n)
             both == part \o new
  <1>12. /\ part \in Seq(Framing!PayloadByte) /\ Len(part) = q
         /\ \A k \in 1 .. q : part[k] = f.payload[k]
    <2>1. /\ f.payload \in Seq(Framing!PayloadByte) /\ 0 \in Nat /\ 0 + q <= Len(f.payload)
          /\ 0 + 1 = 1 /\ 0 + q = q /\ \A k \in 1 .. q : 0 + k = k
      BY <1>3, <1>5, <1>8 DEF Payload
    <2>2. LET s == SubSeq(f.payload, 0 + 1, 0 + q)
          IN  /\ s \in Seq(Framing!PayloadByte) /\ Len(s) = q
              /\ \A k \in 1 .. q : s[k] = f.payload[0 + k]
      BY <1>8, <2>1, PartOf
    <2> QED
      BY <2>1, <2>2
  <1>13. /\ more \in Seq(Framing!PayloadByte) /\ Len(more) = q + n
         /\ \A k \in 1 .. q + n : more[k] = f.payload[k]
    <2> DEFINE m == q + n
    <2>1. m \in Nat /\ m <= Len(f.payload)
      BY <1>5, <1>8
    <2> HIDE DEF m
    <2>2. /\ f.payload \in Seq(Framing!PayloadByte) /\ 0 \in Nat /\ 0 + m <= Len(f.payload)
          /\ 0 + 1 = 1 /\ 0 + m = m /\ \A k \in 1 .. m : 0 + k = k
      BY <1>3, <2>1 DEF Payload
    <2>3. LET s == SubSeq(f.payload, 0 + 1, 0 + m)
          IN  /\ s \in Seq(Framing!PayloadByte) /\ Len(s) = m
              /\ \A k \in 1 .. m : s[k] = f.payload[0 + k]
      BY <2>1, <2>2, PartOf
    <2> QED
      BY <2>2, <2>3 DEF m
  <1> HIDE DEF part, more
  <1>14. /\ both \in Seq(Framing!PayloadByte) /\ Len(both) = q + n
         /\ \A k \in 1 .. q : both[k] = part[k]
         /\ \A k \in 1 .. n : both[q + k] = new[k]
    <2>1. /\ both \in Seq(Framing!PayloadByte) /\ Len(both) = Len(part) + Len(new)
          /\ \A k \in 1 .. Len(part) : both[k] = part[k]
          /\ \A k \in 1 .. Len(new) : both[Len(part) + k] = new[k]
      <3>1. part \in Seq(Framing!PayloadByte) /\ new \in Seq(Framing!PayloadByte)
        BY <1>11, <1>12
      <3> QED
        BY ONLY <3>1, Joined
    <2> QED
      BY <1>11, <1>12, <2>1
  <1> HIDE DEF both
  <1>15. both = more
    <2>1. \A k \in 1 .. q + n : both[k] = more[k]
      <3> SUFFICES ASSUME NEW k \in 1 .. q + n PROVE both[k] = more[k]
        OBVIOUS
      <3>1. CASE k <= q
        <4>1. k \in 1 .. q
          BY <1>8, <3>1
        <4> QED
          BY <1>12, <1>13, <1>14, <4>1
      <3>2. CASE ~(k <= q)
        <4> DEFINE j == k - q
        <4>1. j \in 1 .. n /\ q + j = k
          BY <1>5, <1>8, <3>2
        <4> HIDE DEF j
        <4>2. both[q + j] = new[j] /\ new[j] = f.payload[q + j]
          BY <1>9, <1>14, <4>1
        <4> QED
          BY <1>13, <4>1, <4>2
      <3> QED
        BY <3>1, <3>2
    <2> QED
      BY <1>13, <1>14, <2>1, SeqEqual
  <1> QED
    BY <1>3, <1>5, <1>8, <1>11, <1>12, <1>13, <1>15 DEF f, l, q, n, new, part, more, both, Payload

\* A message of which more is read.
LEMMA HoldingMore ==
    ASSUME NEW op, NEW p \in Payload, NEW a \in Payload
    PROVE  /\ Grown(Holding(op, p), a) = Holding(op, p \o a)
           /\ Verdict(Holding(op, p), a) = Holding(op, p \o a).validator
  <1> DEFINE m == Holding(op, p)
             v == Verdict(m, a)
             u == IF op = "text" THEN Framing!Utf8("accept", p) ELSE "accept"
             w == IF op = "text" THEN Framing!Utf8("accept", p \o a) ELSE "accept"
  <1>1. m = [op |-> op, payload |-> p, validator |-> u]
    BY DEF Holding
  <1>2. Holding(op, p \o a) = [op |-> op, payload |-> p \o a, validator |-> w]
    BY DEF Holding
  <1>3. Framing!Utf8("accept", p \o a) = Framing!Utf8(Framing!Utf8("accept", p), a)
    BY Utf8Joined
  <1>4. m.op = op /\ m.payload = p /\ m.validator = u
    <2> HIDE DEF m, u
    <2> QED
      BY <1>1
  <1>5. v = w
    <2>1. v = IF op = "text" THEN Framing!Utf8(u, a) ELSE u
      <3> HIDE DEF m, u
      <3> QED
        BY <1>4 DEF Verdict
    <2> QED
      BY <1>3, <2>1
  <1> HIDE DEF m, u, v, w
  <1>6. [m EXCEPT !.payload = @ \o a, !.validator = v] = [op |-> op, payload |-> p \o a, validator |-> v]
    <2> DEFINE x == p \o a
    <2>1. m.payload \o a = x
      BY <1>4
    <2> HIDE DEF x
    <2>2. [m EXCEPT !.payload = x, !.validator = v] = [op |-> op, payload |-> x, validator |-> v]
      <3> DEFINE y == [m EXCEPT !.payload = x]
      <3>1. y = [op |-> op, payload |-> x, validator |-> u]
        BY <1>1
      <3> HIDE DEF y
      <3>2. [y EXCEPT !.validator = v] = [op |-> op, payload |-> x, validator |-> v]
        BY <3>1
      <3> QED
        BY <3>2 DEF y
    <2>3. [m EXCEPT !.payload = m.payload \o a, !.validator = v]
             = [op |-> op, payload |-> x, validator |-> v]
      BY <2>1, <2>2
    <2> QED
      BY <2>3 DEF x
  <1>7. Holding(op, p \o a).validator = w
    BY <1>2
  <1>8. Grown(m, a) = [m EXCEPT !.payload = @ \o a, !.validator = v]
    BY DEF Grown, v
  <1> QED
    BY <1>2, <1>5, <1>6, <1>7, <1>8 DEF m, v

LEMMA MessageGrows ==
    ASSUME NEW m \in Msg, NEW a \in Payload
    PROVE  /\ Grown(m, a) \in Msg /\ Grown(m, a).op = m.op /\ Grown(m, a).validator = Verdict(m, a)
           /\ Len(Grown(m, a).payload) = Len(m.payload) + Len(a) /\ Len(m.payload) \in Nat
           /\ Verdict(m, a) \in Validation
  <1> DEFINE p == m.payload \o a
             v == Verdict(m, a)
  <1>1. p \in Payload /\ Len(p) = Len(m.payload) + Len(a) /\ Len(m.payload) \in Nat
    BY Joined, LenProperties DEF Msg, Payload
  <1>2. v \in Validation
    <2>1. m.validator \in Validation
      BY DEF Msg
    <2> QED
      BY <2>1, Utf8Type DEF Verdict
  <1> HIDE DEF p, v
  <1>3. LET x == [m EXCEPT !.payload = p, !.validator = v]
        IN  x \in Msg /\ x.op = m.op /\ x.payload = p /\ x.validator = v
    BY <1>1, <1>2 DEF Msg
  <1>4. Grown(m, a) = [m EXCEPT !.payload = p, !.validator = v]
    BY DEF Grown, p, v
  <1> QED
    BY <1>1, <1>2, <1>3, <1>4 DEF v

\* What the validator says of the payload read so far, against what the reference says of
\* the frame.
LEMMA TextVerdict ==
    ASSUME NEW f \in Framing!Frame, Framing!CodeFits(f), NEW o \in Msg, OpenOK(o), ~BadHeader(f, o),
           Framing!FrameCode(f, o) \in {"none", "invalid_payload"},
           NEW m \in 0 .. Len(f.payload)
    PROVE  LET code == Framing!FrameCode(f, o)
               v == IF f.op \in Framing!DataOps
                    THEN Holding(Framing!OpOf(f, o), o.payload \o SubSeq(f.payload, 1, m)).validator
                    ELSE "accept"
           IN  /\ v = "reject" => code = "invalid_payload"
               /\ m = Len(f.payload) /\ v # "reject" =>
                     /\ f.fin /\ f.op = "text" /\ v # "accept" => code = "invalid_payload"
                     /\ ~f.fin => code = "none"
                     /\ f.fin /\ ~(f.op = "text" /\ v # "accept") /\ ~Framing!EndsInside(f, o)
                           => code = "none"
  <1> DEFINE code == Framing!FrameCode(f, o)
             op == Framing!OpOf(f, o)
             part == SubSeq(f.payload, 1, m)
             v == IF f.op \in Framing!DataOps THEN Holding(op, o.payload \o part).validator ELSE "accept"
             w == Framing!Utf8("accept", o.payload \o f.payload)
             u == Framing!Utf8("accept", o.payload \o part)
  <1>1. /\ code \in {"none", "invalid_payload"} /\ (code = "invalid_payload" <=> BadText(f, o))
    BY FrameCodeIs
  <1>2. BadText(f, o) <=> Framing!IsText(f, o) /\ (w = "reject" \/ (f.fin /\ w # "accept"))
    BY DEF BadText
  <1>3. /\ f.op \in Framing!DataOps => (Framing!IsText(f, o) <=> op = "text")
        /\ f.op \notin Framing!DataOps => ~Framing!IsText(f, o)
    BY MessageOf
  <1>4. v = IF f.op \in Framing!DataOps /\ op = "text" THEN u ELSE "accept"
    BY DEF Holding
  <1>5. f.payload \in Payload /\ Len(f.payload) \in Nat /\ o.payload \in Payload /\ f.fin \in BOOLEAN
    BY FrameTypes DEF Msg
  <1>6. m \in Nat /\ m <= Len(f.payload)
    BY <1>5
  <1> HIDE DEF code, op, v
  <1>7. u = "reject" => w = "reject"
    <2> DEFINE r == Len(f.payload) - m
               rest == SubSeq(f.payload, m + 1, m + r)
               a == o.payload \o part
    <2>1. r \in Nat /\ m + r = Len(f.payload) /\ 0 \in Nat /\ 0 + m <= Len(f.payload)
          /\ 0 + 1 = 1 /\ 0 + m = m /\ m + r <= Len(f.payload)
      BY <1>5, <1>6
    <2> HIDE DEF r
    <2>2. part \in Payload
      <3>1. SubSeq(f.payload, 0 + 1, 0 + m) \in Seq(Framing!PayloadByte)
        BY <1>5, <1>6, <2>1, PartOf DEF Payload
      <3> QED
        BY <2>1, <3>1 DEF Payload
    <2>3. rest \in Payload
      BY <1>5, <1>6, <2>1, PartOf DEF Payload
    <2>4. part \o rest = f.payload
      <3>1. 1 \in 1 .. Len(f.payload) + 1 /\ m \in 1 - 1 .. Len(f.payload)
            /\ Len(f.payload) \in m .. Len(f.payload) /\ f.payload \in Seq(Framing!PayloadByte)
        BY <1>5, <1>6 DEF Payload
      <3>2. SubSeq(f.payload, 1, m) \o SubSeq(f.payload, m + 1, Len(f.payload))
               = SubSeq(f.payload, 1, Len(f.payload))
        BY <3>1, ConcatAdjacentSubSeq
      <3>3. SubSeq(f.payload, 1, Len(f.payload)) = f.payload
        BY <3>1, SubSeqFull
      <3> QED
        BY <2>1, <3>2, <3>3
    <2>5. a \in Payload
      BY <1>5, <2>2, Joined DEF Payload
    <2>6. a \o rest = o.payload \o f.payload
      <3> HIDE DEF part, rest
      <3>1. (o.payload \o part) \o rest = o.payload \o (part \o rest)
        <4>1. /\ o.payload \in Seq(Framing!PayloadByte) /\ part \in Seq(Framing!PayloadByte)
              /\ rest \in Seq(Framing!PayloadByte)
          BY <1>5, <2>2, <2>3 DEF Payload
        <4>2. \A x, y, z \in Seq(Framing!PayloadByte) : (x \o y) \o z = x \o (y \o z)
          BY ConcatAssociative, SMTT(30)
        <4> QED
          BY ONLY <4>1, <4>2, Zenon
      <3> QED
        BY <2>4, <3>1
    <2> HIDE DEF part, rest
    <2>7. Framing!Utf8("accept", a \o rest) = Framing!Utf8(Framing!Utf8("accept", a), rest)
      <3> HIDE DEF a
      <3> QED
        BY <2>3, <2>5, Utf8Joined
    <2>8. Framing!Utf8("reject", rest) = "reject"
      BY DEF Framing!Utf8
    <2> QED
      BY <2>6, <2>7, <2>8
  <1>8. m = Len(f.payload) => u = w
    <2>1. SubSeq(f.payload, 1, Len(f.payload)) = f.payload
      BY <1>5, SubSeqFull DEF Payload
    <2> QED
      BY <2>1
  <1>9. ~Framing!EndsInside(f, o) /\ f.fin /\ f.op # "text" /\ Framing!IsText(f, o) => w # "inside"
    <2>1. f.op # "text" /\ Framing!IsText(f, o) => f.op = "continuation" /\ o.op = "text"
      BY DEF Framing!IsText
    <2> QED
      BY <2>1 DEF Framing!EndsInside
  <1>10. w \in {"accept", "inside", "reject"}
    <2>1. o.payload \o f.payload \in Payload /\ "accept" \in Validation
      BY <1>5, Joined DEF Payload, Validation
    <2> QED
      BY <2>1, Utf8Type DEF Validation
  <1>11. f.op = "text" => Framing!IsText(f, o) /\ f.op \in Framing!DataOps
    BY DEF Framing!IsText, Framing!DataOps
  <1> HIDE DEF u, w, part
  <1>12. /\ v = "reject" => code = "invalid_payload"
         /\ m = Len(f.payload) /\ v # "reject" =>
               /\ f.fin /\ f.op = "text" /\ v # "accept" => code = "invalid_payload"
               /\ ~f.fin => code = "none"
               /\ f.fin /\ ~(f.op = "text" /\ v # "accept") /\ ~Framing!EndsInside(f, o)
                     => code = "none"
    BY <1>1, <1>2, <1>3, <1>4, <1>5, <1>7, <1>8, <1>9, <1>10, <1>11
  <1> QED
    BY <1>12 DEF code, v, op, part

\* What Application makes of the message under construction.
LEMMA ApplicationMessage ==
    ASSUME LogInv, Messages, NEW i \in Nat, NEW c \in Nat, Place(i, c),
           Framing!CharactersEnd => Content(i, c), reader_state = "APPLICATION"
    PROVE  LET f    == frames[i]
               o    == log[i].open
               q    == c - (2 + Framing!LengthSize(f.code))
               cur  == Framing!Current
               n    == Framing!Smaller(m_bytes_needed, Len(buf))
               new  == [k \in 1 .. n |-> buf[k].v]
               v    == Verdict(cur, new)
               x    == Grown(cur, new)
               part == SubSeq(f.payload, 1, q + n)
           IN  /\ x \in Msg /\ x.op # "none"
               /\ m_current_msg = "data" => Len(x.payload) + (m_bytes_needed - n) <= MaxMessageSize
               /\ Framing!CharactersEnd =>
                     /\ v = IF f.op \in Framing!DataOps
                            THEN Holding(Framing!OpOf(f, o), o.payload \o part).validator
                            ELSE "accept"
                     /\ Framing!IsControl(f.op) => x = Holding(f.op, part)
                     /\ ~Framing!IsControl(f.op) => x = Holding(Framing!OpOf(f, o), o.payload \o part)
  <1> DEFINE f    == frames[i]
             o    == log[i].open
             q    == c - (2 + Framing!LengthSize(f.code))
             cur  == Framing!Current
             n    == Framing!Smaller(m_bytes_needed, Len(buf))
             new  == [k \in 1 .. n |-> buf[k].v]
             v    == Verdict(cur, new)
             x    == Grown(cur, new)
             part == SubSeq(f.payload, 1, q)
             more == SubSeq(f.payload, 1, q + n)
  <1>1. /\ i \in 1 .. Len(log) /\ AtPayload(i, c) /\ BufAt(log[i].end + c) /\ m_bytes_needed \in Nat
    BY DEF Place
  <1>2. /\ n \in Nat /\ n <= m_bytes_needed /\ new \in Payload /\ Len(new) = n
        /\ part \in Payload /\ more \in Payload /\ part \o new = more
    BY <1>1, PayloadGrows
  <1>3. /\ i < Len(log) /\ Plain(f) /\ cur.op # "none"
        /\ m_current_msg = IF Framing!IsControl(f.op) THEN "control" ELSE "data"
        /\ m_current_msg = "data" => Len(m_data_msg.payload) + m_bytes_needed <= MaxMessageSize
    BY <1>1 DEF AtPayload
  <1>4. f \in Framing!Frame /\ Framing!CodeFits(f) /\ o \in Msg /\ OpenOK(o)
    BY <1>1, <1>3, FrameAt
  <1>5. cur \in Msg /\ cur = IF m_current_msg = "data" THEN m_data_msg ELSE m_control_msg
    BY DEF Framing!Current, Messages
  <1>6. \/ /\ Framing!IsControl(f.op) /\ f.op \notin Framing!DataOps
           /\ f.op \in Framing!ControlOps
        \/ /\ ~Framing!IsControl(f.op) /\ f.op \in Framing!DataOps
    <2> HIDE DEF f
    <2> QED
      BY <1>3, <1>4, PlainOpcode
  <1> HIDE DEF cur, n, new, part, more
  <1>8. /\ x \in Msg /\ x.op = cur.op
        /\ Len(x.payload) = Len(cur.payload) + Len(new) /\ Len(cur.payload) \in Nat
    BY <1>2, <1>5, MessageGrows
  <1>9. m_current_msg = "data" => Len(x.payload) + (m_bytes_needed - n) <= MaxMessageSize
    <2> SUFFICES ASSUME m_current_msg = "data"
                 PROVE  Len(x.payload) + (m_bytes_needed - n) <= MaxMessageSize
      OBVIOUS
    <2>1. PICK a \in Nat : a = Len(cur.payload)
      BY <1>8
    <2>2. PICK m \in Nat : m = m_bytes_needed
      BY <1>1
    <2>3. a + m <= MaxMessageSize /\ Len(x.payload) = a + n
      BY <1>2, <1>3, <1>5, <1>8, <2>1, <2>2
    <2>4. a + n + (m - n) = a + m
      BY <1>2
    <2> HIDE DEF x
    <2> QED
      BY <2>2, <2>3, <2>4
  <1>10. ASSUME Framing!CharactersEnd
         PROVE  /\ v = IF f.op \in Framing!DataOps
                       THEN Holding(Framing!OpOf(f, o), o.payload \o more).validator ELSE "accept"
                /\ Framing!IsControl(f.op) => x = Holding(f.op, more)
                /\ ~Framing!IsControl(f.op) => x = Holding(Framing!OpOf(f, o), o.payload \o more)
    <2>1. HeldPayload(i, c)
      BY <1>10 DEF Content
    <2>2. o.payload \in Payload
      BY <1>4 DEF Msg
    <2>3. CASE Framing!IsControl(f.op)
      <3>1. cur = Holding(f.op, part)
        BY <1>3, <1>5, <2>1, <2>3 DEF HeldPayload, part
      <3>2. x = Holding(f.op, part \o new) /\ v = Holding(f.op, part \o new).validator
        BY <1>2, <3>1, HoldingMore
      <3>3. f.op # "text"
        BY <1>6, <2>3, Opcodes
      <3>4. Holding(f.op, more).validator = "accept"
        BY <3>3 DEF Holding
      <3> HIDE DEF x, v, f
      <3> QED
        BY <1>2, <1>6, <2>3, <3>2, <3>4
    <2>4. CASE ~Framing!IsControl(f.op)
      <3> DEFINE op == Framing!OpOf(f, o)
                 a == o.payload \o part
      <3>1. cur = Holding(op, a)
        BY <1>3, <1>5, <2>1, <2>4 DEF HeldPayload, part
      <3>2. a \in Payload
        BY <1>2, <2>2, Joined DEF Payload
      <3>3. a \o new = o.payload \o more
        <4>1. \A y, z, w \in Payload : (y \o z) \o w = y \o (z \o w)
          BY ConcatAssociative, SMTT(30) DEF Payload
        <4>2. (o.payload \o part) \o new = o.payload \o (part \o new)
          BY <1>2, <2>2, <4>1, Zenon
        <4> QED
          BY <1>2, <4>2
      <3> HIDE DEF a, op
      <3>4. x = Holding(op, a \o new) /\ v = Holding(op, a \o new).validator
        BY <1>2, <3>1, <3>2, HoldingMore
      <3> HIDE DEF x, v, f, o
      <3> QED
        BY <1>6, <2>4, <3>3, <3>4 DEF op
    <2> QED
      BY <2>3, <2>4
  <1> HIDE DEF x, v
  <1>11. /\ x \in Msg /\ x.op # "none"
         /\ m_current_msg = "data" => Len(x.payload) + (m_bytes_needed - n) <= MaxMessageSize
    BY <1>3, <1>8, <1>9
  <1> QED
    BY <1>10, <1>11 DEF f, o, q, cur, n, new, v, x, more

\* The reader stands before the next frame.
LEMMA NextPlace ==
    ASSUME LogInv, NEW i \in 1 .. Len(log), i < Len(log), NEW c \in Nat, c = Size(frames[i]),
           BufAt(log[i].end + c)', UNCHANGED <<frames, sent, log>>, Framing!ResetHeaders
    PROVE  Place(i + 1, 0)'
  <1>1. /\ log' = log /\ reader_state' = "HEADER_BASIC" /\ m_bytes_needed' = 2
        /\ m_basic_header' = <<>> /\ m_extended_header' = <<>>
    BY DEF Framing!ResetHeaders
  <1>2. FrameSent(i) /\ i + 1 \in 1 .. Len(log) /\ log[i + 1] \in Said /\ Size(frames[i]) \in Nat
    BY FrameAt
  <1>3. log[i + 1].end = log[i].end + c /\ log[i + 1].end \in Nat
    BY <1>2 DEF FrameSent, Said
  <1>4. log[i + 1].end + 0 = log[i + 1].end
    BY <1>3
  <1>5. BufAt(log[i + 1].end + 0)'
    BY <1>1, <1>3, <1>4 DEF BufAt
  <1>6. AtBasic(i + 1, 0)'
    BY <1>1 DEF AtBasic
  <1> QED
    BY <1>1, <1>2, <1>5, <1>6 DEF Place

\* What the reference says of a frame that it lets pass.
LEMMA FramePassed ==
    ASSUME LogInv, NEW i \in 1 .. Len(log), i < Len(log), log[i].code = "none",
           Framing!FrameCode(frames[i], log[i].open) = "none"
    PROVE  LET f   == frames[i]
               o   == log[i].open
               all == [op |-> Framing!OpOf(f, o), payload |-> Framing!AllOf(f, o)]
           IN  /\ log[i + 1].code = "none"
               /\ IF f.fin
                  THEN /\ log[i + 1].out = Append(log[i].out, all)
                       /\ log[i + 1].open = IF f.op \in Framing!DataOps THEN Framing!NoMessage ELSE o
                  ELSE /\ log[i + 1].out = log[i].out /\ f.op \in Framing!DataOps
                       /\ log[i + 1].open.op = all.op /\ log[i + 1].open.payload = all.payload
  <1>1. /\ frames[i] \in Framing!Frame /\ Framing!CodeFits(frames[i]) /\ FrameSent(i)
        /\ log[i] \in Said /\ OpenOK(log[i].open)
    BY FrameAt
  <1>2. log[i + 1] = Framing!ReadFrame(log[i], frames[i])
    BY <1>1 DEF FrameSent
  <1> QED
    BY <1>1, <1>2, ReadFrameIs

LEMMA ApplicationStep ==
    ASSUME LogInv, Framing!TypeOK, Messages, NEW i \in Nat, NEW c \in Nat, Place(i, c),
           Framing!CharactersEnd => Content(i, c), Framing!Application
    PROVE  LogInv' /\ Framing!TypeOK' /\ (ec' = "none" => Reads') /\ (ec' # "none" => Failed')
  <1> DEFINE f    == frames[i]
             o    == log[i].open
             l    == 2 + Framing!LengthSize(f.code)
             q    == c - l
             cur  == Framing!Current
             n    == Framing!Smaller(m_bytes_needed, Len(buf))
             new  == [k \in 1 .. n |-> buf[k].v]
             v    == Verdict(cur, new)
             x    == Grown(cur, new)
             part == SubSeq(f.payload, 1, q + n)
             code == Framing!FrameCode(f, o)
  <1>1. /\ ec = "none" /\ reader_state = "APPLICATION"
        /\ frames' = frames /\ sent' = sent /\ seen' = seen /\ log' = log
        /\ m_current_msg' = m_current_msg /\ delivered' = delivered
        /\ buf' = Framing!Rest(n) /\ Framing!SetCurrent(x)
        /\ IF v = "reject"
           THEN ec' = "invalid_utf8" /\ UNCHANGED <<reader_state, m_bytes_needed>>
           ELSE IF n # m_bytes_needed
           THEN /\ m_bytes_needed' = m_bytes_needed - n
                /\ UNCHANGED <<reader_state, m_basic_header, ec>>
           ELSE IF ~m_basic_header.fin
           THEN Framing!ResetHeaders /\ ec' = ec
           ELSE /\ m_bytes_needed' = 0
                /\ IF m_basic_header.op = "text" /\ v # "accept"
                   THEN ec' = "invalid_utf8" /\ reader_state' = reader_state
                   ELSE reader_state' = "READY" /\ ec' = ec
                /\ m_basic_header' = m_basic_header
    BY DEF Framing!Application, Framing!Turn, Grown, Verdict
  <1>2. /\ i \in 1 .. Len(log) /\ AtPayload(i, c) /\ BufAt(log[i].end + c) /\ m_bytes_needed \in Nat
    BY <1>1 DEF Place
  <1>3. /\ n \in 0 .. Len(buf) /\ n \in Nat /\ n <= m_bytes_needed
        /\ q \in Nat /\ q + m_bytes_needed = Len(f.payload) /\ Len(f.payload) \in Nat
    BY <1>2, PayloadGrows
  <1>4. /\ i < Len(log) /\ Plain(f) /\ m_basic_header = HeaderOf(f) /\ c >= l
        /\ c + m_bytes_needed = Size(f)
        /\ m_current_msg = IF Framing!IsControl(f.op) THEN "control" ELSE "data"
    BY <1>2 DEF AtPayload
  <1>5. f \in Framing!Frame /\ Framing!CodeFits(f) /\ o \in Msg /\ OpenOK(o) /\ o.payload \in Payload
    BY <1>2, <1>4, FrameAt DEF Msg
  <1>6. /\ x \in Msg /\ x.op # "none"
        /\ m_current_msg = "data" => Len(x.payload) + (m_bytes_needed - n) <= MaxMessageSize
        /\ Framing!CharactersEnd =>
              /\ v = IF f.op \in Framing!DataOps
                     THEN Holding(Framing!OpOf(f, o), o.payload \o part).validator ELSE "accept"
              /\ Framing!IsControl(f.op) => x = Holding(f.op, part)
              /\ ~Framing!IsControl(f.op) => x = Holding(Framing!OpOf(f, o), o.payload \o part)
    BY <1>1, ApplicationMessage
  <1>7. /\ LogInv' /\ Framing!Reference' = Framing!Reference
        /\ Framing!CharactersEnd' <=> Framing!CharactersEnd
    BY <1>1, LogStays
  <1>8. m_basic_header.op = f.op /\ m_basic_header.fin = f.fin
    BY <1>4 DEF HeaderOf
  <1>9. \/ /\ Framing!IsControl(f.op) /\ f.op \notin Framing!DataOps /\ f.fin
        \/ /\ ~Framing!IsControl(f.op) /\ f.op \in Framing!DataOps
    <2> HIDE DEF f
    <2> QED
      BY <1>4, <1>5, PlainOpcode
  <1>10. Framing!CharactersEnd =>
            /\ log[i].code = "none" /\ delivered = log[i].out /\ HeldPayload(i, c)
            /\ code \in {"none", "invalid_payload"} /\ ~BadHeader(f, o) /\ ~Framing!EndsInside(f, o)
    <2>1. Framing!CharactersEnd =>
            /\ log[i].code = "none" /\ delivered = log[i].out /\ HeldPayload(i, c)
            /\ code \in {"none", "invalid_payload"}
      BY <1>1 DEF Content
    <2>2. code \in {"none", "invalid_payload"} => ~BadHeader(f, o)
      <3> HIDE DEF f, o
      <3> QED
        BY FrameCodeIs
    <2>3. Framing!CharactersEnd => ~Framing!EndsInside(f, o)
      <3>1. i \in 1 .. Len(log) - 1
        BY <1>2, <1>4, StreamTypes
      <3> QED
        BY <3>1 DEF Framing!CharactersEnd
    <2> QED
      BY <2>1, <2>2, <2>3
  <1> HIDE DEF cur, n, new, v, x, part, code
  <1>11. Framing!CharactersEnd =>
            /\ v = "reject" => code = "invalid_payload"
            /\ n = m_bytes_needed /\ v # "reject" =>
                  /\ f.fin /\ f.op = "text" /\ v # "accept" => code = "invalid_payload"
                  /\ ~f.fin => code = "none"
                  /\ f.fin /\ ~(f.op = "text" /\ v # "accept") => code = "none"
    <2> SUFFICES ASSUME Framing!CharactersEnd
                 PROVE  /\ v = "reject" => code = "invalid_payload"
                        /\ n = m_bytes_needed /\ v # "reject" =>
                              /\ f.fin /\ f.op = "text" /\ v # "accept" => code = "invalid_payload"
                              /\ ~f.fin => code = "none"
                              /\ f.fin /\ ~(f.op = "text" /\ v # "accept") => code = "none"
      OBVIOUS
    <2> DEFINE m == q + n
    <2>1. m \in 0 .. Len(f.payload) /\ (n = m_bytes_needed => m = Len(f.payload))
      <3> HIDE DEF q, f
      <3> QED
        BY <1>2, <1>3
    <2>2. part = SubSeq(f.payload, 1, m)
      BY DEF part
    <2> HIDE DEF m, q, f, o
    <2>3. Framing!FrameCode(f, o) \in {"none", "invalid_payload"} /\ ~BadHeader(f, o)
          /\ ~Framing!EndsInside(f, o)
      BY <1>10 DEF code
    <2> DEFINE u == IF f.op \in Framing!DataOps
                    THEN Holding(Framing!OpOf(f, o), o.payload \o SubSeq(f.payload, 1, m)).validator
                    ELSE "accept"
    <2>4. v = u
      BY <1>6, <2>2
    <2>5. LET e == Framing!FrameCode(f, o)
          IN  /\ u = "reject" => e = "invalid_payload"
              /\ m = Len(f.payload) /\ u # "reject" =>
                    /\ f.fin /\ f.op = "text" /\ u # "accept" => e = "invalid_payload"
                    /\ ~f.fin => e = "none"
                    /\ f.fin /\ ~(f.op = "text" /\ u # "accept") /\ ~Framing!EndsInside(f, o) => e = "none"
      BY <1>5, <2>1, <2>3, TextVerdict
    <2> HIDE DEF u
    <2> QED
      BY <2>1, <2>3, <2>4, <2>5 DEF code
  <1>12. ASSUME ec' = "invalid_utf8", Framing!CharactersEnd => code = "invalid_payload"
         PROVE  ec' # "none" /\ Failed'
    <2> SUFFICES ASSUME Framing!CharactersEnd
                 PROVE  /\ delivered' = Framing!Reference'.out
                        /\ Framing!to_ws(ec') = Framing!Reference'.code
      BY <1>7, <1>12 DEF Failed
    <2>1. /\ Framing!Reference.out = log[i].out
          /\ Framing!Reference.code = "invalid_payload"
      BY <1>2, <1>4, <1>10, <1>12, Refused DEF code
    <2>2. Framing!to_ws("invalid_utf8") = "invalid_payload"
      BY DEF Framing!to_ws
    <2> QED
      BY <1>1, <1>7, <1>10, <1>12, <2>1, <2>2
  <1>13. /\ m_current_msg = "data" => m_data_msg' = x /\ m_control_msg' = m_control_msg
         /\ m_current_msg # "data" => m_control_msg' = x /\ m_data_msg' = m_data_msg
         /\ Messages' /\ m_current_msg' \in {"data", "control"}
    <2>1. /\ m_current_msg = "data" => m_data_msg' = x /\ m_control_msg' = m_control_msg
          /\ m_current_msg # "data" => m_control_msg' = x /\ m_data_msg' = m_data_msg
      BY <1>1 DEF Framing!SetCurrent
    <2>2. Messages'
      BY <1>6, <2>1 DEF Messages
    <2> QED
      BY <1>1, <2>1, <2>2 DEF Framing!TypeOK
  \* The message holds the payload up to here.
  <1>14. Framing!CharactersEnd =>
            IF Framing!IsControl(f.op)
            THEN m_control_msg' = Holding(f.op, part) /\ m_data_msg' = Holding(o.op, o.payload)
            ELSE m_data_msg' = Holding(Framing!OpOf(f, o), o.payload \o part)
    <2>1. HeldPayload(i, c) /\ Framing!IsControl(f.op) => m_data_msg = Holding(o.op, o.payload)
      BY DEF HeldPayload
    <2> HIDE DEF f, o
    <2> QED
      BY <1>4, <1>6, <1>10, <1>13, <2>1
  <1>15. PICK d \in Nat : d = c + n
    BY <1>3
  <1>16. BufAt(log[i].end + d)'
    BY <1>1, <1>2, <1>3, <1>15, BufMoves
  <1> HIDE DEF f, o, l
  <1>17. CASE v = "reject"
    <2>1. Framing!TypeOK'
      BY <1>1, <1>13, <1>17 DEF Framing!TypeOK
    <2> QED
      BY <1>1, <1>7, <1>11, <1>12, <1>17, <2>1
  \* More of the frame is to come, or the message is complete.
  <1>18. ASSUME m_bytes_needed' = m_bytes_needed - n, m_basic_header' = m_basic_header, ec' = "none",
                \/ reader_state' = "APPLICATION"
                \/ /\ reader_state' = "READY" /\ n = m_bytes_needed /\ f.fin
                   /\ Framing!CharactersEnd => code = "none"
         PROVE  Framing!TypeOK' /\ Reads'
    <2>1. PICK m \in Nat : m = m_bytes_needed
      BY <1>2
    <2>2. /\ m_bytes_needed' \in Nat /\ d >= l /\ d + m_bytes_needed' = Size(f)
          /\ n = m_bytes_needed => m_bytes_needed' = 0
      <3>1. l \in Nat /\ Size(f) \in Nat
        BY <1>5, FrameTypes DEF l
      <3>2. m_bytes_needed' = m - n /\ c + m = Size(f) /\ n <= m
        BY <1>3, <1>4, <1>18, <2>1
      <3> QED
        BY <1>3, <1>4, <1>15, <2>1, <3>1, <3>2
    <2>3. Framing!TypeOK'
      BY <1>13, <1>18, <2>2 DEF Framing!TypeOK
    <2>4. AtPayload(i, d)'
      <3>1. Framing!Current' = x
        BY <1>1, <1>13, <1>18 DEF Framing!Current, Framing!TypeOK
      <3>2. m_current_msg' = "data" => Len(m_data_msg'.payload) + m_bytes_needed' <= MaxMessageSize
        BY <1>1, <1>6, <1>13, <1>18
      <3> QED
        BY <1>1, <1>4, <1>6, <1>18, <2>2, <3>1, <3>2 DEF AtPayload, f, l
    <2>5. Place(i, d)'
      BY <1>1, <1>2, <1>4, <1>18, <1>16, <2>2, <2>4 DEF Place, f
    <2>6. Framing!CharactersEnd' => Content(i, d)'
      <3> SUFFICES ASSUME Framing!CharactersEnd PROVE Content(i, d)'
        BY <1>7
      <3>1. SubSeq(f.payload, 1, d - l) = part
        <4>1. d - l = q + n
          <5>1. l \in Nat
            BY <1>5, FrameTypes DEF l
          <5> QED
            BY <1>3, <1>15, <5>1 DEF q
        <4> QED
          BY <4>1 DEF part
      <3>2. HeldPayload(i, d)'
        BY <1>1, <1>14, <3>1 DEF HeldPayload, f, o, l
      <3>3. /\ log[i].code = "none" /\ delivered = log[i].out
            /\ code \in {"none", "invalid_payload"}
        BY <1>10
      <3> QED
        BY <1>1, <1>18, <3>2, <3>3 DEF Content, f, o, code
    <2> QED
      BY <1>13, <2>2, <2>3, <2>5, <2>6 DEF Reads
  <1>19. CASE v # "reject" /\ n # m_bytes_needed
    BY <1>1, <1>7, <1>18, <1>19
  <1>20. CASE v # "reject" /\ n = m_bytes_needed /\ f.fin
    <2>1. m_bytes_needed' = 0 /\ m_bytes_needed' = m_bytes_needed - n /\ m_basic_header' = m_basic_header
      BY <1>1, <1>2, <1>8, <1>20
    <2>2. CASE f.op = "text" /\ v # "accept"
      <3>1. Framing!TypeOK'
        BY <1>1, <1>8, <1>13, <1>20, <2>1, <2>2 DEF Framing!TypeOK
      <3> QED
        BY <1>1, <1>7, <1>8, <1>11, <1>12, <1>20, <2>2, <3>1
    <2>3. CASE ~(f.op = "text" /\ v # "accept")
      <3>1. reader_state' = "READY" /\ ec' = "none"
        BY <1>1, <1>8, <1>20, <2>3
      <3> QED
        BY <1>7, <1>11, <1>18, <1>20, <2>1, <2>3, <3>1
    <2> QED
      BY <2>2, <2>3
  <1>21. CASE v # "reject" /\ n = m_bytes_needed /\ ~f.fin
    <2>1. Framing!ResetHeaders /\ ec' = "none"
      BY <1>1, <1>8, <1>21
    <2>2. reader_state' = "HEADER_BASIC" /\ m_bytes_needed' = 2
      BY <2>1 DEF Framing!ResetHeaders
    <2>3. Framing!TypeOK'
      BY <1>13, <2>2 DEF Framing!TypeOK
    <2>4. d = Size(f)
      BY <1>3, <1>4, <1>15, <1>21
    <2>5. Place(i + 1, 0)'
      <3>1. d = Size(frames[i])
        BY <2>4 DEF f
      <3> QED
        BY <1>1, <1>2, <1>4, <1>16, <2>1, <3>1, NextPlace DEF f
    <2>6. ~Framing!IsControl(f.op) /\ f.op \in Framing!DataOps
      BY <1>9, <1>21
    <2>7. Framing!CharactersEnd' => Content(i + 1, 0)'
      <3> SUFFICES ASSUME Framing!CharactersEnd PROVE Content(i + 1, 0)'
        BY <1>7
      <3>1. code = "none"
        BY <1>11, <1>21
      <3>2. /\ log[i + 1].code = "none" /\ log[i + 1].out = log[i].out
            /\ log[i + 1].open.op = Framing!OpOf(f, o)
            /\ log[i + 1].open.payload = Framing!AllOf(f, o)
        BY <1>2, <1>4, <1>10, <1>21, <3>1, FramePassed DEF f, o, code
      <3>3. part = f.payload
        <4>1. q + n = Len(f.payload)
          BY <1>3, <1>21
        <4>2. SubSeq(f.payload, 1, Len(f.payload)) = f.payload
          BY <1>5, FrameTypes, SubSeqFull DEF Payload
        <4> QED
          BY <4>1, <4>2 DEF part
      <3>4. Framing!AllOf(f, o) = o.payload \o f.payload
        BY <2>6 DEF Framing!AllOf
      <3>5. m_data_msg' = Holding(log[i + 1].open.op, log[i + 1].open.payload)
        BY <1>14, <2>6, <3>2, <3>3, <3>4
      <3> QED
        BY <1>1, <1>10, <2>2, <3>2, <3>5 DEF Content
    <2>8. i + 1 \in Nat
      OBVIOUS
    <2> QED
      BY <1>7, <1>13, <2>1, <2>3, <2>5, <2>7, <2>8 DEF Reads
  <1> QED
    BY <1>17, <1>19, <1>20, <1>21

\* A message that is complete is handed over.
LEMMA GetMessageStep ==
    ASSUME LogInv, Framing!TypeOK, Messages, NEW i \in Nat, NEW c \in Nat, Place(i, c),
           Framing!CharactersEnd => Content(i, c), Framing!GetMessage
    PROVE  LogInv' /\ Framing!TypeOK' /\ (ec' = "none" => Reads') /\ (ec' # "none" => Failed')
  <1> DEFINE f   == frames[i]
             o   == log[i].open
             l   == 2 + Framing!LengthSize(f.code)
             cur == Framing!Current
             all == [op |-> Framing!OpOf(f, o), payload |-> Framing!AllOf(f, o)]
  <1>1. /\ ec = "none" /\ ec' = "none" /\ reader_state = "READY"
        /\ frames' = frames /\ sent' = sent /\ seen' = seen /\ log' = log /\ buf' = buf
        /\ m_current_msg' = m_current_msg
        /\ delivered' = Append(delivered, [op |-> cur.op, payload |-> cur.payload])
        /\ Framing!SetCurrent(Framing!NoMessage) /\ Framing!ResetHeaders
    BY DEF Framing!GetMessage
  <1>2. /\ i \in 1 .. Len(log) /\ AtPayload(i, c) /\ BufAt(log[i].end + c) /\ m_bytes_needed = 0
        /\ f.fin
    BY <1>1 DEF Place
  <1>3. /\ i < Len(log) /\ Plain(f)
        /\ m_current_msg = IF Framing!IsControl(f.op) THEN "control" ELSE "data"
    BY <1>2 DEF AtPayload
  <1>4. f \in Framing!Frame /\ Framing!CodeFits(f) /\ o \in Msg /\ OpenOK(o) /\ o.payload \in Payload
    BY <1>2, <1>3, FrameAt DEF Msg
  <1>5. /\ l \in Nat /\ f.payload \in Payload /\ Len(f.payload) \in Nat /\ Size(f) = l + Len(f.payload)
        /\ f.op \in Ops
    <2> HIDE DEF f
    <2> QED
      BY <1>4, FrameTypes DEF Size
  <1>6. c = Size(f) /\ c - l = Len(f.payload)
    <2>1. c + m_bytes_needed = Size(f)
      BY <1>2 DEF AtPayload
    <2> HIDE DEF f, l
    <2> QED
      BY <1>2, <1>5, <2>1
  <1>7. /\ LogInv' /\ Framing!Reference' = Framing!Reference
        /\ Framing!CharactersEnd' <=> Framing!CharactersEnd
    BY <1>1, LogStays
  <1>8. \/ /\ Framing!IsControl(f.op) /\ f.op \notin Framing!DataOps
        \/ /\ ~Framing!IsControl(f.op) /\ f.op \in Framing!DataOps
    <2> HIDE DEF f
    <2> QED
      BY <1>3, <1>4, PlainOpcode
  <1>9. reader_state' = "HEADER_BASIC" /\ m_bytes_needed' = 2
    BY <1>1 DEF Framing!ResetHeaders
  <1>10. /\ m_current_msg = "data" => m_data_msg' = Framing!NoMessage /\ m_control_msg' = m_control_msg
         /\ m_current_msg # "data" => m_control_msg' = Framing!NoMessage /\ m_data_msg' = m_data_msg
    BY <1>1 DEF Framing!SetCurrent
  <1>11. Framing!NoMessage \in Msg /\ Framing!NoMessage = Holding("none", <<>>)
    <2>1. Framing!NoMessage = Holding("none", <<>>)
      BY <1>4, Holdings
    <2> QED
      BY <2>1, Utf8Empty, HoldingType
  <1>12. Messages' /\ Framing!TypeOK'
    BY <1>1, <1>9, <1>10, <1>11 DEF Messages, Framing!TypeOK
  <1>13. Place(i + 1, 0)'
    <2>1. BufAt(log[i].end + c)'
      BY <1>1, <1>2 DEF BufAt
    <2> QED
      BY <1>1, <1>2, <1>3, <1>6, <2>1, NextPlace
  <1>14. Framing!CharactersEnd' => Content(i + 1, 0)'
    <2> SUFFICES ASSUME Framing!CharactersEnd PROVE Content(i + 1, 0)'
      BY <1>7
    <2>1. /\ log[i].code = "none" /\ delivered = log[i].out /\ HeldPayload(i, c)
          /\ Framing!FrameCode(f, o) = "none"
      BY <1>1 DEF Content
    <2>2. /\ log[i + 1].code = "none" /\ log[i + 1].out = Append(log[i].out, all)
          /\ log[i + 1].open = IF f.op \in Framing!DataOps THEN Framing!NoMessage ELSE o
      BY <1>2, <1>3, <2>1, FramePassed
    <2>3. SubSeq(f.payload, 1, c - l) = f.payload
      <3>1. SubSeq(f.payload, 1, Len(f.payload)) = f.payload
        BY <1>5, SubSeqFull DEF Payload
      <3> QED
        BY <1>6, <3>1
    <2>4. IF Framing!IsControl(f.op)
          THEN m_control_msg = Holding(f.op, f.payload) /\ m_data_msg = Holding(o.op, o.payload)
          ELSE m_data_msg = Holding(Framing!OpOf(f, o), o.payload \o f.payload)
      BY <2>1, <2>3 DEF HeldPayload
    <2> HIDE DEF f, o, l
    <2>5. cur.op = all.op /\ cur.payload = all.payload
      <3>1. CASE Framing!IsControl(f.op)
        <4>1. cur = Holding(f.op, f.payload)
          BY <1>3, <2>4, <3>1 DEF Framing!Current
        <4>2. Framing!OpOf(f, o) = f.op /\ Framing!AllOf(f, o) = f.payload
          BY <1>8, <3>1 DEF Framing!OpOf, Framing!AllOf, Framing!DataOps
        <4> QED
          BY <4>1, <4>2 DEF Holding
      <3>2. CASE ~Framing!IsControl(f.op)
        <4>1. cur = Holding(Framing!OpOf(f, o), o.payload \o f.payload)
          BY <1>3, <2>4, <3>2 DEF Framing!Current
        <4>2. Framing!AllOf(f, o) = o.payload \o f.payload
          BY <1>8, <3>2 DEF Framing!AllOf
        <4> QED
          BY <4>1, <4>2 DEF Holding
      <3> QED
        BY <3>1, <3>2
    <2>6. delivered' = log[i + 1].out
      BY <1>1, <2>1, <2>2, <2>5
    <2>7. m_data_msg' = Holding(log[i + 1].open.op, log[i + 1].open.payload)
      <3>1. Framing!NoMessage.op = "none" /\ Framing!NoMessage.payload = <<>>
        BY DEF Framing!NoMessage
      <3> QED
        BY <1>3, <1>8, <1>10, <1>11, <2>2, <2>4, <3>1
    <2> QED
      BY <1>1, <1>9, <2>2, <2>6, <2>7 DEF Content
  <1>15. i + 1 \in Nat
    OBVIOUS
  <1> QED
    BY <1>1, <1>7, <1>12, <1>13, <1>14, <1>15 DEF Reads

\* More of what was sent is read.
LEMMA ReadStep ==
    ASSUME LogInv, Framing!TypeOK, Messages, NEW i \in Nat, NEW c \in Nat, Place(i, c),
           Framing!CharactersEnd => Content(i, c), Framing!Read
    PROVE  LogInv' /\ Framing!TypeOK' /\ (ec' = "none" => Reads') /\ (ec' # "none" => Failed')
  <1>1. /\ ec = "none" /\ ec' = "none" /\ buf = <<>>
        /\ frames' = frames /\ sent' = sent /\ log' = log /\ delivered' = delivered
        /\ reader_state' = reader_state /\ m_bytes_needed' = m_bytes_needed
        /\ m_basic_header' = m_basic_header /\ m_extended_header' = m_extended_header
        /\ m_data_msg' = m_data_msg /\ m_control_msg' = m_control_msg
        /\ m_current_msg' = m_current_msg
    BY DEF Framing!Read
  <1>2. PICK n \in 1 .. MaxChunk : /\ n <= Len(sent) - seen /\ seen' = seen + n
                                   /\ buf' = SubSeq(sent, seen + 1, seen + n)
    BY DEF Framing!Read
  <1>3. n \in Nat
    BY <1>2
  <1>4. PICK p : p = log[i].end + c
    OBVIOUS
  <1>5. i \in 1 .. Len(log) /\ BufAt(p) /\ Len(sent) \in Nat /\ p \in Nat
    <2>1. i \in 1 .. Len(log) /\ BufAt(p)
      BY <1>4 DEF Place
    <2>2. Len(sent) \in Nat /\ log[i].end \in Nat
      BY <2>1, StreamTypes
    <2> QED
      BY <1>4, <2>1, <2>2
  <1>6. seen \in Nat /\ p = seen /\ sent \in Seq(WireByte) /\ seen + n <= Len(sent)
    <2>1. Len(buf) = 0
      BY <1>1, EmptySeq
    <2>2. seen \in Nat /\ p = seen
      BY <1>5, <2>1 DEF BufAt
    <2> QED
      BY <1>2, <1>3, <1>5, <2>2 DEF LogInv, Wire
  <1>7. LET b == SubSeq(sent, seen + 1, seen + n)
        IN  b \in Seq(WireByte) /\ Len(b) = n /\ \A k \in 1 .. n : b[k] = sent[seen + k]
    BY ONLY <1>3, <1>6, PartOf
  <1>8. BufAt(p)'
    <2>1. buf' \in Wire /\ Len(buf') = n /\ \A k \in 1 .. n : buf'[k] = sent[p + k]
      BY <1>2, <1>6, <1>7 DEF Wire
    <2>2. seen' \in Nat /\ seen' <= Len(sent) /\ p + n = seen'
      BY <1>2, <1>3, <1>6
    <2> QED
      BY <1>1, <2>1, <2>2 DEF BufAt
  <1>9. /\ LogInv'
        /\ Framing!CharactersEnd' <=> Framing!CharactersEnd
    BY <1>1, LogStays
  <1>10. Place(i, c)'
    <2>1. BufAt(log[i].end + c)'
      <3>1. log'[i].end + c = p
        BY <1>1, <1>4
      <3> QED
        BY <1>8, <3>1 DEF BufAt
    <2>2. /\ AtBasic(i, c) => AtBasic(i, c)'
          /\ AtExtended(i, c) => AtExtended(i, c)'
          /\ AtPayload(i, c) => AtPayload(i, c)'
      BY <1>1 DEF AtBasic, AtExtended, AtPayload, Framing!Current
    <2> QED
      BY <1>1, <2>1, <2>2 DEF Place
  <1>11. Framing!CharactersEnd' => Content(i, c)'
    <2>1. Content(i, c) => Content(i, c)'
      BY <1>1 DEF Content, HeldPayload
    <2> QED
      BY <1>9, <2>1
  <1>12. Messages' /\ Framing!TypeOK'
    BY <1>1 DEF Messages, Framing!TypeOK
  <1> QED
    BY <1>1, <1>9, <1>10, <1>11, <1>12 DEF Reads

-----------------------------------------------------------------------------
(***************************************************************************)
(* The invariant, and what it says of the reader.                          *)
(***************************************************************************)
LEMMA InitFrameInv ==
    ASSUME Framing!Init
    PROVE  FrameInv
  <1>1. /\ frames \in Streams /\ sent = <<>> /\ seen = 0 /\ log = <<Framing!Started>> /\ buf = <<>>
        /\ reader_state = "HEADER_BASIC" /\ m_bytes_needed = 2
        /\ m_basic_header = <<>> /\ m_extended_header = <<>>
        /\ m_data_msg = Framing!NoMessage /\ m_control_msg = Framing!NoMessage
        /\ m_current_msg = "control" /\ ec = "none" /\ delivered = <<>>
    BY DEF Framing!Init
  <1>2. /\ <<>> \in Wire /\ Len(<<>>) = 0 /\ <<>> \in Payload
        /\ <<>> \in Out
    BY EmptySeq DEF Wire, Payload, Out
  <1>3. /\ Framing!NoMessage \in Msg /\ OpenOK(Framing!NoMessage)
        /\ Framing!NoMessage = Holding(Framing!NoMessage.op, Framing!NoMessage.payload)
    <2>1. Framing!NoMessage \in Msg
      BY <1>2 DEF Framing!NoMessage, Msg, Validation
    <2>2. OpenOK(Framing!NoMessage)
      BY DEF OpenOK, Framing!NoMessage
    <2> QED
      BY <2>1, <2>2 DEF Holding, Framing!NoMessage
  <1>4. /\ Framing!Started \in Said /\ Framing!Started.end = 0 /\ Framing!Started.out = <<>>
        /\ Framing!Started.code = "none" /\ Framing!Started.open = Framing!NoMessage
    BY <1>2, <1>3 DEF Framing!Started, Said, Code
  <1>5. log \in Seq(Said) /\ Len(log) = 1 /\ log[1] = Framing!Started
    BY <1>1, <1>4, Singleton
  <1>6. Framing!Reference = Framing!Started
    BY <1>5 DEF Framing!Reference
  <1>7. Framing!IsPrefix(<<>>, <<>>)
    BY <1>2, PrefixOfSelf DEF Out
  <1>8. LogInv
    <2>1. Len(frames) \in Nat
      BY <1>1, StreamsAssumption, LenProperties
    <2>2. GoesOn(1)
      BY <1>3, <1>4, <1>5, <1>6, <1>7 DEF GoesOn
    <2>3. \A i \in 1 .. Len(log) : GoesOn(i)
      BY <1>5, <2>2
    <2>4. \A i \in 1 .. Len(log) - 1 : FrameSent(i)
      BY <1>5
    <2>5. Len(log) >= 1 /\ Len(log) <= Len(frames) + 1
      BY <1>5, <2>1
    <2> QED
      BY <1>1, <1>2, <1>4, <1>5, <1>6, <2>3, <2>4, <2>5 DEF LogInv
  <1>9. Place(1, 0)
    <2>1. log[1].end + 0 = 0
      BY <1>4, <1>5
    <2>2. BufAt(0)
      BY <1>1, <1>2 DEF BufAt
    <2>3. AtBasic(1, 0)
      BY <1>1 DEF AtBasic
    <2> QED
      BY <1>1, <1>5, <2>1, <2>2, <2>3 DEF Place
  <1>10. Content(1, 0)
    BY <1>1, <1>3, <1>4, <1>5 DEF Content
  <1>11. Reads
    BY <1>1, <1>3, <1>9, <1>10 DEF Reads, Messages
  <1>12. Framing!TypeOK
    BY <1>1 DEF Framing!TypeOK
  <1> QED
    BY <1>1, <1>8, <1>11, <1>12 DEF FrameInv

LEMMA ClientStep ==
    ASSUME FrameInv, Framing!Client
    PROVE  FrameInv'
  <1>1. ec = "none"
    BY DEF Framing!Client, Framing!Consume, Framing!HeaderBasic, Framing!HeaderExtendedPart,
           Framing!HeaderExtendedDone, Framing!Application, Framing!GetMessage, Framing!Read,
           Framing!Turn
  <1>2. LogInv /\ Framing!TypeOK /\ Messages
    BY <1>1 DEF FrameInv, Reads
  <1>3. PICK i \in Nat, c \in Nat : Place(i, c) /\ (Framing!CharactersEnd => Content(i, c))
    BY <1>1 DEF FrameInv, Reads
  <1>4. LogInv' /\ Framing!TypeOK' /\ (ec' = "none" => Reads') /\ (ec' # "none" => Failed')
    <2>1. CASE Framing!HeaderBasic
      BY <1>2, <1>3, <2>1, HeaderBasicStep
    <2>2. CASE Framing!HeaderExtendedPart
      BY <1>2, <1>3, <2>2, HeaderExtendedPartStep
    <2>3. CASE Framing!HeaderExtendedDone
      BY <1>2, <1>3, <2>3, HeaderExtendedDoneStep
    <2>4. CASE Framing!Application
      BY <1>2, <1>3, <2>4, ApplicationStep
    <2>5. CASE Framing!GetMessage
      BY <1>2, <1>3, <2>5, GetMessageStep
    <2>6. CASE Framing!Read
      BY <1>2, <1>3, <2>6, ReadStep
    <2> QED
      BY <2>1, <2>2, <2>3, <2>4, <2>5, <2>6 DEF Framing!Client, Framing!Consume
  <1> QED
    BY <1>4 DEF FrameInv

LEMMA NextFrameInv ==
    ASSUME FrameInv, [Framing!Next]_framing
    PROVE  FrameInv'
  <1>1. CASE Framing!Client
    BY <1>1, ClientStep
  <1>2. CASE Framing!Send
    BY <1>2, SendStep
  <1>3. CASE UNCHANGED framing
    <2>1. UNCHANGED <<frames, sent, seen, log, buf, reader_state, m_bytes_needed, m_basic_header,
                      m_extended_header, m_data_msg, m_control_msg, m_current_msg, ec, delivered>>
      BY <1>3 DEF framing
    <2>2. LogInv' /\ Framing!TypeOK'
      BY <2>1, LogStays DEF FrameInv, Framing!TypeOK
    <2>3. Framing!CharactersEnd' = Framing!CharactersEnd /\ Framing!Reference' = Framing!Reference
      BY <2>1 DEF Framing!CharactersEnd, Framing!Reference
    <2>4. Failed => Failed'
      BY <2>1, <2>3 DEF Failed
    <2>5. Messages => Messages'
      BY <2>1 DEF Messages
    <2>6. \A i, c : Place(i, c) => Place(i, c)'
      BY <2>1 DEF Place, BufAt, AtBasic, AtExtended, AtPayload, Framing!Current
    <2>7. \A i, c : Content(i, c) => Content(i, c)'
      BY <2>1 DEF Content, HeldPayload
    <2> QED
      BY <2>1, <2>2, <2>3, <2>4, <2>5, <2>6, <2>7 DEF FrameInv, Reads
  <1> QED
    BY <1>1, <1>2, <1>3 DEF Framing!Next

\* The reader that waits has nothing before it but the end of what was sent.
LEMMA FinishedAtEnd ==
    ASSUME LogInv, NEW i \in Nat, NEW c \in Nat, Place(i, c), Framing!TypeOK, Framing!Finished
    PROVE  i = Len(log)
  <1>1. /\ i \in 1 .. Len(log) /\ BufAt(log[i].end + c) /\ m_bytes_needed \in Nat /\ m_bytes_needed > 0
        /\ seen = Len(sent) /\ buf = <<>> /\ reader_state # "READY"
    BY DEF Place, Framing!Finished
  <1>2. Len(log) \in Nat /\ log[i].end \in Nat /\ Len(sent) \in Nat
    BY <1>1, StreamTypes
  <1>3. SUFFICES ASSUME i # Len(log) PROVE FALSE
    OBVIOUS
  <1>4. i < Len(log)
    BY <1>1, <1>2, <1>3
  <1> DEFINE f == frames[i]
             size == Size(f)
             l == Framing!LengthSize(f.code)
  <1>5. log[i].end + c = Len(sent)
    <2>1. Len(buf) = 0
      BY <1>1, EmptySeq
    <2> QED
      BY <1>1, <1>2, <2>1 DEF BufAt
  <1>6. f \in Framing!Frame /\ Framing!CodeFits(f) /\ log[i].end + size <= Len(sent)
    BY <1>1, <1>4, FrameAt DEF FrameSent
  <1>7. size \in Nat /\ l \in Nat /\ 2 + l <= size
    <2>1. Len(f.payload) \in Nat /\ l \in Nat
      BY <1>6, FrameTypes
    <2> QED
      BY <2>1 DEF Size
  <1>8. c < size
    <2>1. \/ c + m_bytes_needed = 2
          \/ c + m_bytes_needed = 2 + l
          \/ c + m_bytes_needed = size
      BY <1>1 DEF Framing!TypeOK, Place, AtBasic, AtExtended, AtPayload
    <2> HIDE DEF size, l
    <2> QED
      BY <1>1, <1>7, <2>1
  <1> HIDE DEF size
  <1> QED
    BY <1>2, <1>5, <1>6, <1>7, <1>8

\* The reader has always a message that the payload goes to, and the payload it waits for
\* fits into it: a message does not outgrow max_message_size, however it is fragmented.
THEOREM MessagesBounded == ReadingSpec => []Bounded
  <1>1. ReadingInit => FrameInv
    BY InitFrameInv DEF ReadingInit
  <1>2. FrameInv /\ [ReadingNext]_<<vars, framing, header, layer>> => FrameInv'
    <2>1. [ReadingNext]_<<vars, framing, header, layer>> => [Framing!Next]_framing
      BY DEF ReadingNext, framing
    <2> QED
      BY <2>1, NextFrameInv
  <1>3. FrameInv => Bounded
    <2> SUFFICES ASSUME FrameInv, reader_state = "APPLICATION", ec = "none"
                 PROVE  /\ Framing!Current # Framing!NoMessage
                        /\ m_current_msg = "data"
                              => Len(m_data_msg.payload) + m_bytes_needed <= MaxMessageSize
      BY DEF Bounded, Framing!Bounded, FrameInv
    <2>1. PICK i \in Nat, c \in Nat : Place(i, c)
      BY DEF FrameInv, Reads
    <2>2. AtPayload(i, c)
      BY <2>1 DEF Place
    <2> QED
      BY <2>2 DEF AtPayload, Framing!NoMessage
  <1> QED
    BY <1>1, <1>2, <1>3, PTL DEF ReadingSpec

\* However the bytes are cut into reads, the messages delivered are those of the frames, in
\* order and no others; the reader fails only at a wrong frame, with its close code and
\* after everything before it; and it waits only when nothing complete is held back.  All
\* this as long as no text ends inside a character in the last fragment of its message,
\* which the code does not see.
THEOREM FramesAreRead == ReadingSpec => []ReadsAll
  <1>1. ReadingInit => FrameInv
    BY InitFrameInv DEF ReadingInit
  <1>2. FrameInv /\ [ReadingNext]_<<vars, framing, header, layer>> => FrameInv'
    <2>1. [ReadingNext]_<<vars, framing, header, layer>> => [Framing!Next]_framing
      BY DEF ReadingNext, framing
    <2> QED
      BY <2>1, NextFrameInv
  <1>3. FrameInv => ReadsAll
    <2> SUFFICES ASSUME FrameInv, Framing!CharactersEnd PROVE Framing!ReadsAll
      BY DEF ReadsAll
    <2>1. LogInv /\ Framing!TypeOK
      BY DEF FrameInv
    <2>2. CASE ec = "none"
      <3>1. PICK i \in Nat, c \in Nat : Place(i, c) /\ Content(i, c)
        BY <2>2 DEF FrameInv, Reads
      <3>2. i \in 1 .. Len(log) /\ delivered = log[i].out /\ log[i].code = "none"
        BY <3>1 DEF Place, Content
      <3>3. Framing!IsPrefix(delivered, Framing!Reference.out)
        BY <2>1, <3>2 DEF LogInv, GoesOn
      <3>4. Framing!Finished => i = Len(log)
        BY <2>1, <3>1, FinishedAtEnd
      <3> QED
        BY <2>2, <3>2, <3>3, <3>4 DEF Framing!ReadsAll, Framing!Reference
    <2>3. CASE ec # "none"
      <3>1. delivered = Framing!Reference.out /\ Framing!to_ws(ec) = Framing!Reference.code
        BY <2>3 DEF FrameInv, Failed
      <3>2. Framing!Reference.out \in Out
        BY <2>1, StreamTypes DEF Framing!Reference
      <3>3. Framing!IsPrefix(delivered, Framing!Reference.out)
        BY <3>1, <3>2, PrefixOfSelf DEF Out
      <3> QED
        BY <2>3, <3>1, <3>3 DEF Framing!ReadsAll
    <2> QED
      BY <2>2, <2>3
  <1> QED
    BY <1>1, <1>2, <1>3, PTL DEF ReadingSpec
=============================================================================
