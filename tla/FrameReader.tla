---------------------------- MODULE FrameReader ----------------------------
(***************************************************************************)
(* processor::hybi13::consume: how the client turns the bytes it reads     *)
(* into messages.  The server sends its frames one after the other; reads  *)
(* cut what was sent anywhere, and a message may be spread over several    *)
(* frames with control frames between them.  The loops of                  *)
(* handle_read_frame and of consume() are one step per turn.               *)
(*                                                                         *)
(* A byte is the field it holds a part of.  Sizes are scaled down: the     *)
(* constants stand for 125, 65535, 2 and 8 bytes of extended length and    *)
(* max_message_size.  A character is one byte "a" or the two bytes "L" "c".*)
(* Lengths with the top bit set, which RFC 6455 forbids, are left out:     *)
(* arithmetic on size_t is exact for all others.                           *)
(***************************************************************************)
EXTENDS Naturals, Sequences, SequencesExt

CONSTANTS
    Streams,            \* the frames the server may send, a set of sequences of Frame
    PayloadSizeBasic, PayloadSizeExtended,
    Extended16, Extended64,         \* bytes of the two longer length fields
    MaxMessageSize,
    MaxChunk            \* bound: bytes of one read

ControlOps  == {"close", "ping", "pong"}
DataOps     == {"text", "binary", "continuation"}
ReservedOps == {"reserved", "reservedControl"}      \* 3..7 and 0xB..0xF
PayloadByte == {"a", "L", "c"}

SizeCode16 == PayloadSizeBasic + 1
SizeCode64 == PayloadSizeBasic + 2

\* A frame: code is the value of the seven length bits, which are the length or say
\* how many bytes hold it.
Frame == [op : ControlOps \cup DataOps \cup ReservedOps, fin : BOOLEAN, rsv : BOOLEAN,
          masked : BOOLEAN, code : 0 .. SizeCode64, payload : Seq(PayloadByte)]
CodeFits(f) == f.code <= PayloadSizeBasic => f.code = Len(f.payload)

VARIABLES
    frames,             \* what the server sends in this run, frame by frame
    sent,               \* the bytes it has sent
    seen,               \* how many of them have been read
    log,                \* history: what the server has sent after each frame (the reference)
    buf,                \* the bytes of the last read that have not been consumed
    m_state, m_bytes_needed, m_basic_header, m_extended_header,
    m_data_msg, m_control_msg, m_current_msg,
    ec,                 \* the error consume() returned
    delivered           \* history: the messages handed to the connection

vars == <<frames, sent, seen, log, buf, m_state, m_bytes_needed, m_basic_header, m_extended_header,
          m_data_msg, m_control_msg, m_current_msg, ec, delivered>>

-----------------------------------------------------------------------------
\* The bytes of a frame.
HeaderBytes(f) == << [field |-> "b0", op |-> f.op, fin |-> f.fin, rsv |-> f.rsv],
                     [field |-> "b1", masked |-> f.masked, code |-> f.code] >>
LengthSize(code) == IF code = SizeCode16 THEN Extended16
                    ELSE IF code = SizeCode64 THEN Extended64 ELSE 0
LengthBytes(f) ==
    [i \in 1 .. LengthSize(f.code) |->
        [field |-> "length", v |-> IF i = LengthSize(f.code) THEN Len(f.payload) ELSE 0]]
PayloadBytes(f) == [i \in 1 .. Len(f.payload) |-> [field |-> "payload", v |-> f.payload[i]]]
Bytes(f) == HeaderBytes(f) \o LengthBytes(f) \o PayloadBytes(f)

-----------------------------------------------------------------------------
\* utf8_validator over bytes that follow the state s: "L" opens a character, which
\* "c" ends.
Utf8(s, bytes) ==
    LET open(i) == IF i = 1 THEN s = "inside" ELSE bytes[i - 1] = "L"
    IN  IF s = "reject" \/ \E i \in 1 .. Len(bytes) : (bytes[i] = "c") # open(i) THEN "reject"
        ELSE IF bytes = <<>> THEN s
        ELSE IF bytes[Len(bytes)] = "L" THEN "inside" ELSE "accept"

\* msg_metadata, or none.
NoMessage == [op |-> "none", payload |-> <<>>, validator |-> "accept"]
Message(op) == [op |-> op, payload |-> <<>>, validator |-> "accept"]

IsControl(op) == op \in ControlOps \cup {"reservedControl"}

\* Fault: a message may begin with any data frame.
BasicHeaderErrorLenient(h, new_msg) ==
    IF IsControl(h.op) /\ h.code > PayloadSizeBasic THEN "control_too_big"
    ELSE IF h.rsv THEN "invalid_rsv_bit"
    ELSE IF h.op \in ReservedOps THEN "invalid_opcode"
    ELSE IF IsControl(h.op) /\ ~h.fin THEN "fragmented_control"
    ELSE IF h.masked THEN "masking_forbidden"
    ELSE "none"

\* validate_incoming_basic_header of a client
BasicHeaderError(h, new_msg) ==
    IF IsControl(h.op) /\ h.code > PayloadSizeBasic THEN "control_too_big"
    ELSE IF h.rsv THEN "invalid_rsv_bit"
    ELSE IF h.op \in ReservedOps THEN "invalid_opcode"
    ELSE IF IsControl(h.op) /\ ~h.fin THEN "fragmented_control"
    ELSE IF new_msg /\ h.op = "continuation" THEN "invalid_continuation"
    ELSE IF ~new_msg /\ ~IsControl(h.op) /\ h.op # "continuation" THEN "invalid_continuation"
    ELSE IF h.masked THEN "masking_forbidden"
    ELSE "none"

\* frame::get_payload_size: the length field is big-endian, and the sizes of the model
\* fit its last byte.
PayloadSize == IF m_basic_header.code <= PayloadSizeBasic THEN m_basic_header.code
               ELSE m_extended_header[Len(m_extended_header)].v

\* Fault: the largest short length passes.
ExtendedHeaderErrorOffByOne ==
    IF \/ m_basic_header.code = SizeCode16 /\ PayloadSize < PayloadSizeBasic
       \/ m_basic_header.code = SizeCode64 /\ PayloadSize < PayloadSizeExtended
    THEN "non_minimal_encoding" ELSE "none"

\* validate_incoming_extended_header
ExtendedHeaderError ==
    IF \/ m_basic_header.code = SizeCode16 /\ PayloadSize <= PayloadSizeBasic
       \/ m_basic_header.code = SizeCode64 /\ PayloadSize <= PayloadSizeExtended
    THEN "non_minimal_encoding" ELSE "none"

\* frame::get_header_len, less the basic header
ExtendedLength(h) == LengthSize(h.code) + (IF h.masked THEN 4 ELSE 0)

\* processor::error::to_ws: the code the connection is closed with
to_ws(e) == IF e = "invalid_utf8" THEN "invalid_payload"
            ELSE IF e = "non_minimal_encoding" THEN "internal_endpoint_error"
            ELSE IF e \in {"none", "message_too_big"} THEN e
            ELSE "protocol_error"

-----------------------------------------------------------------------------
Smaller(a, b) == IF a < b THEN a ELSE b
Rest(n) == SubSeq(buf, n + 1, Len(buf))

\* Fault: the loop does not run for an empty payload.
TurnWithBytes(s) == ec = "none" /\ m_state = s /\ buf # <<>>

\* The condition of consume's loop; after an error the connection reads no more.
Turn(s) == ec = "none" /\ m_state = s /\ (buf # <<>> \/ m_bytes_needed = 0)

\* reset_headers
ResetHeaders == /\ m_state' = "HEADER_BASIC" /\ m_bytes_needed' = 2
                /\ m_basic_header' = <<>> /\ m_extended_header' = <<>>

\* copy_basic_header_bytes, and what follows when both bytes are there
HeaderBasic ==
    /\ Turn("HEADER_BASIC")
    /\ LET n    == Smaller(m_bytes_needed, Len(buf))
           got  == m_basic_header \o SubSeq(buf, 1, n)
           h    == [op |-> got[1].op, fin |-> got[1].fin, rsv |-> got[1].rsv,
                    masked |-> got[2].masked, code |-> got[2].code]
           e    == BasicHeaderError(h, m_data_msg = NoMessage)
       IN  /\ buf' = Rest(n)
           /\ IF n < m_bytes_needed
              THEN /\ m_basic_header' = got
                   /\ m_bytes_needed' = m_bytes_needed - n
                   /\ UNCHANGED <<m_state, ec>>
              ELSE /\ m_basic_header' = h
                   /\ ec' = e
                   /\ IF e # "none"
                      THEN m_bytes_needed' = 0 /\ UNCHANGED m_state
                      ELSE /\ m_state' = "HEADER_EXTENDED"
                           /\ m_bytes_needed' = ExtendedLength(h)
    /\ UNCHANGED <<frames, sent, seen, log, m_extended_header, m_data_msg, m_control_msg, m_current_msg, delivered>>

\* copy_extended_header_bytes
HeaderExtendedPart ==
    /\ Turn("HEADER_EXTENDED")
    /\ m_bytes_needed > 0
    /\ LET n == Smaller(m_bytes_needed, Len(buf))
       IN  /\ m_extended_header' = m_extended_header \o SubSeq(buf, 1, n)
           /\ m_bytes_needed' = m_bytes_needed - n
           /\ buf' = Rest(n)
    /\ UNCHANGED <<frames, sent, seen, log, m_state, m_basic_header, m_data_msg, m_control_msg,
                   m_current_msg, ec, delivered>>

\* Fault: what the message already holds is not counted.
TooBigAlone == PayloadSize > MaxMessageSize
TooBig == Len(m_data_msg.payload) + PayloadSize > MaxMessageSize

\* The header is complete: a control message or the first frame of a data message
\* gets a buffer, a continuation goes on with the one there is.
HeaderExtendedDone ==
    /\ Turn("HEADER_EXTENDED")
    /\ m_bytes_needed = 0
    /\ IF ExtendedHeaderError # "none"
       THEN /\ ec' = ExtendedHeaderError
            /\ UNCHANGED <<m_state, m_bytes_needed, m_data_msg, m_control_msg, m_current_msg>>
       ELSE /\ m_state' = "APPLICATION"
            /\ m_bytes_needed' = PayloadSize
            /\ IF IsControl(m_basic_header.op)
               THEN /\ m_control_msg' = Message(m_basic_header.op)
                    /\ m_current_msg' = "control"
                    /\ UNCHANGED <<m_data_msg, ec>>
               ELSE IF TooBig
               THEN ec' = "message_too_big" /\ UNCHANGED <<m_data_msg, m_control_msg, m_current_msg>>
               ELSE /\ m_data_msg' = IF m_data_msg = NoMessage THEN Message(m_basic_header.op)
                                                               ELSE m_data_msg
                    /\ m_current_msg' = "data"
                    /\ UNCHANGED <<m_control_msg, ec>>
    /\ UNCHANGED <<frames, sent, seen, log, buf, m_basic_header, m_extended_header, delivered>>

Current == IF m_current_msg = "data" THEN m_data_msg ELSE m_control_msg
\* Fault: one buffer for both kinds of message.
SetData(msg) == m_data_msg' = msg /\ UNCHANGED m_control_msg
SetCurrent(msg) == IF m_current_msg = "data"
                   THEN m_data_msg' = msg /\ UNCHANGED m_control_msg
                   ELSE m_control_msg' = msg /\ UNCHANGED m_data_msg

\* process_payload_bytes, and at the end of a frame finalize_message or
\* reset_headers.  The last frame of a fragmented message has the opcode
\* `continuation', not that of the message.
Application ==
    /\ Turn("APPLICATION")
    /\ LET n    == Smaller(m_bytes_needed, Len(buf))
           new  == [i \in 1 .. n |-> buf[i].v]
           v    == IF Current.op = "text" THEN Utf8(Current.validator, new) ELSE Current.validator
           last == n = m_bytes_needed
       IN  /\ buf' = Rest(n)
           /\ SetCurrent([Current EXCEPT !.payload = @ \o new, !.validator = v])
           /\ IF v = "reject"
              THEN /\ ec' = "invalid_utf8"
                   /\ UNCHANGED <<m_state, m_bytes_needed, m_basic_header, m_extended_header>>
              ELSE IF ~last
              THEN /\ m_bytes_needed' = m_bytes_needed - n
                   /\ UNCHANGED <<m_state, m_basic_header, m_extended_header, ec>>
              ELSE IF ~m_basic_header.fin
              THEN ResetHeaders /\ UNCHANGED ec
              ELSE /\ m_bytes_needed' = 0
                   /\ IF m_basic_header.op = "text" /\ v # "accept"
                      THEN ec' = "invalid_utf8" /\ UNCHANGED m_state
                      ELSE m_state' = "READY" /\ UNCHANGED ec
                   /\ UNCHANGED <<m_basic_header, m_extended_header>>
    /\ UNCHANGED <<frames, sent, seen, log, m_current_msg, delivered>>

\* handle_read_frame finds a message ready: get_message
GetMessage ==
    /\ ec = "none" /\ m_state = "READY"
    /\ delivered' = Append(delivered, [op |-> Current.op, payload |-> Current.payload])
    /\ SetCurrent(NoMessage)
    /\ ResetHeaders
    /\ UNCHANGED <<frames, sent, seen, log, buf, m_current_msg, ec>>

\* The next read: consume() has used up the last one.
Read ==
    /\ ec = "none" /\ m_state # "READY" /\ buf = <<>> /\ m_bytes_needed > 0
    /\ \E n \in 1 .. MaxChunk :
          /\ n <= Len(sent) - seen
          /\ buf' = SubSeq(sent, seen + 1, seen + n)
          /\ seen' = seen + n
    /\ UNCHANGED <<frames, sent, log, m_state, m_bytes_needed, m_basic_header, m_extended_header,
                   m_data_msg, m_control_msg, m_current_msg, ec, delivered>>

-----------------------------------------------------------------------------
(***************************************************************************)
(* The reference: RFC 6455, frame by frame.  `out' is what is delivered,   *)
(* `open' the message begun, `code' the close code of the first error, and *)
(* `end' the bytes up to here.                                             *)
(***************************************************************************)
Started == [end |-> 0, open |-> NoMessage, out |-> <<>>, code |-> "none"]

IsText(f, open) == f.op = "text" \/ (f.op = "continuation" /\ open.op = "text")

FrameCode(f, open) ==
    LET data   == f.op \in DataOps
        size   == Len(f.payload)
        prior  == open.payload
        utf8   == Utf8("accept", prior \o f.payload)
    IN  IF \/ f.rsv \/ f.masked \/ f.op \in ReservedOps
           \/ f.op \in ControlOps /\ (~f.fin \/ f.code > PayloadSizeBasic)
           \/ data /\ ((f.op = "continuation") # (open # NoMessage))
        THEN "protocol_error"
        ELSE IF \/ f.code = SizeCode16 /\ size <= PayloadSizeBasic
                \/ f.code = SizeCode64 /\ size <= PayloadSizeExtended
        THEN "internal_endpoint_error"
        ELSE IF data /\ Len(prior) + size > MaxMessageSize THEN "message_too_big"
        ELSE IF IsText(f, open) /\ (utf8 = "reject" \/ (f.fin /\ utf8 # "accept"))
        THEN "invalid_payload" ELSE "none"

\* The message that a frame is part of, and its payload up to the frame's end.
OpOf(f, open) == IF f.op = "continuation" THEN open.op ELSE f.op
AllOf(f, open) == IF f.op \in DataOps THEN open.payload \o f.payload ELSE f.payload

ReadFrame(said, f) ==
    LET code == FrameCode(f, said.open)
        all  == [Message(OpOf(f, said.open)) EXCEPT !.payload = AllOf(f, said.open)]
        far  == [said EXCEPT !.end = @ + Len(Bytes(f))]
    IN  IF said.code # "none" THEN far
        ELSE IF code # "none" THEN [far EXCEPT !.code = code]
        ELSE IF f.fin
        THEN [far EXCEPT !.out = Append(@, [op |-> all.op, payload |-> all.payload]),
                         !.open = IF f.op \in DataOps THEN NoMessage ELSE @]
        ELSE [far EXCEPT !.open = all]

Reference == log[Len(log)]

\* The server sends its next frame.
Send ==
    /\ Len(log) <= Len(frames)
    /\ LET f == frames[Len(log)]
       IN  /\ sent' = sent \o Bytes(f)
           /\ log' = Append(log, ReadFrame(Reference, f))
    /\ UNCHANGED <<frames, seen, buf, m_state, m_bytes_needed, m_basic_header, m_extended_header,
                   m_data_msg, m_control_msg, m_current_msg, ec, delivered>>

-----------------------------------------------------------------------------
Init ==
    /\ frames \in Streams
    /\ sent = <<>> /\ seen = 0 /\ log = <<Started>>
    /\ buf = <<>>
    /\ m_state = "HEADER_BASIC" /\ m_bytes_needed = 2
    /\ m_basic_header = <<>> /\ m_extended_header = <<>>
    /\ m_data_msg = NoMessage /\ m_control_msg = NoMessage /\ m_current_msg = "control"
    /\ ec = "none" /\ delivered = <<>>

Consume == HeaderBasic \/ HeaderExtendedPart \/ HeaderExtendedDone \/ Application
Client == Consume \/ GetMessage \/ Read
Next == Client \/ Send

Fairness == WF_vars(Client)
Spec == Init /\ [][Next]_vars /\ Fairness

-----------------------------------------------------------------------------
TypeOK ==
    /\ m_state \in {"HEADER_BASIC", "HEADER_EXTENDED", "APPLICATION", "READY"}
    /\ m_bytes_needed \in Nat
    /\ m_current_msg \in {"data", "control"}

\* However the bytes are cut into reads, what is delivered is what the frames say,
\* in order and no more; consume() fails exactly when a frame is wrong, with the
\* same close code, after everything before that frame has been delivered; and when
\* all bytes are read nothing that is complete is held back.
Finished == seen = Len(sent) /\ buf = <<>> /\ m_state # "READY" /\ m_bytes_needed > 0
ReadsAll == /\ IsPrefix(delivered, Reference.out)
            /\ ec # "none" => delivered = Reference.out /\ to_ws(ec) = Reference.code
            /\ ec = "none" /\ Finished => delivered = Reference.out /\ Reference.code = "none"

\* A text message sent in fragments ends inside a character: the code does not see
\* it (README, section 7).
EndsInside(f, open) ==
    /\ f.op = "continuation" /\ f.fin /\ open.op = "text"
    /\ Utf8("accept", open.payload \o f.payload) = "inside"
CharactersEnd == \A i \in 1 .. Len(log) - 1 : ~EndsInside(frames[i], log[i].open)

\* The message under construction never outgrows max_message_size, also when it
\* comes in fragments, and the frame being read has a message to go to.
Bounded == m_state = "APPLICATION" /\ ec = "none" =>
              /\ Current # NoMessage
              /\ m_current_msg = "data" => Len(m_data_msg.payload) + m_bytes_needed <= MaxMessageSize

\* Whatever the server has sent is read to its end, or to an error.
GetsThrough == []<>(Finished \/ ec # "none")
=============================================================================
