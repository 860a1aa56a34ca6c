----------------------------- MODULE MCReading -----------------------------
(***************************************************************************)
(* How the bytes of the server are read, a layer at a time: the header of  *)
(* the response (HttpResponse), the frames behind it (FrameReader) and the *)
(* characters of their text (Utf8).  One run looks at one layer, with all  *)
(* its inputs; the others do not start.                                    *)
(***************************************************************************)
EXTENDS MCUtf8, ServerFrames, ServerResponses

CONSTANTS
    Streams, Extended16, Extended64, MaxMessageSize,
    MaxChunk,       \* of FrameReader
    Responses, MaxHeaderSize,
    MaxHeaderChunk  \* of HttpResponse

VARIABLES
    layer,          \* the layer that runs
    frames, sent, seen, log, buf, reader_state, m_bytes_needed, m_basic_header, m_extended_header,
    m_data_msg, m_control_msg, m_current_msg, ec, delivered,
    response, header_sent, ends, header_seen, header_state, m_buf, m_header_bytes, m_read, m_headers,
    len, last, processed, thrown

Framing == INSTANCE FrameReader WITH m_state <- reader_state
framing == <<frames, sent, seen, log, buf, reader_state, m_bytes_needed, m_basic_header, m_extended_header,
             m_data_msg, m_control_msg, m_current_msg, ec, delivered>>

Header == INSTANCE HttpResponse
    WITH sent <- header_sent, seen <- header_seen, m_state <- header_state, MaxChunk <- MaxHeaderChunk
header == <<response, header_sent, ends, header_seen, header_state, m_buf, m_header_bytes, m_read, m_headers,
            len, last, processed, thrown>>

ASSUME SizesAssumption ==
    /\ PayloadSizeBasic \in Nat /\ PayloadSizeExtended \in Nat
    /\ Extended16 \in Nat \ {0} /\ Extended64 \in Nat \ {0}
    /\ MaxMessageSize \in Nat /\ MaxHeaderSize \in Nat
\* The length field of a frame says how long it is.
ASSUME StreamsAssumption ==
    \A fs \in Streams : /\ fs \in Seq(Framing!Frame)
                        /\ \A i \in 1 .. Len(fs) : Framing!CodeFits(fs[i])
\* A line is what lies between two delimiters, and only the header's last is blank.
ASSUME ResponsesAssumption ==
    \A r \in Responses :
        /\ r.lines \in Seq(Seq(Header!Letters)) /\ r.rest \in Seq(Header!Letters)
        /\ \A i \in 1 .. Len(r.lines) :
              /\ r.lines[i] # <<>>
              /\ \A k \in 1 .. Len(r.lines[i]) - 1 :
                    ~(r.lines[i][k] = "CR" /\ r.lines[i][k + 1] = "LF")
\* A number in a line is one byte, and strip_lws, which reads from behind as well, finds
\* no folded line there.
ASSUME PlainLinesAssumption ==
    \A r \in Responses : \A i \in 1 .. Len(r.lines) :
        LET l == r.lines[i]
        IN  /\ \A k \in 1 .. Len(l) - 1 : ~\E d, e \in DOMAIN Header!Digits :
                  l[k] = Header!Digits[d] /\ l[k + 1] = Header!Digits[e]
            /\ \A k \in 1 .. Len(l) - 2 : ~(l[k] = "SP" /\ l[k + 1] = "LF" /\ l[k + 2] = "CR")

\* A layer that does not run has nothing to read.
Silent == CHOOSE r \in Responses : TRUE
ReadingInit ==
    /\ \/ layer = "header" /\ frames = <<>>
       \/ layer = "frames" /\ response = Silent
       \/ layer = "characters" /\ frames = <<>> /\ response = Silent
    /\ Init /\ Framing!Init /\ Header!Init

ReadingNext ==
    \/ layer = "header" /\ Header!Next /\ UNCHANGED <<vars, framing, layer>>
    \/ layer = "frames" /\ Framing!Next /\ UNCHANGED <<vars, header, layer>>
    \/ layer = "characters" /\ Next /\ UNCHANGED <<framing, header, layer>>

ReadingSpec == /\ ReadingInit /\ [][ReadingNext]_<<vars, framing, header, layer>>
               /\ Framing!Fairness

-----------------------------------------------------------------------------
\* However the bytes are cut into reads, the messages of the frames are delivered in
\* order and no others, a wrong frame is refused with its close code, and nothing
\* complete is held back.  (But for text that ends inside a character in a fragment.)
ReadsAll == Framing!CharactersEnd => Framing!ReadsAll

\* The variables have their types, and a message in fragments does not outgrow
\* max_message_size.
Bounded == Framing!TypeOK /\ Framing!Bounded

\* The reader gets to the end of whatever the server has sent, or to its error.
GetsThrough == Framing!GetsThrough

\* However the response is cut, it is accepted only when it is well formed, with all its
\* header lines, and the stream of frames starts right behind it.
ReadsResponse == Header!ReadsResponse

\* No header beyond the limit is accepted, and none is kept beyond it.
LimitHolds == Header!LimitHolds
=============================================================================
