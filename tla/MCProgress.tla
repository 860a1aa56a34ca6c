----------------------------- MODULE MCProgress -----------------------------
(***************************************************************************)
(* The liveness of the stream: a connection (Connection), or the transport *)
(* below one (Transport).  One run looks at one of the two; the other does *)
(* not start.                                                              *)
(***************************************************************************)
EXTENDS Transport, Sequences

CONSTANTS Symbol, BadSymbols, Symbols, Answers, Bursts, MaxReads    \* of Connection

\* A connection that asks for one symbol, and reads that bring one frame or none.
OneSymbol == <<"BTC">>
FewBursts == {<<>>, <<"data">>, <<"ping">>, <<"close">>, <<"malformed">>}

VARIABLES run, m_state, m_internal_state, m_handshake_timer,
          m_send_queue, m_current_msgs, m_write_flag, pending, ready, posts,
          reading, input, reads, accepted, written, opens, fails, closes, delivered,
          part                                  \* the one that runs

Stream == INSTANCE Connection
stream == <<run, opens, fails, closes, delivered, m_state, m_internal_state, m_handshake_timer,
            m_send_queue, m_current_msgs, m_write_flag, accepted, written,
            pending, ready, posts, reading, input, reads>>

ProgressInit ==
    /\ Init
    /\ \/ part = "connection" /\ Stream!Init
       \/ /\ part = "transport"
          /\ run = "returned"
          /\ m_state = "connecting" /\ m_internal_state = "USER_INIT" /\ m_handshake_timer = "none"
          /\ m_send_queue = <<>> /\ m_current_msgs = <<>> /\ m_write_flag = FALSE
          /\ pending = {} /\ ready = {} /\ posts = 0
          /\ reading = FALSE /\ input = <<>> /\ reads = 0
          /\ accepted = <<>> /\ written = <<>>
          /\ opens = 0 /\ fails = 0 /\ closes = 0 /\ delivered = 0

ProgressNext ==
    \/ part = "connection" /\ Stream!Next /\ UNCHANGED <<vars, part>>
    \/ part = "transport" /\ Next /\ UNCHANGED <<stream, part>>

ProgressSpec ==
    ProgressInit /\ [][ProgressNext]_<<vars, stream, part>> /\ Fairness /\ Stream!Fairness

-----------------------------------------------------------------------------
\* A connection attempt settles, and a connection that is closing or closed lets run() return.
Settles == Stream!Settles
RunEnds == Stream!RunEnds

\* async_connect, init and async_shutdown answer exactly once, whatever races.
AnsweredOnce == ConnectOnce /\ InitOnce /\ ShutdownOnce
=============================================================================
