----------------------------- MODULE Connection -----------------------------
(***************************************************************************)
(* The market-data stream: DeribitAPI::startWebSocket and the one client   *)
(* connection of websocketpp it runs, from connect() to the return of      *)
(* run().                                                                  *)
(*                                                                         *)
(* run() is a loop in the only thread that executes one handler at a time. *)
(* What a handler starts (a read, a write, a timer, ...) is in `pending'   *)
(* until the outside completes it; its handler is then in `ready' until    *)
(* the loop runs it.  asio fixes no order between ready handlers, so       *)
(* `ready' is a set.  A timer whose handler is in `ready' can no longer be *)
(* cancelled: cancel() reaches pending operations only.  The handler of a  *)
(* cancelled timer does nothing, and the model drops it.                   *)
(*                                                                         *)
(* That connecting, initialising and shutting down call back exactly once  *)
(* is the promise of the transport, modelled in Transport.                 *)
(***************************************************************************)
EXTENDS Integers, Sequences, FiniteSets

CONSTANTS
    Symbol,         \* what a user may enter as a symbol
    BadSymbols,     \* those whose text may not be UTF-8, which send() refuses
    Symbols,        \* the symbols given to startWebSocket, a sequence
    Answers,        \* what the server may answer to the opening handshake
    Bursts,         \* the frames one read may bring, sequences of PeerFrame
    MaxReads        \* bound: reads that bring bytes

\* What one frame of the server does to the connection: a message that is or
\* is not JSON, a ping, a pong, a close frame with a good or a bad code or
\* reason, and bytes that consume() rejects.
PeerFrame == {"data", "notJson", "ping", "pong", "close", "badClose", "malformed"}
Answer == {"accepted", "partial", "malformed", "rejected", "badExtensions"}

ASSUME SymbolsAssumption == BadSymbols \subseteq Symbol /\ Symbols \in Seq(Symbol)
ASSUME AnswersAssumption == Answers \subseteq Answer
ASSUME BurstsAssumption  == Bursts \subseteq Seq(PeerFrame)
ASSUME MaxReadsAssumption == MaxReads \in Nat

VARIABLES
    run,             \* the call of startWebSocket: "idle", "running", "returned", "threw"
    m_state,         \* the connection's state
    m_internal_state,
    m_handshake_timer,
    m_send_queue, m_current_msgs, m_write_flag,
    pending,         \* operations started and not completed
    ready,           \* completed operations whose handler has not run
    posts,           \* write_frame handlers posted by dispatch
    reading,         \* the loop of handle_read_frame is executing
    input,           \* the frames of m_buf it has not consumed
    reads,           \* reads that brought bytes so far
    accepted,        \* history: every frame pushed on the send queue
    written,         \* history: every frame handed to the transport
    opens, fails, closes,   \* history: calls of the open, fail and close handlers
    delivered        \* history: calls of the message handler

app    == <<run, opens, fails, closes, delivered>>
con    == <<m_state, m_internal_state, m_handshake_timer>>
out    == <<m_send_queue, m_current_msgs, m_write_flag, accepted, written>>
loop   == <<pending, ready, posts>>
in     == <<reading, input, reads>>
vars   == <<app, con, out, loop, in>>

-----------------------------------------------------------------------------
\* Frames the client sends.
Kinds == <<"book", "trades", "ticker">>
\* The three channels of each symbol, in the order of the two loops of the open handler.
Channels == [i \in 1 .. 3 * Len(Symbols) |->
                <<Symbols[((i - 1) \div 3) + 1], Kinds[((i - 1) % 3) + 1]>>]
Total    == Len(Channels)
Request(i) == [type |-> "request", channel |-> Channels[i]]
Pong       == [type |-> "pong"]
CloseAck   == [type |-> "close", terminal |-> FALSE]
CloseError == [type |-> "close", terminal |-> TRUE]
Frame      == {Request(i) : i \in 1 .. Total} \cup {Pong, CloseAck, CloseError}

\* Operations and the way each may complete.  A write fails with pass_through,
\* never with eof; what a timer, a connect, ... delivers is ok or an error.
Timers     == {"openTimer", "closeTimer", "oldTimer"}
Shutdowns  == {"shutFailed", "shutClosed"}
Writes     == {"httpWrite", "write"}
Reads      == {"httpRead", "read"}
Operations == {"connect", "init"} \cup Timers \cup Shutdowns \cup Writes \cup Reads
Results    == {"ok", "eof", "error"}
Completion(op, res) == [op |-> op, res |-> res]

\* An operation whose handler is still to run.
InFlight(op) == op \in pending \/ \E h \in ready : h.op = op

Running == run = "running"
Idle    == Running /\ ~reading

-----------------------------------------------------------------------------
\* Fault: the shutdown is asked for again when the connection is
\* closed; a connection that was closing is left to the server.
TerminateAgain(p) ==
    /\ m_handshake_timer' = "none"
    /\ m_state' = "closed"
    /\ pending' = (p \ {m_handshake_timer})
                    \cup {IF m_state = "connecting" THEN "shutFailed" ELSE "shutClosed"}
TerminateWithoutShutdown(p) ==
    /\ m_handshake_timer' = "none"
    /\ m_state' = "closed"
    /\ pending' = (p \ {m_handshake_timer})
                    \cup (CASE m_state = "connecting" -> {"shutFailed"}
                            [] m_state = "open"       -> {"shutClosed"}
                            [] OTHER                  -> {})

\* connection::terminate.  p: the pending operations the handler leaves
\* otherwise.  A connection that is already closed only loses its timer.
Terminate(p) ==
    /\ m_handshake_timer' = "none"
    /\ m_state' = "closed"
    /\ pending' = (p \ {m_handshake_timer})
                    \cup (CASE m_state = "connecting" -> {"shutFailed"}
                            [] m_state = "closed"     -> {}
                            [] OTHER                  -> {"shutClosed"})

\* Fault: control frames overtake what is queued.
PushInFront(frames) ==
    /\ m_send_queue' = frames \o m_send_queue
    /\ accepted' = accepted \o frames
    /\ posts' = IF m_write_flag THEN posts ELSE posts + Len(frames)
    /\ UNCHANGED <<m_current_msgs, m_write_flag, written>>

\* write_push of some frames, each followed by a dispatch of write_frame when
\* no write is outstanding.
Push(frames) ==
    /\ m_send_queue' = m_send_queue \o frames
    /\ accepted' = accepted \o frames
    /\ posts' = IF m_write_flag THEN posts ELSE posts + Len(frames)
    /\ UNCHANGED <<m_current_msgs, m_write_flag, written>>

\* Fault: the timer is not set when the close is an answer.
SendCloseFrameUntimed(frame) ==
    /\ m_state' = "closing"
    /\ UNCHANGED <<m_handshake_timer, pending>>
    /\ Push(<<frame>>)
    /\ UNCHANGED m_internal_state

\* send_close_frame: a new timer replaces m_handshake_timer, which is not
\* cancelled and stays pending on its own.
SendCloseFrame(frame) ==
    /\ m_state' = "closing"
    /\ m_handshake_timer' = "closeTimer"
    /\ pending' = pending \cup {"closeTimer"}
                    \cup (IF "closeTimer" \in pending THEN {"oldTimer"} ELSE {})
    /\ Push(<<frame>>)
    /\ UNCHANGED m_internal_state

\* Fault: the event loop survives the exception.
ThrowCaught == UNCHANGED <<run, pending, ready>> /\ posts' = posts + 1

\* An exception leaves run(): startWebSocket catches it, and the endpoint is
\* destroyed with its io_service and every handler in it.
Throw == run' = "threw" /\ pending' = {} /\ ready' = {} /\ posts' = 0

\* The loop takes a ready handler.
Take(op, res) == /\ Idle
                 /\ Completion(op, res) \in ready
                 /\ ready' = ready \ {Completion(op, res)}

-----------------------------------------------------------------------------
\* startWebSocket up to run(): get_connection may fail, connect() starts.
startWebSocket ==
    /\ run = "idle"
    /\ \/ run' = "returned" /\ UNCHANGED pending
       \/ run' = "running" /\ pending' = {"connect"}
    /\ UNCHANGED <<opens, fails, closes, delivered, con, out, ready, posts, in>>

\* client::handle_connect and connection::start.
handle_connect(res) ==
    /\ Take("connect", res)
    /\ IF res = "ok" /\ m_internal_state = "USER_INIT"
       THEN /\ m_internal_state' = "TRANSPORT_INIT"
            /\ pending' = pending \cup {"init"}
            /\ UNCHANGED <<m_state, m_handshake_timer>>
       ELSE Terminate(pending) /\ UNCHANGED m_internal_state
    /\ UNCHANGED <<app, out, posts, in>>

\* connection::handle_transport_init and send_http_request.
handle_transport_init(res) ==
    /\ Take("init", res)
    /\ IF res = "ok" /\ m_internal_state = "TRANSPORT_INIT"
       THEN /\ m_internal_state' = "WRITE_HTTP_REQUEST"
            /\ m_handshake_timer' = "openTimer"
            /\ pending' = pending \cup {"openTimer", "httpWrite"}
            /\ UNCHANGED m_state
       ELSE Terminate(pending) /\ UNCHANGED m_internal_state
    /\ UNCHANGED <<app, out, posts, in>>

handle_send_http_request(res) ==
    /\ Take("httpWrite", res)
    /\ CASE res = "ok" /\ m_state = "closed" ->
              UNCHANGED <<con, pending>>
         [] res = "ok" /\ m_state = "connecting" /\ m_internal_state = "WRITE_HTTP_REQUEST" ->
              /\ m_internal_state' = "READ_HTTP_RESPONSE"
              /\ pending' = pending \cup {"httpRead"}
              /\ UNCHANGED <<m_state, m_handshake_timer>>
         [] OTHER -> Terminate(pending) /\ UNCHANGED m_internal_state
    /\ UNCHANGED <<app, out, posts, in>>

\* The open handler queues n requests: all of them, or those before the first
\* one that send() refuses, which is the first of its symbol.
RequestsSent(n) ==
    n < Total => /\ Channels[n + 1][1] \in BadSymbols
                 /\ \A i \in 1 .. n : Channels[i][1] # Channels[n + 1][1]

\* The rest of handle_read_http_response: the connection is open, the open
\* handler sends the subscriptions (or throws part way), and what came behind
\* the response is read as frames.  p: the operations pending at that point.
Open(p) ==
    /\ m_internal_state' = "PROCESS_CONNECTION"
    /\ m_state' = "open"
    /\ m_handshake_timer' = "none"
    /\ opens' = opens + 1
    /\ \E n \in 0 .. Total :
          /\ RequestsSent(n)
          /\ LET requests == [i \in 1 .. n |-> Request(i)]
             IN  \/ /\ n < Total
                    /\ Throw
                    /\ m_send_queue' = m_send_queue \o requests
                    /\ accepted' = accepted \o requests
                    /\ UNCHANGED <<m_current_msgs, m_write_flag, written, reading, input>>
                 \/ /\ n = Total
                    /\ pending' = p
                    /\ ready' = ready \ {Completion("httpRead", "ok")}
                    /\ Push(requests)
                    /\ reading' = TRUE
                    /\ input' \in Bursts
                    /\ UNCHANGED run
    /\ UNCHANGED <<fails, closes, delivered, reads>>

\* connection::handle_read_http_response.  A response that is accepted cancels
\* the open-handshake timer; one whose Sec-WebSocket-Extensions header cannot be
\* parsed terminates the connection, and the code goes on to open it.
handle_read_http_response(res) ==
    /\ Idle
    /\ Completion("httpRead", res) \in ready
    /\ \/ /\ res = "ok" /\ m_state = "closed"
          /\ ready' = ready \ {Completion("httpRead", res)}
          /\ UNCHANGED <<app, con, out, pending, posts, in>>
       \/ /\ res # "ok" \/ (m_state \notin {"closed", "connecting"})
                        \/ (m_state = "connecting" /\ m_internal_state # "READ_HTTP_RESPONSE")
          /\ ready' = ready \ {Completion("httpRead", res)}
          /\ IF res = "eof" /\ m_state = "closed"
             THEN UNCHANGED <<con, pending>>
             ELSE Terminate(pending) /\ UNCHANGED m_internal_state
          /\ UNCHANGED <<app, out, posts, in>>
       \/ /\ res = "ok" /\ m_state = "connecting" /\ m_internal_state = "READ_HTTP_RESPONSE"
          /\ \E answer \in Answers :
                \/ /\ answer = "partial"
                   /\ ready' = ready \ {Completion("httpRead", res)}
                   /\ pending' = pending \cup {"httpRead"}
                   /\ UNCHANGED <<app, con, out, posts, in>>
                \/ /\ answer \in {"malformed", "rejected"}
                   /\ ready' = ready \ {Completion("httpRead", res)}
                   /\ Terminate(pending)
                   /\ UNCHANGED <<app, out, posts, in, m_internal_state>>
                \/ /\ answer = "accepted"
                   /\ Open(pending \ {m_handshake_timer})
                \/ /\ answer = "badExtensions"
                   /\ Open((pending \ {m_handshake_timer}) \cup {"shutFailed"})

-----------------------------------------------------------------------------
\* connection::handle_read_frame, up to its loop.
handle_read_frame(res) ==
    /\ Take("read", res)
    /\ \/ /\ res = "ok" /\ m_internal_state = "PROCESS_CONNECTION"
          /\ reading' = TRUE
          /\ input' \in Bursts
          /\ UNCHANGED <<con, pending>>
       \/ /\ res # "ok" \/ m_internal_state # "PROCESS_CONNECTION"
          /\ IF m_state = "closed" /\ res # "error"
             THEN UNCHANGED <<con, pending>>
             ELSE Terminate(pending) /\ UNCHANGED m_internal_state
          /\ UNCHANGED <<reading, input>>
    /\ UNCHANGED <<app, out, posts, reads>>

\* One turn of the loop: consume() and what is done with the frame.
Consume(frame) == Running /\ reading /\ input # <<>> /\ Head(input) = frame

\* A data message is given to the message handler while the connection is
\* open; the application's handler throws when it is not JSON.
DataFrame ==
    /\ \E f \in {"data", "notJson"} :
         /\ Consume(f)
         /\ IF m_state # "open"
            THEN UNCHANGED <<run, delivered, loop>>
            ELSE /\ delivered' = delivered + 1
                 /\ IF f = "notJson" THEN Throw ELSE UNCHANGED <<run, loop>>
    /\ input' = Tail(input)
    /\ UNCHANGED <<opens, fails, closes, con, out, reading, reads>>

\* process_control_frame: a ping is answered while the connection is open.
PingFrame ==
    /\ Consume("ping")
    /\ IF m_state = "open" THEN Push(<<Pong>>) ELSE UNCHANGED <<out, posts>>
    /\ input' = Tail(input)
    /\ UNCHANGED <<app, con, pending, ready, reading, reads>>

PongFrame ==
    /\ Consume("pong")
    /\ input' = Tail(input)
    /\ UNCHANGED <<app, con, out, loop, reading, reads>>

\* A close frame is acknowledged when the connection is open; a client that is
\* closing leaves the rest to the server's end of the stream and to its timer.
CloseFrame ==
    /\ Consume("close")
    /\ IF m_state = "open" THEN SendCloseFrame(CloseAck)
                           ELSE UNCHANGED <<con, out, pending, posts>>
    /\ input' = Tail(input)
    /\ UNCHANGED <<app, ready, reading, reads>>

\* One with a bad code or reason is acknowledged in state closing as well.
BadCloseFrame ==
    /\ Consume("badClose")
    /\ IF m_state # "closed" THEN SendCloseFrame(CloseAck)
                             ELSE UNCHANGED <<con, out, pending, posts>>
    /\ input' = Tail(input)
    /\ UNCHANGED <<app, ready, reading, reads>>

\* consume() fails: close() with a terminal code, which is refused when the
\* connection is not open and then terminates it.  No further read is started.
MalformedFrame ==
    /\ Consume("malformed")
    /\ IF m_state = "open"
       THEN SendCloseFrame(CloseError)
       ELSE Terminate(pending) /\ UNCHANGED <<m_internal_state, out, posts>>
    /\ reading' = FALSE
    /\ input' = <<>>
    /\ UNCHANGED <<app, ready, reads>>

\* Fault: the next read is started before the loop has ended.
read_frameEarly ==
    /\ Running /\ reading /\ ~InFlight("read")
    /\ reading' = (input # <<>>)
    /\ pending' = pending \cup {"read"}
    /\ UNCHANGED <<app, con, out, ready, posts, input, reads>>

\* connection::read_frame, after the loop.
read_frame ==
    /\ Running /\ reading /\ input = <<>>
    /\ reading' = FALSE
    /\ pending' = pending \cup {"read"}
    /\ UNCHANGED <<app, con, out, ready, posts, input, reads>>

-----------------------------------------------------------------------------
\* The first n frames of the queue are what one write takes: all of them, or
\* those up to the first terminal one.
IsBatch(n) ==
    /\ \A i \in 1 .. n - 1 : m_send_queue[i] # CloseError
    /\ n = Len(m_send_queue) \/ m_send_queue[n] = CloseError

\* Fault: write_frame runs without having been posted.
TakePostAnyway == Idle /\ posts' = posts - 1
TakePost == Idle /\ posts > 0 /\ posts' = posts - 1

\* Fault: the flag is not looked at.
NothingToWriteButQueue == m_send_queue = <<>>
NothingToWrite == m_write_flag \/ m_send_queue = <<>>

\* connection::write_frame, a handler that dispatch posted.
write_frame ==
    /\ TakePost
    /\ \/ NothingToWrite /\ UNCHANGED <<out, pending>>
       \/ /\ ~NothingToWrite
          /\ \E n \in 1 .. Len(m_send_queue) :
                /\ IsBatch(n)
                /\ LET batch == SubSeq(m_send_queue, 1, n)
                   IN  /\ m_current_msgs' = m_current_msgs \o batch
                       /\ written' = written \o batch
                /\ m_send_queue' = SubSeq(m_send_queue, n + 1, Len(m_send_queue))
          /\ m_write_flag' = TRUE
          /\ pending' = pending \cup {"write"}
          /\ UNCHANGED accepted
    /\ UNCHANGED <<app, con, ready, in>>

\* Fault: what was queued during the write is forgotten.
WriteNextForgotten == UNCHANGED posts
WriteNext == posts' = IF m_send_queue = <<>> THEN posts ELSE posts + 1

\* connection::handle_write_frame.  m_current_msgs.back() is undefined when
\* there is none: OneWrite says that this does not happen.
handle_write_frame(res) ==
    /\ Take("write", res)
    /\ m_current_msgs' = <<>>
    /\ IF res # "ok" \/ m_current_msgs[Len(m_current_msgs)] = CloseError
       THEN Terminate(pending) /\ UNCHANGED <<m_internal_state, m_write_flag, posts>>
       ELSE /\ m_write_flag' = FALSE
            /\ WriteNext
            /\ UNCHANGED <<con, pending>>
    /\ UNCHANGED <<app, m_send_queue, accepted, written, in>>

\* Fault: only a connection that is open is closed.
HandshakeTimeoutOfOpen(t) ==
    /\ Take(t, "ok")
    /\ IF m_state = "connecting" THEN UNCHANGED <<m_state, m_handshake_timer, pending>>
                                 ELSE Terminate(pending)
    /\ UNCHANGED <<app, m_internal_state, out, posts, in>>

\* handle_open_handshake_timeout and handle_close_handshake_timeout: neither
\* looks at the state of the connection.
HandshakeTimeout(t) ==
    /\ Take(t, "ok")
    /\ Terminate(pending)
    /\ UNCHANGED <<app, m_internal_state, out, posts, in>>
handle_open_handshake_timeout  == HandshakeTimeout("openTimer")
handle_close_handshake_timeout == HandshakeTimeout("closeTimer") \/ HandshakeTimeout("oldTimer")

\* connection::handle_terminate, bound to the terminate_status: the fail or the
\* close handler is called.
handle_terminate(res) ==
    /\ \/ Take("shutFailed", res) /\ fails' = fails + 1 /\ UNCHANGED closes
       \/ Take("shutClosed", res) /\ closes' = closes + 1 /\ UNCHANGED fails
    /\ UNCHANGED <<run, opens, delivered, con, out, pending, posts, in>>

\* run() returns when nothing is outstanding, and startWebSocket with it.
Return ==
    /\ Idle /\ pending = {} /\ ready = {} /\ posts = 0
    /\ run' = "returned"
    /\ UNCHANGED <<opens, fails, closes, delivered, con, out, loop, in>>

-----------------------------------------------------------------------------
\* The outside completes an operation.
Complete(op, res) ==
    /\ Running /\ op \in pending
    /\ pending' = pending \ {op}
    /\ ready' = ready \cup {Completion(op, res)}
    /\ UNCHANGED <<app, con, out, posts, reading, input>>

Answered(op) == op \in {"connect", "init"} \cup Shutdowns
                /\ (\E res \in {"ok", "error"} : Complete(op, res)) /\ UNCHANGED reads
Sent(op)     == op \in Writes /\ (\E res \in {"ok", "error"} : Complete(op, res)) /\ UNCHANGED reads
Received(op) == op \in Reads /\ reads < MaxReads /\ Complete(op, "ok") /\ reads' = reads + 1
Ended(op)    == op \in Reads /\ (\E res \in {"eof", "error"} : Complete(op, res)) /\ UNCHANGED reads
Expired(t)   == t \in Timers /\ Complete(t, "ok") /\ UNCHANGED reads

\* After the shutdown of the socket has been reported, what is still pending on
\* it fails.
Aborted == /\ fails + closes > 0
           /\ \E op \in Reads \cup Writes : Complete(op, "error") /\ UNCHANGED reads

-----------------------------------------------------------------------------
Init ==
    /\ run = "idle"
    /\ m_state = "connecting" /\ m_internal_state = "USER_INIT" /\ m_handshake_timer = "none"
    /\ m_send_queue = <<>> /\ m_current_msgs = <<>> /\ m_write_flag = FALSE
    /\ pending = {} /\ ready = {} /\ posts = 0
    /\ reading = FALSE /\ input = <<>> /\ reads = 0
    /\ accepted = <<>> /\ written = <<>>
    /\ opens = 0 /\ fails = 0 /\ closes = 0 /\ delivered = 0

\* What the thread does in run().
EventLoop ==
    \/ \E res \in Results :
          \/ handle_connect(res) \/ handle_transport_init(res)
          \/ handle_send_http_request(res) \/ handle_read_http_response(res)
          \/ handle_read_frame(res) \/ handle_write_frame(res) \/ handle_terminate(res)
    \/ DataFrame \/ PingFrame \/ PongFrame \/ CloseFrame \/ BadCloseFrame
    \/ MalformedFrame \/ read_frame
    \/ write_frame
    \/ handle_open_handshake_timeout \/ handle_close_handshake_timeout
    \/ Return

Outside == \E op \in Operations :
              Answered(op) \/ Sent(op) \/ Received(op) \/ Ended(op) \/ Expired(op)

Next == startWebSocket \/ EventLoop \/ Outside

Spec == Init /\ [][Next]_vars

\* The thread runs what is ready, a timer expires, the transport calls back
\* (each of its operations has a timer of its own), and a socket that has been
\* shut down fails what is pending on it.  Nothing makes the server answer,
\* send, read or close.
Fairness ==
    /\ WF_vars(startWebSocket) /\ WF_vars(EventLoop) /\ WF_vars(Aborted)
    /\ \A op \in {"connect", "init"} \cup Shutdowns : WF_vars(Answered(op))
    /\ \A t \in Timers : WF_vars(Expired(t))

LiveSpec == Spec /\ Fairness
-----------------------------------------------------------------------------
(***************************************************************************)
(* Properties.                                                             *)
(***************************************************************************)
TypeOK ==
    /\ run \in {"idle", "running", "returned", "threw"}
    /\ m_state \in {"connecting", "open", "closing", "closed"}
    /\ m_internal_state \in {"USER_INIT", "TRANSPORT_INIT", "WRITE_HTTP_REQUEST",
                             "READ_HTTP_RESPONSE", "PROCESS_CONNECTION"}
    /\ m_handshake_timer \in {"none", "openTimer", "closeTimer"}
    /\ m_send_queue \in Seq(Frame) /\ m_current_msgs \in Seq(Frame)
    /\ accepted \in Seq(Frame) /\ written \in Seq(Frame)
    /\ m_write_flag \in BOOLEAN /\ reading \in BOOLEAN
    /\ pending \subseteq Operations
    /\ ready \subseteq [op : Operations, res : Results]
    /\ posts \in Nat /\ reads \in Nat
    /\ input \in Seq(PeerFrame)
    /\ opens \in Nat /\ fails \in Nat /\ closes \in Nat /\ delivered \in Nat

\* WebSocket++ promises its transport to have only one read in flight at a time
\* (transport/base/connection.hpp:61): all of them fill the same m_buf, which the
\* loop of handle_read_frame is still reading while it runs.
OneRead ==
    /\ \A op \in Reads \cap pending :
          /\ ~reading
          /\ \A h \in ready : h.op \notin Reads
          /\ Reads \cap pending = {op}
    /\ \A h, g \in ready : h.op \in Reads /\ g.op \in Reads => h = g
    /\ reading => \A h \in ready : h.op \notin Reads

\* WebSocket++ promises to have only one write in flight at a time
\* (transport/base/connection.hpp:73), and handle_write_frame takes the last of
\* the messages being written, so that there must be one.
OneWrite ==
    /\ \A op \in Writes \cap pending :
          (\A h \in ready : h.op \notin Writes) /\ Writes \cap pending = {op}
    /\ \A h, g \in ready : h.op \in Writes /\ g.op \in Writes => h = g
    /\ InFlight("write") => m_write_flag /\ m_current_msgs # <<>>

\* What is handed to the transport and what waits in the queue are, together,
\* what was sent, in order; the subscriptions of the open handler come first and
\* in the order of its loops.
QueueOrder ==
    /\ accepted = written \o m_send_queue
    /\ \A i \in 1 .. Len(accepted) : i <= Total => accepted[i] = Request(i)

\* No frame is forgotten in the queue: while the connection is not closed a write
\* is in flight, whose handler looks at the queue again, or a write_frame is posted.
NoLostWakeup ==
    (Running /\ m_send_queue # <<>> /\ m_state # "closed")
        => posts > 0 \/ InFlight("write")

\* When send() refuses a subscription and the open handler throws, those of the
\* earlier symbols were queued but none of them reaches the server.
AllOrNothing ==
    (opens > 0 /\ Len(accepted) < Total) => written = <<>>

\* Once the closing handshake has begun the connection ends by itself, whatever
\* the server does: its close timer is running, or the connection is closed, or
\* its handler is about to run.
CloseTimed ==
    Running /\ m_state = "closing" => InFlight("closeTimer")

\* A connection attempt is settled within its timeouts: it does not stay
\* connecting whatever the server leaves unanswered.
Settles == (Running /\ m_state = "connecting") ~> ~(Running /\ m_state = "connecting")

\* A connection that is closing or closed lets startWebSocket return.
RunEnds == (m_state \in {"closing", "closed"}) ~> ~Running

\* The library's documentation of the open-handshake timeout: `Connections that
\* time out will have their fail handlers called' (connection.hpp:488).  Does not hold
\* (README, section 7) when the response is read as the timer runs out.
TimeoutFails == [][handle_open_handshake_timeout => m_state # "open"]_vars

\* One connection sends one close frame: the change log reports two in a row as a
\* bug that was fixed (changelog.md:430).  Does not hold (README, section 7) when the
\* server sends bad ones.
OneCloseFrame ==
    Cardinality({i \in 1 .. Len(written) : written[i].type = "close"}) <= 1

-----------------------------------------------------------------------------
(***************************************************************************)
(* The inductive invariant behind the safety properties (ConnectionProofs).*)
(***************************************************************************)
\* One operation drives the connection forward at any time: connecting,
\* initialising, the request, the response or a read, or the loop of the read
\* handler itself.
ChainOps == {"connect", "init", "httpWrite"} \cup Reads

\* Before startWebSocket nothing has been started.
BeforeRun ==
    run = "idle" => pending = {} /\ ready = {} /\ ~reading /\ m_internal_state = "USER_INIT"

Chain ==
    /\ \A a, b \in ChainOps : InFlight(a) /\ InFlight(b) => a = b
    /\ \A a \in ChainOps \cap pending : \A h \in ready : h.op # a
    /\ \A g, h \in ready : g.op \in ChainOps /\ g.op = h.op => g = h
    /\ reading => \A a \in ChainOps : ~InFlight(a)

\* Nothing is queued before the connection has opened, and all subscriptions
\* are as soon as it has.
Phases ==
    /\ \A a \in ChainOps \ {"read"} : InFlight(a) => m_internal_state # "PROCESS_CONNECTION"
    /\ InFlight("read") \/ reading => m_internal_state = "PROCESS_CONNECTION"
    /\ m_internal_state # "PROCESS_CONNECTION" =>
          /\ m_send_queue = <<>> /\ m_current_msgs = <<>> /\ ~m_write_flag
          /\ accepted = <<>> /\ written = <<>> /\ posts = 0
          /\ m_state \in {"connecting", "closed"}
          /\ opens = 0 /\ ~InFlight("write")
    /\ m_internal_state = "PROCESS_CONNECTION" =>
          /\ m_state # "connecting" /\ opens = 1
          /\ Running => Len(accepted) >= Total

\* The write flag stands for a write in flight, but for the last write of a
\* connection, which never gives it back.
Writing ==
    /\ "write" \in pending => \A h \in ready : h.op # "write"
    /\ \A g, h \in ready : g.op = "write" /\ h.op = "write" => g = h
    /\ InFlight("write") => /\ m_write_flag /\ m_current_msgs # <<>> /\ written # <<>>
                            /\ m_current_msgs[Len(m_current_msgs)] = written[Len(written)]
    /\ (Running /\ m_write_flag /\ m_state # "closed") => InFlight("write")

\* The shutdown is in flight at most once, bound to the handler that is due.
Lifecycle ==
    /\ m_state # "closed" => /\ fails = 0 /\ closes = 0
                             /\ \A op \in Shutdowns : ~InFlight(op)
    /\ InFlight("shutFailed") => opens = 0 /\ fails = 0
    /\ InFlight("shutClosed") => opens = 1 /\ closes = 0
    /\ \A op \in Shutdowns \cap pending : \A h \in ready : h.op # op
    /\ \A g, h \in ready : g.op \in Shutdowns /\ g.op = h.op => g = h
    /\ opens > 0 => fails = 0
    /\ opens = 0 => closes = 0

IInv == /\ TypeOK /\ BeforeRun /\ Chain /\ Phases /\ Writing
        /\ QueueOrder /\ NoLostWakeup
        /\ AllOrNothing /\ CloseTimed
=============================================================================
