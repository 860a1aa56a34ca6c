-------------------------- MODULE ConnectionProofs --------------------------
(***************************************************************************)
(* The safety properties of Connection, for every list of symbols, every   *)
(* answer of the server and every burst of frames.                         *)
(*                                                                         *)
(* One lemma per conjunct of the inductive invariant IInv says that a step *)
(* preserves it, with a step per action.  Most actions disturb a conjunct  *)
(* in one of two or three ways, which have a lemma of their own: they      *)
(* leave it alone (the ...Calm lemmas), they queue a frame (the ...Push    *)
(* lemmas), they drive the chain of operations on.                         *)
(***************************************************************************)
EXTENDS ConnectionRefinement, SequenceTheorems, TLAPS

-----------------------------------------------------------------------------
\* What terminate does, apart from the shutdown it chooses.
LEMMA Terminated ==
  Terminate(pending) => /\ m_handshake_timer' = "none" /\ m_state' = "closed"
                        /\ pending' \subseteq pending \cup Shutdowns
  <1> SUFFICES ASSUME Terminate(pending)
               PROVE  /\ m_handshake_timer' = "none" /\ m_state' = "closed"
                      /\ pending' \subseteq pending \cup Shutdowns
    OBVIOUS
  <1>1. CASE m_state = "connecting"
    BY <1>1 DEF Terminate, Shutdowns
  <1>2. CASE m_state = "closed"
    BY <1>2 DEF Terminate, Shutdowns
  <1>3. CASE m_state \notin {"connecting", "closed"}
    BY <1>3 DEF Terminate, Shutdowns
  <1> QED
    BY <1>1, <1>2, <1>3

\* The requests are as many as the channels.
LEMMA TotalType == Total \in Nat /\ Total = 3 * Len(Symbols)
  <1> DEFINE n == 3 * Len(Symbols)
             S == {Channels[i] : i \in 1 .. n}
  <1>1. n \in Nat
    BY SymbolsAssumption, LenProperties
  <1>2. Channels \in [1 .. n -> S]
    BY DEF Channels
  <1>3. Channels \in Seq(S)
    BY <1>1, <1>2, SeqDef
  <1> QED
    BY <1>1, <1>2, <1>3, LenProperties DEF Total

LEMMA FramesSent ==
  /\ Pong \in Frame /\ CloseAck \in Frame /\ CloseError \in Frame
  /\ <<Pong>> \in Seq(Frame) /\ <<CloseAck>> \in Seq(Frame) /\ <<CloseError>> \in Seq(Frame)
  BY DEF Frame

\* The requests of the first n channels.
LEMMA RequestsType ==
  ASSUME NEW n \in 0 .. Total
  PROVE  LET requests == [i \in 1 .. n |-> Request(i)]
         IN  requests \in Seq(Frame) /\ Len(requests) = n
  <1> DEFINE requests == [i \in 1 .. n |-> Request(i)]
  <1>1. \A i \in 1 .. n : Request(i) \in Frame
    BY TotalType DEF Frame
  <1>2. requests \in [1 .. n -> Frame]
    BY <1>1
  <1>3. requests \in Seq(Frame)
    BY <1>2, TotalType, SeqDef
  <1> QED
    BY <1>2, <1>3, TotalType, LenProperties

-----------------------------------------------------------------------------
(***************************************************************************)
(* What the steps with several outcomes come to.                           *)
(***************************************************************************)
LEMMA OutsideStep ==
  Outside => \E op \in Operations, res \in Results :
                Complete(op, res) /\ reads' \in {reads, reads + 1}
  BY DEF Outside, Answered, Sent, Received, Ended, Expired, Results

LEMMA DataStep ==
  DataFrame => /\ Running /\ reading /\ input # <<>> /\ input' = Tail(input)
               /\ delivered' \in {delivered, delivered + 1}
               /\ UNCHANGED <<opens, fails, closes, con, out, reading, reads>>
               /\ Throw \/ UNCHANGED <<run, loop>>
  BY DEF DataFrame, Consume

\* The handler of the response gives up, reads on, or opens the connection.
GivesUp == /\ Terminate(pending) \/ UNCHANGED <<con, pending>>
           /\ UNCHANGED <<app, out, posts, in, m_internal_state>>
ReadsOn == /\ pending' = pending \cup {"httpRead"}
           /\ UNCHANGED <<app, con, out, posts, in>>
Opens(n) == LET requests == [i \in 1 .. n |-> Request(i)] IN
            /\ m_internal_state' = "PROCESS_CONNECTION" /\ m_state' = "open"
            /\ m_handshake_timer' = "none" /\ opens' = opens + 1
            /\ m_send_queue' = m_send_queue \o requests
            /\ accepted' = accepted \o requests
            /\ UNCHANGED <<m_current_msgs, m_write_flag, written, fails, closes, delivered, reads>>
OpensAll == /\ Opens(Total) /\ reading' = TRUE /\ input' \in Bursts
            /\ pending' \subseteq pending \cup {"shutFailed"}
            /\ posts' = IF m_write_flag THEN posts ELSE posts + Total
            /\ UNCHANGED run
OpensPartly == \E n \in 0 .. Total : Opens(n) /\ Throw /\ UNCHANGED <<reading, input>>

LEMMA OpenStep ==
  ASSUME NEW STATE p, p \subseteq pending \cup {"shutFailed"}, Open(p)
  PROVE  \/ OpensAll /\ ready' = ready \ {Completion("httpRead", "ok")}
         \/ OpensPartly
  <1>1. PICK n \in 0 .. Total :
          LET requests == [i \in 1 .. n |-> Request(i)]
          IN  \/ /\ n < Total
                 /\ Throw
                 /\ m_send_queue' = m_send_queue \o requests
                 /\ accepted' = accepted \o requests
                 /\ UNCHANGED <<m_current_msgs, m_write_flag, written, reading, input>>
              \/ /\ n = Total
                 /\ pending' = p
                 /\ ready' = ready \ {Completion("httpRead", "ok")}
                 /\ Push(requests)
                 /\ reading' = TRUE
                 /\ input' \in Bursts
                 /\ UNCHANGED run
    BY DEF Open
  <1> DEFINE requests == [i \in 1 .. n |-> Request(i)]
  <1>2. CASE Throw /\ m_send_queue' = m_send_queue \o requests
             /\ accepted' = accepted \o requests
             /\ UNCHANGED <<m_current_msgs, m_write_flag, written, reading, input>>
    <2>1. Opens(n)
      BY <1>2 DEF Open, Opens
    <2> QED
      BY <1>2, <2>1 DEF OpensPartly
  <1>3. CASE n = Total /\ Push(requests)
    <2>1. Opens(Total)
      BY <1>3 DEF Open, Opens, Push
    <2>2. Len(requests) = Total
      BY <1>3, RequestsType
    <2> QED
      BY <1>1, <1>3, <2>1, <2>2, TotalType DEF OpensAll, Push
  <1> QED
    BY <1>1, <1>2, <1>3

LEMMA ResponseStep ==
  ASSUME NEW res, handle_read_http_response(res)
  PROVE  /\ Idle /\ Completion("httpRead", res) \in ready
         /\ \/ GivesUp /\ ready' = ready \ {Completion("httpRead", res)}
            \/ /\ m_state = "connecting" /\ m_internal_state = "READ_HTTP_RESPONSE"
               /\ \/ (ReadsOn \/ OpensAll) /\ ready' = ready \ {Completion("httpRead", res)}
                  \/ OpensPartly
  <1>1. Idle /\ Completion("httpRead", res) \in ready
    BY DEF handle_read_http_response
  <1>2. \/ GivesUp /\ ready' = ready \ {Completion("httpRead", res)}
        \/ /\ m_state = "connecting" /\ m_internal_state = "READ_HTTP_RESPONSE"
           /\ ReadsOn /\ ready' = ready \ {Completion("httpRead", res)}
        \/ /\ m_state = "connecting" /\ m_internal_state = "READ_HTTP_RESPONSE" /\ res = "ok"
           /\ \/ Open(pending \ {m_handshake_timer})
              \/ Open((pending \ {m_handshake_timer}) \cup {"shutFailed"})
    BY DEF handle_read_http_response, GivesUp, ReadsOn, con
  <1> QED
    BY <1>1, <1>2, OpenStep

\* What is pushed keeps the types of the queue.
LEMMA PushTypes ==
  TypeOK => \A fs \in Seq(Frame) :
              Push(fs) => /\ m_send_queue' \in Seq(Frame) /\ accepted' \in Seq(Frame)
                          /\ posts' \in Nat
                          /\ UNCHANGED <<m_current_msgs, m_write_flag, written>>
  <1> SUFFICES ASSUME TypeOK, NEW fs \in Seq(Frame), Push(fs)
               PROVE  /\ m_send_queue' \in Seq(Frame) /\ accepted' \in Seq(Frame)
                      /\ posts' \in Nat
                      /\ UNCHANGED <<m_current_msgs, m_write_flag, written>>
    OBVIOUS
  <1>1. m_send_queue \o fs \in Seq(Frame) /\ accepted \o fs \in Seq(Frame) /\ Len(fs) \in Nat
    BY ConcatProperties, LenProperties DEF TypeOK
  <1> QED
    BY <1>1 DEF Push, TypeOK

LEMMA TypeStep == TypeOK /\ [Next]_vars => TypeOK'
  <1> SUFFICES ASSUME TypeOK, [Next]_vars PROVE TypeOK'
    OBVIOUS
  <1>1. ASSUME startWebSocket PROVE TypeOK'
    BY <1>1
    DEF startWebSocket, app, con, out, loop, in, TypeOK, Operations, Timers, Shutdowns,
        Writes, Reads, Results
  <1>2. ASSUME NEW res \in Results, handle_connect(res) PROVE TypeOK'
    BY <1>2, Terminated
    DEF handle_connect, Take, Idle, Running, Completion, app, con, out, loop, in,
        TypeOK, Operations, Timers, Shutdowns, Writes, Reads, Results
  <1>3. ASSUME NEW res \in Results, handle_transport_init(res) PROVE TypeOK'
    BY <1>3, Terminated
    DEF handle_transport_init, Take, Idle, Running, Completion, app, con, out, loop, in,
        TypeOK, Operations, Timers, Shutdowns, Writes, Reads, Results
  <1>4. ASSUME NEW res \in Results, handle_send_http_request(res) PROVE TypeOK'
    BY <1>4, Terminated
    DEF handle_send_http_request, Take, Idle, Running, Completion, app, con, out, loop,
        in, TypeOK, Operations, Timers, Shutdowns, Writes, Reads, Results
  <1>5. ASSUME NEW res \in Results, handle_read_http_response(res) PROVE TypeOK'
    <2>1. Idle /\ ready' \subseteq ready => TypeOK'
      <3> SUFFICES ASSUME ready' \subseteq ready PROVE TypeOK'
        OBVIOUS
      <3>1. CASE GivesUp
        BY <3>1, Terminated, ZenonT(60)
        DEF GivesUp, app, con, out, in, TypeOK, Operations, Timers, Shutdowns, Writes,
            Reads, Results
      <3>2. CASE ReadsOn
        BY <3>2
        DEF ReadsOn, app, con, out, in, TypeOK, Operations, Timers, Shutdowns, Writes,
            Reads, Results
      <3>3. ASSUME NEW n \in 0 .. Total, Opens(n)
            PROVE  m_send_queue' \in Seq(Frame) /\ accepted' \in Seq(Frame)
        BY <3>3, RequestsType, ConcatProperties DEF Opens, TypeOK
      <3>4. CASE OpensAll
        <4>1. m_send_queue' \in Seq(Frame) /\ accepted' \in Seq(Frame)
          BY <3>3, <3>4, TotalType DEF OpensAll
        <4> QED
          BY <3>4, <4>1, TotalType, BurstsAssumption
          DEF OpensAll, Opens, TypeOK, Operations, Timers, Shutdowns, Writes, Reads,
              Results
      <3>5. CASE OpensPartly
        <4>1. PICK n \in 0 .. Total : Opens(n) /\ Throw /\ UNCHANGED <<reading, input>>
          BY <3>5 DEF OpensPartly
        <4>2. m_send_queue' \in Seq(Frame) /\ accepted' \in Seq(Frame)
          BY <3>3, <4>1
        <4>3. /\ m_current_msgs' = m_current_msgs /\ written' = written
              /\ m_write_flag' = m_write_flag /\ reads' = reads
              /\ opens' = opens + 1 /\ fails' = fails /\ closes' = closes
              /\ delivered' = delivered /\ m_internal_state' = "PROCESS_CONNECTION"
              /\ m_state' = "open" /\ m_handshake_timer' = "none"
          BY <4>1 DEF Opens
        <4> QED
          BY <4>1, <4>2, <4>3 DEF Throw, TypeOK
      <3> QED
        BY <1>5, <3>1, <3>2, <3>4, <3>5, ResponseStep
    <2> QED
      BY <1>5, <2>1, ResponseStep DEF OpensPartly, Throw
  <1>6. ASSUME NEW res \in Results, handle_read_frame(res) PROVE TypeOK'
    BY <1>6, Terminated, BurstsAssumption
    DEF handle_read_frame, Take, Idle, Running, Completion, app, con, out, loop, in,
        TypeOK, Operations, Timers, Shutdowns, Writes, Reads, Results
  <1>7. ASSUME NEW res \in Results, handle_write_frame(res) PROVE TypeOK'
    <2>1. m_current_msgs' = <<>> /\ ready' \subseteq ready
          /\ UNCHANGED <<app, m_send_queue, accepted, written, in>>
      BY <1>7 DEF handle_write_frame, Take
    <2>0. <<>> \in Seq(Frame)
      BY EmptySeq
    <2>2. CASE Terminate(pending) /\ UNCHANGED <<m_internal_state, m_write_flag, posts>>
      BY <2>0, <2>1, <2>2, Terminated
      DEF app, in, TypeOK, Operations, Timers, Shutdowns, Writes, Reads, Results
    <2>3. CASE m_write_flag' = FALSE /\ WriteNext /\ UNCHANGED <<con, pending>>
      <3>1. m_write_flag' = FALSE /\ posts' \in {posts, posts + 1} /\ pending' = pending
            /\ m_state' = m_state /\ m_internal_state' = m_internal_state
            /\ m_handshake_timer' = m_handshake_timer
        BY <2>3 DEF WriteNext, con
      <3>2. /\ m_current_msgs' \in Seq(Frame) /\ ready' \subseteq ready
            /\ m_send_queue' = m_send_queue /\ accepted' = accepted /\ written' = written
            /\ run' = run /\ opens' = opens /\ fails' = fails /\ closes' = closes
            /\ delivered' = delivered
            /\ reading' = reading /\ input' = input /\ reads' = reads
        BY <2>0, <2>1 DEF app, in
      <3>3. posts' \in Nat
        BY <3>1 DEF TypeOK
      <3>4. ready' \subseteq [op : Operations, res : Results]
        BY <3>2 DEF TypeOK
      <3>5. m_write_flag' \in BOOLEAN
        BY <3>1
      <3> QED
        BY <3>1, <3>2, <3>3, <3>4, <3>5 DEF TypeOK
    <2> QED
      BY <1>7, <2>2, <2>3 DEF handle_write_frame
  <1>8. ASSUME NEW res \in Results, handle_terminate(res) PROVE TypeOK'
    BY <1>8
    DEF handle_terminate, Take, Idle, Running, Completion, app, con, out, loop, in,
        TypeOK, Operations, Timers, Shutdowns, Writes, Reads, Results
  <1>9. ASSUME DataFrame PROVE TypeOK'
    <2>1. Tail(input) \in Seq(PeerFrame)
      BY <1>9, DataStep, HeadTailProperties DEF TypeOK
    <2>4. /\ input' = Tail(input) /\ delivered' \in {delivered, delivered + 1}
          /\ opens' = opens /\ fails' = fails /\ closes' = closes
          /\ m_state' = m_state /\ m_internal_state' = m_internal_state
          /\ m_handshake_timer' = m_handshake_timer
          /\ m_send_queue' = m_send_queue /\ m_current_msgs' = m_current_msgs
          /\ m_write_flag' = m_write_flag /\ accepted' = accepted /\ written' = written
          /\ reading' = reading /\ reads' = reads
      BY <1>9, DataStep DEF con, out
    <2>2. CASE Throw
      <3>1. run' = "threw" /\ pending' = {} /\ ready' = {} /\ posts' = 0
        BY <2>2 DEF Throw
      <3> QED
        BY <2>1, <2>4, <3>1 DEF TypeOK
    <2>3. CASE UNCHANGED <<run, loop>>
      <3>1. run' = run /\ pending' = pending /\ ready' = ready /\ posts' = posts
        BY <2>3 DEF loop
      <3> QED
        BY <2>1, <2>4, <3>1 DEF TypeOK
    <2> QED
      BY <1>9, <2>2, <2>3, DataStep
  <1>10. ASSUME PingFrame PROVE TypeOK'
    <2>1. Tail(input) \in Seq(PeerFrame)
      BY <1>10, HeadTailProperties DEF PingFrame, Consume, TypeOK
    <2> QED
      BY <1>10, <2>1, PushTypes, FramesSent, ZenonT(60)
      DEF PingFrame, Running, app, con, out, loop, in, TypeOK, Operations, Timers,
          Shutdowns, Writes, Reads, Results
  <1>11. ASSUME PongFrame PROVE TypeOK'
    <2>1. Tail(input) \in Seq(PeerFrame)
      BY <1>11, HeadTailProperties DEF PongFrame, Consume, TypeOK
    <2> QED
      BY <1>11, <2>1
      DEF PongFrame, Running, app, con, out, loop, in, TypeOK, Operations, Timers,
          Shutdowns, Writes, Reads, Results
  <1>12. ASSUME CloseFrame PROVE TypeOK'
    <2>1. Tail(input) \in Seq(PeerFrame)
      BY <1>12, HeadTailProperties DEF CloseFrame, Consume, TypeOK
    <2> QED
      BY <1>12, <2>1, PushTypes, FramesSent, ZenonT(60)
      DEF CloseFrame, SendCloseFrame, Running, app, con, out, loop, in, TypeOK,
          Operations, Timers, Shutdowns, Writes, Reads, Results
  <1>13. ASSUME BadCloseFrame PROVE TypeOK'
    <2>1. Tail(input) \in Seq(PeerFrame)
      BY <1>13, HeadTailProperties DEF BadCloseFrame, Consume, TypeOK
    <2> QED
      BY <1>13, <2>1, PushTypes, FramesSent
      DEF BadCloseFrame, SendCloseFrame, Running, app, con, out, loop, in, TypeOK,
          Operations, Timers, Shutdowns, Writes, Reads, Results
  <1>14. ASSUME MalformedFrame PROVE TypeOK'
    BY <1>14, Terminated, PushTypes, FramesSent, EmptySeq
    DEF MalformedFrame, SendCloseFrame, Consume, Running, app, con, out, loop, in,
        TypeOK, Operations, Timers, Shutdowns, Writes, Reads, Results
  <1>15. ASSUME read_frame PROVE TypeOK'
    BY <1>15
    DEF read_frame, Running, app, con, out, loop, in, TypeOK, Operations, Timers,
        Shutdowns, Writes, Reads, Results
  <1>16. ASSUME write_frame PROVE TypeOK'
    <2>1. CASE UNCHANGED <<out, pending>>
      BY <1>16, <2>1
      DEF write_frame, TakePost, app, con, out, in, TypeOK, Operations, Timers,
          Shutdowns, Writes, Reads, Results
    <2>2. CASE ~UNCHANGED <<out, pending>>
      <3>1. PICK n \in 1 .. Len(m_send_queue) :
              /\ m_current_msgs' = m_current_msgs \o SubSeq(m_send_queue, 1, n)
              /\ written' = written \o SubSeq(m_send_queue, 1, n)
              /\ m_send_queue' = SubSeq(m_send_queue, n + 1, Len(m_send_queue))
              /\ m_write_flag' = TRUE /\ pending' = pending \cup {"write"}
              /\ UNCHANGED accepted
        BY <1>16, <2>2 DEF write_frame
      <3>2. /\ SubSeq(m_send_queue, 1, n) \in Seq(Frame)
            /\ SubSeq(m_send_queue, n + 1, Len(m_send_queue)) \in Seq(Frame)
        BY SubSeqProperties, ElementOfSeq, LenProperties DEF TypeOK
      <3>3. m_current_msgs' \in Seq(Frame) /\ written' \in Seq(Frame)
        BY <3>1, <3>2, ConcatProperties DEF TypeOK
      <3> QED
        BY <1>16, <3>1, <3>2, <3>3
        DEF write_frame, TakePost, app, con, in, TypeOK, Operations, Timers, Shutdowns,
            Writes, Reads, Results
    <2> QED
      BY <2>1, <2>2
  <1>17. ASSUME NEW t \in Timers, HandshakeTimeout(t) PROVE TypeOK'
    BY <1>17, Terminated
    DEF HandshakeTimeout, Take, Idle, Running, Completion, app, con, out, loop, in,
        TypeOK, Operations, Timers, Shutdowns, Writes, Reads, Results
  <1>18. ASSUME Return PROVE TypeOK'
    BY <1>18
    DEF Return, Idle, Running, app, con, out, loop, in, TypeOK, Operations, Timers,
        Shutdowns, Writes, Reads, Results
  <1>19. ASSUME Outside PROVE TypeOK'
    <2>1. PICK op \in Operations, res \in Results :
            Complete(op, res) /\ reads' \in {reads, reads + 1}
      BY <1>19, OutsideStep
    <2> QED
      BY <2>1 DEF Complete, Completion, app, con, out, TypeOK
  <1>20. CASE UNCHANGED vars
    BY <1>20
    DEF vars, app, con, out, loop, in, TypeOK, Operations, Timers, Shutdowns, Writes,
        Reads, Results
  <1> QED
    BY <1>1, <1>2, <1>3, <1>4, <1>5, <1>6, <1>7, <1>8, <1>9, <1>10,
       <1>11, <1>12, <1>13, <1>14, <1>15, <1>16, <1>17, <1>18, <1>19, <1>20
    DEF Next, EventLoop, handle_open_handshake_timeout,
        handle_close_handshake_timeout, Timers, Results

LEMMA BeforeRunStep == BeforeRun /\ [Next]_vars => BeforeRun'
  <1> SUFFICES ASSUME BeforeRun, [Next]_vars PROVE BeforeRun'
    OBVIOUS
  <1>1. ASSUME startWebSocket PROVE BeforeRun'
    BY <1>1 DEF startWebSocket, app, con, out, loop, in, BeforeRun
  <1>2. ASSUME NEW res \in Results, handle_connect(res) PROVE BeforeRun'
    BY <1>2, Terminated
    DEF handle_connect, Take, Idle, Running, Completion, app, con, out, loop, in,
        BeforeRun
  <1>3. ASSUME NEW res \in Results, handle_transport_init(res) PROVE BeforeRun'
    BY <1>3, Terminated
    DEF handle_transport_init, Take, Idle, Running, Completion, app, con, out, loop, in,
        BeforeRun
  <1>4. ASSUME NEW res \in Results, handle_send_http_request(res) PROVE BeforeRun'
    BY <1>4, Terminated
    DEF handle_send_http_request, Take, Idle, Running, Completion, app, con, out, loop,
        in, BeforeRun
  <1>5. ASSUME NEW res \in Results, handle_read_http_response(res) PROVE BeforeRun'
    BY <1>5, ResponseStep
    DEF Idle, Running, GivesUp, ReadsOn, OpensAll, OpensPartly, Opens, Throw, BeforeRun,
        app, con
  <1>6. ASSUME NEW res \in Results, handle_read_frame(res) PROVE BeforeRun'
    BY <1>6, Terminated
    DEF handle_read_frame, Take, Idle, Running, Completion, app, con, out, loop, in,
        BeforeRun
  <1>7. ASSUME NEW res \in Results, handle_write_frame(res) PROVE BeforeRun'
    BY <1>7, Terminated
    DEF handle_write_frame, Take, Idle, Running, Completion, WriteNext, app, con, out,
        loop, in, BeforeRun
  <1>8. ASSUME NEW res \in Results, handle_terminate(res) PROVE BeforeRun'
    BY <1>8
    DEF handle_terminate, Take, Idle, Running, Completion, app, con, out, loop, in,
        BeforeRun
  <1>9. ASSUME DataFrame PROVE BeforeRun'
    BY <1>9, DataStep DEF Running, Throw, BeforeRun
  <1>10. ASSUME PingFrame PROVE BeforeRun'
    BY <1>10 DEF PingFrame, Consume, Running, Push, app, con, out, loop, in, BeforeRun
  <1>11. ASSUME PongFrame PROVE BeforeRun'
    BY <1>11 DEF PongFrame, Consume, Running, app, con, out, loop, in, BeforeRun
  <1>12. ASSUME CloseFrame PROVE BeforeRun'
    BY <1>12
    DEF CloseFrame, Consume, Running, SendCloseFrame, Push, app, con, out, loop, in,
        BeforeRun
  <1>13. ASSUME BadCloseFrame PROVE BeforeRun'
    BY <1>13
    DEF BadCloseFrame, Consume, Running, SendCloseFrame, Push, app, con, out, loop, in,
        BeforeRun
  <1>14. ASSUME MalformedFrame PROVE BeforeRun'
    BY <1>14, Terminated
    DEF MalformedFrame, Consume, Running, SendCloseFrame, Push, app, con, out, loop, in,
        BeforeRun
  <1>15. ASSUME read_frame PROVE BeforeRun'
    BY <1>15 DEF read_frame, Running, app, con, out, loop, in, BeforeRun
  <1>16. ASSUME write_frame PROVE BeforeRun'
    BY <1>16
    DEF write_frame, TakePost, NothingToWrite, Idle, Running, app, con, out, loop, in,
        BeforeRun
  <1>17. ASSUME NEW t \in Timers, HandshakeTimeout(t) PROVE BeforeRun'
    BY <1>17, Terminated
    DEF HandshakeTimeout, Take, Idle, Running, Completion, app, con, out, loop, in,
        BeforeRun
  <1>18. ASSUME Return PROVE BeforeRun'
    BY <1>18 DEF Return, Idle, Running, app, con, out, loop, in, BeforeRun
  <1>19. ASSUME Outside PROVE BeforeRun'
    BY <1>19, OutsideStep DEF Complete, Running, app, BeforeRun
  <1>20. CASE UNCHANGED vars
    BY <1>20 DEF vars, app, con, out, loop, in, BeforeRun
  <1> QED
    BY <1>1, <1>2, <1>3, <1>4, <1>5, <1>6, <1>7, <1>8, <1>9, <1>10,
       <1>11, <1>12, <1>13, <1>14, <1>15, <1>16, <1>17, <1>18, <1>19, <1>20
    DEF Next, EventLoop, handle_open_handshake_timeout,
        handle_close_handshake_timeout, Timers, Results

-----------------------------------------------------------------------------
(***************************************************************************)
(* Chain: one operation drives the connection.                             *)
(***************************************************************************)
LEMMA ChainFewer ==
  Chain /\ pending' \cap ChainOps \subseteq pending /\ ready' \subseteq ready /\ (reading' => reading)
    => Chain'
  BY DEF Chain, InFlight

\* When the handler of a chain operation is ready, nothing else of the chain is in flight.
LEMMA ChainTaken ==
  Chain => \A a \in ChainOps : \A res : Completion(a, res) \in ready =>
              /\ ~reading
              /\ \A b \in ChainOps : b \notin pending
              /\ \A g \in ready : g.op \in ChainOps => g = Completion(a, res)
  <1> SUFFICES ASSUME Chain, NEW a \in ChainOps, NEW res, Completion(a, res) \in ready
               PROVE  /\ ~reading
                      /\ \A b \in ChainOps : b \notin pending
                      /\ \A g \in ready : g.op \in ChainOps => g = Completion(a, res)
    OBVIOUS
  <1>1. Completion(a, res).op = a
    BY DEF Completion
  <1>2. InFlight(a)
    BY <1>1 DEF InFlight
  <1>3. ~reading
    BY <1>2 DEF Chain
  <1>4. \A b \in ChainOps : b \notin pending
    BY <1>1, <1>2 DEF Chain, InFlight
  <1>5. ASSUME NEW g \in ready, g.op \in ChainOps PROVE g = Completion(a, res)
    <2>1. g.op = a
      BY <1>2, <1>5 DEF Chain, InFlight
    <2> QED
      BY <1>1, <1>5, <2>1 DEF Chain
  <1> QED
    BY <1>3, <1>4, <1>5

\* The chain goes on with one operation, or with the loop of the read handler.
LEMMA ChainStart ==
  (\E a \in ChainOps : pending' \cap ChainOps \subseteq {a} /\ ~reading')
    /\ (\A g \in ready' : g.op \notin ChainOps) => Chain'
  BY DEF Chain, InFlight

LEMMA ChainReads ==
  pending' \cap ChainOps = {} /\ (\A g \in ready' : g.op \notin ChainOps) => Chain'
  BY DEF Chain, InFlight

LEMMA ChainStep == BeforeRun /\ Chain /\ [Next]_vars => Chain'
  <1> SUFFICES ASSUME BeforeRun, Chain, [Next]_vars PROVE Chain'
    OBVIOUS
  <1>1. ASSUME startWebSocket PROVE Chain'
    <2>1. pending' \cap ChainOps \subseteq {"connect"} /\ ready' = {} /\ ~reading'
      BY <1>1 DEF startWebSocket, BeforeRun, in
    <2> QED
      BY <2>1, ChainStart DEF ChainOps, Operations, Timers, Shutdowns, Writes, Reads
  <1>2. ASSUME NEW res \in Results, handle_connect(res) PROVE Chain'
    <2>1. Completion("connect", res) \in ready /\ ready' = ready \ {Completion("connect", res)}
          /\ ~reading /\ reading' = reading
      BY <1>2 DEF handle_connect, Take, Idle, in
    <2>2. \A b \in ChainOps : b \notin pending
      BY <2>1, ChainTaken DEF ChainOps, Operations, Timers, Shutdowns, Writes, Reads
    <2>3. \A g \in ready' : g.op \notin ChainOps
      BY <2>1, ChainTaken DEF ChainOps, Operations, Timers, Shutdowns, Writes, Reads
    <2>4. pending' \cap ChainOps \subseteq {"init"}
      BY <1>2, <2>2, Terminated
      DEF handle_connect, ChainOps, Operations, Timers, Shutdowns, Writes, Reads
    <2> QED
      BY <2>1, <2>3, <2>4, ChainStart
      DEF ChainOps, Operations, Timers, Shutdowns, Writes, Reads
  <1>3. ASSUME NEW res \in Results, handle_transport_init(res) PROVE Chain'
    <2>1. Completion("init", res) \in ready /\ ready' = ready \ {Completion("init", res)}
          /\ ~reading /\ reading' = reading
      BY <1>3 DEF handle_transport_init, Take, Idle, in
    <2>2. \A b \in ChainOps : b \notin pending
      BY <2>1, ChainTaken DEF ChainOps, Operations, Timers, Shutdowns, Writes, Reads
    <2>3. \A g \in ready' : g.op \notin ChainOps
      BY <2>1, ChainTaken DEF ChainOps, Operations, Timers, Shutdowns, Writes, Reads
    <2>4. pending' \cap ChainOps \subseteq {"httpWrite"}
      BY <1>3, <2>2, Terminated
      DEF handle_transport_init, ChainOps, Operations, Timers, Shutdowns, Writes, Reads
    <2> QED
      BY <2>1, <2>3, <2>4, ChainStart
      DEF ChainOps, Operations, Timers, Shutdowns, Writes, Reads
  <1>4. ASSUME NEW res \in Results, handle_send_http_request(res) PROVE Chain'
    <2>1. Completion("httpWrite", res) \in ready /\ ready' = ready \ {Completion("httpWrite", res)}
          /\ ~reading /\ reading' = reading
      BY <1>4 DEF handle_send_http_request, con, Take, Idle, in
    <2>2. \A b \in ChainOps : b \notin pending
      BY <2>1, ChainTaken DEF ChainOps, Operations, Timers, Shutdowns, Writes, Reads
    <2>3. \A g \in ready' : g.op \notin ChainOps
      BY <2>1, ChainTaken DEF ChainOps, Operations, Timers, Shutdowns, Writes, Reads
    <2>4. pending' \cap ChainOps \subseteq {"httpRead"}
      BY <1>4, <2>2, Terminated
      DEF handle_send_http_request, con, ChainOps, Operations, Timers, Shutdowns,
          Writes, Reads
    <2> QED
      BY <2>1, <2>3, <2>4, ChainStart
      DEF ChainOps, Operations, Timers, Shutdowns, Writes, Reads
  <1>5. ASSUME NEW res \in Results, handle_read_http_response(res) PROVE Chain'
    <2>1. Completion("httpRead", res) \in ready
      BY <1>5, ResponseStep
    <2>2. \A b \in ChainOps : b \notin pending
      BY <2>1, ChainTaken DEF ChainOps, Operations, Timers, Shutdowns, Writes, Reads
    <2>3. ready' = ready \ {Completion("httpRead", res)} => \A g \in ready' : g.op \notin ChainOps
      BY <2>1, ChainTaken DEF ChainOps, Operations, Timers, Shutdowns, Writes, Reads
    <2>4. ~reading
      BY <2>1, ChainTaken DEF ChainOps, Operations, Timers, Shutdowns, Writes, Reads
    <2>5. CASE GivesUp /\ ready' = ready \ {Completion("httpRead", res)}
      <3>1. pending' \cap ChainOps = {}
        BY <2>2, <2>5, Terminated
        DEF GivesUp, ChainOps, Operations, Timers, Shutdowns, Writes, Reads
      <3> QED
        BY <2>3, <2>5, <3>1, ChainReads
    <2>6. CASE ReadsOn /\ ready' = ready \ {Completion("httpRead", res)}
      <3>1. pending' \cap ChainOps \subseteq {"httpRead"} /\ ~reading'
        BY <2>2, <2>4, <2>6
        DEF ReadsOn, in, ChainOps, Operations, Timers, Shutdowns, Writes, Reads
      <3> QED
        BY <2>3, <2>6, <3>1, ChainStart
        DEF ChainOps, Operations, Timers, Shutdowns, Writes, Reads
    <2>7. CASE OpensAll /\ ready' = ready \ {Completion("httpRead", res)}
      <3>1. pending' \cap ChainOps = {}
        BY <2>2, <2>7
        DEF OpensAll, ChainOps, Operations, Timers, Shutdowns, Writes, Reads
      <3> QED
        BY <2>3, <2>7, <3>1, ChainReads
    <2>8. CASE OpensPartly
      <3>1. pending' = {} /\ ready' = {}
        BY <2>8 DEF OpensPartly, Throw
      <3> QED
        BY <3>1, ChainReads
    <2> QED
      BY <1>5, <2>5, <2>6, <2>7, <2>8, ResponseStep
  <1>6. ASSUME NEW res \in Results, handle_read_frame(res) PROVE Chain'
    <2>1. Completion("read", res) \in ready /\ ready' = ready \ {Completion("read", res)}
      BY <1>6 DEF handle_read_frame, Take
    <2>2. \A b \in ChainOps : b \notin pending
      BY <2>1, ChainTaken DEF ChainOps, Operations, Timers, Shutdowns, Writes, Reads
    <2>3. \A g \in ready' : g.op \notin ChainOps
      BY <2>1, ChainTaken DEF ChainOps, Operations, Timers, Shutdowns, Writes, Reads
    <2>4. pending' \cap ChainOps = {}
      BY <1>6, <2>2, Terminated
      DEF handle_read_frame, con, ChainOps, Operations, Timers, Shutdowns, Writes, Reads
    <2> QED
      BY <2>3, <2>4, ChainReads
  <1>7. ASSUME NEW res \in Results, handle_write_frame(res) PROVE Chain'
    <2>1. pending' \cap ChainOps \subseteq pending /\ ready' \subseteq ready /\ (reading' => reading)
      BY <1>7, Terminated
      DEF handle_write_frame, Take, app, con, out, loop, in, ChainOps, Operations,
          Timers, Shutdowns, Writes, Reads
    <2> QED
      BY <2>1, ChainFewer
  <1>8. ASSUME NEW res \in Results, handle_terminate(res) PROVE Chain'
    <2>1. pending' \cap ChainOps \subseteq pending /\ ready' \subseteq ready /\ (reading' => reading)
      BY <1>8
      DEF handle_terminate, Take, app, con, out, loop, in, ChainOps, Operations, Timers,
          Shutdowns, Writes, Reads
    <2> QED
      BY <2>1, ChainFewer
  <1>9. ASSUME DataFrame PROVE Chain'
    <2>1. pending' \cap ChainOps \subseteq pending /\ ready' \subseteq ready /\ (reading' => reading)
      BY <1>9, DataStep DEF Throw, loop
    <2> QED
      BY <2>1, ChainFewer
  <1>10. ASSUME PingFrame PROVE Chain'
    <2>1. pending' \cap ChainOps \subseteq pending /\ ready' \subseteq ready /\ (reading' => reading)
      BY <1>10
      DEF PingFrame, app, con, out, loop, in, ChainOps, Operations, Timers, Shutdowns,
          Writes, Reads
    <2> QED
      BY <2>1, ChainFewer
  <1>11. ASSUME PongFrame PROVE Chain'
    <2>1. pending' \cap ChainOps \subseteq pending /\ ready' \subseteq ready /\ (reading' => reading)
      BY <1>11
      DEF PongFrame, app, con, out, loop, in, ChainOps, Operations, Timers, Shutdowns,
          Writes, Reads
    <2> QED
      BY <2>1, ChainFewer
  <1>12. ASSUME CloseFrame PROVE Chain'
    <2>1. pending' \cap ChainOps \subseteq pending /\ ready' \subseteq ready /\ (reading' => reading)
      BY <1>12
      DEF CloseFrame, SendCloseFrame, app, con, out, loop, in, ChainOps, Operations,
          Timers, Shutdowns, Writes, Reads
    <2> QED
      BY <2>1, ChainFewer
  <1>13. ASSUME BadCloseFrame PROVE Chain'
    <2>1. pending' \cap ChainOps \subseteq pending /\ ready' \subseteq ready /\ (reading' => reading)
      BY <1>13
      DEF BadCloseFrame, SendCloseFrame, app, con, out, loop, in, ChainOps, Operations,
          Timers, Shutdowns, Writes, Reads
    <2> QED
      BY <2>1, ChainFewer
  <1>14. ASSUME MalformedFrame PROVE Chain'
    <2>1. pending' \cap ChainOps \subseteq pending /\ ready' \subseteq ready /\ (reading' => reading)
      BY <1>14, Terminated
      DEF MalformedFrame, SendCloseFrame, app, con, out, loop, in, ChainOps, Operations,
          Timers, Shutdowns, Writes, Reads
    <2> QED
      BY <2>1, ChainFewer
  <1>15. ASSUME read_frame PROVE Chain'
    <2>1. reading /\ pending' = pending \cup {"read"} /\ ready' = ready /\ ~reading'
      BY <1>15 DEF read_frame
    <2>2. pending' \cap ChainOps \subseteq {"read"} /\ \A g \in ready' : g.op \notin ChainOps
      BY <2>1 DEF Chain, InFlight
    <2> QED
      BY <2>1, <2>2, ChainStart
      DEF ChainOps, Operations, Timers, Shutdowns, Writes, Reads
  <1>16. ASSUME write_frame PROVE Chain'
    <2>1. pending' \cap ChainOps \subseteq pending /\ ready' \subseteq ready /\ (reading' => reading)
      BY <1>16
      DEF write_frame, TakePost, NothingToWrite, Idle, app, con, out, loop, in,
          ChainOps, Operations, Timers, Shutdowns, Writes, Reads
    <2> QED
      BY <2>1, ChainFewer
  <1>17. ASSUME NEW t \in Timers, HandshakeTimeout(t) PROVE Chain'
    <2>1. pending' \cap ChainOps \subseteq pending /\ ready' \subseteq ready /\ (reading' => reading)
      BY <1>17, Terminated
      DEF HandshakeTimeout, Take, app, con, out, loop, in, ChainOps, Operations, Timers,
          Shutdowns, Writes, Reads
    <2> QED
      BY <2>1, ChainFewer
  <1>18. ASSUME Return PROVE Chain'
    <2>1. pending' \cap ChainOps \subseteq pending /\ ready' \subseteq ready /\ (reading' => reading)
      BY <1>18
      DEF Return, app, con, out, loop, in, ChainOps, Operations, Timers, Shutdowns,
          Writes, Reads
    <2> QED
      BY <2>1, ChainFewer
  <1>19. ASSUME Outside PROVE Chain'
    <2>1. PICK op \in Operations, res \in Results :
            Complete(op, res) /\ reads' \in {reads, reads + 1}
      BY <1>19, OutsideStep
    <2>2. /\ op \in pending /\ pending' = pending \ {op}
          /\ ready' = ready \cup {Completion(op, res)} /\ reading' = reading
      BY <2>1 DEF Complete
    <2>3. Completion(op, res).op = op
      BY DEF Completion
    <2>4. \A a : InFlight(a)' <=> InFlight(a)
      BY <2>2, <2>3 DEF InFlight
    <2> QED
      BY <2>2, <2>3, <2>4 DEF Chain, InFlight
  <1>20. CASE UNCHANGED vars
    BY <1>20 DEF vars, app, con, out, loop, in, Chain, InFlight
  <1> QED
    BY <1>1, <1>2, <1>3, <1>4, <1>5, <1>6, <1>7, <1>8, <1>9, <1>10,
       <1>11, <1>12, <1>13, <1>14, <1>15, <1>16, <1>17, <1>18, <1>19, <1>20
    DEF Next, EventLoop, handle_open_handshake_timeout,
        handle_close_handshake_timeout, Timers, Results

-----------------------------------------------------------------------------
(***************************************************************************)
(* Phases: what is queued and read before and after the connection opens.  *)
(***************************************************************************)
\* A step that starts nothing but a timer or the shutdown and queues nothing.
PhaseCalm ==
  /\ m_internal_state' = m_internal_state /\ opens' = opens
  /\ pending' \subseteq pending \cup Shutdowns \cup Timers /\ ready' \subseteq ready
  /\ (reading' => reading) /\ m_state' \in {m_state, "closed"}
  /\ UNCHANGED out /\ posts' \in {posts, 0} /\ (run' = "running" => run = "running")

LEMMA PhasesCalm == Phases /\ PhaseCalm => Phases'
  <1> SUFFICES ASSUME Phases, PhaseCalm PROVE Phases'
    OBVIOUS
  <1>1. \A a \in ChainOps \cup {"write"} : InFlight(a)' => InFlight(a)
    BY DEF PhaseCalm, InFlight, Shutdowns, Timers, ChainOps, Reads
  <1>2. "read" \in ChainOps
    BY DEF ChainOps, Reads
  <1>3. /\ m_send_queue' = m_send_queue /\ m_current_msgs' = m_current_msgs
        /\ m_write_flag' = m_write_flag /\ accepted' = accepted /\ written' = written
    BY DEF PhaseCalm, out
  <1>4. /\ \A a \in ChainOps \ {"read"} : InFlight(a)' => m_internal_state' # "PROCESS_CONNECTION"
        /\ InFlight("read")' \/ reading' => m_internal_state' = "PROCESS_CONNECTION"
    BY <1>1, <1>2 DEF Phases, PhaseCalm
  <1>5. m_internal_state' # "PROCESS_CONNECTION" =>
          /\ m_send_queue' = <<>> /\ m_current_msgs' = <<>> /\ ~m_write_flag'
          /\ accepted' = <<>> /\ written' = <<>> /\ posts' = 0
          /\ m_state' \in {"connecting", "closed"}
          /\ opens' = 0 /\ ~InFlight("write")'
    BY <1>1, <1>3 DEF Phases, PhaseCalm
  <1>6. m_internal_state' = "PROCESS_CONNECTION" =>
          /\ m_state' # "connecting" /\ opens' = 1
          /\ Running' => Len(accepted') >= Total
    BY <1>3 DEF Phases, PhaseCalm, Running
  <1> QED
    BY <1>4, <1>5, <1>6 DEF Phases

\* A step of the connection while it is open or after.
LEMMA PhasesOpened ==
  /\ Phases
  /\ m_internal_state = "PROCESS_CONNECTION" /\ m_internal_state' = m_internal_state
  /\ m_state' # "connecting" /\ opens' = opens
  /\ pending' \subseteq pending \cup Shutdowns \cup Timers \cup {"read", "write"} /\ ready' \subseteq ready
  /\ run' = "running" => run = "running" /\ (Len(accepted) >= Total => Len(accepted') >= Total)
  => Phases'
  <1> SUFFICES ASSUME Phases,
                      m_internal_state = "PROCESS_CONNECTION",
                      m_internal_state' = m_internal_state,
                      m_state' # "connecting", opens' = opens,
                      pending' \subseteq pending \cup Shutdowns \cup Timers \cup {"read", "write"},
                      ready' \subseteq ready,
                      run' = "running" => run = "running"
                                          /\ (Len(accepted) >= Total => Len(accepted') >= Total)
               PROVE  Phases'
    OBVIOUS
  <1>1. \A a \in ChainOps \ {"read"} : InFlight(a)' => InFlight(a)
    BY DEF InFlight, Shutdowns, Timers, ChainOps, Reads
  <1>2. \A a \in ChainOps \ {"read"} : ~InFlight(a)
    BY DEF Phases
  <1> QED
    BY <1>1, <1>2 DEF Phases, Running

\* A step towards the opening of the connection.
LEMMA PhasesOpening ==
  /\ Phases
  /\ m_internal_state # "PROCESS_CONNECTION" /\ m_internal_state' # "PROCESS_CONNECTION"
  /\ m_state' = m_state /\ opens' = opens
  /\ pending' \subseteq pending \cup (ChainOps \ {"read"}) \cup Timers /\ ready' \subseteq ready
  /\ UNCHANGED out /\ posts' = posts /\ reading' = reading
  => Phases'
  <1> SUFFICES ASSUME Phases,
                      m_internal_state # "PROCESS_CONNECTION",
                      m_internal_state' # "PROCESS_CONNECTION",
                      m_state' = m_state, opens' = opens,
                      pending' \subseteq pending \cup (ChainOps \ {"read"}) \cup Timers,
                      ready' \subseteq ready,
                      UNCHANGED out, posts' = posts, reading' = reading
               PROVE  Phases'
    OBVIOUS
  <1>1. /\ InFlight("read")' => InFlight("read")
        /\ InFlight("write")' => InFlight("write")
    BY DEF InFlight, Timers, ChainOps, Reads
  <1> QED
    BY <1>1 DEF Phases, out

LEMMA PhasesStep == TypeOK /\ BeforeRun /\ Chain /\ Phases /\ [Next]_vars => Phases'
  <1> SUFFICES ASSUME TypeOK, BeforeRun, Chain, Phases, [Next]_vars PROVE Phases'
    OBVIOUS
  <1>1. ASSUME startWebSocket PROVE Phases'
    <2>1. CASE run' = "returned"
      <3>1. PhaseCalm
        BY <1>1, <2>1 DEF PhaseCalm, startWebSocket, con, in
      <3> QED
        BY <3>1, PhasesCalm
    <2>2. CASE m_internal_state # "PROCESS_CONNECTION"
      <3>1. /\ m_internal_state' = m_internal_state /\ m_state' = m_state /\ opens' = opens
            /\ pending' \subseteq pending \cup (ChainOps \ {"read"}) \cup Timers /\ ready' = ready
            /\ UNCHANGED out /\ posts' = posts /\ reading' = reading
        BY <1>1
        DEF startWebSocket, con, in, ChainOps, Operations, Timers, Shutdowns, Writes,
            Reads
      <3> QED
        BY <2>2, <3>1, PhasesOpening
    <2>3. CASE m_internal_state = "PROCESS_CONNECTION"
      BY <1>1, <2>3 DEF startWebSocket, BeforeRun
    <2> QED
      BY <2>1, <2>2, <2>3
  <1>2. ASSUME NEW res \in Results, handle_connect(res) PROVE Phases'
    <2>1. CASE /\ m_internal_state' = m_internal_state
               /\ Terminate(pending) \/ UNCHANGED <<con, pending>>
      <3>1. PhaseCalm
        BY <1>2, <2>1, Terminated
        DEF PhaseCalm, handle_connect, Take, app, con, in, Shutdowns
      <3> QED
        BY <3>1, PhasesCalm
    <2>2. CASE ~(/\ m_internal_state' = m_internal_state
                 /\ Terminate(pending) \/ UNCHANGED <<con, pending>>)
      <3>1. m_internal_state # "PROCESS_CONNECTION" /\ m_internal_state' # "PROCESS_CONNECTION"
        BY <1>2, <2>2 DEF handle_connect, con
      <3>2. /\ m_state' = m_state /\ opens' = opens
            /\ pending' \subseteq pending \cup (ChainOps \ {"read"}) \cup Timers /\ ready' \subseteq ready
            /\ UNCHANGED out /\ posts' = posts /\ reading' = reading
        BY <1>2, <2>2
        DEF handle_connect, Take, app, con, in, ChainOps, Operations, Timers, Shutdowns,
            Writes, Reads
      <3> QED
        BY <3>1, <3>2, PhasesOpening
    <2> QED
      BY <2>1, <2>2
  <1>3. ASSUME NEW res \in Results, handle_transport_init(res) PROVE Phases'
    <2>1. CASE /\ m_internal_state' = m_internal_state
               /\ Terminate(pending) \/ UNCHANGED <<con, pending>>
      <3>1. PhaseCalm
        BY <1>3, <2>1, Terminated
        DEF PhaseCalm, handle_transport_init, Take, app, con, in, Shutdowns
      <3> QED
        BY <3>1, PhasesCalm
    <2>2. CASE ~(/\ m_internal_state' = m_internal_state
                 /\ Terminate(pending) \/ UNCHANGED <<con, pending>>)
      <3>1. m_internal_state # "PROCESS_CONNECTION" /\ m_internal_state' # "PROCESS_CONNECTION"
        BY <1>3, <2>2 DEF handle_transport_init, con
      <3>2. /\ m_state' = m_state /\ opens' = opens
            /\ pending' \subseteq pending \cup (ChainOps \ {"read"}) \cup Timers /\ ready' \subseteq ready
            /\ UNCHANGED out /\ posts' = posts /\ reading' = reading
        BY <1>3, <2>2
        DEF handle_transport_init, Take, app, con, in, ChainOps, Operations, Timers,
            Shutdowns, Writes, Reads
      <3> QED
        BY <3>1, <3>2, PhasesOpening
    <2> QED
      BY <2>1, <2>2
  <1>4. ASSUME NEW res \in Results, handle_send_http_request(res) PROVE Phases'
    <2>1. CASE /\ m_internal_state' = m_internal_state
               /\ Terminate(pending) \/ UNCHANGED <<con, pending>>
      <3>1. PhaseCalm
        BY <1>4, <2>1, Terminated
        DEF PhaseCalm, handle_send_http_request, Take, app, con, in, Shutdowns
      <3> QED
        BY <3>1, PhasesCalm
    <2>2. CASE ~(/\ m_internal_state' = m_internal_state
                 /\ Terminate(pending) \/ UNCHANGED <<con, pending>>)
      <3>1. m_internal_state # "PROCESS_CONNECTION" /\ m_internal_state' # "PROCESS_CONNECTION"
        BY <1>4, <2>2 DEF handle_send_http_request, con
      <3>2. /\ m_state' = m_state /\ opens' = opens
            /\ pending' \subseteq pending \cup (ChainOps \ {"read"}) \cup Timers /\ ready' \subseteq ready
            /\ UNCHANGED out /\ posts' = posts /\ reading' = reading
        BY <1>4, <2>2
        DEF handle_send_http_request, Take, app, con, in, ChainOps, Operations, Timers,
            Shutdowns, Writes, Reads
      <3> QED
        BY <3>1, <3>2, PhasesOpening
    <2> QED
      BY <2>1, <2>2
  <1>5. ASSUME NEW res \in Results, handle_read_http_response(res) PROVE Phases'
    <2>1. CASE GivesUp /\ ready' = ready \ {Completion("httpRead", res)}
      <3>1. PhaseCalm
        BY <2>1, Terminated DEF PhaseCalm, GivesUp, app, con, in, Shutdowns
      <3> QED
        BY <3>1, PhasesCalm
    <2>2. CASE /\ m_internal_state = "READ_HTTP_RESPONSE"
               /\ ReadsOn /\ ready' = ready \ {Completion("httpRead", res)}
      <3>1. /\ m_internal_state' = m_internal_state /\ m_state' = m_state /\ opens' = opens
            /\ pending' \subseteq pending \cup (ChainOps \ {"read"}) \cup Timers /\ ready' \subseteq ready
            /\ UNCHANGED out /\ posts' = posts /\ reading' = reading
        BY <2>2
        DEF ReadsOn, app, con, in, ChainOps, Operations, Timers, Shutdowns, Writes,
            Reads
      <3> QED
        BY <2>2, <3>1, PhasesOpening
    <2>3. CASE /\ m_internal_state = "READ_HTTP_RESPONSE" /\ OpensAll
               /\ ready' = ready \ {Completion("httpRead", res)}
      <3>1. /\ m_internal_state' = "PROCESS_CONNECTION" /\ m_state' = "open" /\ opens' = opens + 1
            /\ opens = 0 /\ accepted = <<>>
        BY <2>3 DEF OpensAll, Opens, Phases
      <3>2. Len(accepted') = Total
        <4> DEFINE requests == [i \in 1 .. Total |-> Request(i)]
        <4>1. accepted' = <<>> \o requests
          BY <2>3, <3>1 DEF OpensAll, Opens
        <4>2. requests \in Seq(Frame) /\ Len(requests) = Total
          BY RequestsType, TotalType
        <4>3. accepted' = requests
          BY <4>1, <4>2, ConcatEmptySeq
        <4> QED
          BY <4>2, <4>3
      <3>3. \A a \in ChainOps : ~InFlight(a)'
        <4>1. \A b \in ChainOps : b \notin pending
          BY <1>5, ResponseStep, ChainTaken
          DEF ChainOps, Operations, Timers, Shutdowns, Writes, Reads
        <4>2. \A g \in ready' : g.op \notin ChainOps
          BY <1>5, <2>3, ResponseStep, ChainTaken
          DEF ChainOps, Operations, Timers, Shutdowns, Writes, Reads
        <4> QED
          BY <2>3, <4>1, <4>2
          DEF OpensAll, InFlight, ChainOps, Operations, Timers, Shutdowns, Writes, Reads
      <3> QED
        BY <3>1, <3>2, <3>3, TotalType DEF Phases
    <2>4. CASE m_internal_state = "READ_HTTP_RESPONSE" /\ OpensPartly
      <3>1. /\ m_internal_state' = "PROCESS_CONNECTION" /\ m_state' = "open" /\ opens' = opens + 1
            /\ opens = 0 /\ run' = "threw" /\ pending' = {} /\ ready' = {}
        BY <2>4 DEF OpensPartly, Opens, Throw, Phases
      <3> QED
        BY <3>1 DEF Phases, InFlight, Running
    <2> QED
      BY <1>5, <2>1, <2>2, <2>3, <2>4, ResponseStep
  <1>6. ASSUME NEW res \in Results, handle_read_frame(res) PROVE Phases'
    <2>1. "read" \in ChainOps /\ Completion("read", res) \in ready
      BY <1>6
      DEF handle_read_frame, Take, ChainOps, Operations, Timers, Shutdowns, Writes,
          Reads
    <2>2. InFlight("read")
      BY <2>1 DEF InFlight, Completion
    <2>3. m_internal_state = "PROCESS_CONNECTION" /\ m_state # "connecting"
      BY <2>2 DEF Phases
    <2>4. /\ m_internal_state' = m_internal_state /\ opens' = opens /\ run' = run
          /\ pending' \subseteq pending \cup Shutdowns \cup Timers /\ ready' \subseteq ready
          /\ accepted' = accepted /\ m_state' # "connecting"
      BY <1>6, <2>3, Terminated DEF handle_read_frame, Take, con, app, out
    <2> QED
      BY <2>3, <2>4, PhasesOpened
  <1>7. ASSUME NEW res \in Results, handle_write_frame(res) PROVE Phases'
    <2>1. InFlight("write")
      BY <1>7 DEF handle_write_frame, Take, InFlight, Completion
    <2>2. m_internal_state = "PROCESS_CONNECTION" /\ m_state # "connecting"
      BY <2>1, TypeOK DEF Phases, TypeOK
    <2>3. /\ m_internal_state' = m_internal_state /\ opens' = opens /\ run' = run
          /\ pending' \subseteq pending \cup Shutdowns \cup Timers /\ ready' \subseteq ready
          /\ accepted' = accepted /\ m_state' # "connecting"
      BY <1>7, <2>2, Terminated DEF handle_write_frame, Take, con, app
    <2> QED
      BY <2>2, <2>3, PhasesOpened
  <1>8. ASSUME NEW res \in Results, handle_terminate(res) PROVE Phases'
    <2>1. PhaseCalm
      BY <1>8
      DEF PhaseCalm, handle_terminate, Take, app, con, out, loop, in, Shutdowns, Timers
    <2> QED
      BY <2>1, PhasesCalm
  <1>9. ASSUME DataFrame PROVE Phases'
    <2>1. PhaseCalm
      BY <1>9, DataStep DEF PhaseCalm, Throw, con, out, loop
    <2> QED
      BY <2>1, PhasesCalm
  <1>10. ASSUME PingFrame PROVE Phases'
    <2>1. m_internal_state = "PROCESS_CONNECTION"
      BY <1>10 DEF PingFrame, Consume, Phases
    <2>2. Len(accepted') >= Len(accepted)
      BY <1>10, FramesSent, ConcatProperties, LenProperties
      DEF PingFrame, Push, out, TypeOK
    <2>3. Len(accepted) \in Nat /\ Len(accepted') \in Nat
      BY <1>10, TypeStep, LenProperties DEF TypeOK
    <2>4. m_state' # "connecting"
      BY <1>10, <2>1, Terminated DEF PingFrame, con, Phases
    <2>5. /\ m_internal_state' = m_internal_state /\ opens' = opens /\ run' = run
          /\ pending' \subseteq pending \cup Shutdowns \cup Timers /\ ready' = ready
      BY <1>10, Terminated DEF PingFrame, con, app, loop, Timers
    <2> QED
      BY <2>1, <2>2, <2>3, <2>4, <2>5, PhasesOpened, TotalType
  <1>11. ASSUME PongFrame PROVE Phases'
    <2>1. PhaseCalm
      BY <1>11 DEF PhaseCalm, PongFrame, app, con, out, loop, in, Shutdowns, Timers
    <2> QED
      BY <2>1, PhasesCalm
  <1>12. ASSUME CloseFrame PROVE Phases'
    <2>1. m_internal_state = "PROCESS_CONNECTION"
      BY <1>12 DEF CloseFrame, Consume, Phases
    <2>2. Len(accepted') >= Len(accepted)
      BY <1>12, FramesSent, ConcatProperties, LenProperties
      DEF CloseFrame, SendCloseFrame, Push, out, TypeOK
    <2>3. Len(accepted) \in Nat /\ Len(accepted') \in Nat
      BY <1>12, TypeStep, LenProperties DEF TypeOK
    <2>4. m_state' # "connecting"
      BY <1>12, <2>1, Terminated DEF CloseFrame, SendCloseFrame, con, Phases
    <2>5. /\ m_internal_state' = m_internal_state /\ opens' = opens /\ run' = run
          /\ pending' \subseteq pending \cup Shutdowns \cup Timers /\ ready' = ready
      BY <1>12, Terminated DEF CloseFrame, SendCloseFrame, con, app, loop, Timers
    <2> QED
      BY <2>1, <2>2, <2>3, <2>4, <2>5, PhasesOpened, TotalType
  <1>13. ASSUME BadCloseFrame PROVE Phases'
    <2>1. m_internal_state = "PROCESS_CONNECTION"
      BY <1>13 DEF BadCloseFrame, Consume, Phases
    <2>2. Len(accepted') >= Len(accepted)
      BY <1>13, FramesSent, ConcatProperties, LenProperties
      DEF BadCloseFrame, SendCloseFrame, Push, out, TypeOK
    <2>3. Len(accepted) \in Nat /\ Len(accepted') \in Nat
      BY <1>13, TypeStep, LenProperties DEF TypeOK
    <2>4. m_state' # "connecting"
      BY <1>13, <2>1, Terminated DEF BadCloseFrame, SendCloseFrame, con, Phases
    <2>5. /\ m_internal_state' = m_internal_state /\ opens' = opens /\ run' = run
          /\ pending' \subseteq pending \cup Shutdowns \cup Timers /\ ready' = ready
      BY <1>13, Terminated DEF BadCloseFrame, SendCloseFrame, con, app, loop, Timers
    <2> QED
      BY <2>1, <2>2, <2>3, <2>4, <2>5, PhasesOpened, TotalType
  <1>14. ASSUME MalformedFrame PROVE Phases'
    <2>1. m_internal_state = "PROCESS_CONNECTION"
      BY <1>14 DEF MalformedFrame, Consume, Phases
    <2>2. Len(accepted') >= Len(accepted)
      BY <1>14, FramesSent, ConcatProperties, LenProperties
      DEF MalformedFrame, SendCloseFrame, Push, out, TypeOK
    <2>3. Len(accepted) \in Nat /\ Len(accepted') \in Nat
      BY <1>14, TypeStep, LenProperties DEF TypeOK
    <2>4. m_state' # "connecting"
      BY <1>14, <2>1, Terminated DEF MalformedFrame, SendCloseFrame, con, Phases
    <2>5. /\ m_internal_state' = m_internal_state /\ opens' = opens /\ run' = run
          /\ pending' \subseteq pending \cup Shutdowns \cup Timers /\ ready' = ready
      BY <1>14, Terminated DEF MalformedFrame, SendCloseFrame, con, app, loop, Timers
    <2> QED
      BY <2>1, <2>2, <2>3, <2>4, <2>5, PhasesOpened, TotalType
  <1>15. ASSUME read_frame PROVE Phases'
    <2>1. m_internal_state = "PROCESS_CONNECTION" /\ m_state # "connecting"
      BY <1>15 DEF read_frame, Phases
    <2>2. /\ m_internal_state' = m_internal_state /\ opens' = opens /\ run' = run
          /\ pending' \subseteq pending \cup Shutdowns \cup Timers \cup {"read", "write"}
          /\ ready' = ready /\ accepted' = accepted /\ m_state' = m_state
      BY <1>15 DEF read_frame, con, app, out
    <2> QED
      BY <2>1, <2>2, PhasesOpened
  <1>16. ASSUME write_frame PROVE Phases'
    <2>1. posts # 0
      BY <1>16 DEF write_frame, TakePost, TypeOK
    <2>2. m_internal_state = "PROCESS_CONNECTION" /\ m_state # "connecting"
      BY <2>1 DEF Phases
    <2>3. /\ m_internal_state' = m_internal_state /\ opens' = opens /\ run' = run
          /\ pending' \subseteq pending \cup Shutdowns \cup Timers \cup {"read", "write"}
          /\ ready' = ready /\ accepted' = accepted /\ m_state' = m_state
      BY <1>16 DEF write_frame, con, app, out
    <2> QED
      BY <2>2, <2>3, PhasesOpened
  <1>17. ASSUME NEW t \in Timers, HandshakeTimeout(t) PROVE Phases'
    <2>1. PhaseCalm
      BY <1>17, Terminated
      DEF PhaseCalm, HandshakeTimeout, Take, app, con, out, loop, in, Shutdowns, Timers
    <2> QED
      BY <2>1, PhasesCalm
  <1>18. ASSUME Return PROVE Phases'
    <2>1. PhaseCalm
      BY <1>18 DEF PhaseCalm, Return, app, con, out, loop, in, Shutdowns, Timers
    <2> QED
      BY <2>1, PhasesCalm
  <1>19. ASSUME Outside PROVE Phases'
    <2>1. PICK op \in Operations, res \in Results :
            Complete(op, res) /\ reads' \in {reads, reads + 1}
      BY <1>19, OutsideStep
    <2>2. /\ op \in pending /\ pending' = pending \ {op}
          /\ ready' = ready \cup {Completion(op, res)}
          /\ UNCHANGED <<run, opens, m_state, m_internal_state, m_send_queue, m_current_msgs,
                         m_write_flag, accepted, written, posts, reading>>
      BY <2>1 DEF Complete, app, con, out
    <2>3. Completion(op, res).op = op
      BY DEF Completion
    <2>4. \A a : InFlight(a)' <=> InFlight(a)
      BY <2>2, <2>3 DEF InFlight
    <2> QED
      BY <2>2, <2>4 DEF Phases, Running
  <1>20. CASE UNCHANGED vars
    BY <1>20
    DEF vars, app, con, out, loop, in, Phases, InFlight, Running, Shutdowns, Timers
  <1> QED
    BY <1>1, <1>2, <1>3, <1>4, <1>5, <1>6, <1>7, <1>8, <1>9, <1>10,
       <1>11, <1>12, <1>13, <1>14, <1>15, <1>16, <1>17, <1>18, <1>19, <1>20
    DEF Next, EventLoop, handle_open_handshake_timeout,
        handle_close_handshake_timeout, Timers, Results

-----------------------------------------------------------------------------
(***************************************************************************)
(* Writing and NoLostWakeup: the write flag, the write and the queue.      *)
(***************************************************************************)
\* A step that neither queues nor writes.
WriteCalm ==
  /\ UNCHANGED <<m_write_flag, m_current_msgs, written, m_send_queue>>
  /\ ("write" \in pending' => "write" \in pending) /\ ready' \subseteq ready
  /\ (run' = "running" /\ m_state' # "closed") =>
        /\ run = "running" /\ m_state # "closed" /\ posts' = posts
        /\ "write" \in pending => "write" \in pending'
        /\ \A h \in ready : h.op = "write" => h \in ready'

LEMMA LastOfConcat ==
  ASSUME NEW S, NEW s \in Seq(S), NEW t \in Seq(S), Len(t) >= 1
  PROVE  s \o t # <<>> /\ (s \o t)[Len(s \o t)] = t[Len(t)]
  <1>1. Len(s) \in Nat /\ Len(t) \in Nat
    BY LenProperties
  <1>2. Len(s \o t) = Len(s) + Len(t) /\ s \o t \in Seq(S)
    BY ConcatProperties
  <1>3. (s \o t)[Len(s) + Len(t)] = t[Len(t)]
    BY <1>1, ConcatProperties
  <1>4. s \o t # <<>>
    BY <1>1, <1>2, EmptySeq
  <1> QED
    BY <1>2, <1>3, <1>4

LEMMA CalmKeepsWriting == Writing /\ WriteCalm => Writing'
  <1> SUFFICES ASSUME Writing, WriteCalm PROVE Writing'
    OBVIOUS
  <1>1. /\ InFlight("write")' => InFlight("write")
        /\ (run' = "running" /\ m_state' # "closed" /\ InFlight("write")) => InFlight("write")'
    BY DEF WriteCalm, InFlight
  <1>2. "write" \in pending' => \A h \in ready' : h.op # "write"
    BY DEF Writing, WriteCalm
  <1>3. \A g, h \in ready' : g.op = "write" /\ h.op = "write" => g = h
    BY DEF Writing, WriteCalm
  <1>4. InFlight("write")' => /\ m_write_flag' /\ m_current_msgs' # <<>> /\ written' # <<>>
                              /\ m_current_msgs'[Len(m_current_msgs')] = written'[Len(written')]
    BY <1>1 DEF Writing, WriteCalm
  <1>5. (Running' /\ m_write_flag' /\ m_state' # "closed") => InFlight("write")'
    BY <1>1 DEF Writing, WriteCalm, Running
  <1> QED
    BY <1>2, <1>3, <1>4, <1>5 DEF Writing

LEMMA CalmKeepsWakeup == NoLostWakeup /\ WriteCalm => NoLostWakeup'
  <1> SUFFICES ASSUME NoLostWakeup, WriteCalm, Running', m_send_queue' # <<>>, m_state' # "closed"
               PROVE  posts' > 0 \/ InFlight("write")'
    BY DEF NoLostWakeup
  <1>1. /\ Running /\ m_send_queue # <<>> /\ m_state # "closed" /\ posts' = posts
        /\ InFlight("write") => InFlight("write")'
    BY DEF WriteCalm, Running, InFlight
  <1> QED
    BY <1>1 DEF NoLostWakeup

\* The same for a step that queues a frame while the connection is not closed.
WritePush ==
  /\ \E f \in Frame : Push(<<f>>)
  /\ run = "running" /\ m_state # "closed"
  /\ ("write" \in pending' <=> "write" \in pending) /\ ready' = ready

LEMMA PushKeepsWriting == Writing /\ WritePush => Writing'
  <1> SUFFICES ASSUME Writing, WritePush PROVE Writing'
    OBVIOUS
  <1>1. InFlight("write")' <=> InFlight("write")
    BY DEF WritePush, InFlight
  <1>2. UNCHANGED <<m_current_msgs, m_write_flag, written>>
    BY DEF WritePush, Push
  <1> QED
    BY <1>1, <1>2 DEF Writing, WritePush, Running

LEMMA PushKeepsWakeup == TypeOK /\ Writing /\ WritePush => NoLostWakeup'
  <1> SUFFICES ASSUME TypeOK, Writing, WritePush PROVE posts' > 0 \/ InFlight("write")'
    BY DEF NoLostWakeup
  <1>1. InFlight("write")' <=> InFlight("write")
    BY DEF WritePush, InFlight
  <1>2. PICK f \in Frame : Push(<<f>>)
    BY DEF WritePush
  <1>3. CASE m_write_flag
    BY <1>1, <1>3 DEF WritePush, Writing, Running
  <1>4. CASE ~m_write_flag
    BY <1>2, <1>4 DEF Push, TypeOK
  <1> QED
    BY <1>3, <1>4

\* One write is outstanding: when its handler is ready, there is no other.
LEMMA WriteTaken ==
  Writing => \A res : Completion("write", res) \in ready =>
                /\ "write" \notin pending
                /\ \A g \in ready : g.op = "write" => g = Completion("write", res)
  BY DEF Writing, Completion

LEMMA WritingStep == TypeOK /\ BeforeRun /\ Phases /\ Writing /\ [Next]_vars => Writing'
  <1> SUFFICES ASSUME TypeOK, BeforeRun, Phases, Writing, [Next]_vars PROVE Writing'
    OBVIOUS
  <1>1. ASSUME startWebSocket PROVE Writing'
    <2>1. m_internal_state # "PROCESS_CONNECTION" /\ ready' = {} /\ pending' \in {{}, {"connect"}}
      BY <1>1 DEF startWebSocket, BeforeRun
    <2>2. ~InFlight("write")'
      BY <2>1 DEF InFlight
    <2>3. m_write_flag' = m_write_flag /\ m_send_queue' = m_send_queue
      BY <1>1 DEF startWebSocket, out
    <2> QED
      BY <2>1, <2>2, <2>3 DEF Phases, Writing, NoLostWakeup
  <1>2. ASSUME NEW res \in Results, handle_connect(res) PROVE Writing'
    <2>1. WriteCalm
      BY <1>2, Terminated
      DEF WriteCalm, handle_connect, Take, Completion, app, con, out, loop, in,
          Shutdowns
    <2> QED
      BY <2>1, CalmKeepsWriting
  <1>3. ASSUME NEW res \in Results, handle_transport_init(res) PROVE Writing'
    <2>1. WriteCalm
      BY <1>3, Terminated
      DEF WriteCalm, handle_transport_init, Take, Completion, app, con, out, loop, in,
          Shutdowns
    <2> QED
      BY <2>1, CalmKeepsWriting
  <1>4. ASSUME NEW res \in Results, handle_send_http_request(res) PROVE Writing'
    <2>1. WriteCalm
      BY <1>4, Terminated
      DEF WriteCalm, handle_send_http_request, Take, Completion, app, con, out, loop,
          in, Shutdowns
    <2> QED
      BY <2>1, CalmKeepsWriting
  <1>5. ASSUME NEW res \in Results, handle_read_http_response(res) PROVE Writing'
    <2>1. CASE GivesUp /\ ready' = ready \ {Completion("httpRead", res)}
      <3>1. WriteCalm
        BY <2>1, Terminated
        DEF WriteCalm, GivesUp, Completion, app, con, out, in, Shutdowns
      <3> QED
        BY <3>1, CalmKeepsWriting
    <2>2. CASE ReadsOn /\ ready' = ready \ {Completion("httpRead", res)}
      <3>1. WriteCalm
        BY <2>2 DEF WriteCalm, ReadsOn, Completion, app, con, out, in
      <3> QED
        BY <3>1, CalmKeepsWriting
    <2>3. CASE /\ m_internal_state = "READ_HTTP_RESPONSE" /\ OpensAll
               /\ ready' = ready \ {Completion("httpRead", res)}
      <3>1. ~m_write_flag /\ m_send_queue = <<>> /\ ~InFlight("write") /\ posts = 0
        BY <2>3 DEF Phases
      <3>2. m_write_flag' = FALSE /\ posts' = posts + Total
            /\ m_send_queue' = m_send_queue \o [i \in 1 .. Total |-> Request(i)]
        BY <2>3, <3>1 DEF OpensAll, Opens
      <3>3. ~InFlight("write")'
        BY <2>3, <3>1 DEF OpensAll, InFlight
      <3>4. \A h \in ready' : h.op # "write"
        BY <3>3 DEF InFlight
      <3> QED
        BY <3>2, <3>3, <3>4 DEF Writing
    <2>4. CASE m_internal_state = "READ_HTTP_RESPONSE" /\ OpensPartly
      <3>1. run' = "threw" /\ pending' = {} /\ ready' = {}
        BY <2>4 DEF OpensPartly, Throw
      <3> QED
        BY <3>1 DEF Writing, NoLostWakeup, InFlight, Running
    <2> QED
      BY <1>5, <2>1, <2>2, <2>3, <2>4, ResponseStep
  <1>6. ASSUME NEW res \in Results, handle_read_frame(res) PROVE Writing'
    <2>1. WriteCalm
      BY <1>6, Terminated
      DEF WriteCalm, handle_read_frame, Take, Completion, app, con, out, loop, in,
          Shutdowns
    <2> QED
      BY <2>1, CalmKeepsWriting
  <1>7. ASSUME NEW res \in Results, handle_write_frame(res) PROVE Writing'
    <2>1. /\ Completion("write", res) \in ready /\ ready' = ready \ {Completion("write", res)}
          /\ written' = written
          /\ \/ Terminate(pending)
             \/ m_write_flag' = FALSE /\ pending' = pending
      BY <1>7 DEF handle_write_frame, Take
    <2>2. ~InFlight("write")'
      BY <2>1, WriteTaken, Terminated DEF InFlight, Shutdowns
    <2>3. m_write_flag' = FALSE \/ m_state' = "closed"
      BY <2>1, Terminated
    <2> QED
      BY <2>2, <2>3 DEF Writing, InFlight
  <1>8. ASSUME NEW res \in Results, handle_terminate(res) PROVE Writing'
    <2>1. WriteCalm
      BY <1>8
      DEF WriteCalm, handle_terminate, Take, Completion, app, con, out, loop, in,
          Shutdowns
    <2> QED
      BY <2>1, CalmKeepsWriting
  <1>9. ASSUME DataFrame PROVE Writing'
    <2>1. WriteCalm
      BY <1>9, DataStep DEF WriteCalm, Throw, con, out, loop
    <2> QED
      BY <2>1, CalmKeepsWriting
  <1>10. ASSUME PingFrame PROVE Writing'
    <2>1. CASE UNCHANGED <<out, posts>>
      <3>1. WriteCalm
        BY <1>10, <2>1 DEF WriteCalm, PingFrame, Consume, Running, app, con, out
      <3> QED
        BY <3>1, CalmKeepsWriting
    <2>2. CASE ~UNCHANGED <<out, posts>>
      <3>1. WritePush
        BY <1>10, <2>2, FramesSent DEF WritePush, PingFrame, Consume, Running
      <3> QED
        BY <3>1, PushKeepsWriting
    <2> QED
      BY <2>1, <2>2
  <1>11. ASSUME PongFrame PROVE Writing'
    <2>1. WriteCalm
      BY <1>11 DEF WriteCalm, PongFrame, Completion, app, con, out, loop, in, Shutdowns
    <2> QED
      BY <2>1, CalmKeepsWriting
  <1>12. ASSUME CloseFrame PROVE Writing'
    <2>1. CASE UNCHANGED <<con, out, pending, posts>>
      <3>1. WriteCalm
        BY <1>12, <2>1 DEF WriteCalm, CloseFrame, Consume, app, con, out
      <3> QED
        BY <3>1, CalmKeepsWriting
    <2>2. CASE ~UNCHANGED <<con, out, pending, posts>>
      <3>1. WritePush
        BY <1>12, <2>2, FramesSent
        DEF WritePush, CloseFrame, SendCloseFrame, Consume, Running, con, out
      <3> QED
        BY <3>1, PushKeepsWriting
    <2> QED
      BY <2>1, <2>2
  <1>13. ASSUME BadCloseFrame PROVE Writing'
    <2>1. CASE UNCHANGED <<con, out, pending, posts>>
      <3>1. WriteCalm
        BY <1>13, <2>1 DEF WriteCalm, BadCloseFrame, Consume, app, con, out
      <3> QED
        BY <3>1, CalmKeepsWriting
    <2>2. CASE ~UNCHANGED <<con, out, pending, posts>>
      <3>1. WritePush
        BY <1>13, <2>2, FramesSent
        DEF WritePush, BadCloseFrame, SendCloseFrame, Consume, Running, con, out
      <3> QED
        BY <3>1, PushKeepsWriting
    <2> QED
      BY <2>1, <2>2
  <1>14. ASSUME MalformedFrame PROVE Writing'
    <2>1. CASE m_state = "open"
      <3>1. WritePush
        BY <1>14, <2>1, FramesSent
        DEF WritePush, MalformedFrame, SendCloseFrame, Consume, Running
      <3> QED
        BY <3>1, PushKeepsWriting
    <2>2. CASE m_state # "open"
      <3>1. WriteCalm
        BY <1>14, <2>2, Terminated DEF WriteCalm, MalformedFrame, app, out, Shutdowns
      <3> QED
        BY <3>1, CalmKeepsWriting
    <2> QED
      BY <2>1, <2>2
  <1>15. ASSUME read_frame PROVE Writing'
    <2>1. WriteCalm
      BY <1>15 DEF WriteCalm, read_frame, Completion, app, con, out, loop, in, Shutdowns
    <2> QED
      BY <2>1, CalmKeepsWriting
  <1>16. ASSUME write_frame PROVE Writing'
    <2>1. CASE UNCHANGED <<out, pending>>
      <3>1. /\ run' = run /\ m_state' = m_state /\ ready' = ready /\ pending' = pending
            /\ m_write_flag' = m_write_flag /\ m_current_msgs' = m_current_msgs
            /\ written' = written
        BY <1>16, <2>1 DEF write_frame, out, app, con
      <3>2. InFlight("write")' <=> InFlight("write")
        BY <3>1 DEF InFlight
      <3> QED
        BY <3>1, <3>2 DEF Writing, Running
    <2>2. CASE ~UNCHANGED <<out, pending>>
      <3>1. /\ ~m_write_flag /\ m_write_flag' = TRUE
            /\ pending' = pending \cup {"write"} /\ ready' = ready
        BY <1>16, <2>2 DEF write_frame, NothingToWrite
      <3>2. PICK n \in 1 .. Len(m_send_queue) :
              /\ m_current_msgs' = m_current_msgs \o SubSeq(m_send_queue, 1, n)
              /\ written' = written \o SubSeq(m_send_queue, 1, n)
        BY <1>16, <2>2 DEF write_frame
      <3> DEFINE batch == SubSeq(m_send_queue, 1, n)
      <3>3. batch \in Seq(Frame) /\ Len(batch) = n /\ n \in Nat /\ n >= 1
        BY SubSeqProperties, ElementOfSeq, LenProperties DEF TypeOK
      <3>4. m_current_msgs' # <<>> /\ m_current_msgs'[Len(m_current_msgs')] = batch[n]
        BY <3>2, <3>3, LastOfConcat, ZenonT(60) DEF TypeOK
      <3>5. written' # <<>> /\ written'[Len(written')] = batch[n]
        <4>1. written' = written \o batch /\ written \in Seq(Frame)
          BY <3>2 DEF TypeOK
        <4> HIDE DEF batch
        <4>2. written \o batch # <<>> /\ (written \o batch)[Len(written \o batch)] = batch[Len(batch)]
          BY <3>3, <4>1, LastOfConcat
        <4> QED
          BY <3>3, <4>1, <4>2
      <3>6. \A h \in ready' : h.op # "write"
        BY <3>1 DEF Writing, InFlight
      <3> QED
        BY <3>1, <3>4, <3>5, <3>6 DEF Writing, InFlight
    <2> QED
      BY <2>1, <2>2
  <1>17. ASSUME NEW t \in Timers, HandshakeTimeout(t) PROVE Writing'
    <2>1. WriteCalm
      BY <1>17, Terminated
      DEF WriteCalm, HandshakeTimeout, Take, Timers, Completion, app, con, out, loop,
          in, Shutdowns
    <2> QED
      BY <2>1, CalmKeepsWriting
  <1>18. ASSUME Return PROVE Writing'
    <2>1. WriteCalm
      BY <1>18 DEF WriteCalm, Return, Completion, app, con, out, loop, in, Shutdowns
    <2> QED
      BY <2>1, CalmKeepsWriting
  <1>19. ASSUME Outside PROVE Writing'
    <2>1. PICK op \in Operations, res \in Results :
            Complete(op, res) /\ reads' \in {reads, reads + 1}
      BY <1>19, OutsideStep
    <2>2. /\ op \in pending /\ pending' = pending \ {op}
          /\ ready' = ready \cup {Completion(op, res)}
          /\ UNCHANGED <<run, m_state, m_send_queue, m_current_msgs, m_write_flag, written, posts>>
      BY <2>1 DEF Complete, app, con, out
    <2>3. Completion(op, res).op = op
      BY DEF Completion
    <2>4. InFlight("write")' <=> InFlight("write")
      BY <2>2, <2>3 DEF InFlight
    <2> QED
      BY <2>2, <2>3, <2>4 DEF Writing, NoLostWakeup, Running
  <1>20. CASE UNCHANGED vars
    BY <1>20 DEF vars, app, con, out, loop, in, Writing, InFlight, Running
  <1> QED
    BY <1>1, <1>2, <1>3, <1>4, <1>5, <1>6, <1>7, <1>8, <1>9, <1>10,
       <1>11, <1>12, <1>13, <1>14, <1>15, <1>16, <1>17, <1>18, <1>19, <1>20
    DEF Next, EventLoop, handle_open_handshake_timeout,
        handle_close_handshake_timeout, Timers, Results

LEMMA NoLostWakeupStep ==
  TypeOK /\ BeforeRun /\ Phases /\ Writing /\ NoLostWakeup /\ [Next]_vars => NoLostWakeup'
  <1> SUFFICES ASSUME TypeOK, BeforeRun, Phases, Writing, NoLostWakeup, [Next]_vars PROVE NoLostWakeup'
    OBVIOUS
  <1>1. ASSUME startWebSocket PROVE NoLostWakeup'
    <2>1. m_internal_state # "PROCESS_CONNECTION" /\ ready' = {} /\ pending' \in {{}, {"connect"}}
      BY <1>1 DEF startWebSocket, BeforeRun
    <2>2. ~InFlight("write")'
      BY <2>1 DEF InFlight
    <2>3. m_write_flag' = m_write_flag /\ m_send_queue' = m_send_queue
      BY <1>1 DEF startWebSocket, out
    <2> QED
      BY <2>1, <2>2, <2>3 DEF Phases, Writing, NoLostWakeup
  <1>2. ASSUME NEW res \in Results, handle_connect(res) PROVE NoLostWakeup'
    <2>1. WriteCalm
      BY <1>2, Terminated
      DEF WriteCalm, handle_connect, Take, Completion, app, con, out, loop, in,
          Shutdowns
    <2> QED
      BY <2>1, CalmKeepsWakeup
  <1>3. ASSUME NEW res \in Results, handle_transport_init(res) PROVE NoLostWakeup'
    <2>1. WriteCalm
      BY <1>3, Terminated
      DEF WriteCalm, handle_transport_init, Take, Completion, app, con, out, loop, in,
          Shutdowns
    <2> QED
      BY <2>1, CalmKeepsWakeup
  <1>4. ASSUME NEW res \in Results, handle_send_http_request(res) PROVE NoLostWakeup'
    <2>1. WriteCalm
      BY <1>4, Terminated
      DEF WriteCalm, handle_send_http_request, Take, Completion, app, con, out, loop,
          in, Shutdowns
    <2> QED
      BY <2>1, CalmKeepsWakeup
  <1>5. ASSUME NEW res \in Results, handle_read_http_response(res) PROVE NoLostWakeup'
    <2>1. CASE GivesUp /\ ready' = ready \ {Completion("httpRead", res)}
      <3>1. WriteCalm
        BY <2>1, Terminated
        DEF WriteCalm, GivesUp, Completion, app, con, out, in, Shutdowns
      <3> QED
        BY <3>1, CalmKeepsWakeup
    <2>2. CASE ReadsOn /\ ready' = ready \ {Completion("httpRead", res)}
      <3>1. WriteCalm
        BY <2>2 DEF WriteCalm, ReadsOn, Completion, app, con, out, in
      <3> QED
        BY <3>1, CalmKeepsWakeup
    <2>3. CASE /\ m_internal_state = "READ_HTTP_RESPONSE" /\ OpensAll
               /\ ready' = ready \ {Completion("httpRead", res)}
      <3>1. ~m_write_flag /\ m_send_queue = <<>> /\ ~InFlight("write") /\ posts = 0
        BY <2>3 DEF Phases
      <3>2. m_write_flag' = FALSE /\ posts' = posts + Total
            /\ m_send_queue' = m_send_queue \o [i \in 1 .. Total |-> Request(i)]
        BY <2>3, <3>1 DEF OpensAll, Opens
      <3>3. ~InFlight("write")'
        BY <2>3, <3>1 DEF OpensAll, InFlight
      <3> DEFINE requests == [i \in 1 .. Total |-> Request(i)]
      <3>4. requests \in Seq(Frame) /\ Len(requests) = Total /\ Total \in Nat
        BY RequestsType, TotalType
      <3>5. m_send_queue' = requests
        BY <3>1, <3>2, <3>4, ConcatEmptySeq
      <3>6. m_send_queue' # <<>> => posts' > 0
        BY <3>1, <3>2, <3>4, <3>5, EmptySeq
      <3> QED
        BY <3>6 DEF NoLostWakeup
    <2>4. CASE m_internal_state = "READ_HTTP_RESPONSE" /\ OpensPartly
      <3>1. run' = "threw" /\ pending' = {} /\ ready' = {}
        BY <2>4 DEF OpensPartly, Throw
      <3> QED
        BY <3>1 DEF Writing, NoLostWakeup, InFlight, Running
    <2> QED
      BY <1>5, <2>1, <2>2, <2>3, <2>4, ResponseStep
  <1>6. ASSUME NEW res \in Results, handle_read_frame(res) PROVE NoLostWakeup'
    <2>1. WriteCalm
      BY <1>6, Terminated
      DEF WriteCalm, handle_read_frame, Take, Completion, app, con, out, loop, in,
          Shutdowns
    <2> QED
      BY <2>1, CalmKeepsWakeup
  <1>7. ASSUME NEW res \in Results, handle_write_frame(res) PROVE NoLostWakeup'
    <2>1. CASE Terminate(pending)
      BY <2>1, Terminated DEF NoLostWakeup
    <2>2. CASE WriteNext /\ m_send_queue' = m_send_queue
      BY <2>2 DEF WriteNext, NoLostWakeup, TypeOK
    <2> QED
      BY <1>7, <2>1, <2>2 DEF handle_write_frame
  <1>8. ASSUME NEW res \in Results, handle_terminate(res) PROVE NoLostWakeup'
    <2>1. WriteCalm
      BY <1>8
      DEF WriteCalm, handle_terminate, Take, Completion, app, con, out, loop, in,
          Shutdowns
    <2> QED
      BY <2>1, CalmKeepsWakeup
  <1>9. ASSUME DataFrame PROVE NoLostWakeup'
    <2>1. WriteCalm
      BY <1>9, DataStep DEF WriteCalm, Throw, con, out, loop
    <2> QED
      BY <2>1, CalmKeepsWakeup
  <1>10. ASSUME PingFrame PROVE NoLostWakeup'
    <2>1. CASE UNCHANGED <<out, posts>>
      <3>1. WriteCalm
        BY <1>10, <2>1 DEF WriteCalm, PingFrame, Consume, Running, app, con, out
      <3> QED
        BY <3>1, CalmKeepsWakeup
    <2>2. CASE ~UNCHANGED <<out, posts>>
      <3>1. WritePush
        BY <1>10, <2>2, FramesSent DEF WritePush, PingFrame, Consume, Running
      <3> QED
        BY <3>1, PushKeepsWakeup
    <2> QED
      BY <2>1, <2>2
  <1>11. ASSUME PongFrame PROVE NoLostWakeup'
    <2>1. WriteCalm
      BY <1>11 DEF WriteCalm, PongFrame, Completion, app, con, out, loop, in, Shutdowns
    <2> QED
      BY <2>1, CalmKeepsWakeup
  <1>12. ASSUME CloseFrame PROVE NoLostWakeup'
    <2>1. CASE UNCHANGED <<con, out, pending, posts>>
      <3>1. WriteCalm
        BY <1>12, <2>1 DEF WriteCalm, CloseFrame, Consume, app, con, out
      <3> QED
        BY <3>1, CalmKeepsWakeup
    <2>2. CASE ~UNCHANGED <<con, out, pending, posts>>
      <3>1. WritePush
        BY <1>12, <2>2, FramesSent
        DEF WritePush, CloseFrame, SendCloseFrame, Consume, Running, con, out
      <3> QED
        BY <3>1, PushKeepsWakeup
    <2> QED
      BY <2>1, <2>2
  <1>13. ASSUME BadCloseFrame PROVE NoLostWakeup'
    <2>1. CASE UNCHANGED <<con, out, pending, posts>>
      <3>1. WriteCalm
        BY <1>13, <2>1 DEF WriteCalm, BadCloseFrame, Consume, app, con, out
      <3> QED
        BY <3>1, CalmKeepsWakeup
    <2>2. CASE ~UNCHANGED <<con, out, pending, posts>>
      <3>1. WritePush
        BY <1>13, <2>2, FramesSent
        DEF WritePush, BadCloseFrame, SendCloseFrame, Consume, Running, con, out
      <3> QED
        BY <3>1, PushKeepsWakeup
    <2> QED
      BY <2>1, <2>2
  <1>14. ASSUME MalformedFrame PROVE NoLostWakeup'
    <2>1. CASE m_state = "open"
      <3>1. WritePush
        BY <1>14, <2>1, FramesSent
        DEF WritePush, MalformedFrame, SendCloseFrame, Consume, Running
      <3> QED
        BY <3>1, PushKeepsWakeup
    <2>2. CASE m_state # "open"
      <3>1. WriteCalm
        BY <1>14, <2>2, Terminated DEF WriteCalm, MalformedFrame, app, out, Shutdowns
      <3> QED
        BY <3>1, CalmKeepsWakeup
    <2> QED
      BY <2>1, <2>2
  <1>15. ASSUME read_frame PROVE NoLostWakeup'
    <2>1. WriteCalm
      BY <1>15 DEF WriteCalm, read_frame, Completion, app, con, out, loop, in, Shutdowns
    <2> QED
      BY <2>1, CalmKeepsWakeup
  <1>16. ASSUME write_frame PROVE NoLostWakeup'
    <2>1. CASE NothingToWrite
      <3>1. UNCHANGED <<out, pending>> /\ UNCHANGED <<app, con, ready, in>>
        BY <1>16, <2>1 DEF write_frame
      <3>2. /\ run' = run /\ m_state' = m_state /\ ready' = ready /\ pending' = pending
            /\ m_send_queue' = m_send_queue
        BY <3>1 DEF out, app, con
      <3>3. InFlight("write") => InFlight("write")'
        BY <3>2 DEF InFlight
      <3> QED
        BY <2>1, <3>2, <3>3 DEF Writing, NoLostWakeup, NothingToWrite, Running
    <2>2. CASE ~NothingToWrite
      <3>1. "write" \in pending'
        BY <1>16, <2>2 DEF write_frame
      <3> QED
        BY <3>1 DEF NoLostWakeup, InFlight
    <2> QED
      BY <2>1, <2>2
  <1>17. ASSUME NEW t \in Timers, HandshakeTimeout(t) PROVE NoLostWakeup'
    <2>1. WriteCalm
      BY <1>17, Terminated
      DEF WriteCalm, HandshakeTimeout, Take, Timers, Completion, app, con, out, loop,
          in, Shutdowns
    <2> QED
      BY <2>1, CalmKeepsWakeup
  <1>18. ASSUME Return PROVE NoLostWakeup'
    <2>1. WriteCalm
      BY <1>18 DEF WriteCalm, Return, Completion, app, con, out, loop, in, Shutdowns
    <2> QED
      BY <2>1, CalmKeepsWakeup
  <1>19. ASSUME Outside PROVE NoLostWakeup'
    <2>1. PICK op \in Operations, res \in Results :
            Complete(op, res) /\ reads' \in {reads, reads + 1}
      BY <1>19, OutsideStep
    <2>2. /\ op \in pending /\ pending' = pending \ {op}
          /\ ready' = ready \cup {Completion(op, res)}
          /\ UNCHANGED <<run, m_state, m_send_queue, m_current_msgs, m_write_flag, written, posts>>
      BY <2>1 DEF Complete, app, con, out
    <2>3. Completion(op, res).op = op
      BY DEF Completion
    <2>4. InFlight("write")' <=> InFlight("write")
      BY <2>2, <2>3 DEF InFlight
    <2> QED
      BY <2>2, <2>3, <2>4 DEF Writing, NoLostWakeup, Running
  <1>20. CASE UNCHANGED vars
    BY <1>20 DEF vars, app, con, out, loop, in, NoLostWakeup, InFlight, Running
  <1> QED
    BY <1>1, <1>2, <1>3, <1>4, <1>5, <1>6, <1>7, <1>8, <1>9, <1>10,
       <1>11, <1>12, <1>13, <1>14, <1>15, <1>16, <1>17, <1>18, <1>19, <1>20
    DEF Next, EventLoop, handle_open_handshake_timeout,
        handle_close_handshake_timeout, Timers, Results

-----------------------------------------------------------------------------
(***************************************************************************)
(* QueueOrder: what is queued and written, in the order it was accepted.   *)
(***************************************************************************)
LEMMA FramesAssociate ==
  ASSUME NEW r \in Seq(Frame), NEW s \in Seq(Frame), NEW t \in Seq(Frame)
  PROVE  (r \o s) \o t = r \o (s \o t)
  BY ConcatAssociative

LEMMA QueueCalm ==
  QueueOrder /\ accepted' = accepted /\ written' = written /\ m_send_queue' = m_send_queue
    => QueueOrder'
  BY DEF QueueOrder

\* A frame queued behind all subscriptions.
LEMMA QueuePush ==
  ASSUME TypeOK, QueueOrder, NEW f \in Frame, Push(<<f>>), Len(accepted) >= Total
  PROVE  QueueOrder'
  <1>1. /\ accepted \in Seq(Frame) /\ written \in Seq(Frame) /\ m_send_queue \in Seq(Frame)
        /\ <<f>> \in Seq(Frame)
    BY DEF TypeOK
  <1>2. /\ accepted' = accepted \o <<f>> /\ written' = written
        /\ m_send_queue' = m_send_queue \o <<f>>
    BY DEF Push
  <1>3. accepted' = written' \o m_send_queue'
    BY <1>1, <1>2, FramesAssociate DEF QueueOrder
  <1>4. /\ Len(accepted) \in Nat /\ Len(<<f>>) \in Nat
        /\ Len(accepted \o <<f>>) = Len(accepted) + Len(<<f>>)
    BY <1>1, LenProperties, ConcatProperties
  <1>5. ASSUME NEW i \in 1 .. Len(accepted'), i <= Total PROVE accepted'[i] = Request(i)
    <2>1. i \in 1 .. Len(accepted)
      BY <1>4, <1>5, TotalType
    <2>2. (accepted \o <<f>>)[i] = accepted[i]
      BY <1>1, <1>4, <2>1, ConcatProperties
    <2> QED
      BY <1>2, <1>5, <2>1, <2>2 DEF QueueOrder
  <1> QED
    BY <1>3, <1>5 DEF QueueOrder

\* The first frames queued are subscriptions.
LEMMA QueueOpen ==
  ASSUME NEW n \in 0 .. Total, Opens(n),
         accepted = <<>>, written = <<>>, m_send_queue = <<>>
  PROVE  QueueOrder'
  <1> DEFINE requests == [i \in 1 .. n |-> Request(i)]
  <1>1. requests \in Seq(Frame) /\ Len(requests) = n
    BY RequestsType
  <1>2. accepted' = requests /\ m_send_queue' = requests /\ written' = <<>>
    BY <1>1, ConcatEmptySeq DEF Opens
  <1>3. <<>> \o requests = requests
    BY <1>1, ConcatEmptySeq
  <1> QED
    BY <1>1, <1>2, <1>3 DEF QueueOrder

LEMMA QueueOrderStep == TypeOK /\ Phases /\ QueueOrder /\ [Next]_vars => QueueOrder'
  <1> SUFFICES ASSUME TypeOK, Phases, QueueOrder, [Next]_vars PROVE QueueOrder'
    OBVIOUS
  <1>1. ASSUME startWebSocket PROVE QueueOrder'
    BY <1>1, QueueCalm DEF startWebSocket, out
  <1>2. ASSUME NEW res \in Results, handle_connect(res) PROVE QueueOrder'
    BY <1>2, QueueCalm DEF handle_connect, out
  <1>3. ASSUME NEW res \in Results, handle_transport_init(res) PROVE QueueOrder'
    BY <1>3, QueueCalm DEF handle_transport_init, out
  <1>4. ASSUME NEW res \in Results, handle_send_http_request(res) PROVE QueueOrder'
    BY <1>4, QueueCalm DEF handle_send_http_request, out
  <1>5. ASSUME NEW res \in Results, handle_read_http_response(res) PROVE QueueOrder'
    <2>1. CASE GivesUp \/ ReadsOn
      BY <2>1, QueueCalm DEF GivesUp, ReadsOn, out
    <2>2. CASE m_internal_state = "READ_HTTP_RESPONSE" /\ (OpensAll \/ OpensPartly)
      <3>1. accepted = <<>> /\ written = <<>> /\ m_send_queue = <<>>
        BY <2>2 DEF Phases
      <3>2. PICK n \in 0 .. Total : Opens(n)
        BY <2>2, TotalType DEF OpensAll, OpensPartly
      <3> QED
        BY <3>1, <3>2, QueueOpen
    <2> QED
      BY <1>5, <2>1, <2>2, ResponseStep
  <1>6. ASSUME NEW res \in Results, handle_read_frame(res) PROVE QueueOrder'
    BY <1>6, QueueCalm DEF handle_read_frame, out
  <1>7. ASSUME NEW res \in Results, handle_write_frame(res) PROVE QueueOrder'
    BY <1>7, QueueCalm DEF handle_write_frame, out
  <1>8. ASSUME NEW res \in Results, handle_terminate(res) PROVE QueueOrder'
    BY <1>8, QueueCalm DEF handle_terminate, out
  <1>9. ASSUME DataFrame PROVE QueueOrder'
    BY <1>9, DataStep, QueueCalm DEF out
  <1>10. ASSUME PingFrame PROVE QueueOrder'
    <2>1. m_internal_state = "PROCESS_CONNECTION"
      BY <1>10 DEF PingFrame, Consume, Phases
    <2>2. Len(accepted) >= Total
      BY <1>10, <2>1 DEF PingFrame, Consume, Phases
    <2>3. CASE \E f \in Frame : Push(<<f>>)
      BY <2>2, <2>3, QueuePush
    <2>4. CASE UNCHANGED out
      BY <2>4, QueueCalm DEF out
    <2> QED
      BY <1>10, <2>3, <2>4, FramesSent DEF PingFrame, out
  <1>11. ASSUME PongFrame PROVE QueueOrder'
    BY <1>11, QueueCalm DEF PongFrame, out
  <1>12. ASSUME CloseFrame PROVE QueueOrder'
    <2>1. m_internal_state = "PROCESS_CONNECTION"
      BY <1>12 DEF CloseFrame, Consume, Phases
    <2>2. Len(accepted) >= Total
      BY <1>12, <2>1 DEF CloseFrame, Consume, Phases
    <2>3. CASE \E f \in Frame : Push(<<f>>)
      BY <2>2, <2>3, QueuePush
    <2>4. CASE UNCHANGED out
      BY <2>4, QueueCalm DEF out
    <2> QED
      BY <1>12, <2>3, <2>4, FramesSent DEF CloseFrame, SendCloseFrame, out
  <1>13. ASSUME BadCloseFrame PROVE QueueOrder'
    <2>1. m_internal_state = "PROCESS_CONNECTION"
      BY <1>13 DEF BadCloseFrame, Consume, Phases
    <2>2. Len(accepted) >= Total
      BY <1>13, <2>1 DEF BadCloseFrame, Consume, Phases
    <2>3. CASE \E f \in Frame : Push(<<f>>)
      BY <2>2, <2>3, QueuePush
    <2>4. CASE UNCHANGED out
      BY <2>4, QueueCalm DEF out
    <2> QED
      BY <1>13, <2>3, <2>4, FramesSent DEF BadCloseFrame, SendCloseFrame, out
  <1>14. ASSUME MalformedFrame PROVE QueueOrder'
    <2>1. m_internal_state = "PROCESS_CONNECTION"
      BY <1>14 DEF MalformedFrame, Consume, Phases
    <2>2. Len(accepted) >= Total
      BY <1>14, <2>1 DEF MalformedFrame, Consume, Phases
    <2>3. CASE \E f \in Frame : Push(<<f>>)
      BY <2>2, <2>3, QueuePush
    <2>4. CASE UNCHANGED out
      BY <2>4, QueueCalm DEF out
    <2> QED
      BY <1>14, <2>3, <2>4, FramesSent DEF MalformedFrame, SendCloseFrame, out
  <1>15. ASSUME read_frame PROVE QueueOrder'
    BY <1>15, QueueCalm DEF read_frame, out
  <1>16. ASSUME write_frame PROVE QueueOrder'
    <2>1. CASE UNCHANGED <<out, pending>>
      BY <2>1, QueueCalm DEF out
    <2>2. CASE ~UNCHANGED <<out, pending>>
      <3>1. PICK n \in 1 .. Len(m_send_queue) :
              /\ written' = written \o SubSeq(m_send_queue, 1, n)
              /\ m_send_queue' = SubSeq(m_send_queue, n + 1, Len(m_send_queue))
        BY <1>16, <2>2 DEF write_frame
      <3>2. accepted' = accepted
        BY <1>16, <2>2 DEF write_frame
      <3> DEFINE batch == SubSeq(m_send_queue, 1, n)
                 rest  == SubSeq(m_send_queue, n + 1, Len(m_send_queue))
      <3>3. m_send_queue \in Seq(Frame) /\ written \in Seq(Frame) /\ Len(m_send_queue) \in Nat
        BY LenProperties DEF TypeOK
      <3>4. batch \in Seq(Frame) /\ rest \in Seq(Frame)
        BY <3>3, SubSeqProperties, ElementOfSeq
      <3>5. batch \o rest = m_send_queue
        <4>1. 1 \in 1 .. Len(m_send_queue) + 1 /\ n \in 1 - 1 .. Len(m_send_queue)
              /\ Len(m_send_queue) \in n .. Len(m_send_queue)
          BY <3>3
        <4>2. batch \o rest = SubSeq(m_send_queue, 1, Len(m_send_queue))
          BY <3>3, <4>1, ConcatAdjacentSubSeq
        <4> QED
          BY <3>3, <4>2, SubSeqFull
      <3> HIDE DEF batch, rest
      <3>6. (written \o batch) \o rest = written \o (batch \o rest)
        BY <3>3, <3>4, FramesAssociate
      <3>7. written' = written \o batch /\ m_send_queue' = rest
        BY <3>1 DEF batch, rest
      <3> QED
        BY <3>2, <3>5, <3>6, <3>7 DEF QueueOrder
    <2> QED
      BY <2>1, <2>2
  <1>17. ASSUME NEW t \in Timers, HandshakeTimeout(t) PROVE QueueOrder'
    BY <1>17, QueueCalm DEF HandshakeTimeout, out
  <1>18. ASSUME Return PROVE QueueOrder'
    BY <1>18, QueueCalm DEF Return, out
  <1>19. ASSUME Outside PROVE QueueOrder'
    BY <1>19, OutsideStep, QueueCalm DEF Complete, out
  <1>20. CASE UNCHANGED vars
    BY <1>20 DEF vars, app, con, out, loop, in, QueueOrder
  <1> QED
    BY <1>1, <1>2, <1>3, <1>4, <1>5, <1>6, <1>7, <1>8, <1>9, <1>10,
       <1>11, <1>12, <1>13, <1>14, <1>15, <1>16, <1>17, <1>18, <1>19, <1>20
    DEF Next, EventLoop, handle_open_handshake_timeout,
        handle_close_handshake_timeout, Timers, Results

-----------------------------------------------------------------------------
(***************************************************************************)
(* AllOrNothing: only an open handler that throws leaves fewer requests.   *)
(***************************************************************************)
\* While the loop runs, the handler of the response has queued all of them.
LEMMA AllOrNothingStep ==
  TypeOK /\ TypeOK' /\ Phases /\ Phases' /\ AllOrNothing /\ [Next]_vars => AllOrNothing'
  <1> SUFFICES ASSUME TypeOK, TypeOK', Phases, Phases', AllOrNothing, [Next]_vars
               PROVE  AllOrNothing'
    OBVIOUS
  <1>1. CASE Running'
    <2> SUFFICES ASSUME opens' > 0 PROVE ~(Len(accepted') < Total)
      BY DEF AllOrNothing
    <2>1. m_internal_state' = "PROCESS_CONNECTION"
      BY DEF Phases
    <2>2. Len(accepted') >= Total
      BY <1>1, <2>1 DEF Phases
    <2> QED
      BY <2>2, LenProperties, TotalType DEF TypeOK
  <1>2. ASSUME opens' = opens, accepted' = accepted, written' = written PROVE AllOrNothing'
    BY <1>2 DEF AllOrNothing
  <1>3. CASE startWebSocket \/ Return
    BY <1>2, <1>3 DEF startWebSocket, Return, out
  <1>4. CASE DataFrame
    BY <1>2, <1>4, DataStep DEF out
  <1>5. ASSUME NEW res \in Results, handle_read_http_response(res), ~Running' PROVE AllOrNothing'
    <2>1. CASE GivesUp \/ ReadsOn
      BY <1>2, <2>1 DEF GivesUp, ReadsOn, app, out
    <2>2. CASE m_internal_state = "READ_HTTP_RESPONSE" /\ (OpensAll \/ OpensPartly)
      <3>1. written = <<>>
        BY <2>2 DEF Phases
      <3>2. written' = written
        BY <2>2 DEF OpensAll, OpensPartly, Opens
      <3> QED
        BY <3>1, <3>2 DEF AllOrNothing
    <2> QED
      BY <1>5, <2>1, <2>2, ResponseStep
  <1>6. CASE UNCHANGED vars
    BY <1>2, <1>6 DEF vars, app, out
  <1>7. ASSUME Next, ~startWebSocket, ~Return, ~DataFrame, ~Running',
               \A res \in Results : ~handle_read_http_response(res)
        PROVE  FALSE
    <2>1. CASE PingFrame \/ PongFrame \/ CloseFrame \/ BadCloseFrame \/ MalformedFrame
      BY <1>7, <2>1 DEF PingFrame, PongFrame, CloseFrame, BadCloseFrame, MalformedFrame,
           Consume, Running, app
    <2>2. CASE read_frame \/ write_frame
      BY <1>7, <2>2 DEF read_frame, write_frame, TakePost, Idle, Running, app
    <2>3. ASSUME NEW t \in Timers, HandshakeTimeout(t) PROVE FALSE
      BY <1>7, <2>3 DEF HandshakeTimeout, Take, Idle, Running, app
    <2>4. CASE Outside
      BY <1>7, <2>4, OutsideStep DEF Complete, Running, app
    <2>5. ASSUME NEW res \in Results,
                 \/ handle_connect(res) \/ handle_transport_init(res)
                 \/ handle_send_http_request(res)
          PROVE  FALSE
      BY <1>7, <2>5 DEF handle_connect, handle_transport_init, handle_send_http_request,
           Take, Idle, Running, app
    <2>6. ASSUME NEW res \in Results,
                 handle_read_frame(res) \/ handle_write_frame(res) \/ handle_terminate(res)
          PROVE  FALSE
      BY <1>7, <2>6 DEF handle_read_frame, handle_write_frame, handle_terminate,
           Take, Idle, Running, app
    <2> QED
      BY <1>7, <2>1, <2>2, <2>3, <2>4, <2>5, <2>6
      DEF Next, EventLoop, handle_open_handshake_timeout,
          handle_close_handshake_timeout, Timers
  <1> QED
    BY <1>1, <1>3, <1>4, <1>5, <1>6, <1>7

-----------------------------------------------------------------------------
(***************************************************************************)
(* CloseTimed: the closing handshake has its timer.                        *)
(***************************************************************************)
\* A step that leaves the close timer alone, or ends the closing handshake.
CloseCalm ==
  (run' = "running" /\ m_state' = "closing") =>
     /\ run = "running" /\ m_state = "closing"
     /\ "closeTimer" \in pending => "closeTimer" \in pending'
     /\ \A h \in ready : h.op = "closeTimer" => h \in ready'

LEMMA CalmKeepsTimer == CloseTimed /\ CloseCalm => CloseTimed'
  <1> SUFFICES ASSUME CloseTimed, CloseCalm, Running', m_state' = "closing"
               PROVE  InFlight("closeTimer")'
    BY DEF CloseTimed
  <1>1. InFlight("closeTimer")
    BY DEF CloseTimed, CloseCalm, Running
  <1> QED
    BY <1>1 DEF CloseCalm, InFlight, Running

\* send_close_frame starts it.
LEMMA CloseFrameTimed ==
  ASSUME NEW f, SendCloseFrame(f) PROVE CloseTimed'
  BY DEF SendCloseFrame, CloseTimed, InFlight

LEMMA CloseTimedStep ==
  TypeOK /\ BeforeRun /\ Phases /\ CloseTimed /\ [Next]_vars => CloseTimed'
  <1> SUFFICES ASSUME TypeOK, BeforeRun, Phases, CloseTimed, [Next]_vars PROVE CloseTimed'
    OBVIOUS
  <1>1. ASSUME startWebSocket PROVE CloseTimed'
    <2>1. m_state' \in {"connecting", "closed"}
      BY <1>1 DEF startWebSocket, BeforeRun, Phases, con
    <2> QED
      BY <2>1 DEF CloseTimed
  <1>2. ASSUME NEW res \in Results, handle_connect(res) PROVE CloseTimed'
    <2>1. CloseCalm
      BY <1>2, Terminated
      DEF CloseCalm, handle_connect, Take, Idle, Running, Consume, Completion, app, con,
          out, loop, in, Shutdowns
    <2> QED
      BY <2>1, CalmKeepsTimer
  <1>3. ASSUME NEW res \in Results, handle_transport_init(res) PROVE CloseTimed'
    <2>1. CloseCalm
      BY <1>3, Terminated
      DEF CloseCalm, handle_transport_init, Take, Idle, Running, Consume, Completion,
          app, con, out, loop, in, Shutdowns
    <2> QED
      BY <2>1, CalmKeepsTimer
  <1>4. ASSUME NEW res \in Results, handle_send_http_request(res) PROVE CloseTimed'
    <2>1. CloseCalm
      BY <1>4, Terminated
      DEF CloseCalm, handle_send_http_request, Take, Idle, Running, Consume, Completion,
          app, con, out, loop, in, Shutdowns
    <2> QED
      BY <2>1, CalmKeepsTimer
  <1>5. ASSUME NEW res \in Results, handle_read_http_response(res) PROVE CloseTimed'
    <2>1. CASE (GivesUp \/ ReadsOn) /\ ready' = ready \ {Completion("httpRead", res)}
      <3>1. CloseCalm
        BY <2>1, Terminated DEF CloseCalm, GivesUp, ReadsOn, Completion, app, con
      <3> QED
        BY <3>1, CalmKeepsTimer
    <2>2. CASE OpensAll \/ OpensPartly
      BY <2>2 DEF OpensAll, OpensPartly, Opens, CloseTimed
    <2> QED
      BY <1>5, <2>1, <2>2, ResponseStep
  <1>6. ASSUME NEW res \in Results, handle_read_frame(res) PROVE CloseTimed'
    <2>1. CloseCalm
      BY <1>6, Terminated
      DEF CloseCalm, handle_read_frame, Take, Idle, Running, Consume, Completion, app,
          con, out, loop, in, Shutdowns
    <2> QED
      BY <2>1, CalmKeepsTimer
  <1>7. ASSUME NEW res \in Results, handle_write_frame(res) PROVE CloseTimed'
    <2>1. CloseCalm
      BY <1>7, Terminated
      DEF CloseCalm, handle_write_frame, Take, Idle, Running, Consume, Completion, app,
          con, out, loop, in, Shutdowns
    <2> QED
      BY <2>1, CalmKeepsTimer
  <1>8. ASSUME NEW res \in Results, handle_terminate(res) PROVE CloseTimed'
    <2>1. CloseCalm
      BY <1>8
      DEF CloseCalm, handle_terminate, Take, Idle, Running, Consume, Completion, app,
          con, out, loop, in, Shutdowns
    <2> QED
      BY <2>1, CalmKeepsTimer
  <1>9. ASSUME DataFrame PROVE CloseTimed'
    <2>1. CloseCalm
      BY <1>9, DataStep DEF CloseCalm, Throw, Running, con, loop
    <2> QED
      BY <2>1, CalmKeepsTimer
  <1>10. ASSUME PingFrame PROVE CloseTimed'
    <2>1. CloseCalm
      BY <1>10
      DEF CloseCalm, PingFrame, Idle, Running, Consume, Completion, app, con, out, loop,
          in, Shutdowns
    <2> QED
      BY <2>1, CalmKeepsTimer
  <1>11. ASSUME PongFrame PROVE CloseTimed'
    <2>1. CloseCalm
      BY <1>11
      DEF CloseCalm, PongFrame, Idle, Running, Consume, Completion, app, con, out, loop,
          in, Shutdowns
    <2> QED
      BY <2>1, CalmKeepsTimer
  <1>12. ASSUME CloseFrame PROVE CloseTimed'
    <2>1. CASE \E f \in Frame : SendCloseFrame(f)
      BY <2>1, CloseFrameTimed
    <2>2. CASE UNCHANGED <<con, pending>>
      <3>1. CloseCalm
        BY <1>12, <2>2, Terminated DEF CloseCalm, CloseFrame, Consume, Running, app, con
      <3> QED
        BY <3>1, CalmKeepsTimer
    <2> QED
      BY <1>12, <2>1, <2>2, FramesSent DEF CloseFrame
  <1>13. ASSUME BadCloseFrame PROVE CloseTimed'
    <2>1. CASE \E f \in Frame : SendCloseFrame(f)
      BY <2>1, CloseFrameTimed
    <2>2. CASE UNCHANGED <<con, pending>>
      <3>1. CloseCalm
        BY <1>13, <2>2, Terminated
        DEF CloseCalm, BadCloseFrame, Consume, Running, app, con
      <3> QED
        BY <3>1, CalmKeepsTimer
    <2> QED
      BY <1>13, <2>1, <2>2, FramesSent DEF BadCloseFrame
  <1>14. ASSUME MalformedFrame PROVE CloseTimed'
    <2>1. CASE \E f \in Frame : SendCloseFrame(f)
      BY <2>1, CloseFrameTimed
    <2>2. CASE Terminate(pending)
      <3>1. CloseCalm
        BY <1>14, <2>2, Terminated
        DEF CloseCalm, MalformedFrame, Consume, Running, app, con
      <3> QED
        BY <3>1, CalmKeepsTimer
    <2> QED
      BY <1>14, <2>1, <2>2, FramesSent DEF MalformedFrame
  <1>15. ASSUME read_frame PROVE CloseTimed'
    <2>1. CloseCalm
      BY <1>15
      DEF CloseCalm, read_frame, Idle, Running, Consume, Completion, app, con, out,
          loop, in, Shutdowns
    <2> QED
      BY <2>1, CalmKeepsTimer
  <1>16. ASSUME write_frame PROVE CloseTimed'
    <2>1. CloseCalm
      BY <1>16
      DEF CloseCalm, write_frame, Take, Idle, Running, Consume, Completion, app, con,
          out, loop, in, Shutdowns
    <2> QED
      BY <2>1, CalmKeepsTimer
  <1>17. ASSUME NEW t \in Timers, HandshakeTimeout(t) PROVE CloseTimed'
    BY <1>17, Terminated DEF HandshakeTimeout, CloseTimed
  <1>18. ASSUME Return PROVE CloseTimed'
    <2>1. CloseCalm
      BY <1>18
      DEF CloseCalm, Return, Idle, Running, Consume, Completion, app, con, out, loop,
          in, Shutdowns
    <2> QED
      BY <2>1, CalmKeepsTimer
  <1>19. ASSUME Outside PROVE CloseTimed'
    <2>1. PICK op \in Operations, res \in Results :
            Complete(op, res) /\ reads' \in {reads, reads + 1}
      BY <1>19, OutsideStep
    <2>2. /\ op \in pending /\ pending' = pending \ {op}
          /\ ready' = ready \cup {Completion(op, res)}
          /\ run' = run /\ m_state' = m_state
      BY <2>1 DEF Complete, app, con
    <2>3. Completion(op, res).op = op
      BY DEF Completion
    <2>4. InFlight("closeTimer") => InFlight("closeTimer")'
      BY <2>2, <2>3 DEF InFlight
    <2> QED
      BY <2>2, <2>4 DEF CloseTimed, Running
  <1>20. CASE UNCHANGED vars
    BY <1>20 DEF vars, app, con, out, loop, in, CloseTimed, InFlight, Running
  <1> QED
    BY <1>1, <1>2, <1>3, <1>4, <1>5, <1>6, <1>7, <1>8, <1>9, <1>10,
       <1>11, <1>12, <1>13, <1>14, <1>15, <1>16, <1>17, <1>18, <1>19, <1>20
    DEF Next, EventLoop, handle_open_handshake_timeout,
        handle_close_handshake_timeout, Timers, Results

-----------------------------------------------------------------------------
(***************************************************************************)
(* The theorems.                                                           *)
(***************************************************************************)
LEMMA Initially == Init => IInv
  <1> SUFFICES ASSUME Init PROVE IInv
    OBVIOUS
  <1>1. TypeOK
    BY EmptySeq DEF Init, TypeOK
  <1>2. \A op : ~InFlight(op)
    BY DEF Init, InFlight
  <1>3. BeforeRun /\ Chain /\ Phases
    BY <1>2 DEF Init, BeforeRun, Chain, Phases
  <1>4. Writing /\ NoLostWakeup /\ AllOrNothing /\ CloseTimed
    BY <1>2 DEF Init, Writing, NoLostWakeup, AllOrNothing, CloseTimed
  <1>5. QueueOrder
    <2>1. <<>> \o <<>> = <<>> /\ 1 .. Len(<<>>) = {}
      BY EmptySeq, ConcatEmptySeq
    <2> QED
      BY <2>1 DEF Init, QueueOrder
  <1> QED
    BY <1>1, <1>3, <1>4, <1>5 DEF IInv

LEMMA Inductive == IInv /\ [Next]_vars => IInv'
  <1> SUFFICES ASSUME IInv, [Next]_vars PROVE IInv'
    OBVIOUS
  <1> USE DEF IInv
  <1>1. TypeOK'
    BY TypeStep
  <1>2. BeforeRun'
    BY BeforeRunStep
  <1>3. Chain'
    BY ChainStep
  <1>4. Phases'
    BY PhasesStep
  <1>5. Writing'
    BY WritingStep
  <1>6. QueueOrder'
    BY QueueOrderStep
  <1>7. NoLostWakeup'
    BY NoLostWakeupStep
  <1>8. AllOrNothing'
    BY <1>1, <1>4, AllOrNothingStep
  <1>9. CloseTimed'
    BY CloseTimedStep
  <1> QED
    BY <1>1, <1>2, <1>3, <1>4, <1>5, <1>6, <1>7, <1>8, <1>9

\* The invariant of the stream holds for every list of symbols, whatever the
\* server answers and sends and whichever operation completes next.
THEOREM Invariant == Spec => []IInv
  <1> QED
    BY Initially, Inductive, PTL DEF Spec

\* Every variable of the connection, the queue and the event loop keeps its type.
THEOREM TypeCorrect == Spec => []TypeOK
  <1>1. IInv => TypeOK
    BY DEF IInv
  <1> QED
    BY <1>1, Invariant, PTL

\* handle_read_frame, handle_read_http_response and read_frame never have two
\* reads of m_buf outstanding, nor one while the loop still reads it.
THEOREM OneReadAtATime == Spec => []OneRead
  <1>1. IInv => OneRead
    <2> SUFFICES ASSUME IInv PROVE OneRead
      OBVIOUS
    <2>1. Reads \subseteq ChainOps
      BY DEF ChainOps
    <2>2. \A op \in Reads \cap pending :
            ~reading /\ (\A h \in ready : h.op \notin Reads) /\ Reads \cap pending = {op}
      BY <2>1 DEF IInv, Chain, InFlight
    <2>3. \A h, g \in ready : h.op \in Reads /\ g.op \in Reads => h = g
      BY <2>1 DEF IInv, Chain, InFlight
    <2>4. reading => \A h \in ready : h.op \notin Reads
      BY <2>1 DEF IInv, Chain, InFlight
    <2> QED
      BY <2>2, <2>3, <2>4 DEF OneRead
  <1> QED
    BY <1>1, Invariant, PTL

\* write_frame never starts a write while another is outstanding, the request
\* of the opening handshake included, and handle_write_frame always finds the
\* messages it wrote.
THEOREM OneWriteAtATime == Spec => []OneWrite
  <1>1. IInv => OneWrite
    <2> SUFFICES ASSUME IInv PROVE OneWrite
      OBVIOUS
    <2>1. "httpWrite" \in ChainOps \ {"read"}
      BY DEF ChainOps, Reads
    <2>2. ~(InFlight("httpWrite") /\ InFlight("write"))
      BY <2>1 DEF IInv, Phases
    <2>3. /\ "httpWrite" \in pending => \A h \in ready : h.op # "httpWrite"
          /\ \A g, h \in ready : g.op = "httpWrite" /\ h.op = "httpWrite" => g = h
      BY <2>1 DEF IInv, Chain
    <2>4. /\ "write" \in pending => \A h \in ready : h.op # "write"
          /\ \A g, h \in ready : g.op = "write" /\ h.op = "write" => g = h
      BY DEF IInv, Writing
    <2>5. InFlight("write") => m_write_flag /\ m_current_msgs # <<>>
      BY DEF IInv, Writing
    <2>6. \A op \in Writes \cap pending :
            (\A h \in ready : h.op \notin Writes) /\ Writes \cap pending = {op}
      BY <2>2, <2>3, <2>4 DEF InFlight, Writes
    <2>7. \A h, g \in ready : h.op \in Writes /\ g.op \in Writes => h = g
      BY <2>2, <2>3, <2>4 DEF InFlight, Writes
    <2> QED
      BY <2>5, <2>6, <2>7 DEF OneWrite
  <1> QED
    BY <1>1, Invariant, PTL

\* The frames reach the transport in the order send(), pong() and close() queued
\* them, the subscriptions first and in the order of the open handler's loops.
THEOREM KeepsOrder == Spec => []QueueOrder
  <1>1. IInv => QueueOrder
    BY DEF IInv
  <1> QED
    BY <1>1, Invariant, PTL

\* handle_write_frame and write_push together never leave a frame in the queue
\* with nobody to write it.
THEOREM NoWakeupLost == Spec => []NoLostWakeup
  <1>1. IInv => NoLostWakeup
    BY DEF IInv
  <1> QED
    BY <1>1, Invariant, PTL

\* An open handler that throws part way has sent nothing.
THEOREM NothingHalfSent == Spec => []AllOrNothing
  <1>1. IInv => AllOrNothing
    BY DEF IInv
  <1> QED
    BY <1>1, Invariant, PTL

\* The closing handshake is always timed, whoever began it.
THEOREM ClosingIsTimed == Spec => []CloseTimed
  <1>1. IInv => CloseTimed
    BY DEF IInv
  <1> QED
    BY <1>1, Invariant, PTL

-----------------------------------------------------------------------------
(***************************************************************************)
(* Connection implements StreamPromise, for every list of symbols and every*)
(* burst of frames, with a server whose Sec-WebSocket-Extensions header can*)
(* be parsed.  (With another the connection is terminated and opened.)     *)
(*                                                                         *)
(* Beyond the invariant of ConnectionProofs this needs Lifecycle: which    *)
(* handler a shutdown is bound to, and that there is one shutdown.         *)
(***************************************************************************)

\* The answers for which the promise holds.
Parsable == "badExtensions" \notin Answers

\* The response handler opens the connection without a shutdown on its way.
OpensWell == /\ m_state = "connecting"
             /\ m_internal_state' = "PROCESS_CONNECTION" /\ m_state' = "open"
             /\ opens' = opens + 1 /\ UNCHANGED <<fails, closes, delivered, written>>
             /\ pending' \subseteq pending /\ ready' \subseteq ready

LEMMA WellOpened ==
  ASSUME NEW STATE p, p \subseteq pending, m_state = "connecting", Open(p)
  PROVE  OpensWell
  <1>1. UNCHANGED written /\ pending' \subseteq pending /\ ready' \subseteq ready
    BY DEF Open, Throw, Push
  <1> QED
    BY <1>1 DEF Open, OpensWell

\* What the response handler does: it ends the connection, leaves it as it is,
\* or opens it.
LEMMA WellAnswered ==
  ASSUME Parsable, NEW res, handle_read_http_response(res)
  PROVE  \/ /\ GivesUp \/ ReadsOn
            /\ ready' = ready \ {Completion("httpRead", res)}
         \/ OpensWell
  <1>1. \/ (GivesUp \/ ReadsOn) /\ ready' = ready \ {Completion("httpRead", res)}
        \/ m_state = "connecting" /\ Open(pending \ {m_handshake_timer})
    BY DEF handle_read_http_response, Parsable, GivesUp, ReadsOn, con
  <1> QED
    BY <1>1, WellOpened

-----------------------------------------------------------------------------
(***************************************************************************)
(* Lifecycle is preserved.                                                 *)
(***************************************************************************)
\* A step that asks for no shutdown and calls none of its handlers.
LifeCalm == /\ \A op \in Shutdowns : op \in pending' => op \in pending
            /\ ready' \subseteq ready
            /\ UNCHANGED <<opens, fails, closes>>
            /\ m_state' = m_state \/ m_state # "closed"

LEMMA CalmKeepsLife == Lifecycle /\ LifeCalm => Lifecycle'
  <1> SUFFICES ASSUME Lifecycle, LifeCalm PROVE Lifecycle'
    OBVIOUS
  <1>1. \A op \in Shutdowns : InFlight(op)' => InFlight(op)
    BY DEF LifeCalm, InFlight
  <1>2. "shutFailed" \in Shutdowns /\ "shutClosed" \in Shutdowns
    BY DEF Shutdowns
  <1>3. m_state' # "closed" => /\ fails' = 0 /\ closes' = 0
                               /\ \A op \in Shutdowns : ~InFlight(op)'
    BY <1>1 DEF Lifecycle, LifeCalm
  <1>4. /\ InFlight("shutFailed")' => opens' = 0 /\ fails' = 0
        /\ InFlight("shutClosed")' => opens' = 1 /\ closes' = 0
        /\ opens' > 0 => fails' = 0
        /\ opens' = 0 => closes' = 0
    BY <1>1, <1>2 DEF Lifecycle, LifeCalm
  <1>5. \A op \in Shutdowns \cap pending' : \A h \in ready' : h.op # op
    BY DEF Lifecycle, LifeCalm
  <1>6. \A g, h \in ready' : g.op \in Shutdowns /\ g.op = h.op => g = h
    BY DEF Lifecycle, LifeCalm
  <1> QED
    BY <1>3, <1>4, <1>5, <1>6 DEF Lifecycle

\* terminate asks for the shutdown that fits, unless it has been asked for.
LEMMA TerminateKeepsLife ==
  ASSUME TypeOK, Phases, Lifecycle, Terminate(pending), ready' \subseteq ready,
         UNCHANGED <<opens, fails, closes>>
  PROVE  Lifecycle'
  <1>1. CASE m_state = "closed"
    <2>1. LifeCalm
      BY <1>1 DEF LifeCalm, Terminate
    <2> QED
      BY <2>1, CalmKeepsLife
  <1>2. CASE m_state # "closed"
    <2>1. PICK s \in Shutdowns :
            /\ \A op \in Shutdowns : op \in pending' => op = s
            /\ s = "shutFailed" => m_state = "connecting"
            /\ s = "shutClosed" => m_state # "connecting"
      <3>1. \A op \in Shutdowns : op \notin pending
        BY <1>2 DEF Lifecycle, InFlight
      <3>2. CASE m_state = "connecting"
        <4>1. pending' = (pending \ {m_handshake_timer}) \cup {"shutFailed"}
          BY <3>2 DEF Terminate
        <4> QED
          BY <3>1, <3>2, <4>1 DEF Shutdowns
      <3>3. CASE m_state # "connecting"
        <4>1. pending' = (pending \ {m_handshake_timer}) \cup {"shutClosed"}
          BY <1>2, <3>3 DEF Terminate
        <4> QED
          BY <3>1, <3>3, <4>1 DEF Shutdowns
      <3> QED
        BY <3>2, <3>3
    <2>2. \A h \in ready' : h.op \notin Shutdowns
      BY <1>2 DEF Lifecycle, InFlight
    <2>3. \A op \in Shutdowns : InFlight(op)' => op = s
      BY <2>1, <2>2 DEF InFlight
    <2>4. fails' = 0 /\ closes' = 0 /\ m_state' = "closed"
      BY <1>2 DEF Lifecycle, Terminate
    <2>5. s = "shutFailed" => opens' = 0
      BY <2>1 DEF Phases
    <2>6. s = "shutClosed" => opens' = 1
      BY <1>2, <2>1 DEF Phases
    <2>7. /\ InFlight("shutFailed")' => opens' = 0
          /\ InFlight("shutClosed")' => opens' = 1
      BY <2>3, <2>5, <2>6 DEF Shutdowns
    <2> QED
      BY <2>2, <2>4, <2>7 DEF Lifecycle
  <1> QED
    BY <1>1, <1>2

\* A step of either kind.
LEMMA EitherKeepsLife ==
  ASSUME TypeOK, Phases, Lifecycle, ready' \subseteq ready, UNCHANGED <<opens, fails, closes>>,
         \/ Terminate(pending)
         \/ /\ \A op \in Shutdowns : op \in pending' => op \in pending
            /\ m_state' = m_state \/ m_state # "closed"
  PROVE  Lifecycle'
  BY CalmKeepsLife, TerminateKeepsLife DEF LifeCalm

LEMMA OpeningKeepsLife ==
  ASSUME Phases, Lifecycle, OpensWell
  PROVE  Lifecycle'
  <1>1. opens = 0
    BY DEF Phases, OpensWell
  <1>2. fails' = 0 /\ closes' = 0 /\ opens' = 1
    BY <1>1 DEF Lifecycle, OpensWell
  <1>3. \A op \in Shutdowns : op \notin pending' /\ \A h \in ready' : h.op # op
    BY DEF Lifecycle, OpensWell, InFlight
  <1>4. \A op \in Shutdowns : ~InFlight(op)'
    BY <1>3 DEF InFlight
  <1>5. ~InFlight("shutFailed")' /\ ~InFlight("shutClosed")'
    BY <1>4 DEF Shutdowns
  <1> QED
    BY <1>2, <1>3, <1>4, <1>5 DEF Lifecycle

\* The fail or the close handler is called, for the last time.
LEMMA EndKeepsLife ==
  ASSUME NEW res, TypeOK, Lifecycle, handle_terminate(res)
  PROVE  /\ Lifecycle'
         /\ \/ opens = 0 /\ fails = 0 /\ fails' = fails + 1 /\ closes' = closes
            \/ opens = 1 /\ closes = 0 /\ closes' = closes + 1 /\ fails' = fails
         /\ opens' = opens
  <1>1. ASSUME NEW s \in Shutdowns, Take(s, res)
        PROVE  /\ InFlight(s) /\ ready' \subseteq ready
               /\ pending' = pending /\ m_state' = m_state /\ opens' = opens
               /\ m_state = "closed"
               /\ s \notin pending' /\ \A h \in ready' : h.op # s
    <2>1. /\ Completion(s, res) \in ready /\ ready' = ready \ {Completion(s, res)}
          /\ Completion(s, res).op = s
          /\ pending' = pending /\ m_state' = m_state /\ opens' = opens
      BY <1>1 DEF Take, Completion, handle_terminate, con
    <2>2. InFlight(s)
      BY <2>1 DEF InFlight
    <2> QED
      BY <2>1, <2>2 DEF Lifecycle
  <1>2. CASE Take("shutFailed", res) /\ fails' = fails + 1 /\ UNCHANGED closes
    <2>1. "shutFailed" \in Shutdowns
      BY DEF Shutdowns
    <2>2. opens = 0 /\ fails = 0 /\ closes = 0
      BY <1>1, <1>2, <2>1 DEF Lifecycle
    <2>3. ~InFlight("shutClosed") /\ ~InFlight("shutClosed")' /\ ~InFlight("shutFailed")'
      BY <1>1, <1>2, <2>1, <2>2 DEF Lifecycle, InFlight
    <2>4. Lifecycle'
      BY <1>1, <1>2, <2>1, <2>2, <2>3 DEF Lifecycle
    <2> QED
      BY <1>1, <1>2, <2>1, <2>2, <2>4
  <1>3. CASE Take("shutClosed", res) /\ closes' = closes + 1 /\ UNCHANGED fails
    <2>1. "shutClosed" \in Shutdowns
      BY DEF Shutdowns
    <2>2. opens = 1 /\ closes = 0 /\ fails = 0
      BY <1>1, <1>3, <2>1 DEF Lifecycle
    <2>3. ~InFlight("shutFailed") /\ ~InFlight("shutFailed")' /\ ~InFlight("shutClosed")'
      BY <1>1, <1>3, <2>1, <2>2 DEF Lifecycle, InFlight
    <2>4. Lifecycle'
      BY <1>1, <1>3, <2>1, <2>2, <2>3 DEF Lifecycle
    <2> QED
      BY <1>1, <1>3, <2>1, <2>2, <2>4
  <1> QED
    BY <1>2, <1>3 DEF handle_terminate

-----------------------------------------------------------------------------
(***************************************************************************)
(* What a step is to the application.                                      *)
(***************************************************************************)
\* No open, fail or close handler is called.
Quiet == /\ ready' \subseteq ready
         /\ UNCHANGED <<opens, fails, closes>>
         /\ \/ Terminate(pending)
            \/ /\ \A op \in Shutdowns : op \in pending' => op \in pending
               /\ m_state' = m_state \/ m_state # "closed"

Silent == UNCHANGED <<delivered, written>>

\* The message handler is called.
Delivers == m_state = "open" /\ delivered' = delivered + 1 /\ UNCHANGED written

\* Frames are handed to the transport.
Sends == /\ m_send_queue # <<>> /\ UNCHANGED delivered
         /\ Len(written') >= Len(written)

\* The outside completes an operation.
Completes == \E op \in Operations, res \in Results :
                /\ Complete(op, res)
                /\ UNCHANGED <<opens, fails, closes, delivered, written, m_state>>

LEMMA SendStep ==
  ASSUME TypeOK, write_frame
  PROVE  Quiet /\ (Silent \/ Sends)
  <1>1. Quiet
    BY DEF write_frame, TakePost, NothingToWrite, Quiet, app, con, Shutdowns
  <1>2. CASE NothingToWrite /\ UNCHANGED <<out, pending>>
    BY <1>1, <1>2 DEF write_frame, Silent, app, out
  <1>3. CASE ~NothingToWrite
    <2>1. PICK n \in 1 .. Len(m_send_queue) : written' = written \o SubSeq(m_send_queue, 1, n)
      BY <1>3 DEF write_frame
    <2>2. SubSeq(m_send_queue, 1, n) \in Seq(Frame)
      BY SubSeqProperties DEF TypeOK
    <2>3. Len(written') = Len(written) + Len(SubSeq(m_send_queue, 1, n))
      BY <2>1, <2>2, ConcatProperties DEF TypeOK
    <2>4. Len(written') >= Len(written)
      BY <2>2, <2>3, LenProperties DEF TypeOK
    <2> QED
      BY <1>1, <1>3, <2>4 DEF write_frame, NothingToWrite, Sends, app
  <1> QED
    BY <1>1, <1>2, <1>3 DEF write_frame

LEMMA Steps ==
  ASSUME Parsable, TypeOK, [Next]_vars
  PROVE  \/ Quiet /\ (Silent \/ Delivers \/ Sends)
         \/ OpensWell
         \/ \E res \in Results : handle_terminate(res)
         \/ Completes
  <1>1. ASSUME startWebSocket PROVE Quiet /\ (Silent \/ Delivers \/ Sends)
    BY <1>1 DEF startWebSocket, Quiet, Silent, con, out, Shutdowns
  <1>2. ASSUME NEW res \in Results, handle_connect(res) PROVE Quiet /\ (Silent \/ Delivers \/ Sends)
    BY <1>2 DEF handle_connect, Take, Quiet, Silent, app, con, out, Shutdowns
  <1>3. ASSUME NEW res \in Results, handle_transport_init(res) PROVE Quiet /\ (Silent \/ Delivers \/ Sends)
    BY <1>3 DEF handle_transport_init, Take, Quiet, Silent, app, con, out, Shutdowns
  <1>4. ASSUME NEW res \in Results, handle_send_http_request(res) PROVE Quiet /\ (Silent \/ Delivers \/ Sends)
    BY <1>4 DEF handle_send_http_request, Take, Quiet, Silent, app, con, out, Shutdowns
  <1>5. ASSUME NEW res \in Results, handle_read_frame(res) PROVE Quiet /\ (Silent \/ Delivers \/ Sends)
    BY <1>5 DEF handle_read_frame, Take, Quiet, Silent, app, con, out, Shutdowns
  <1>6. ASSUME NEW res \in Results, handle_write_frame(res) PROVE Quiet /\ (Silent \/ Delivers \/ Sends)
    BY <1>6 DEF handle_write_frame, Take, Quiet, Silent, app, con, out, Shutdowns
  <1>7. ASSUME NEW res \in Results, handle_read_http_response(res)
       PROVE  (Quiet /\ (Silent \/ Delivers \/ Sends)) \/ OpensWell
    <2>1. CASE (GivesUp \/ ReadsOn) /\ ready' = ready \ {Completion("httpRead", res)}
      BY <2>1 DEF GivesUp, ReadsOn, Quiet, Silent, app, con, out, Shutdowns
    <2> QED
      BY <1>7, <2>1, WellAnswered
  <1>8. ASSUME DataFrame PROVE Quiet /\ (Silent \/ Delivers \/ Sends)
    <2>1. \/ delivered' = delivered
          \/ m_state = "open" /\ delivered' = delivered + 1
      BY <1>8 DEF DataFrame
    <2>2. UNCHANGED <<opens, fails, closes, m_state, written>>
      BY <1>8 DEF DataFrame, con, out
    <2>3. pending' \subseteq pending /\ ready' \subseteq ready
      BY <1>8, DataStep DEF Throw, loop
    <2>4. Quiet
      BY <2>2, <2>3 DEF Quiet
    <2> QED
      BY <2>1, <2>2, <2>4 DEF Silent, Delivers
  <1>9. ASSUME PingFrame PROVE Quiet /\ (Silent \/ Delivers \/ Sends)
    BY <1>9 DEF PingFrame, Push, Quiet, Silent, app, con, out
  <1>10. ASSUME PongFrame PROVE Quiet /\ (Silent \/ Delivers \/ Sends)
    BY <1>10 DEF PongFrame, Quiet, Silent, app, con, out, loop
  <1>11. ASSUME CloseFrame PROVE Quiet /\ (Silent \/ Delivers \/ Sends)
    BY <1>11 DEF CloseFrame, SendCloseFrame, Push, Quiet, Silent, app, con, out, Shutdowns
  <1>12. ASSUME BadCloseFrame PROVE Quiet /\ (Silent \/ Delivers \/ Sends)
    BY <1>12 DEF BadCloseFrame, SendCloseFrame, Push, Quiet, Silent, app, con, out, Shutdowns
  <1>13. ASSUME MalformedFrame PROVE Quiet /\ (Silent \/ Delivers \/ Sends)
    BY <1>13 DEF MalformedFrame, SendCloseFrame, Push, Quiet, Silent, app, con, out, Shutdowns
  <1>14. ASSUME read_frame PROVE Quiet /\ (Silent \/ Delivers \/ Sends)
    BY <1>14 DEF read_frame, Quiet, Silent, app, con, out, Shutdowns
  <1>15. ASSUME write_frame PROVE Quiet /\ (Silent \/ Delivers \/ Sends)
    BY <1>15, SendStep
  <1>16. ASSUME NEW t \in Timers, HandshakeTimeout(t) PROVE Quiet /\ (Silent \/ Delivers \/ Sends)
    BY <1>16 DEF HandshakeTimeout, Take, Quiet, Silent, app, out
  <1>17. ASSUME Return PROVE Quiet /\ (Silent \/ Delivers \/ Sends)
    BY <1>17 DEF Return, Quiet, Silent, con, out, loop
  <1>18. ASSUME Outside PROVE Completes
    <2>1. PICK op \in Operations, res \in Results : Complete(op, res)
      BY <1>18, OutsideStep
    <2>2. UNCHANGED <<opens, fails, closes, delivered, written, m_state>>
      BY <2>1 DEF Complete, app, con, out
    <2> QED
      BY <2>1, <2>2 DEF Completes
  <1>19. CASE UNCHANGED vars
    BY <1>19 DEF vars, app, con, out, loop, Quiet, Silent
  <1> QED
    BY <1>1, <1>2, <1>3, <1>4, <1>5, <1>6, <1>7, <1>8, <1>9, <1>10,
       <1>11, <1>12, <1>13, <1>14, <1>15, <1>16, <1>17, <1>18, <1>19
    DEF Next, EventLoop, handle_open_handshake_timeout,
        handle_close_handshake_timeout, Timers

\* A completion moves a shutdown from what is pending to what is ready.
LEMMA CompletionKeepsLife ==
  ASSUME Lifecycle, Completes
  PROVE  Lifecycle'
  <1>1. PICK op \in Operations, res \in Results :
          /\ Complete(op, res)
          /\ UNCHANGED <<opens, fails, closes, delivered, written, m_state>>
    BY DEF Completes
  <1>2. /\ op \in pending /\ pending' = pending \ {op}
        /\ ready' = ready \cup {Completion(op, res)} /\ Completion(op, res).op = op
    BY <1>1 DEF Complete, Completion
  <1>3. \A s \in Shutdowns : InFlight(s)' => InFlight(s)
    BY <1>2 DEF InFlight
  <1>4. \A s \in Shutdowns \cap pending' : \A h \in ready' : h.op # s
    BY <1>2 DEF Lifecycle
  <1>5. \A g, h \in ready' : g.op \in Shutdowns /\ g.op = h.op => g = h
    BY <1>2 DEF Lifecycle
  <1>6. "shutFailed" \in Shutdowns /\ "shutClosed" \in Shutdowns
    BY DEF Shutdowns
  <1> QED
    BY <1>1, <1>3, <1>4, <1>5, <1>6 DEF Lifecycle

LEMMA LifecycleStep ==
  ASSUME Parsable, TypeOK, Phases, Lifecycle, [Next]_vars
  PROVE  Lifecycle'
  <1>1. CASE Quiet
    BY <1>1, EitherKeepsLife DEF Quiet
  <1> QED
    BY <1>1, Steps, OpeningKeepsLife, EndKeepsLife, CompletionKeepsLife

-----------------------------------------------------------------------------
(***************************************************************************)
(* Every step is one of StreamPromise or changes nothing of it.            *)
(***************************************************************************)
LEMMA RequestedType ==
  ASSUME written \in Seq(Frame)
  PROVE  requested \in Nat /\ requested <= Total
  BY TotalType, LenProperties DEF requested

LEMMA PromisedInit == Init => Promise!Init
  <1>1. Init => Len(written) = 0
    BY DEF Init
  <1> QED
    BY <1>1, TotalType DEF Init, Promise!Init, requested

LEMMA PromisedStep ==
  ASSUME Parsable, TypeOK, TypeOK', Phases, Lifecycle, [Next]_vars
  PROVE  [Promise!Next]_(Promise!promise)
  <1>1. UNCHANGED written => requested' = requested
    BY DEF requested
  <1>2. CASE Quiet /\ Silent
    BY <1>1, <1>2 DEF Quiet, Silent, Promise!promise
  <1>3. CASE Quiet /\ Delivers
    <2>1. opens = 1
      BY <1>3 DEF Delivers, Phases
    <2>2. closes = 0
      BY <1>3 DEF Delivers, Lifecycle
    <2>3. Promise!Deliver
      BY <1>1, <1>3, <2>1, <2>2 DEF Quiet, Delivers, Promise!Deliver
    <2> QED
      BY <2>3 DEF Promise!Next
  <1>4. CASE Quiet /\ Sends
    <2>1. opens = 1
      BY <1>4 DEF Sends, Phases
    <2>2. /\ requested \in Nat /\ requested' \in Nat
          /\ requested <= requested' /\ requested' <= Total
      <3>1. Len(written) \in Nat /\ Len(written') \in Nat /\ Len(written') >= Len(written)
        BY <1>4, LenProperties DEF Sends, TypeOK
      <3> QED
        BY <3>1, TotalType DEF requested
    <2>3. CASE requested' = requested
      BY <1>4, <2>3 DEF Quiet, Sends, Promise!promise
    <2>4. CASE requested' # requested
      <3>1. requested' \in requested + 1 .. Total
        BY <2>2, <2>4, TotalType
      <3>2. Promise!Request
        BY <1>4, <2>1, <3>1 DEF Quiet, Sends, Promise!Request
      <3> QED
        BY <3>2 DEF Promise!Next
    <2> QED
      BY <2>3, <2>4
  <1>5. CASE OpensWell
    <2>1. opens = 0
      BY <1>5 DEF OpensWell, Phases
    <2>2. fails = 0
      BY <1>5 DEF OpensWell, Lifecycle
    <2>3. Promise!Open
      BY <1>1, <1>5, <2>1, <2>2 DEF OpensWell, Promise!Open
    <2> QED
      BY <2>3 DEF Promise!Next
  <1>6. CASE \E res \in Results : handle_terminate(res)
    <2>1. PICK res \in Results : handle_terminate(res)
      BY <1>6
    <2>2. UNCHANGED <<delivered, requested>>
      BY <1>1, <2>1 DEF handle_terminate, out
    <2>3. CASE opens = 0 /\ fails = 0 /\ fails' = fails + 1 /\ closes' = closes /\ opens' = opens
      <3>1. Promise!Fail
        BY <2>2, <2>3 DEF Promise!Fail
      <3> QED
        BY <3>1 DEF Promise!Next
    <2>4. CASE opens = 1 /\ closes = 0 /\ closes' = closes + 1 /\ fails' = fails /\ opens' = opens
      <3>1. Promise!Close
        BY <2>2, <2>4 DEF Promise!Close
      <3> QED
        BY <3>1 DEF Promise!Next
    <2> QED
      BY <2>1, <2>3, <2>4, EndKeepsLife
  <1>7. CASE Completes
    BY <1>1, <1>7 DEF Completes, Promise!promise
  <1> QED
    BY <1>2, <1>3, <1>4, <1>5, <1>6, <1>7, Steps

-----------------------------------------------------------------------------
\* Lifecycle, the shutdown is in flight at most once and bound to the handler
\* that is due: a connection is not terminated twice, whatever it is doing.
THEOREM ShutdownIsOnce ==
  ASSUME Parsable
  PROVE  Spec => []Lifecycle
  <1>1. Init => Lifecycle
    BY DEF Init, Lifecycle, InFlight, Shutdowns
  <1>2. IInv /\ Lifecycle /\ [Next]_vars => Lifecycle'
    BY LifecycleStep DEF IInv
  <1> QED
    BY <1>1, <1>2, Invariant, PTL DEF Spec

\* The handlers of the stream are called as websocketpp documents: open or fail,
\* never both; close once and after open; messages between the two; and the
\* subscriptions leave in their order, after open.
THEOREM StreamKeepsPromise ==
  ASSUME Parsable
  PROVE  Spec => KeepsPromise
  <1>1. IInv /\ IInv' /\ Lifecycle /\ [Next]_vars => [Promise!Next]_(Promise!promise)
    BY PromisedStep DEF IInv
  <1>2. Spec => [](IInv /\ Lifecycle)
    BY Invariant, ShutdownIsOnce, PTL
  <1> QED
    BY <1>1, <1>2, PromisedInit, PTL DEF Spec, KeepsPromise, Promise!Spec
=============================================================================
