------------------------------ MODULE Transport ------------------------------
(***************************************************************************)
(* The asynchronous calls of the asio transport that run against a timer   *)
(* of their own: async_connect (resolving, then connecting), init (the     *)
(* TLS handshake, post_init) and async_shutdown, for one client connection.*)
(*                                                                         *)
(* Each stage starts an operation and a timer.  Whichever handler runs     *)
(* first is to answer for both.  Their handlers may both be queued at that *)
(* moment, and what is queued can no longer be cancelled: the timer's      *)
(* handler knows a cancelled timer by its error code, the operation's      *)
(* handler asks whether it was aborted or whether its timer has run out.   *)
(***************************************************************************)
EXTENDS Naturals, FiniteSets

Calls  == {"connect", "init", "shutdown"}
Stages == {"resolve", "connect", "post_init", "shutdown"}
\* The call whose handler the last stage answers.
CallOf == [s \in Stages |-> CASE s \in {"resolve", "connect"} -> "connect"
                              [] s = "post_init" -> "init"
                              [] s = "shutdown"  -> "shutdown"]

VARIABLES
    op,       \* stage -> "none", "pending", the result it is queued with, or "done"
    timer,    \* stage -> "none", "armed", "queued", "cancelled" or "done"
    late,     \* the stages whose time is over: the clock is past expires_at
    asked,    \* the calls made
    answers,  \* call -> how often its handler was called
    up        \* init has succeeded, the connection is being used

vars == <<op, timer, late, asked, answers, up>>

Results == {"ok", "error", "aborted"}

TypeOK ==
    /\ op \in [Stages -> {"none", "pending", "done"} \cup Results]
    /\ timer \in [Stages -> {"none", "armed", "queued", "cancelled", "done"}]
    /\ late \subseteq Stages
    /\ asked \subseteq Calls
    /\ answers \in [Calls -> Nat]
    /\ up \in BOOLEAN

-----------------------------------------------------------------------------
\* What a handler does besides starting the next stage: from is the stage whose
\* handler runs (its operation and timer are o and t from now on), starts the
\* stage it starts, or "none".
Continue(from, o, t, starts) ==
    /\ op' = [s \in Stages |-> IF s = starts THEN "pending" ELSE IF s = from THEN o ELSE op[s]]
    /\ timer' = [s \in Stages |-> IF s = starts THEN "armed" ELSE IF s = from THEN t ELSE timer[s]]
    /\ late' = late \ {starts}

Call(c) == [answers EXCEPT ![c] = @ + 1]

\* The connection's handler of the call that stage s answers: an error of
\* connect or init terminates it (connection::terminate calls async_shutdown),
\* success of connect goes on to init.  Its first stages are answered with res.
Answer(s, o, t, res) ==
    LET c == CallOf[s] IN
    /\ answers' = Call(c)
    /\ up' = (up \/ (c = "init" /\ res = "ok"))
    /\ \/ c = "shutdown" /\ Continue(s, o, t, "none") /\ UNCHANGED asked
       \/ /\ c # "shutdown" /\ res = "error"
          /\ Continue(s, o, t, IF "shutdown" \in asked THEN "none" ELSE "shutdown")
          /\ asked' = asked \cup {"shutdown"}
       \/ c = "init" /\ res = "ok" /\ Continue(s, o, t, "none") /\ UNCHANGED asked

\* endpoint::async_connect
async_connect ==
    /\ asked = {}
    /\ asked' = {"connect"}
    /\ Continue("none", "done", "done", "resolve")
    /\ UNCHANGED <<answers, up>>

\* Fault: the clock is not asked; the timer is
\* left to run out.
CancelledByError(s) == op[s] = "aborted" /\ s # "post_init"
LeaveTimer(s) == timer[s]

\* The operation's handler finds that it has been cancelled, or that its timer
\* has run out and will answer.  The TLS policy reports every error of the
\* handshake as tls_handshake_failed, so that only the clock tells in post_init.
Cancelled(s) == (op[s] = "aborted" /\ s # "post_init") \/ s \in late

\* timer->cancel(), which a timer whose handler is queued does not notice.
CancelTimer(s) == IF timer[s] = "armed" THEN "cancelled" ELSE timer[s]

Queued(s) == op[s] \in Results

\* Fault: the handler of an aborted operation answers, too.
GiveUpButAnswer(s) ==
    /\ Queued(s) /\ Cancelled(s)
    /\ op' = [op EXCEPT ![s] = "done"]
    /\ answers' = Call(CallOf[s])
    /\ UNCHANGED <<timer, late, asked, up>>

\* The handlers that give up.
GiveUp(s) ==
    /\ Queued(s) /\ Cancelled(s)
    /\ op' = [op EXCEPT ![s] = "done"]
    /\ UNCHANGED <<timer, late, asked, answers, up>>

\* endpoint::handle_resolve
handle_resolve ==
    \/ GiveUp("resolve")
    \/ /\ Queued("resolve") /\ ~Cancelled("resolve")
       /\ \/ /\ op["resolve"] = "error"
             /\ Answer("resolve", "done", CancelTimer("resolve"), "error")
          \/ /\ op["resolve"] = "ok"
             /\ Continue("resolve", "done", CancelTimer("resolve"), "connect")
             /\ UNCHANGED <<asked, answers, up>>

\* endpoint::handle_connect; on success client::handle_connect starts the
\* connection, which calls init: pre_init of the TLS policy calls back at once,
\* and handle_pre_init starts post_init.  The error path of pre_init, for a host
\* name that TLS refuses, is left out: the host is a constant of startWebSocket.
handle_connect ==
    \/ GiveUp("connect")
    \/ /\ Queued("connect") /\ ~Cancelled("connect")
       /\ \/ /\ op["connect"] = "error"
             /\ Answer("connect", "done", CancelTimer("connect"), "error")
          \/ /\ op["connect"] = "ok"
             /\ Continue("connect", "done", CancelTimer("connect"), "post_init")
             /\ asked' = asked \cup {"init"}
             /\ answers' = Call("connect")
             /\ UNCHANGED up

\* connection::handle_post_init
handle_post_init ==
    \/ GiveUp("post_init")
    \/ /\ Queued("post_init") /\ ~Cancelled("post_init")
       /\ Answer("post_init", "done", CancelTimer("post_init"),
                 IF op["post_init"] = "ok" THEN "ok" ELSE "error")

\* connection::async_shutdown, called when a connection that is up ends.
async_shutdown ==
    /\ up /\ "shutdown" \notin asked
    /\ asked' = asked \cup {"shutdown"}
    /\ Continue("none", "done", "done", "shutdown")
    /\ UNCHANGED <<answers, up>>

\* connection::handle_async_shutdown
handle_async_shutdown ==
    \/ GiveUp("shutdown")
    \/ /\ Queued("shutdown") /\ ~Cancelled("shutdown")
       /\ Answer("shutdown", "done", CancelTimer("shutdown"), op["shutdown"])

\* handle_resolve_timeout, handle_connect_timeout, handle_post_init_timeout and
\* handle_async_shutdown_timeout: the operation is cancelled (its handler will
\* see `aborted' unless it is queued already) and the call answered.
handle_timeout(s) ==
    /\ timer[s] = "queued"
    /\ Answer(s, IF op[s] = "pending" THEN "aborted" ELSE op[s], "done", "error")

-----------------------------------------------------------------------------
\* The outside: an operation completes, time passes, the reactor queues the
\* handler of a timer that has run out.
Completes(s, res) ==
    /\ op[s] = "pending"
    /\ op' = [op EXCEPT ![s] = res]
    /\ UNCHANGED <<timer, late, asked, answers, up>>

Time(s) ==
    /\ timer[s] # "none" /\ s \notin late
    /\ late' = late \cup {s}
    /\ UNCHANGED <<op, timer, asked, answers, up>>

\* The reactor reads the clock before the handlers it queues do: when the handler
\* of a timer is queued, every later reading is past the timer's end.
Due(s) ==
    /\ timer[s] = "armed" /\ s \in late
    /\ timer' = [timer EXCEPT ![s] = "queued"]
    /\ UNCHANGED <<op, late, asked, answers, up>>

-----------------------------------------------------------------------------
Init ==
    /\ op = [s \in Stages |-> "none"]
    /\ timer = [s \in Stages |-> "none"]
    /\ late = {}
    /\ asked = {}
    /\ answers = [c \in Calls |-> 0]
    /\ up = FALSE

EventLoop ==
    \/ handle_resolve \/ handle_connect \/ handle_post_init \/ handle_async_shutdown
    \/ \E s \in Stages : handle_timeout(s)

Outside == \E s \in Stages : Time(s) \/ Due(s) \/ \E res \in {"ok", "error"} : Completes(s, res)

Next == async_connect \/ async_shutdown \/ EventLoop \/ Outside

Spec == Init /\ [][Next]_vars

\* The event loop runs, time passes and timers that have run out are queued.
\* Nothing makes an operation complete.
Fairness == /\ WF_vars(EventLoop)
            /\ \A s \in Stages : WF_vars(Time(s)) /\ WF_vars(Due(s))

LiveSpec == Spec /\ Fairness

-----------------------------------------------------------------------------
\* While the timer of a stage has not been cancelled, exactly one of the two
\* handlers is going to answer: the timer's when its time is over, the
\* operation's before.
TimerAnswers(s)     == s \in late
OperationAnswers(s) == op[s] \in {"pending", "ok", "error"} /\ ~Cancelled(s)
OnePending ==
    \A s \in Stages : timer[s] \in {"armed", "queued"} => (TimerAnswers(s) <=> ~OperationAnswers(s))

\* `The transport must call handler exactly once' (transport/base/connection.hpp:53),
\* and the same for connect and shutdown, which the connection relies on as well:
\* its handlers do not check whether they have been called before.
ConnectCall  == INSTANCE OneAnswer WITH asked <- "connect" \in asked, answers <- answers["connect"]
InitCall     == INSTANCE OneAnswer WITH asked <- "init" \in asked, answers <- answers["init"]
ShutdownCall == INSTANCE OneAnswer WITH asked <- "shutdown" \in asked, answers <- answers["shutdown"]
ConnectOnce  == ConnectCall!Spec
InitOnce     == InitCall!Spec
ShutdownOnce == ShutdownCall!Spec
=============================================================================
