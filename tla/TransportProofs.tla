---------------------------- MODULE TransportProofs ----------------------------
(***************************************************************************)
(* Whatever races, each of async_connect, init and async_shutdown answers  *)
(* exactly once (Transport implements the safety of OneAnswer).            *)
(*                                                                         *)
(* The proof follows the timers: a call that has been made and not         *)
(* answered has one stage whose timer is armed or queued (Owes), and the   *)
(* operation's handler of a stage answers only while its timer is armed    *)
(* (Watched), because a timer that is queued or has answered left the      *)
(* stage late.                                                             *)
(***************************************************************************)
EXTENDS Transport, TLAPS

Live(s) == timer[s] \in {"armed", "queued"}

\* What the state of a stage's timer says of the stage.
Watched ==
    \A s \in Stages :
        /\ timer[s] = "none" <=> op[s] = "none"
        /\ timer[s] \in {"queued", "done"} => s \in late
        /\ timer[s] = "armed" /\ s \notin late => op[s] \in {"pending", "ok", "error"}
        /\ timer[s] = "cancelled" => op[s] = "done"
        /\ op[s] = "aborted" => s \in late
        /\ s \in late => timer[s] # "none"

\* Which stages have begun, and that the one before is over.
Begun ==
    /\ timer["resolve"] # "none" <=> "connect" \in asked
    /\ "connect" \notin asked => asked = {}
    /\ timer["connect"] # "none" => timer["resolve"] = "cancelled"
    /\ timer["post_init"] # "none" <=> "init" \in asked
    /\ "init" \in asked => timer["connect"] = "cancelled"
    /\ timer["shutdown"] # "none" <=> "shutdown" \in asked
    /\ up => timer["post_init"] = "cancelled"

\* A call has not been answered exactly while it has not been made or one of its stages
\* has a timer that can still run out.
Owes ==
    /\ answers["connect"] = IF "connect" \notin asked \/ Live("resolve") \/ Live("connect") THEN 0 ELSE 1
    /\ answers["init"] = IF "init" \notin asked \/ Live("post_init") THEN 0 ELSE 1
    /\ answers["shutdown"] = IF "shutdown" \notin asked \/ Live("shutdown") THEN 0 ELSE 1

TransportInv == TypeOK /\ Watched /\ Begun /\ Owes

\* The safety of OneAnswer for the three calls: a handler is called only after its call was
\* made, and once.
Steps ==
    /\ [ConnectCall!Next]_<<"connect" \in asked, answers["connect"]>>
    /\ [InitCall!Next]_<<"init" \in asked, answers["init"]>>
    /\ [ShutdownCall!Next]_<<"shutdown" \in asked, answers["shutdown"]>>

-----------------------------------------------------------------------------
LEMMA StageNames ==
    /\ Stages = {"resolve", "connect", "post_init", "shutdown"}
    /\ Calls = {"connect", "init", "shutdown"}
    /\ CallOf["resolve"] = "connect" /\ CallOf["connect"] = "connect"
    /\ CallOf["post_init"] = "init" /\ CallOf["shutdown"] = "shutdown"
    BY DEF Stages, Calls, CallOf

LEMMA InitTransportInv == Init => TransportInv
  <1> SUFFICES ASSUME Init PROVE TransportInv
    OBVIOUS
  <1>1. TypeOK
    BY DEF Init, TypeOK
  <1>2. \A s \in Stages : op[s] = "none" /\ timer[s] = "none" /\ s \notin late
    BY DEF Init
  <1>3. Watched
    BY <1>2 DEF Watched
  <1>4. asked = {} /\ up = FALSE
        /\ answers["connect"] = 0 /\ answers["init"] = 0 /\ answers["shutdown"] = 0
    BY StageNames DEF Init
  <1>5. Begun /\ Owes
    BY <1>2, <1>4, StageNames DEF Begun, Owes
  <1> QED
    BY <1>1, <1>3, <1>5 DEF TransportInv

\* What Continue does to the stage whose handler runs, to the one it starts and to the others.
LEMMA Continued ==
    ASSUME TypeOK, NEW from, NEW o, NEW t, NEW starts, Continue(from, o, t, starts),
           NEW s \in Stages
    PROVE  /\ s = starts => op'[s] = "pending" /\ timer'[s] = "armed" /\ s \notin late'
           /\ s # starts /\ s = from => op'[s] = o /\ timer'[s] = t
           /\ s # starts /\ s # from => op'[s] = op[s] /\ timer'[s] = timer[s]
           /\ s # starts => (s \in late' <=> s \in late)
    BY DEF Continue

\* A step that changes no timer of a stage that is over, starts none and answers nothing.
LEMMA QuietStep ==
    ASSUME TransportInv, UNCHANGED <<asked, answers, up>>, TypeOK', Watched',
           \A s \in Stages : (timer'[s] = "none" <=> timer[s] = "none")
                             /\ (timer'[s] = "cancelled" <=> timer[s] = "cancelled")
                             /\ (Live(s)' <=> Live(s))
    PROVE  TransportInv' /\ Steps
  <1>1. Begun'
    BY StageNames, Zenon DEF TransportInv, Begun
  <1>2. Owes'
    BY StageNames, Zenon DEF TransportInv, Owes
  <1>3. Steps
    BY DEF Steps
  <1> QED
    BY <1>1, <1>2, <1>3 DEF TransportInv

\* An operation completes, or its handler gives up: only op[s] changes.
LEMMA OnlyOperation ==
    ASSUME TransportInv, NEW s \in Stages, NEW o \in {"done"} \cup Results,
           op' = [op EXCEPT ![s] = o], UNCHANGED <<timer, late, asked, answers, up>>,
           timer[s] # "none" /\ timer[s] # "cancelled",
           o = "aborted" => s \in late,
           s \notin late => o \in {"ok", "error"} \/ timer[s] # "armed"
    PROVE  TransportInv' /\ Steps
  <1>1. TypeOK'
    BY DEF TransportInv, TypeOK
  <1>2. Watched'
    <2> SUFFICES ASSUME NEW r \in Stages PROVE Watched!(r)'
      BY DEF Watched
    <2>1. /\ op'[r] = IF r = s THEN o ELSE op[r]
          /\ timer'[r] = timer[r] /\ late' = late
      BY DEF TransportInv, TypeOK
    <2> QED
      BY <2>1 DEF TransportInv, Watched, Results
  <1>3. \A r \in Stages : timer'[r] = timer[r] /\ (Live(r)' <=> Live(r))
    BY DEF Live
  <1> QED
    BY <1>1, <1>2, <1>3, QuietStep

\* A handler of stage s answers its call, and may start the shutdown.
LEMMA Answered ==
    ASSUME TransportInv, NEW s \in Stages, NEW o \in {"done"} \cup Results,
           NEW t \in {"cancelled", "done"}, NEW res, res = "ok" => t = "cancelled",
           Live(s), Answer(s, o, t, res),
           t = "cancelled" => o = "done", t = "done" => s \in late, o = "aborted" => s \in late
    PROVE  TransportInv' /\ Steps
  <1> DEFINE c == CallOf[s]
  <1>0. TypeOK /\ Watched /\ Begun /\ Owes
    BY DEF TransportInv
  <1>1. c \in asked /\ c \in Calls /\ answers[c] = 0
    BY <1>0, StageNames DEF Begun, Owes, Live
  <1>2. PICK starts \in {"none", "shutdown"} :
           /\ Continue(s, o, t, starts)
           /\ answers' = Call(c)
           /\ starts = "shutdown" => s # "shutdown" /\ "shutdown" \notin asked
           /\ asked' = IF starts = "shutdown" THEN asked \cup {"shutdown"} ELSE asked
           /\ up' = (up \/ (c = "init" /\ res = "ok"))
    <2>1. CASE c = "shutdown" /\ Continue(s, o, t, "none") /\ asked' = asked
      BY <2>1 DEF Answer
    <2>2. CASE c # "shutdown" /\ res = "error"
               /\ Continue(s, o, t, IF "shutdown" \in asked THEN "none" ELSE "shutdown")
               /\ asked' = asked \cup {"shutdown"}
      <3>1. CASE "shutdown" \in asked
        BY <2>2, <3>1 DEF Answer
      <3>2. CASE "shutdown" \notin asked
        BY <2>2, <3>2, StageNames DEF Answer
      <3> QED
        BY <3>1, <3>2
    <2>3. CASE c = "init" /\ res = "ok" /\ Continue(s, o, t, "none") /\ asked' = asked
      BY <2>3 DEF Answer
    <2> QED
      BY <2>1, <2>2, <2>3 DEF Answer
  <1>3. answers' = [answers EXCEPT ![c] = 1]
    BY <1>1, <1>2 DEF Call
  <1>4. /\ op'[s] = o /\ timer'[s] = t /\ (s \in late' <=> s \in late)
        /\ \A r \in Stages : r # s /\ r # starts =>
              op'[r] = op[r] /\ timer'[r] = timer[r] /\ (r \in late' <=> r \in late)
        /\ starts = "shutdown" => op'["shutdown"] = "pending" /\ timer'["shutdown"] = "armed"
                                 /\ "shutdown" \notin late'
    BY <1>0, <1>2, Continued, StageNames
  <1>5. TypeOK'
    <2>1. op' \in [Stages -> {"none", "pending", "done"} \cup Results]
      BY <1>0, <1>2 DEF TypeOK, Continue
    <2>2. timer' \in [Stages -> {"none", "armed", "queued", "cancelled", "done"}]
      BY <1>0, <1>2 DEF TypeOK, Continue
    <2>3. late' \subseteq Stages /\ asked' \subseteq Calls
      BY <1>0, <1>2, StageNames DEF TypeOK, Continue
    <2>4. answers' \in [Calls -> Nat]
      BY <1>0, <1>3 DEF TypeOK
    <2>5. up' \in BOOLEAN
      BY <1>2
    <2> QED
      BY <2>1, <2>2, <2>3, <2>4, <2>5 DEF TypeOK
  <1>6. Watched'
    <2> SUFFICES ASSUME NEW r \in Stages PROVE Watched!(r)'
      BY DEF Watched
    <2>1. CASE r = s
      BY <2>1, <1>4 DEF Results
    <2>2. CASE r # s /\ r = starts
      BY <2>2, <1>2, <1>4, StageNames
    <2>3. CASE r # s /\ r # starts
      BY <2>3, <1>0, <1>4 DEF Watched
    <2> QED
      BY <2>1, <2>2, <2>3
  <1>7. Begun'
    BY <1>0, <1>1, <1>2, <1>4, StageNames DEF Begun, Live
  <1>8. Owes'
    BY <1>0, <1>1, <1>2, <1>3, <1>4, StageNames DEF Begun, Owes, Live, TypeOK
  <1>9. Steps
    BY <1>0, <1>1, <1>2, <1>3, StageNames
       DEF Steps, TypeOK, ConnectCall!Next, ConnectCall!Ask, ConnectCall!Answer,
           InitCall!Next, InitCall!Ask, InitCall!Answer,
           ShutdownCall!Next, ShutdownCall!Ask, ShutdownCall!Answer
  <1> QED
    BY <1>5, <1>6, <1>7, <1>8, <1>9 DEF TransportInv

\* A stage begins, of a call that is being made or of one that goes on: `from' is the stage
\* whose handler starts it, or "none".
LEMMA BegunTypes ==
    ASSUME TypeOK, Watched, NEW from, NEW starts \in Stages, starts # from,
           Continue(from, "done", "cancelled", starts)
    PROVE  /\ op' \in [Stages -> {"none", "pending", "done"} \cup Results]
           /\ timer' \in [Stages -> {"none", "armed", "queued", "cancelled", "done"}]
           /\ late' \subseteq Stages
           /\ Watched'
  <1>1. op' \in [Stages -> {"none", "pending", "done"} \cup Results]
    BY DEF TypeOK, Continue
  <1>2. timer' \in [Stages -> {"none", "armed", "queued", "cancelled", "done"}]
    BY DEF TypeOK, Continue
  <1>3. late' \subseteq Stages
    BY DEF TypeOK, Continue
  <1>4. ASSUME NEW r \in Stages PROVE Watched!(r)'
    <2>1. CASE r = starts
      BY <2>1, Continued
    <2>2. CASE r # starts /\ r = from
      BY <2>2, Continued
    <2>3. CASE r # starts /\ r # from
      BY <2>3, Continued DEF Watched
    <2> QED
      BY <2>1, <2>2, <2>3
  <1> QED
    BY <1>1, <1>2, <1>3, <1>4 DEF Watched

\* The operation's handler answers only while its timer is armed.
LEMMA ArmedTimer ==
    ASSUME TransportInv, NEW s \in Stages, Queued(s), ~Cancelled(s)
    PROVE  /\ timer[s] = "armed" /\ s \notin late /\ CancelTimer(s) = "cancelled"
           /\ op[s] \in {"ok", "error"}
    BY DEF TransportInv, TypeOK, Watched, Queued, Cancelled, CancelTimer, Results

LEMMA ConnectIsCalled ==
    TransportInv /\ async_connect => TransportInv' /\ Steps
  <1> SUFFICES ASSUME TransportInv, async_connect PROVE TransportInv' /\ Steps
    OBVIOUS
  <1>0. TypeOK /\ Watched /\ Begun /\ Owes
    BY DEF TransportInv
  <1>1. Continue("none", "done", "cancelled", "resolve")
    BY StageNames DEF async_connect, Continue
  <1>2. asked = {} /\ asked' = {"connect"} /\ answers' = answers /\ up' = up
    BY DEF async_connect
  <1>3. TypeOK' /\ Watched'
    BY <1>0, <1>1, <1>2, BegunTypes, StageNames DEF TypeOK
  <1>4. /\ timer'["resolve"] = "armed"
        /\ \A r \in Stages : r # "resolve" => timer'[r] = timer[r]
    BY <1>0, <1>1, Continued, StageNames
  <1>5. Begun'
    BY <1>0, <1>2, <1>4, StageNames DEF Begun
  <1>6. Owes'
    BY <1>0, <1>2, <1>4, StageNames DEF Begun, Owes, Live
  <1>7. Steps
    BY <1>2 DEF Steps, ConnectCall!Next, ConnectCall!Ask
  <1> QED
    BY <1>3, <1>5, <1>6, <1>7 DEF TransportInv

LEMMA ShutdownIsCalled ==
    TransportInv /\ async_shutdown => TransportInv' /\ Steps
  <1> SUFFICES ASSUME TransportInv, async_shutdown PROVE TransportInv' /\ Steps
    OBVIOUS
  <1>0. TypeOK /\ Watched /\ Begun /\ Owes
    BY DEF TransportInv
  <1>1. Continue("none", "done", "cancelled", "shutdown")
    BY StageNames DEF async_shutdown, Continue
  <1>2. /\ up /\ "shutdown" \notin asked /\ asked' = asked \cup {"shutdown"}
        /\ answers' = answers /\ up' = up
    BY DEF async_shutdown
  <1>3. TypeOK' /\ Watched'
    BY <1>0, <1>1, <1>2, BegunTypes, StageNames DEF TypeOK
  <1>4. /\ timer'["shutdown"] = "armed"
        /\ \A r \in Stages : r # "shutdown" => timer'[r] = timer[r]
    BY <1>0, <1>1, Continued, StageNames
  <1>5. Begun'
    BY <1>0, <1>2, <1>4, StageNames DEF Begun
  <1>6. Owes'
    BY <1>0, <1>2, <1>4, StageNames DEF Begun, Owes, Live
  <1>7. Steps
    BY <1>2 DEF Steps, ShutdownCall!Next, ShutdownCall!Ask
  <1> QED
    BY <1>3, <1>5, <1>6, <1>7 DEF TransportInv

LEMMA HostResolved ==
    ASSUME TransportInv, Queued("resolve"), ~Cancelled("resolve"),
           Continue("resolve", "done", CancelTimer("resolve"), "connect"),
           UNCHANGED <<asked, answers, up>>
    PROVE  TransportInv' /\ Steps
  <1>0. TypeOK /\ Watched /\ Begun /\ Owes
    BY DEF TransportInv
  <1>1. /\ timer["resolve"] = "armed"
        /\ Continue("resolve", "done", "cancelled", "connect")
    BY ArmedTimer, StageNames
  <1>2. TypeOK' /\ Watched'
    BY <1>0, <1>1, BegunTypes, StageNames DEF TypeOK
  <1>3. /\ timer'["connect"] = "armed" /\ timer'["resolve"] = "cancelled"
        /\ \A r \in Stages \ {"connect", "resolve"} : timer'[r] = timer[r]
    BY <1>0, <1>1, Continued, StageNames
  <1>4. Begun'
    BY <1>0, <1>1, <1>3, StageNames DEF Begun
  <1>5. Owes'
    BY <1>0, <1>1, <1>3, StageNames DEF Begun, Owes, Live
  <1> QED
    BY <1>2, <1>4, <1>5 DEF TransportInv, Steps

LEMMA HostConnected ==
    ASSUME TransportInv, Queued("connect"), ~Cancelled("connect"),
           Continue("connect", "done", CancelTimer("connect"), "post_init"),
           asked' = asked \cup {"init"}, answers' = Call("connect"), up' = up
    PROVE  TransportInv' /\ Steps
  <1>0. TypeOK /\ Watched /\ Begun /\ Owes
    BY DEF TransportInv
  <1>1. /\ timer["connect"] = "armed"
        /\ Continue("connect", "done", "cancelled", "post_init")
    BY ArmedTimer, StageNames
  <1>2. "connect" \in asked /\ "init" \notin asked /\ answers["connect"] = 0
    BY <1>0, <1>1, StageNames DEF Begun, Owes, Live
  <1>3. answers' = [answers EXCEPT !["connect"] = 1]
    BY <1>2 DEF Call
  <1>4. TypeOK' /\ Watched'
    <2>1. Watched' /\ asked' \subseteq Calls /\ answers' \in [Calls -> Nat] /\ up' \in BOOLEAN
      BY <1>0, <1>1, <1>3, BegunTypes, StageNames DEF TypeOK
    <2> QED
      BY <2>1, <1>0, <1>1, BegunTypes, StageNames DEF TypeOK
  <1>5. /\ timer'["post_init"] = "armed" /\ timer'["connect"] = "cancelled"
        /\ \A r \in Stages \ {"post_init", "connect"} : timer'[r] = timer[r]
    BY <1>0, <1>1, Continued, StageNames
  <1>6. Begun'
    BY <1>0, <1>1, <1>2, <1>5, StageNames DEF Begun
  <1>7. Owes'
    BY <1>0, <1>1, <1>2, <1>3, <1>5, StageNames DEF Begun, Owes, Live, TypeOK
  <1>8. Steps
    BY <1>0, <1>2, <1>3, StageNames
       DEF Steps, TypeOK, ConnectCall!Next, ConnectCall!Answer, InitCall!Next, InitCall!Ask
  <1> QED
    BY <1>4, <1>6, <1>7, <1>8 DEF TransportInv

-----------------------------------------------------------------------------
LEMMA HandlerGivesUp ==
    ASSUME TransportInv, NEW s \in Stages, GiveUp(s)
    PROVE  TransportInv' /\ Steps
  <1>1. /\ op[s] \in Results /\ op' = [op EXCEPT ![s] = "done"]
        /\ UNCHANGED <<timer, late, asked, answers, up>>
    BY DEF GiveUp, Queued
  <1>2. s \in late
    BY DEF GiveUp, Cancelled, TransportInv, Watched
  <1>3. timer[s] # "none" /\ timer[s] # "cancelled"
    BY <1>1 DEF TransportInv, Watched, Results
  <1> QED
    BY <1>1, <1>2, <1>3, OnlyOperation

LEMMA OperationAnswersCall ==
    ASSUME TransportInv, NEW s \in Stages, Queued(s), ~Cancelled(s),
           NEW res, Answer(s, "done", CancelTimer(s), res)
    PROVE  TransportInv' /\ Steps
    BY ArmedTimer, Answered DEF Live

LEMMA TimerAnswersCall ==
    ASSUME TransportInv, NEW s \in Stages, handle_timeout(s)
    PROVE  TransportInv' /\ Steps
  <1> DEFINE o == IF op[s] = "pending" THEN "aborted" ELSE op[s]
  <1>1. timer[s] = "queued" /\ Answer(s, o, "done", "error")
    BY DEF handle_timeout
  <1>2. s \in late /\ op[s] # "none"
    BY <1>1 DEF TransportInv, Watched
  <1>3. o \in {"done"} \cup Results
    BY <1>2 DEF TransportInv, TypeOK, Results
  <1> QED
    BY <1>1, <1>2, <1>3, Answered DEF Live

LEMMA OutsideSteps ==
    ASSUME TransportInv, Outside
    PROVE  TransportInv' /\ Steps
  <1> PICK s \in Stages : Time(s) \/ Due(s) \/ \E res \in {"ok", "error"} : Completes(s, res)
    BY DEF Outside
  <1>1. CASE Time(s)
    <2>1. late' = late \cup {s} /\ timer[s] # "none" /\ UNCHANGED <<op, timer, asked, answers, up>>
      BY <1>1 DEF Time
    <2>2. TypeOK' /\ Watched'
      BY <2>1 DEF TransportInv, TypeOK, Watched
    <2>3. \A r \in Stages : timer'[r] = timer[r] /\ (Live(r)' <=> Live(r))
      BY <2>1 DEF Live
    <2> QED
      BY <2>1, <2>2, <2>3, QuietStep
  <1>2. CASE Due(s)
    <2>1. /\ timer[s] = "armed" /\ s \in late /\ timer' = [timer EXCEPT ![s] = "queued"]
          /\ UNCHANGED <<op, late, asked, answers, up>>
      BY <1>2 DEF Due
    <2>2. \A r \in Stages : timer'[r] = IF r = s THEN "queued" ELSE timer[r]
      BY <2>1 DEF TransportInv, TypeOK
    <2>3. TypeOK' /\ Watched'
      BY <2>1, <2>2 DEF TransportInv, TypeOK, Watched
    <2>4. \A r \in Stages : /\ timer'[r] = "none" <=> timer[r] = "none"
                            /\ timer'[r] = "cancelled" <=> timer[r] = "cancelled"
                            /\ Live(r)' <=> Live(r)
      BY <2>1, <2>2 DEF Live
    <2> QED
      BY <2>1, <2>3, <2>4, QuietStep
  <1>3. ASSUME NEW res \in {"ok", "error"}, Completes(s, res) PROVE TransportInv' /\ Steps
    <2>1. /\ op[s] = "pending" /\ op' = [op EXCEPT ![s] = res]
          /\ UNCHANGED <<timer, late, asked, answers, up>>
      BY <1>3 DEF Completes
    <2>2. timer[s] # "none" /\ timer[s] # "cancelled" /\ res \in Results
      BY <2>1 DEF TransportInv, Watched, Results
    <2> QED
      BY <2>1, <2>2, OnlyOperation
  <1> QED
    BY <1>1, <1>2, <1>3

LEMMA NextTransportInv ==
    TransportInv /\ [Next]_vars => TransportInv' /\ Steps
  <1> SUFFICES ASSUME TransportInv, [Next]_vars PROVE TransportInv' /\ Steps
    OBVIOUS
  <1>1. CASE async_connect
    BY <1>1, ConnectIsCalled
  <1>2. CASE async_shutdown
    BY <1>2, ShutdownIsCalled
  <1>3. CASE handle_resolve
    BY <1>3, HandlerGivesUp, OperationAnswersCall, HostResolved, StageNames DEF handle_resolve
  <1>4. CASE handle_connect
    BY <1>4, HandlerGivesUp, OperationAnswersCall, HostConnected, StageNames DEF handle_connect
  <1>5. CASE handle_post_init
    BY <1>5, HandlerGivesUp, OperationAnswersCall, StageNames DEF handle_post_init
  <1>6. CASE handle_async_shutdown
    BY <1>6, HandlerGivesUp, OperationAnswersCall, StageNames DEF handle_async_shutdown
  <1>7. CASE \E s \in Stages : handle_timeout(s)
    BY <1>7, TimerAnswersCall
  <1>8. CASE Outside
    BY <1>8, OutsideSteps
  <1>9. CASE UNCHANGED vars
    <2>1. TypeOK' /\ Watched'
      BY <1>9 DEF vars, TransportInv, TypeOK, Watched
    <2>2. \A r \in Stages : timer'[r] = timer[r] /\ (Live(r)' <=> Live(r))
      BY <1>9 DEF vars, Live
    <2> QED
      BY <1>9, <2>1, <2>2, QuietStep DEF vars
  <1> QED
    BY <1>1, <1>2, <1>3, <1>4, <1>5, <1>6, <1>7, <1>8, <1>9 DEF Next, EventLoop

-----------------------------------------------------------------------------
LEMMA Invariant == Spec => []TransportInv
    BY InitTransportInv, NextTransportInv, PTL DEF Spec

\* While the timer of a stage has not been cancelled, exactly one of its two handlers is
\* going to answer: neither a timer that is queued behind its operation nor an operation
\* that completes in its last moment makes both answer, or none.
THEOREM OneOfTwoAnswers == Spec => []OnePending
  <1>1. TransportInv => OnePending
    BY DEF TransportInv, Watched, OnePending, TimerAnswers, OperationAnswers, Cancelled
  <1> QED
    BY <1>1, Invariant, PTL

THEOREM TransportTypes == Spec => []TypeOK
    BY Invariant, PTL DEF TransportInv

\* `The transport must call handler exactly once': whatever races, a handler of
\* async_connect, init or async_shutdown is called only for a call that was made, and never
\* a second time.
THEOREM NeverAnsweredTwice ==
    Spec => ConnectCall!Safety /\ InitCall!Safety /\ ShutdownCall!Safety
  <1>1. Init => ConnectCall!Init /\ InitCall!Init /\ ShutdownCall!Init
    BY StageNames DEF Init, ConnectCall!Init, InitCall!Init, ShutdownCall!Init
  <1>2. TransportInv /\ [Next]_vars => Steps
    BY NextTransportInv
  <1>3. Steps => /\ [ConnectCall!Next]_(ConnectCall!call)
                 /\ [InitCall!Next]_(InitCall!call)
                 /\ [ShutdownCall!Next]_(ShutdownCall!call)
    BY DEF Steps, ConnectCall!call, InitCall!call, ShutdownCall!call
  <1> QED
    BY <1>1, <1>2, <1>3, Invariant, PTL
       DEF Spec, ConnectCall!Safety, InitCall!Safety, ShutdownCall!Safety
===============================================================================
