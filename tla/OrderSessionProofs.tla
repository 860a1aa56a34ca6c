-------------------------- MODULE OrderSessionProofs --------------------------
(***************************************************************************)
(* Proofs about OrderSession, for every value of its constants.            *)
(*                                                                         *)
(* The invariants come in layers, each proved inductive with the help of   *)
(* the layers under it:                                                    *)
(*   Control        the types, and what the client is doing;               *)
(*   Stragglers     what may still be on its way, and for whom;            *)
(*   Once           each request has its effect once, and what the client  *)
(*                  is told of a refusal is true;                          *)
(*   Naming         a cancel changes only the order its command names;     *)
(*   Replacement    under StrictCancel, a replacement follows its cancel;  *)
(*   ResultIsTrue   a result that waits for the client shows what is true. *)
(* Following is the conjunction of the first five.                         *)
(***************************************************************************)
EXTENDS OrderSessionRefinement, TLAPS

-----------------------------------------------------------------------------
(***************************************************************************)
(* Control.                                                                *)
(***************************************************************************)
Kinds == {"place", "cancel", "modify"} \cup ReadCalls

\* The calls a command of each kind may be blocked on.
CallOf(cmd, r) ==
    \/ cmd.kind = "place" /\ r.call = "place"
    \/ cmd.kind \in {"cancel", "modify"} /\ r.call = "cancel" /\ r.order = cmd.target
    \/ cmd.kind = "modify" /\ r.call = "place"
    \/ cmd.kind \in ReadCalls /\ r.call \in ReadCalls

\* The client waits exactly while the current command runs, for one of its calls.
Waiting ==
    /\ pc = "blocked" =>
          /\ cur \in CmdIds
          /\ cmds[cur] \in Cmd
          /\ cmds[cur].verdict = "running"
          /\ calling \in Request
          /\ calling.cmd = cur
          /\ CallOf(cmds[cur], calling)
    /\ pc # "blocked" => calling = NoRequest /\ inbox = NoReply

\* The commands are numbered in the order they were issued.
Numbering ==
    \A c \in CmdIds :
        /\ c > cur <=> cmds[c] = NotIssued
        /\ cmds[c].verdict = "running" => pc = "blocked" /\ c = cur

Control == TypeOK /\ Waiting /\ Numbering

-----------------------------------------------------------------------------
\* A call that ends gives a verdict, whatever it returned.
LEMMA VerdictTypes ==
    \A b : /\ PlaceVerdict(b) \in Verdicts \ {"running"}
           /\ CancelVerdict(b) \in Verdicts \ {"running"}
           /\ GiveUpVerdict(b) \in Verdicts \ {"running"}
           /\ ModifyVerdict(b) \in Verdicts \ {"running"}
           /\ ReadVerdict(b) \in Verdicts \ {"running"}
BY DEF PlaceVerdict, CancelVerdict, GiveUpVerdict, ModifyVerdict, ReadVerdict,
       Verdicts

\* A command keeps its kind when it is given a verdict.
LEMMA VerdictKeepsType ==
    ASSUME NEW cmd \in Cmd, NEW v \in Verdicts
    PROVE  /\ [cmd EXCEPT !.verdict = v] \in Cmd
           /\ [cmd EXCEPT !.verdict = v].verdict = v
           /\ [cmd EXCEPT !.verdict = v].kind = cmd.kind
  <1>1. CASE cmd \in PlaceCmd
    BY <1>1 DEF Cmd, PlaceCmd
  <1>2. CASE cmd \in CancelCmd
    BY <1>2 DEF Cmd, CancelCmd
  <1>3. CASE cmd \in ModifyCmd
    BY <1>3 DEF Cmd, ModifyCmd
  <1>4. CASE cmd \in ReadCmd
    BY <1>4 DEF Cmd, ReadCmd
  <1> QED
    BY <1>1, <1>2, <1>3, <1>4 DEF Cmd

\* A command that was issued is told from one that was not.
LEMMA IssuedIsIssued == \A cmd \in Cmd : cmd # NotIssued /\ cmd.kind \in Kinds
BY ReadCallsAssumption
   DEF Cmd, PlaceCmd, CancelCmd, ModifyCmd, ReadCmd, NotIssued, Kinds

LEMMA ControlInit == Init => Control
  <1> SUFFICES ASSUME Init PROVE Control
    OBVIOUS
  <1>1. TypeOK
    BY BoundsAssumption DEF Init, TypeOK, CmdIds
  <1>2. Waiting
    BY DEF Init, Waiting
  <1>3. Numbering
    BY BoundsAssumption DEF Init, Numbering, NotIssued, CmdIds
  <1> QED
    BY <1>1, <1>2, <1>3 DEF Control

\* A menu choice that leads to a call keeps the client in step with it.
LEMMA IssueControl ==
    ASSUME Control,
           NEW cmd \in Cmd, cmd.verdict = "running",
           NEW r \in Request, r.cmd = cur + 1, CallOf(cmd, r),
           Issue(cmd), Post(r)
    PROVE  Control'
  <1> USE DEF Control
  <1>1. cur \in Nat /\ cur + 1 \in CmdIds /\ cur' = cur + 1
    BY BoundsAssumption DEF TypeOK, Issue, CmdIds
  <1>2. cmds' = [cmds EXCEPT ![cur + 1] = cmd]
    BY DEF Issue
  <1>3. cmds' \in [CmdIds -> Cmd \cup {NotIssued}] /\ cmds'[cur'] = cmd
    BY <1>1, <1>2 DEF TypeOK
  <1>4. TypeOK'
    BY <1>1, <1>3 DEF TypeOK, Issue, Post
  <1>5. Waiting'
    BY <1>1, <1>3 DEF Issue, Post, Waiting
  <1>6. Numbering'
    <2> SUFFICES ASSUME NEW c \in CmdIds
                 PROVE  /\ c > cur' <=> cmds'[c] = NotIssued
                        /\ cmds'[c].verdict = "running"
                              => pc' = "blocked" /\ c = cur'
      BY DEF Numbering
    <2>1. CASE c = cur + 1
      BY <1>1, <1>3, <2>1, IssuedIsIssued DEF Issue
    <2>2. CASE c # cur + 1
      <3>1. cmds'[c] = cmds[c]
        BY <1>2, <2>2 DEF TypeOK
      <3>2. c > cur <=> c > cur'
        BY <1>1, <2>2 DEF CmdIds
      <3> QED
        BY <3>1, <3>2 DEF Numbering, Issue
    <2> QED
      BY <2>1, <2>2
  <1> QED
    BY <1>4, <1>5, <1>6

\* So does the end of a call.
LEMMA FinishControl ==
    ASSUME Control, pc = "blocked", NEW v \in Verdicts \ {"running"}, Finish(v)
    PROVE  Control'
  <1> USE DEF Control
  <1>1. cur \in CmdIds /\ cmds[cur] \in Cmd
    BY DEF Waiting
  <1>2. cmds' = [cmds EXCEPT ![cur] = [cmds[cur] EXCEPT !.verdict = v]]
    BY DEF Finish
  <1>3. /\ cmds'[cur] \in Cmd
        /\ cmds'[cur].verdict = v
        /\ \A c \in CmdIds : c # cur => cmds'[c] = cmds[c]
        /\ cmds' \in [CmdIds -> Cmd \cup {NotIssued}]
    BY <1>1, <1>2, VerdictKeepsType DEF TypeOK
  <1>4. TypeOK'
    BY <1>3 DEF TypeOK, Finish
  <1>5. Waiting'
    BY DEF Waiting, Finish
  <1>6. Numbering'
    BY <1>1, <1>3, IssuedIsIssued DEF Numbering, Finish
  <1> QED
    BY <1>4, <1>5, <1>6

\* A step in which the client does nothing keeps the invariant if it keeps the
\* types.
LEMMA EnvironmentControl ==
    ASSUME Control, UNCHANGED clientVars,
           inbox' = inbox \/ (pc = "blocked" /\ inbox' \in Reply),
           net' \subseteq net,
           orders' \in [OrderIds -> Order \cup {Absent}]
    PROVE  Control'
BY DEF Control, TypeOK, Waiting, Numbering, clientVars

LEMMA AnswerControl ==
    ASSUME Control, NEW r \in net, NEW b \in Reply, Answer(r, b),
           orders' \in [OrderIds -> Order \cup {Absent}]
    PROVE  Control'
  <1>1. r # NoRequest
    BY ReadCallsAssumption
       DEF Control, TypeOK, Request, PlaceRequest, CancelRequest, ReadRequest,
           NoRequest
  <1>2. calling = r => pc = "blocked"
    BY <1>1 DEF Control, Waiting
  <1>3. /\ UNCHANGED clientVars
        /\ net' \subseteq net
        /\ inbox' = inbox \/ (pc = "blocked" /\ inbox' \in Reply)
    BY <1>2 DEF Answer
  <1> QED
    BY <1>3, EnvironmentControl

\* What the exchange makes of a placement or a cancel is an order again.
LEMMA OrderTypes ==
    ASSUME Control, NEW r \in net
    PROVE  /\ r.call = "place" =>
                 \A s \in OrderStates : NewOrder(r, s) \in Order
           /\ r.call = "cancel" =>
                 /\ r.order \in OrderIds
                 /\ orders[r.order] # Absent =>
                        Closed(orders[r.order], r.cmd) \in Order
  <1>1. r \in Request
    BY DEF Control, TypeOK
  <1>2. r.call = "place" => r \in PlaceRequest
    BY <1>1, ReadCallsAssumption
       DEF Request, PlaceRequest, CancelRequest, ReadRequest
  <1>3. r.call = "cancel" => r \in CancelRequest
    BY <1>1, ReadCallsAssumption
       DEF Request, PlaceRequest, CancelRequest, ReadRequest
  <1>4. r.call = "place" => \A s \in OrderStates : NewOrder(r, s) \in Order
    BY <1>2 DEF PlaceRequest, NewOrder, Order
  <1>5. ASSUME r.call = "cancel"
        PROVE  /\ r.order \in OrderIds
               /\ orders[r.order] # Absent =>
                      Closed(orders[r.order], r.cmd) \in Order
    <2>1. r.order \in OrderIds /\ r.cmd \in CmdIds
      BY <1>3, <1>5 DEF CancelRequest
    <2>2. orders[r.order] # Absent => orders[r.order] \in Order
      BY <2>1 DEF Control, TypeOK
    <2>3. \A ord \in Order, c \in CmdIds : Closed(ord, c) \in Order
      BY DEF Closed, Order, OrderStates
    <2> QED
      BY <2>1, <2>2, <2>3
  <1> QED
    BY <1>4, <1>5

\* An order that is in some state is an order.
LEMMA NotAbsent == \A s \in OrderStates : \A ord : ord.state = s => ord # Absent
BY DEF OrderStates, Absent

\* The calls the handlers make are requests.
LEMMA CallTypes ==
    ASSUME NEW c \in CmdIds
    PROVE  /\ \A product \in Product, quote \in Quote :
                 PlaceCall(c, product, quote) \in Request
           /\ \A o \in OrderIds : CancelCall(c, o) \in Request
           /\ \A what \in ReadCalls : ReadCall(c, what) \in Request
BY DEF PlaceCall, CancelCall, ReadCall, Request, PlaceRequest, CancelRequest,
       ReadRequest

\* Every step of the specification keeps the control of the client in order.
LEMMA ControlNext == Control /\ [Next]_vars => Control'
  <1> SUFFICES ASSUME Control, [Next]_vars PROVE Control'
    OBVIOUS
  <1>0. TypeOK /\ Waiting /\ Numbering
    BY DEF Control
  <1>1. CASE Authenticate
    BY <1>1 DEF Control, Authenticate, TypeOK, Waiting, Numbering
  <1>a. ASSUME pc = "menu", cur < MaxCmds PROVE cur + 1 \in CmdIds
    BY <1>0, <1>a, BoundsAssumption DEF TypeOK, CmdIds
  <1>2. CASE HandlePlaceOrder
    <2>1. PICK product \in Product, quote \in Quote :
            /\ Issue([kind |-> "place", product |-> product, quote |-> quote,
                      verdict |-> "running"])
            /\ Post(PlaceCall(cur + 1, product, quote))
      BY <1>2 DEF HandlePlaceOrder
    <2>2. cur + 1 \in CmdIds
      BY <2>1, <1>a DEF Issue
    <2> DEFINE cmd == [kind |-> "place", product |-> product, quote |-> quote,
                       verdict |-> "running"]
    <2>3. cmd \in Cmd
      BY DEF Cmd, PlaceCmd, Verdicts
    <2> QED
      BY <2>1, <2>2, <2>3, CallTypes, IssueControl DEF PlaceCall, CallOf
  <1>3. CASE HandleCancelOrder
    <2>1. PICK o \in OrderIds :
            /\ Issue([kind |-> "cancel", target |-> o, verdict |-> "running"])
            /\ Post(CancelCall(cur + 1, o))
      BY <1>3 DEF HandleCancelOrder
    <2>2. cur + 1 \in CmdIds
      BY <2>1, <1>a DEF Issue
    <2>3. [kind |-> "cancel", target |-> o, verdict |-> "running"] \in Cmd
      BY DEF Cmd, CancelCmd, Verdicts
    <2> QED
      BY <2>1, <2>2, <2>3, CallTypes, IssueControl DEF CancelCall, CallOf
  <1>4. CASE HandleModifyOrder
    <2>1. PICK o \in OrderIds, quote \in Quote :
            /\ Issue([kind |-> "modify", target |-> o, quote |-> quote,
                      verdict |-> "running"])
            /\ Post(CancelCall(cur + 1, o))
      BY <1>4 DEF HandleModifyOrder
    <2>2. cur + 1 \in CmdIds
      BY <2>1, <1>a DEF Issue
    <2>3. [kind |-> "modify", target |-> o, quote |-> quote,
           verdict |-> "running"] \in Cmd
      BY DEF Cmd, ModifyCmd, Verdicts
    <2> QED
      BY <2>1, <2>2, <2>3, CallTypes, IssueControl DEF CancelCall, CallOf
  <1>5. ASSUME NEW what, Look(what) PROVE Control'
    <2>1. cur + 1 \in CmdIds /\ what \in ReadCalls
      BY <1>5, <1>a DEF Look, Issue
    <2>2. [kind |-> what, verdict |-> "running"] \in Cmd
      BY <2>1 DEF Cmd, ReadCmd, Verdicts
    <2> QED
      BY <1>5, <2>1, <2>2, CallTypes, IssueControl DEF Look, ReadCall, CallOf
  <1>6. CASE ExitMenu
    BY <1>6 DEF Control, ExitMenu, TypeOK, Waiting, Numbering
  <1>7. CASE Interrupt
    BY <1>7, FinishControl DEF Interrupt, Verdicts
  <1>8. CASE Restart
    BY <1>8, BoundsAssumption DEF Control, Restart, TypeOK, Waiting, Numbering
  <1>9. CASE PlaceReturns
    BY <1>9, VerdictTypes, FinishControl DEF PlaceReturns, Returned
  <1>10. CASE CancelReturns
    BY <1>10, VerdictTypes, FinishControl DEF CancelReturns, Returned
  <1>11. CASE ReadReturns
    BY <1>11, VerdictTypes, FinishControl DEF ReadReturns, Returned
  <1>12. CASE ModifyGivesUp
    BY <1>12, VerdictTypes, FinishControl DEF ModifyGivesUp, Returned
  <1>13. CASE ModifyReturns
    BY <1>13, VerdictTypes, FinishControl DEF ModifyReturns, Returned
  <1>14. CASE ModifyReplaces
    <2>1. /\ cur \in CmdIds
          /\ cmds[cur] \in ModifyCmd
          /\ cmds[cur].verdict = "running"
      BY <1>14, <1>0, ReadCallsAssumption
         DEF ModifyReplaces, Returned, Waiting, Cmd, PlaceCmd, CancelCmd,
             ModifyCmd, ReadCmd
    <2>2. inbox.order \in Order
      BY <1>14, <1>0
         DEF ModifyReplaces, Returned, TypeOK, Reply, Empty, Unreadable, Odd,
             Refusal, Listing
    <2>3. PlaceCall(cur, inbox.order.product, cmds[cur].quote) \in Request
      BY <2>1, <2>2, CallTypes DEF Order, ModifyCmd
    <2>4. TypeOK'
      BY <1>14, <1>0, <2>3 DEF ModifyReplaces, Post, TypeOK
    <2>5. Waiting'
      BY <1>14, <1>0, <2>1, <2>3
         DEF ModifyReplaces, Returned, Post, Waiting, CallOf, PlaceCall,
             ModifyCmd
    <2>6. Numbering'
      BY <1>14, <1>0 DEF ModifyReplaces, Numbering
    <2> QED
      BY <2>4, <2>5, <2>6 DEF Control
  <1>15. CASE ExchangeAccepts
    <2>1. PICK r \in net, o \in OrderIds, s \in {"open", "filled", "rejected"} :
            /\ r.call = "place"
            /\ orders' = [orders EXCEPT ![o] = NewOrder(r, s)]
            /\ Answer(r, Result(o, NewOrder(r, s)))
      BY <1>15 DEF ExchangeAccepts
    <2>2. NewOrder(r, s) \in Order
      BY <2>1, OrderTypes DEF OrderStates
    <2>3. Result(o, NewOrder(r, s)) \in Reply
      BY <2>2 DEF Result, Reply
    <2>4. orders' \in [OrderIds -> Order \cup {Absent}]
      BY <1>0, <2>1, <2>2 DEF TypeOK
    <2> QED
      BY <2>1, <2>3, <2>4, AnswerControl
  <1>16. CASE ExchangeCancels
    <2>1. PICK r \in net :
            /\ r.call = "cancel"
            /\ orders[r.order].state = "open"
            /\ orders' = [orders EXCEPT ![r.order] =
                              Closed(orders[r.order], r.cmd)]
            /\ Answer(r, Result(r.order, Closed(orders[r.order], r.cmd)))
      BY <1>16 DEF ExchangeCancels
    <2>2. r.order \in OrderIds /\ Closed(orders[r.order], r.cmd) \in Order
      BY <2>1, OrderTypes, NotAbsent DEF OrderStates
    <2>3. Result(r.order, Closed(orders[r.order], r.cmd)) \in Reply
      BY <2>2 DEF Result, Reply
    <2>4. orders' \in [OrderIds -> Order \cup {Absent}]
      BY <1>0, <2>1, <2>2 DEF TypeOK
    <2> QED
      BY <2>1, <2>3, <2>4, AnswerControl
  <1>17. CASE ExchangeReportsClosed
    <2>1. PICK r \in net :
            /\ r.call = "cancel"
            /\ orders[r.order].state \in OrderStates \ {"open"}
            /\ Answer(r, Result(r.order, orders[r.order]))
            /\ UNCHANGED orders
      BY <1>17 DEF ExchangeReportsClosed
    <2>2. r.order \in OrderIds /\ orders[r.order] \in Order
      BY <1>0, <2>1, OrderTypes, NotAbsent DEF TypeOK
    <2>3. Result(r.order, orders[r.order]) \in Reply
      BY <2>2 DEF Result, Reply
    <2> QED
      BY <1>0, <2>1, <2>3, AnswerControl DEF TypeOK
  <1>18. CASE ExchangeReads \/ ExchangeRefuses
    BY <1>0, <1>18, AnswerControl DEF ExchangeReads, ExchangeRefuses, TypeOK, Reply
  <1>19. CASE Fill
    <2>1. PICK o \in OrderIds :
            /\ orders[o].state = "open"
            /\ orders' = [orders EXCEPT ![o].state = "filled"]
            /\ UNCHANGED <<clientVars, inbox, net>>
      BY <1>19 DEF Fill
    <2>2. orders[o] \in Order
      BY <1>0, <2>1, NotAbsent DEF TypeOK, OrderStates
    <2>3. [orders[o] EXCEPT !.state = "filled"] \in Order
      BY <2>2 DEF Order, OrderStates
    <2>4. orders' \in [OrderIds -> Order \cup {Absent}]
      BY <1>0, <2>1, <2>3 DEF TypeOK
    <2> QED
      BY <2>1, <2>4, EnvironmentControl
  <1>20. CASE TokenExpires
    BY <1>20 DEF Control, TokenExpires, TypeOK, Waiting, Numbering
  <1>21. CASE LoseRequest
    BY <1>0, <1>21, EnvironmentControl DEF LoseRequest, TypeOK
  <1>22. CASE CurlFails \/ GatewayAnswers
    BY <1>0, <1>22, EnvironmentControl DEF CurlFails, GatewayAnswers, TypeOK, Reply
  <1>23. CASE UNCHANGED vars
    BY <1>23 DEF Control, vars, clientVars, TypeOK, Waiting, Numbering
  <1> QED
    BY <1>1, <1>2, <1>3, <1>4, <1>5, <1>6, <1>7, <1>8, <1>9, <1>10, <1>11,
       <1>12, <1>13, <1>14, <1>15, <1>16, <1>17, <1>18, <1>19, <1>20, <1>21,
       <1>22, <1>23
       DEF Next, User, ClientReturns, Exchange, Network, HandleOpenOrder,
           HandleAccountSummary, HandleMarketData

\* The variables keep their types (and the client is in step with its command).
THEOREM TypeCorrect == Spec => []TypeOK
  <1>1. Spec => []Control
    BY ControlInit, ControlNext, PTL DEF Spec
  <1>2. Control => TypeOK
    BY DEF Control
  <1> QED
    BY <1>1, <1>2, PTL

-----------------------------------------------------------------------------
(***************************************************************************)
(* Stragglers.                                                             *)
(***************************************************************************)
Changing == {"place", "cancel"}

\* Requests belong to commands that were issued.
NetNumbered == \A r \in net : r.cmd <= cur

\* A call that has an answer of the exchange was executed.
Answered == inbox.kind \in {"result", "error"} => calling \notin net

Stragglers == NetNumbered /\ Answered /\ StragglersAreFlagged

LEMMA StragglersInit == Init => Stragglers
BY DEF Init, Stragglers, NetNumbered, Answered, StragglersAreFlagged, NoReply

\* Verdicts other than "crashed" and "invalid" need an answer of the exchange.
LEMMA ClearVerdicts ==
    \A b : /\ PlaceVerdict(b) \notin {"crashed", "invalid"}
                => b.kind \in {"result", "error"}
           /\ CancelVerdict(b) \notin {"crashed", "invalid"}
                => b.kind \in {"result", "error"}
           /\ GiveUpVerdict(b) \notin {"crashed", "invalid"}
                => b.kind \in {"result", "error"}
           /\ ModifyVerdict(b) \notin {"crashed", "invalid"}
                => b.kind \in {"result", "error"}
BY DEF PlaceVerdict, CancelVerdict, GiveUpVerdict, ModifyVerdict

\* A request of a command that runs is the one the client waits for.
LEMMA OnlyTheCurrentRuns ==
    ASSUME Control, Stragglers, NEW r \in net, r.call \in Changing
    PROVE  r = calling \/ (r.cmd # cur \/ pc # "blocked")
BY DEF Control, Waiting, Stragglers, StragglersAreFlagged, Changing

LEMMA IssueStragglers ==
    ASSUME Control, Stragglers,
           NEW cmd, NEW r, r.cmd = cur + 1, Issue(cmd), Post(r)
    PROVE  Stragglers'
  <1>1. cur \in Nat /\ cur' = cur + 1 /\ cmds \in [CmdIds -> Cmd \cup {NotIssued}]
    BY BoundsAssumption DEF Control, TypeOK, CmdIds, Issue
  <1>2. \A q \in net : q.cmd \in CmdIds
    BY DEF Control, TypeOK, Request, PlaceRequest, CancelRequest, ReadRequest
  <1>3. NetNumbered'
    BY <1>1, <1>2 DEF Stragglers, NetNumbered, Post, CmdIds
  <1>4. Answered'
    BY DEF Answered, Post, NoReply
  <1>5. ASSUME NEW q \in net, q.call \in Changing
        PROVE  cmds'[q.cmd].verdict \in {"crashed", "invalid"}
    <2>1. q # calling
      BY <1>5 DEF Control, Waiting, Issue, NoRequest, Changing
    <2>2. q.cmd # cur + 1
      BY <1>1, <1>2, <1>5 DEF Stragglers, NetNumbered, CmdIds
    <2>3. cmds'[q.cmd] = cmds[q.cmd]
      BY <1>1, <1>2, <2>2 DEF Issue
    <2> QED
      BY <1>5, <2>1, <2>3 DEF Stragglers, StragglersAreFlagged, Changing
  <1>6. StragglersAreFlagged'
    BY <1>5 DEF StragglersAreFlagged, Post, Changing
  <1> QED
    BY <1>3, <1>4, <1>6 DEF Stragglers

LEMMA FinishStragglers ==
    ASSUME Control, Stragglers, pc = "blocked", NEW v, Finish(v),
           calling \in net /\ calling.call \in Changing
              => v \in {"crashed", "invalid"}
    PROVE  Stragglers'
  <1>1. cur \in CmdIds /\ cmds[cur] \in Cmd /\ calling.cmd = cur
    BY DEF Control, Waiting
  <1>2. NetNumbered'
    BY DEF Stragglers, NetNumbered, Finish
  <1>3. Answered'
    BY DEF Answered, Finish, NoReply
  <1>4. ASSUME NEW q \in net, q.call \in Changing
        PROVE  cmds'[q.cmd].verdict \in {"crashed", "invalid"}
    <2>1. CASE q = calling
      <3>1. cmds'[cur].verdict = v
        BY <1>1 DEF Finish, Control, TypeOK, Cmd, PlaceCmd, CancelCmd,
                    ModifyCmd, ReadCmd
      <3> QED
        BY <1>1, <1>4, <2>1, <3>1
    <2>2. CASE q # calling
      <3>1. q.cmd # cur
        BY <1>4, <2>2, OnlyTheCurrentRuns
      <3>2. cmds'[q.cmd] = cmds[q.cmd]
        BY <3>1, <1>4
           DEF Finish, Control, TypeOK, Request, PlaceRequest, CancelRequest,
               ReadRequest
      <3> QED
        BY <1>4, <2>2, <3>2 DEF Stragglers, StragglersAreFlagged, Changing
    <2> QED
      BY <2>1, <2>2
  <1>5. StragglersAreFlagged'
    BY <1>4 DEF StragglersAreFlagged, Finish, Changing
  <1> QED
    BY <1>2, <1>3, <1>5 DEF Stragglers

LEMMA AnswerStragglers ==
    ASSUME Control, Stragglers, NEW r \in net, NEW b, Answer(r, b)
    PROVE  Stragglers'
BY DEF Answer, clientVars, Stragglers, NetNumbered, Answered,
       StragglersAreFlagged

LEMMA StragglersNext ==
    Control /\ Stragglers /\ [Next]_vars => Stragglers'
  <1> SUFFICES ASSUME Control, Stragglers, [Next]_vars PROVE Stragglers'
    OBVIOUS
  <1>1. CASE UNCHANGED <<cur, cmds, calling, inbox, net>>
    BY <1>1 DEF Stragglers, NetNumbered, Answered, StragglersAreFlagged
  <1>2. CASE HandlePlaceOrder
    BY <1>2, IssueStragglers DEF HandlePlaceOrder, PlaceCall
  <1>3. CASE HandleCancelOrder
    BY <1>3, IssueStragglers DEF HandleCancelOrder, CancelCall
  <1>4. CASE HandleModifyOrder
    BY <1>4, IssueStragglers DEF HandleModifyOrder, CancelCall
  <1>5. ASSUME NEW what, Look(what) PROVE Stragglers'
    BY <1>5, IssueStragglers DEF Look, ReadCall
  <1>6. CASE Interrupt
    BY <1>6, FinishStragglers DEF Interrupt
  <1>7. CASE PlaceReturns
    BY <1>7, ClearVerdicts, FinishStragglers
       DEF PlaceReturns, Returned, Stragglers, Answered
  <1>8. CASE CancelReturns
    BY <1>8, ClearVerdicts, FinishStragglers
       DEF CancelReturns, Returned, Stragglers, Answered
  <1>9. CASE ModifyGivesUp
    BY <1>9, ClearVerdicts, FinishStragglers
       DEF ModifyGivesUp, Returned, Stragglers, Answered
  <1>10. CASE ModifyReturns
    BY <1>10, ClearVerdicts, FinishStragglers
       DEF ModifyReturns, Returned, Stragglers, Answered
  <1>11. CASE ReadReturns
    <2>1. pc = "blocked" /\ cmds[cur].kind \in ReadCalls
      BY <1>11 DEF ReadReturns, Returned
    <2>2. calling.call \notin Changing
      BY <2>1, ReadCallsAssumption DEF Control, Waiting, CallOf, Changing
    <2> QED
      BY <1>11, <2>1, <2>2, FinishStragglers DEF ReadReturns
  <1>12. CASE ModifyReplaces
    <2>1. calling \notin net /\ pc = "blocked"
      BY <1>12 DEF ModifyReplaces, Returned, Stragglers, Answered
    <2>2. \A q \in net : q.call \in Changing =>
              cmds[q.cmd].verdict \in {"crashed", "invalid"}
      BY <2>1 DEF Stragglers, StragglersAreFlagged, Changing
    <2>3. NetNumbered'
      BY <1>12 DEF ModifyReplaces, Post, PlaceCall, Stragglers, NetNumbered,
                   Control, TypeOK, CmdIds
    <2>4. Answered'
      BY <1>12 DEF ModifyReplaces, Post, Answered, NoReply
    <2>5. StragglersAreFlagged'
      BY <1>12, <2>2 DEF ModifyReplaces, Post, StragglersAreFlagged, Changing
    <2> QED
      BY <2>3, <2>4, <2>5 DEF Stragglers
  <1>13. CASE ExchangeAccepts \/ ExchangeCancels \/ ExchangeReportsClosed
                \/ ExchangeReads \/ ExchangeRefuses
    BY <1>13, AnswerStragglers
       DEF ExchangeAccepts, ExchangeCancels, ExchangeReportsClosed,
           ExchangeReads, ExchangeRefuses
  <1>14. CASE LoseRequest
    BY <1>14 DEF LoseRequest, clientVars, Stragglers, NetNumbered, Answered,
                 StragglersAreFlagged
  <1>15. CASE CurlFails \/ GatewayAnswers
    BY <1>15 DEF CurlFails, GatewayAnswers, clientVars, Stragglers, NetNumbered,
                 Answered, StragglersAreFlagged, Empty, Unreadable, Odd
  <1>16. CASE Authenticate \/ ExitMenu \/ Restart \/ Fill \/ TokenExpires
                \/ UNCHANGED vars
    BY <1>1, <1>16 DEF Authenticate, ExitMenu, Restart, Fill, TokenExpires, vars,
                       clientVars
  <1> QED
    BY <1>2, <1>3, <1>4, <1>5, <1>6, <1>7, <1>8, <1>9, <1>10, <1>11, <1>12,
       <1>13, <1>14, <1>15, <1>16
       DEF Next, User, ClientReturns, Exchange, Network, HandleOpenOrder,
           HandleAccountSummary, HandleMarketData

\* No command with a clear outcome leaves a placement or a cancel behind.
THEOREM NoSilentStraggler == Spec => []StragglersAreFlagged
  <1>1. Spec => [](Control /\ Stragglers)
    BY ControlInit, StragglersInit, ControlNext, StragglersNext, PTL DEF Spec
  <1>2. Stragglers => StragglersAreFlagged
    BY DEF Stragglers
  <1> QED
    BY <1>1, <1>2, PTL

\* A request that can change an order belongs to a command whose outcome the
\* user was not told.
LEMMA NetIsOpen ==
    ASSUME Control, Stragglers, NEW r \in net, r.call \in Changing
    PROVE  cmds[r.cmd].verdict \in {"running", "crashed", "invalid"}
  <1>1. CASE r = calling
    <2>1. pc = "blocked"
      BY <1>1 DEF Control, Waiting, Changing, NoRequest
    <2> QED
      BY <1>1, <2>1 DEF Control, Waiting
  <1>2. CASE r # calling
    BY <1>2 DEF Stragglers, StragglersAreFlagged, Changing
  <1> QED
    BY <1>1, <1>2

\* The orders the exchange makes and closes carry the number of the command.
LEMMA OrderFields ==
    /\ \A r, s : /\ NewOrder(r, s).state = s
                 /\ NewOrder(r, s).origin = r.cmd
                 /\ NewOrder(r, s).closer = 0
                 /\ NewOrder(r, s).product = r.product
                 /\ NewOrder(r, s).quote = r.quote
    /\ \A ord \in Order : \A c :
            /\ Closed(ord, c).state = "cancelled"
            /\ Closed(ord, c).closer = c
            /\ Closed(ord, c).origin = ord.origin
            /\ Closed(ord, c).product = ord.product
            /\ Closed(ord, c).quote = ord.quote
BY DEF NewOrder, Closed, Order

\* An order appears or is cancelled only for a command whose outcome is open.
THEOREM EffectsAreInTime == Spec => EffectsInTime
  <1>1. Control /\ Stragglers /\ [Next]_vars => [InTime]_vars
    <2> SUFFICES ASSUME Control, Stragglers, Next, NEW o \in OrderIds,
                        orders' # orders
                 PROVE  /\ orders[o] = Absent /\ orders'[o] # Absent
                             => cmds[orders'[o].origin].verdict
                                   \in {"running", "crashed", "invalid"}
                        /\ (orders[o].state # "cancelled"
                              /\ orders'[o].state = "cancelled")
                             => cmds[orders'[o].closer].verdict
                                   \in {"running", "crashed", "invalid"}
      BY DEF InTime, vars
    <2>0. orders \in [OrderIds -> Order \cup {Absent}]
      BY DEF Control, TypeOK
    <2>1. CASE ExchangeAccepts
      <3>1. PICK r \in net, p \in OrderIds, s \in {"open", "filled", "rejected"} :
              /\ r.call = "place"
              /\ orders' = [orders EXCEPT ![p] = NewOrder(r, s)]
        BY <2>1 DEF ExchangeAccepts
      <3>2. cmds[r.cmd].verdict \in {"running", "crashed", "invalid"}
        BY <3>1, NetIsOpen DEF Changing
      <3>3. o # p => orders'[o] = orders[o]
        BY <2>0, <3>1
      <3>4. orders'[p] = NewOrder(r, s)
        BY <2>0, <3>1
      <3>5. /\ orders'[p].origin = r.cmd
            /\ orders'[p].state # "cancelled"
        BY <3>4, OrderFields
      <3> QED
        BY <3>2, <3>3, <3>5
    <2>2. CASE ExchangeCancels
      <3>1. PICK r \in net :
              /\ r.call = "cancel"
              /\ orders[r.order].state = "open"
              /\ orders' = [orders EXCEPT ![r.order] =
                                Closed(orders[r.order], r.cmd)]
        BY <2>2 DEF ExchangeCancels
      <3>2. cmds[r.cmd].verdict \in {"running", "crashed", "invalid"}
        BY <3>1, NetIsOpen DEF Changing
      <3>3. r.order \in OrderIds /\ orders[r.order] \in Order
        BY <2>0, <3>1, OrderTypes, NotAbsent DEF OrderStates
      <3>4. orders[r.order] # Absent
        BY <3>1, NotAbsent DEF OrderStates
      <3>5. o # r.order => orders'[o] = orders[o]
        BY <2>0, <3>1
      <3>6. orders'[r.order] = Closed(orders[r.order], r.cmd)
        BY <2>0, <3>1, <3>3
      <3>7. orders'[r.order].closer = r.cmd
        BY <3>3, <3>6, OrderFields
      <3> QED
        BY <3>2, <3>4, <3>5, <3>7
    <2>3. CASE Fill
      <3>1. PICK p \in OrderIds :
              /\ orders[p].state = "open"
              /\ orders' = [orders EXCEPT ![p].state = "filled"]
        BY <2>3 DEF Fill
      <3>2. orders[p] # Absent /\ orders[p] \in Order
        BY <2>0, <3>1, NotAbsent DEF OrderStates
      <3>3. [orders[p] EXCEPT !.state = "filled"].state = "filled"
        BY <3>2 DEF Order
      <3>4. o # p => orders'[o] = orders[o]
        BY <2>0, <3>1
      <3>5. orders'[p] = [orders[p] EXCEPT !.state = "filled"]
        BY <2>0, <3>1
      <3> QED
        BY <3>2, <3>3, <3>4, <3>5
    <2>4. orders' = orders \/ ExchangeAccepts \/ ExchangeCancels \/ Fill
      BY DEF Next, User, ClientReturns, Exchange, Network, Authenticate,
             HandlePlaceOrder, HandleCancelOrder, HandleModifyOrder,
             HandleOpenOrder, HandleAccountSummary, HandleMarketData, Look,
             Issue, ExitMenu, Interrupt, Restart, PlaceReturns, CancelReturns,
             ReadReturns, ModifyGivesUp, ModifyReplaces, ModifyReturns, Finish,
             ExchangeReportsClosed, ExchangeReads, ExchangeRefuses,
             TokenExpires, LoseRequest, CurlFails, GatewayAnswers
    <2> QED
      BY <2>1, <2>2, <2>3, <2>4
  <1> QED
    BY <1>1, ControlInit, StragglersInit, ControlNext, StragglersNext, PTL
       DEF Spec, EffectsInTime

-----------------------------------------------------------------------------
(***************************************************************************)
(* One effect of each kind.                                                *)
(***************************************************************************)
\* Orders belong to commands that were issued, and so do their cancellations.
OrdersNumbered ==
    \A o \in OrderIds : orders[o] # Absent =>
        orders[o].origin <= cur /\ orders[o].closer <= cur

NotOpened(c) ==
    \A o \in OrderIds : orders[o] # Absent => orders[o].origin # c
NotClosed(c) ==
    \A o \in OrderIds : orders[o] # Absent => orders[o].closer # c

\* Nothing of a command is at the exchange or on its way there.
Unplaced(c) ==
    NotOpened(c) /\ \A r \in net : r.call = "place" => r.cmd # c
Uncancelled(c) ==
    NotClosed(c) /\ \A r \in net : r.call = "cancel" => r.cmd # c

\* A placement that is on its way is the only one of its command, and the
\* command has opened no order; the same for a cancel.
PlaceOnce ==
    \A r \in net : r.call = "place" =>
        /\ NotOpened(r.cmd)
        /\ \A q \in net : q.call = "place" /\ q.cmd = r.cmd => q = r
CancelOnce ==
    \A r \in net : r.call = "cancel" =>
        /\ NotClosed(r.cmd)
        /\ \A q \in net : q.call = "cancel" /\ q.cmd = r.cmd => q = r

\* A command that has not come to its placement has not placed.
NotYetPlaced ==
    pc = "blocked" /\ calling.call # "place" => Unplaced(cur)

\* A refused call has had no effect and will have none.
RefusedHadNoEffect ==
    pc = "blocked" /\ inbox.kind = "error" =>
        /\ calling.call = "place" => Unplaced(cur)
        /\ calling.call = "cancel" => Uncancelled(cur)

Once ==
    /\ OrdersNumbered
    /\ PlaceOnce
    /\ CancelOnce
    /\ NotYetPlaced
    /\ RefusedHadNoEffect
    /\ AtMostOneOrder

-----------------------------------------------------------------------------
(***************************************************************************)
(* What the steps that change orders do, field by field.                   *)
(***************************************************************************)
LEMMA AcceptsStep ==
    ASSUME Control, ExchangeAccepts
    PROVE  \E r \in net, o \in OrderIds, s \in {"open", "filled", "rejected"} :
               /\ r.call = "place"
               /\ r \in PlaceRequest
               /\ orders[o] = Absent
               /\ orders'[o] # Absent
               /\ orders'[o].state = s
               /\ orders'[o].origin = r.cmd
               /\ orders'[o].closer = 0
               /\ orders'[o].product = r.product
               /\ orders'[o].quote = r.quote
               /\ \A p \in OrderIds \ {o} : orders'[p] = orders[p]
               /\ Answer(r, Result(o, orders'[o]))
  <1>1. PICK r \in net, o \in OrderIds, s \in {"open", "filled", "rejected"} :
          /\ r.call = "place"
          /\ orders[o] = Absent
          /\ orders' = [orders EXCEPT ![o] = NewOrder(r, s)]
          /\ Answer(r, Result(o, NewOrder(r, s)))
    BY DEF ExchangeAccepts
  <1>2. orders'[o] = NewOrder(r, s) /\ \A p \in OrderIds \ {o} : orders'[p] = orders[p]
    BY <1>1 DEF Control, TypeOK
  <1>3. r \in PlaceRequest
    BY <1>1, ReadCallsAssumption
       DEF Control, TypeOK, Request, PlaceRequest, CancelRequest, ReadRequest
  <1>4. NewOrder(r, s) # Absent
    BY OrderFields, NotAbsent DEF OrderStates
  <1> QED
    BY <1>1, <1>2, <1>3, <1>4, OrderFields

LEMMA CancelsStep ==
    ASSUME Control, ExchangeCancels
    PROVE  \E r \in net, o \in OrderIds :
               /\ r.call = "cancel"
               /\ r \in CancelRequest
               /\ r.order = o
               /\ orders[o] # Absent
               /\ orders[o].state = "open"
               /\ orders'[o] # Absent
               /\ orders'[o].state = "cancelled"
               /\ orders'[o].closer = r.cmd
               /\ orders'[o].origin = orders[o].origin
               /\ orders'[o].product = orders[o].product
               /\ orders'[o].quote = orders[o].quote
               /\ \A p \in OrderIds \ {o} : orders'[p] = orders[p]
               /\ Answer(r, Result(o, orders'[o]))
  <1>1. PICK r \in net :
          /\ r.call = "cancel"
          /\ orders[r.order].state = "open"
          /\ orders' = [orders EXCEPT ![r.order] = Closed(orders[r.order], r.cmd)]
          /\ Answer(r, Result(r.order, Closed(orders[r.order], r.cmd)))
    BY DEF ExchangeCancels
  <1>2. r \in CancelRequest /\ r.order \in OrderIds
    BY <1>1, ReadCallsAssumption
       DEF Control, TypeOK, Request, PlaceRequest, CancelRequest, ReadRequest
  <1>3. orders[r.order] # Absent /\ orders[r.order] \in Order
    BY <1>1, <1>2, NotAbsent DEF Control, TypeOK, OrderStates
  <1>4. /\ orders'[r.order] = Closed(orders[r.order], r.cmd)
        /\ \A p \in OrderIds \ {r.order} : orders'[p] = orders[p]
    BY <1>1, <1>2 DEF Control, TypeOK
  <1>5. Closed(orders[r.order], r.cmd) # Absent
    BY <1>3, OrderFields, NotAbsent DEF OrderStates
  <1> QED
    BY <1>1, <1>2, <1>3, <1>4, <1>5, OrderFields

LEMMA FillStep ==
    ASSUME Control, Fill
    PROVE  /\ UNCHANGED <<clientVars, inbox, net>>
           /\ \A o \in OrderIds :
                 /\ orders'[o] = Absent <=> orders[o] = Absent
                 /\ orders[o] # Absent =>
                       /\ orders'[o].origin = orders[o].origin
                       /\ orders'[o].closer = orders[o].closer
                       /\ orders'[o].product = orders[o].product
                       /\ orders'[o].quote = orders[o].quote
                       /\ \/ orders'[o].state = orders[o].state
                          \/ orders[o].state = "open" /\ orders'[o].state = "filled"
  <1>1. PICK p \in OrderIds :
          /\ orders[p].state = "open"
          /\ orders' = [orders EXCEPT ![p].state = "filled"]
          /\ UNCHANGED <<clientVars, inbox, net>>
    BY DEF Fill
  <1>2. orders[p] # Absent /\ orders[p] \in Order
    BY <1>1, NotAbsent DEF Control, TypeOK, OrderStates
  <1>3. /\ orders'[p] = [orders[p] EXCEPT !.state = "filled"]
        /\ \A o \in OrderIds \ {p} : orders'[o] = orders[o]
    BY <1>1 DEF Control, TypeOK
  <1>4. /\ orders'[p].state = "filled"
        /\ orders'[p].origin = orders[p].origin
        /\ orders'[p].closer = orders[p].closer
        /\ orders'[p].product = orders[p].product
        /\ orders'[p].quote = orders[p].quote
    BY <1>2, <1>3 DEF Order
  <1>5. orders'[p] # Absent
    BY <1>4, NotAbsent DEF OrderStates
  <1> QED
    BY <1>1, <1>2, <1>3, <1>4, <1>5

-----------------------------------------------------------------------------
LEMMA OnceInit == Init => Once
BY DEF Init, Once, OrdersNumbered, PlaceOnce, CancelOnce, NotYetPlaced,
       RefusedHadNoEffect, AtMostOneOrder, Opened

\* The numbers of commands, where the arithmetic of the proofs needs them.
LEMMA Numbers ==
    ASSUME Control
    PROVE  /\ cur \in Nat
           /\ CmdIds \subseteq Nat \ {0}
           /\ \A r \in net : r.cmd \in CmdIds
           /\ \A o \in OrderIds : orders[o] # Absent =>
                 orders[o].origin \in CmdIds /\ orders[o].closer \in {0} \cup CmdIds
  <1>1. cur \in Nat /\ CmdIds \subseteq Nat \ {0}
    BY BoundsAssumption DEF Control, TypeOK, CmdIds
  <1>2. \A r \in net : r.cmd \in CmdIds
    BY DEF Control, TypeOK, Request, PlaceRequest, CancelRequest, ReadRequest
  <1>3. \A o \in OrderIds : orders[o] # Absent =>
            orders[o].origin \in CmdIds /\ orders[o].closer \in {0} \cup CmdIds
    BY DEF Control, TypeOK, Order
  <1> QED
    BY <1>1, <1>2, <1>3

LEMMA IssueOnce ==
    ASSUME Control, Stragglers, Once,
           NEW cmd, NEW r, r.cmd = cur + 1, Issue(cmd), Post(r)
    PROVE  Once'
  <1>1. cur' = cur + 1 /\ orders' = orders /\ net' = net \cup {r}
    BY DEF Issue, Post
  <1>2. \A q \in net : q.cmd < cur + 1
    BY Numbers DEF Stragglers, NetNumbered
  <1>3. NotOpened(cur + 1) /\ NotClosed(cur + 1)
    BY Numbers DEF Once, OrdersNumbered, NotOpened, NotClosed
  <1>4. OrdersNumbered'
    BY <1>1, Numbers DEF Once, OrdersNumbered
  <1>5. PlaceOnce'
    BY <1>1, <1>2, <1>3, Numbers DEF Once, PlaceOnce, NotOpened
  <1>6. CancelOnce'
    BY <1>1, <1>2, <1>3, Numbers DEF Once, CancelOnce, NotClosed
  <1>7. NotYetPlaced'
    BY <1>1, <1>2, <1>3, Numbers DEF Post, NotYetPlaced, Unplaced, NotOpened
  <1>8. RefusedHadNoEffect'
    BY DEF Post, RefusedHadNoEffect, NoReply
  <1>9. AtMostOneOrder'
    BY <1>1 DEF Once, AtMostOneOrder, Opened
  <1> QED
    BY <1>4, <1>5, <1>6, <1>7, <1>8, <1>9 DEF Once

LEMMA FinishOnce ==
    ASSUME Once, NEW v, Finish(v)
    PROVE  Once'
BY DEF Finish, Once, OrdersNumbered, PlaceOnce, CancelOnce, NotYetPlaced,
       RefusedHadNoEffect, AtMostOneOrder, Opened, Unplaced, Uncancelled,
       NotOpened, NotClosed

\* Steps that change no order and send nothing, and answer nothing with an error.
LEMMA QuietOnce ==
    ASSUME Once, net' \subseteq net, UNCHANGED orders,
           /\ cur' = cur
           /\ pc' = "blocked" => pc = "blocked" /\ calling' = calling
           /\ inbox' = inbox \/ inbox'.kind # "error"
    PROVE  Once'
  <1>1. AtMostOneOrder'
    BY DEF Once, AtMostOneOrder, Opened
  <1>2. RefusedHadNoEffect'
    BY DEF Once, RefusedHadNoEffect, Unplaced, Uncancelled, NotOpened, NotClosed
  <1>3. OrdersNumbered' /\ PlaceOnce' /\ CancelOnce' /\ NotYetPlaced'
    BY DEF Once, OrdersNumbered, PlaceOnce, CancelOnce, NotYetPlaced, Unplaced,
           NotOpened, NotClosed
  <1> QED
    BY <1>1, <1>2, <1>3 DEF Once

\* A refusal leaves the refused call without an effect, now and later.
LEMMA RefusesOnce ==
    ASSUME Control, Once, ExchangeRefuses
    PROVE  Once'
  <1>1. PICK r \in net : Answer(r, Refusal) /\ UNCHANGED orders
    BY DEF ExchangeRefuses
  <1>2. CASE inbox' = inbox
    BY <1>1, <1>2, QuietOnce DEF Answer, clientVars
  <1>3. CASE inbox' # inbox
    <2>1. calling = r /\ net' = net \ {r} /\ UNCHANGED clientVars
      BY <1>1, <1>3 DEF Answer
    <2>2. pc = "blocked" => r.cmd = cur
      BY <2>1 DEF Control, Waiting
    <2>3. RefusedHadNoEffect'
      BY <1>1, <2>1, <2>2
         DEF Once, PlaceOnce, CancelOnce, RefusedHadNoEffect, Unplaced,
             Uncancelled, NotOpened, NotClosed, clientVars
    <2>4. OrdersNumbered' /\ PlaceOnce' /\ CancelOnce' /\ NotYetPlaced'
      BY <1>1, <2>1
         DEF Once, OrdersNumbered, PlaceOnce, CancelOnce, NotYetPlaced, Unplaced,
             NotOpened, NotClosed, clientVars
    <2>5. AtMostOneOrder'
      BY <1>1, <2>1 DEF Once, AtMostOneOrder, Opened, clientVars
    <2> QED
      BY <2>3, <2>4, <2>5 DEF Once
  <1> QED
    BY <1>2, <1>3

LEMMA AcceptsOnce ==
    ASSUME Control, Stragglers, Once, ExchangeAccepts
    PROVE  Once'
  <1>1. PICK r \in net, o \in OrderIds, s \in {"open", "filled", "rejected"} :
          /\ r.call = "place"
          /\ orders[o] = Absent
          /\ orders'[o] # Absent
          /\ orders'[o].origin = r.cmd
          /\ orders'[o].closer = 0
          /\ \A p \in OrderIds \ {o} : orders'[p] = orders[p]
          /\ Answer(r, Result(o, orders'[o]))
    BY AcceptsStep
  <1>2. net' = net \ {r} /\ UNCHANGED clientVars
    BY <1>1 DEF Answer
  <1>3. /\ NotOpened(r.cmd)
        /\ \A q \in net' : q.call = "place" => q.cmd # r.cmd
    BY <1>1, <1>2 DEF Once, PlaceOnce
  <1>4. /\ \A c : c # r.cmd /\ NotOpened(c) => NotOpened(c)'
        /\ \A c : c # 0 /\ NotClosed(c) => NotClosed(c)'
    BY <1>1 DEF NotOpened, NotClosed
  <1>5. OrdersNumbered'
    BY <1>1, <1>2, Numbers
       DEF Once, OrdersNumbered, Stragglers, NetNumbered, clientVars
  <1>6. PlaceOnce'
    BY <1>2, <1>3, <1>4 DEF Once, PlaceOnce
  <1>7. CancelOnce'
    BY <1>2, <1>4, Numbers DEF Once, CancelOnce
  <1>8. NotYetPlaced'
    BY <1>1, <1>2, <1>4 DEF Once, NotYetPlaced, Unplaced, clientVars
  <1>9. RefusedHadNoEffect'
    <2> SUFFICES ASSUME pc = "blocked", inbox'.kind = "error"
                 PROVE  /\ calling.call = "place" => Unplaced(cur)'
                        /\ calling.call = "cancel" => Uncancelled(cur)'
      BY <1>2 DEF RefusedHadNoEffect, clientVars
    <2>1. inbox' = inbox
      BY <1>1 DEF Answer, Result
    <2>2. cur # 0
      BY Numbers DEF Control, Waiting
    <2> QED
      BY <1>1, <1>2, <1>4, <2>1, <2>2
         DEF Once, RefusedHadNoEffect, Unplaced, Uncancelled, clientVars
  <1>10. AtMostOneOrder'
    BY <1>1, <1>3 DEF Once, AtMostOneOrder, Opened, NotOpened
  <1> QED
    BY <1>5, <1>6, <1>7, <1>8, <1>9, <1>10 DEF Once

LEMMA CancelsOnce ==
    ASSUME Control, Stragglers, Once, ExchangeCancels
    PROVE  Once'
  <1>1. PICK r \in net, o \in OrderIds :
          /\ r.call = "cancel"
          /\ orders[o] # Absent
          /\ orders'[o] # Absent
          /\ orders'[o].closer = r.cmd
          /\ orders'[o].origin = orders[o].origin
          /\ \A p \in OrderIds \ {o} : orders'[p] = orders[p]
          /\ Answer(r, Result(o, orders'[o]))
    BY CancelsStep
  <1>2. net' = net \ {r} /\ UNCHANGED clientVars
    BY <1>1 DEF Answer
  <1>3. /\ NotClosed(r.cmd)
        /\ \A q \in net' : q.call = "cancel" => q.cmd # r.cmd
    BY <1>1, <1>2 DEF Once, CancelOnce
  <1>4. /\ \A c : c # r.cmd /\ NotClosed(c) => NotClosed(c)'
        /\ \A c : NotOpened(c) => NotOpened(c)'
    BY <1>1 DEF NotOpened, NotClosed
  <1>5. OrdersNumbered'
    BY <1>1, <1>2, Numbers
       DEF Once, OrdersNumbered, Stragglers, NetNumbered, clientVars
  <1>6. PlaceOnce'
    BY <1>2, <1>4 DEF Once, PlaceOnce
  <1>7. CancelOnce'
    BY <1>2, <1>3, <1>4 DEF Once, CancelOnce
  <1>8. NotYetPlaced'
    BY <1>1, <1>2, <1>4 DEF Once, NotYetPlaced, Unplaced, clientVars
  <1>9. RefusedHadNoEffect'
    <2> SUFFICES ASSUME pc = "blocked", inbox'.kind = "error"
                 PROVE  /\ calling.call = "place" => Unplaced(cur)'
                        /\ calling.call = "cancel" => Uncancelled(cur)'
      BY <1>2 DEF RefusedHadNoEffect, clientVars
    <2>1. inbox' = inbox
      BY <1>1 DEF Answer, Result
    <2> QED
      BY <1>1, <1>2, <1>4, <2>1
         DEF Once, RefusedHadNoEffect, Unplaced, Uncancelled, clientVars
  <1>10. AtMostOneOrder'
    BY <1>1 DEF Once, AtMostOneOrder, Opened
  <1> QED
    BY <1>5, <1>6, <1>7, <1>8, <1>9, <1>10 DEF Once

LEMMA FillOnce ==
    ASSUME Control, Once, Fill
    PROVE  Once'
  <1>1. /\ UNCHANGED <<clientVars, inbox, net>>
        /\ \A o \in OrderIds :
              /\ orders'[o] = Absent <=> orders[o] = Absent
              /\ orders[o] # Absent =>
                    /\ orders'[o].origin = orders[o].origin
                    /\ orders'[o].closer = orders[o].closer
    BY FillStep
  <1>2. \A c : NotOpened(c)' <=> NotOpened(c)
    BY <1>1 DEF NotOpened
  <1>3. \A c : NotClosed(c)' <=> NotClosed(c)
    BY <1>1 DEF NotClosed
  <1>4. OrdersNumbered'
    BY <1>1 DEF Once, OrdersNumbered, clientVars
  <1>5. AtMostOneOrder'
    BY <1>1 DEF Once, AtMostOneOrder, Opened
  <1>6. PlaceOnce' /\ CancelOnce'
    BY <1>1, <1>2, <1>3 DEF Once, PlaceOnce, CancelOnce
  <1>7. NotYetPlaced' /\ RefusedHadNoEffect'
    BY <1>1, <1>2, <1>3 DEF Once, NotYetPlaced, RefusedHadNoEffect, Unplaced,
                            Uncancelled, clientVars
  <1> QED
    BY <1>4, <1>5, <1>6, <1>7 DEF Once

LEMMA ReplacesOnce ==
    ASSUME Control, Stragglers, Once, ModifyReplaces
    PROVE  Once'
  <1>1. pc = "blocked" /\ calling.call = "cancel"
    BY DEF ModifyReplaces, Returned
  <1>2. /\ Post(PlaceCall(cur, inbox.order.product, cmds[cur].quote))
        /\ UNCHANGED <<pc, session, token, cur, cmds, orders>>
    BY DEF ModifyReplaces
  <1> DEFINE r == PlaceCall(cur, inbox.order.product, cmds[cur].quote)
  <1>3. r.call = "place" /\ r.cmd = cur
    BY DEF PlaceCall
  <1>4. net' = net \cup {r} /\ calling' = r /\ inbox' = NoReply
    BY <1>2 DEF Post
  <1> HIDE DEF r
  <1>5. Unplaced(cur)
    BY <1>1 DEF Once, NotYetPlaced
  <1>6. OrdersNumbered' /\ AtMostOneOrder'
    BY <1>2 DEF Once, OrdersNumbered, AtMostOneOrder, Opened
  <1>7. PlaceOnce'
    BY <1>2, <1>3, <1>4, <1>5 DEF Once, PlaceOnce, Unplaced, NotOpened
  <1>8. CancelOnce'
    BY <1>2, <1>3, <1>4 DEF Once, CancelOnce, NotClosed
  <1>9. NotYetPlaced'
    BY <1>3, <1>4 DEF NotYetPlaced
  <1>10. RefusedHadNoEffect'
    BY <1>4 DEF RefusedHadNoEffect, NoReply
  <1> QED
    BY <1>6, <1>7, <1>8, <1>9, <1>10 DEF Once

LEMMA OnceNext ==
    Control /\ Stragglers /\ Once /\ [Next]_vars => Once'
  <1> SUFFICES ASSUME Control, Stragglers, Once, [Next]_vars PROVE Once'
    OBVIOUS
  <1>1. CASE HandlePlaceOrder
    BY <1>1, IssueOnce DEF HandlePlaceOrder, PlaceCall
  <1>2. CASE HandleCancelOrder
    BY <1>2, IssueOnce DEF HandleCancelOrder, CancelCall
  <1>3. CASE HandleModifyOrder
    BY <1>3, IssueOnce DEF HandleModifyOrder, CancelCall
  <1>4. ASSUME NEW what, Look(what) PROVE Once'
    BY <1>4, IssueOnce DEF Look, ReadCall
  <1>5. CASE Interrupt \/ PlaceReturns \/ CancelReturns \/ ReadReturns
                \/ ModifyGivesUp \/ ModifyReturns
    BY <1>5, FinishOnce DEF Interrupt, PlaceReturns, CancelReturns, ReadReturns,
                            ModifyGivesUp, ModifyReturns
  <1>6. CASE ModifyReplaces
    BY <1>6, ReplacesOnce
  <1>7. CASE ExchangeAccepts
    BY <1>7, AcceptsOnce
  <1>8. CASE ExchangeCancels
    BY <1>8, CancelsOnce
  <1>9. CASE ExchangeReportsClosed \/ ExchangeReads
    BY <1>9, QuietOnce DEF ExchangeReportsClosed, ExchangeReads, Answer, Result,
                           Listing, clientVars
  <1>10. CASE ExchangeRefuses
    BY <1>10, RefusesOnce
  <1>11. CASE Fill
    BY <1>11, FillOnce
  <1>12. CASE LoseRequest \/ CurlFails \/ GatewayAnswers
    BY <1>12, QuietOnce DEF LoseRequest, CurlFails, GatewayAnswers, Empty,
                            Unreadable, Odd, clientVars
  <1>13. CASE Authenticate \/ ExitMenu \/ Restart \/ TokenExpires \/ UNCHANGED vars
    BY <1>13, QuietOnce DEF Authenticate, ExitMenu, Restart, TokenExpires, vars,
                            clientVars
  <1> QED
    BY <1>1, <1>2, <1>3, <1>4, <1>5, <1>6, <1>7, <1>8, <1>9, <1>10, <1>11,
       <1>12, <1>13
       DEF Next, User, ClientReturns, Exchange, Network, HandleOpenOrder,
           HandleAccountSummary, HandleMarketData

LEMMA OnceAlways == Spec => [](Control /\ Stragglers /\ Once)
BY ControlInit, StragglersInit, OnceInit, ControlNext, StragglersNext, OnceNext,
   PTL DEF Spec

\* No command ever opens two orders.
THEOREM NoDoubleOrder == Spec => []AtMostOneOrder
  <1>1. Once => AtMostOneOrder
    BY DEF Once
  <1> QED
    BY <1>1, OnceAlways, PTL

-----------------------------------------------------------------------------
(***************************************************************************)
(* Replacements.                                                           *)
(***************************************************************************)
Names(c, o) == cmds[c].kind \in {"cancel", "modify"} /\ cmds[c].target = o

\* A cancel is for the order its command names.
CancelsTarget ==
    \A r \in net : r.call = "cancel" => Names(r.cmd, r.order)

\* An order is cancelled by a command that names it, and only then has a closer.
ClosedByName ==
    \A o \in OrderIds : orders[o] # Absent =>
        /\ orders[o].state = "cancelled" => orders[o].closer \in CmdIds
        /\ orders[o].state # "cancelled" => orders[o].closer = 0
        /\ orders[o].closer # 0 => Names(orders[o].closer, o)

Naming == CancelsTarget /\ ClosedByName

LEMMA NamingInit == Init => Naming
BY DEF Init, Naming, CancelsTarget, ClosedByName

\* A command keeps what the user chose.
LEMMA VerdictKeepsChoice ==
    ASSUME NEW cmd \in Cmd, NEW v \in Verdicts
    PROVE  /\ [cmd EXCEPT !.verdict = v].kind = cmd.kind
           /\ cmd.kind \in {"cancel", "modify"} =>
                 [cmd EXCEPT !.verdict = v].target = cmd.target
           /\ cmd.kind = "modify" =>
                 [cmd EXCEPT !.verdict = v].quote = cmd.quote
  <1>1. CASE cmd \in PlaceCmd
    BY <1>1 DEF PlaceCmd
  <1>2. CASE cmd \in CancelCmd
    BY <1>2 DEF CancelCmd
  <1>3. CASE cmd \in ModifyCmd
    BY <1>3 DEF ModifyCmd
  <1>4. CASE cmd \in ReadCmd
    BY <1>4, ReadCallsAssumption DEF ReadCmd
  <1> QED
    BY <1>1, <1>2, <1>3, <1>4 DEF Cmd

SameChoice(c) ==
    /\ cmds'[c].kind = cmds[c].kind
    /\ cmds[c].kind \in {"cancel", "modify"} => cmds'[c].target = cmds[c].target
    /\ cmds[c].kind = "modify" => cmds'[c].quote = cmds[c].quote

LEMMA IssueKeepsChoices ==
    ASSUME Control, NEW cmd, Issue(cmd)
    PROVE  /\ \A c \in CmdIds : c <= cur => SameChoice(c)
           /\ cur + 1 \in CmdIds /\ cmds'[cur + 1] = cmd
  <1>1. cmds \in [CmdIds -> Cmd \cup {NotIssued}] /\ cur + 1 \in CmdIds
    BY BoundsAssumption DEF Control, TypeOK, Issue, CmdIds
  <1>2. cmds' = [cmds EXCEPT ![cur + 1] = cmd]
    BY DEF Issue
  <1>3. \A c \in CmdIds : c <= cur => c # cur + 1
    BY Numbers
  <1> QED
    BY <1>1, <1>2, <1>3 DEF SameChoice

LEMMA FinishKeepsChoices ==
    ASSUME Control, pc = "blocked", NEW v \in Verdicts, Finish(v)
    PROVE  \A c \in CmdIds : SameChoice(c)
  <1>1. cur \in CmdIds /\ cmds[cur] \in Cmd
    BY DEF Control, Waiting
  <1>2. cmds' = [cmds EXCEPT ![cur] = [cmds[cur] EXCEPT !.verdict = v]]
    BY DEF Finish
  <1>3. /\ cmds'[cur] = [cmds[cur] EXCEPT !.verdict = v]
        /\ \A c \in CmdIds : c # cur => cmds'[c] = cmds[c]
    BY <1>1, <1>2 DEF Control, TypeOK
  <1>4. /\ cmds'[cur].kind = cmds[cur].kind
        /\ cmds[cur].kind \in {"cancel", "modify"} =>
              cmds'[cur].target = cmds[cur].target
        /\ cmds[cur].kind = "modify" => cmds'[cur].quote = cmds[cur].quote
    BY <1>1, <1>3, VerdictKeepsChoice
  <1> QED
    BY <1>3, <1>4 DEF SameChoice

LEMMA ChoicesStay ==
    ASSUME Control, [Next]_vars
    PROVE  \A c \in CmdIds : c <= cur => SameChoice(c)
  <1>1. CASE UNCHANGED cmds
    BY <1>1 DEF SameChoice
  <1>2. CASE HandlePlaceOrder
    BY <1>2, IssueKeepsChoices DEF HandlePlaceOrder
  <1>3. CASE HandleCancelOrder
    BY <1>3, IssueKeepsChoices DEF HandleCancelOrder
  <1>4. CASE HandleModifyOrder
    BY <1>4, IssueKeepsChoices DEF HandleModifyOrder
  <1>5. CASE \E what : Look(what)
    BY <1>5, IssueKeepsChoices DEF Look
  <1>6. CASE Interrupt \/ PlaceReturns \/ CancelReturns \/ ReadReturns
                \/ ModifyGivesUp \/ ModifyReturns
    <2>1. pc = "blocked"
      BY <1>6 DEF Interrupt, PlaceReturns, CancelReturns, ReadReturns,
                  ModifyGivesUp, ModifyReturns, Returned
    <2>2. \E v \in Verdicts : Finish(v)
      BY <1>6, VerdictTypes
         DEF Interrupt, PlaceReturns, CancelReturns, ReadReturns, ModifyGivesUp,
             ModifyReturns, Verdicts
    <2> QED
      BY <2>1, <2>2, FinishKeepsChoices
  <1>7. CASE Exchange \/ Network
    BY <1>1, <1>7
       DEF Exchange, Network, ExchangeAccepts, ExchangeCancels,
           ExchangeReportsClosed, ExchangeReads, ExchangeRefuses, Answer, Fill,
           TokenExpires, LoseRequest, CurlFails, GatewayAnswers, clientVars
  <1>8. CASE Authenticate \/ ExitMenu \/ Restart \/ ModifyReplaces
                \/ UNCHANGED vars
    BY <1>1, <1>8 DEF Authenticate, ExitMenu, Restart, ModifyReplaces, vars,
                      clientVars
  <1> QED
    BY <1>2, <1>3, <1>4, <1>5, <1>6, <1>7, <1>8
       DEF Next, User, ClientReturns, HandleOpenOrder, HandleAccountSummary,
           HandleMarketData

\* An order stays, with its product and amounts, and so does its cancellation.
SameOrder(o) ==
    /\ orders'[o] # Absent
    /\ orders'[o].origin = orders[o].origin
    /\ orders'[o].product = orders[o].product
    /\ orders'[o].quote = orders[o].quote
    /\ orders[o].closer # 0 => orders'[o].closer = orders[o].closer
    /\ orders[o].state = "cancelled" => orders'[o].state = "cancelled"

LEMMA OrdersChange ==
    ASSUME Next, ~ExchangeAccepts, ~ExchangeCancels, ~Fill
    PROVE  orders' = orders
BY DEF Next, User, ClientReturns, Exchange, Network, Authenticate,
       HandlePlaceOrder, HandleCancelOrder, HandleModifyOrder, HandleOpenOrder,
       HandleAccountSummary, HandleMarketData, Look, Issue, ExitMenu, Interrupt,
       Restart, PlaceReturns, CancelReturns, ReadReturns, ModifyGivesUp,
       ModifyReplaces, ModifyReturns, Finish, ExchangeReportsClosed,
       ExchangeReads, ExchangeRefuses, TokenExpires, LoseRequest, CurlFails,
       GatewayAnswers

LEMMA OrdersStay ==
    ASSUME Control, Naming, [Next]_vars
    PROVE  \A o \in OrderIds : orders[o] # Absent => SameOrder(o)
  <1>1. CASE orders' = orders
    BY <1>1 DEF SameOrder
  <1>2. CASE ExchangeAccepts
    <2>1. PICK p \in OrderIds :
            /\ orders[p] = Absent
            /\ \A o \in OrderIds \ {p} : orders'[o] = orders[o]
      BY <1>2, AcceptsStep
    <2> QED
      BY <2>1 DEF SameOrder
  <1>3. CASE ExchangeCancels
    <2>1. PICK p \in OrderIds :
            /\ orders[p] # Absent
            /\ orders[p].state = "open"
            /\ orders'[p] # Absent
            /\ orders'[p].state = "cancelled"
            /\ orders'[p].origin = orders[p].origin
            /\ orders'[p].product = orders[p].product
            /\ orders'[p].quote = orders[p].quote
            /\ \A o \in OrderIds \ {p} : orders'[o] = orders[o]
      BY <1>3, CancelsStep
    <2>2. orders[p].closer = 0
      BY <2>1 DEF Naming, ClosedByName
    <2> QED
      BY <2>1, <2>2 DEF SameOrder
  <1>4. CASE Fill
    BY <1>4, FillStep DEF SameOrder
  <1> QED
    BY <1>1, <1>2, <1>3, <1>4, OrdersChange DEF vars

LEMMA NamesStay ==
    ASSUME Control, [Next]_vars, NEW c \in CmdIds, c <= cur, NEW o, Names(c, o)
    PROVE  Names(c, o)'
BY ChoicesStay DEF Names, SameChoice

LEMMA NamingNext ==
    Control /\ Stragglers /\ Once /\ Naming /\ [Next]_vars => Naming'
  <1> SUFFICES ASSUME Control, Stragglers, Once, Naming, [Next]_vars
               PROVE  Naming'
    OBVIOUS
  <1>1. \A r \in net : r.call = "cancel" => Names(r.cmd, r.order)'
    BY NamesStay, Numbers
       DEF Naming, CancelsTarget, Stragglers, NetNumbered
  <1>2. ASSUME NEW o \in OrderIds, orders[o] # Absent,
               NEW c \in CmdIds, orders[o].closer = c
        PROVE  Names(c, o)'
    <2>1. c <= cur /\ Names(c, o)
      BY <1>2, Numbers DEF Naming, ClosedByName, Once, OrdersNumbered
    <2> QED
      BY <2>1, NamesStay
  <1>3. CancelsTarget'
    <2>1. CASE net' \subseteq net
      BY <1>1, <2>1 DEF CancelsTarget
    <2>2. ASSUME NEW r, net' = net \cup {r}, r.call = "cancel" => Names(r.cmd, r.order)'
          PROVE  CancelsTarget'
      BY <1>1, <2>2 DEF CancelsTarget
    <2>3. CASE HandlePlaceOrder
      BY <2>2, <2>3 DEF HandlePlaceOrder, Post, PlaceCall
    <2>4. CASE HandleCancelOrder
      BY <2>2, <2>4, IssueKeepsChoices
         DEF HandleCancelOrder, Post, CancelCall, Names
    <2>5. CASE HandleModifyOrder
      BY <2>2, <2>5, IssueKeepsChoices
         DEF HandleModifyOrder, Post, CancelCall, Names
    <2>6. CASE \E what : Look(what)
      BY <2>2, <2>6, ReadCallsAssumption DEF Look, Post, ReadCall
    <2>7. CASE ModifyReplaces
      BY <2>2, <2>7 DEF ModifyReplaces, Post, PlaceCall
    <2>8. CASE Interrupt \/ PlaceReturns \/ CancelReturns \/ ReadReturns
                  \/ ModifyGivesUp \/ ModifyReturns
      BY <2>1, <2>8 DEF Interrupt, PlaceReturns, CancelReturns, ReadReturns,
                        ModifyGivesUp, ModifyReturns, Finish
    <2>9. CASE Exchange \/ Network
      BY <2>1, <2>9
         DEF Exchange, Network, ExchangeAccepts, ExchangeCancels,
             ExchangeReportsClosed, ExchangeReads, ExchangeRefuses, Answer, Fill,
             TokenExpires, LoseRequest, CurlFails, GatewayAnswers
    <2>10. CASE Authenticate \/ ExitMenu \/ Restart \/ UNCHANGED vars
      BY <2>1, <2>10 DEF Authenticate, ExitMenu, Restart, vars
    <2> QED
      BY <2>3, <2>4, <2>5, <2>6, <2>7, <2>8, <2>9, <2>10
         DEF Next, User, ClientReturns, HandleOpenOrder, HandleAccountSummary,
             HandleMarketData
  <1>4. ClosedByName'
    <2>1. ASSUME NEW o \in OrderIds, orders'[o] # Absent
          PROVE  /\ orders'[o].state = "cancelled" => orders'[o].closer \in CmdIds
                 /\ orders'[o].state # "cancelled" => orders'[o].closer = 0
                 /\ \A c \in CmdIds : orders'[o].closer = c => Names(c, o)'
      <3>1. CASE orders'[o] = orders[o]
        BY <1>2, <2>1, <3>1 DEF Naming, ClosedByName
      <3>2. CASE orders'[o] # orders[o] /\ ExchangeAccepts
        <4>1. orders'[o].state # "cancelled" /\ orders'[o].closer = 0
          BY <3>2, AcceptsStep
        <4> QED
          BY <4>1, Numbers
      <3>3. CASE orders'[o] # orders[o] /\ ExchangeCancels
        <4>1. PICK r \in net : /\ r.call = "cancel"
                               /\ r.order = o
                               /\ orders'[o].state = "cancelled"
                               /\ orders'[o].closer = r.cmd
          BY <3>3, CancelsStep
        <4>2. Names(r.cmd, o)' /\ r.cmd \in CmdIds
          BY <1>1, <4>1, Numbers
        <4> QED
          BY <4>1, <4>2
      <3>4. CASE Fill
        <4>1. /\ orders[o] # Absent
              /\ orders'[o].closer = orders[o].closer
              /\ \/ orders'[o].state = orders[o].state
                 \/ orders[o].state = "open" /\ orders'[o].state = "filled"
          BY <2>1, <3>4, FillStep
        <4>2. \A c \in CmdIds : orders[o].closer = c => Names(c, o)'
          BY <1>2, <4>1
        <4> QED
          BY <4>1, <4>2 DEF Naming, ClosedByName
      <3> QED
        BY <3>1, <3>2, <3>3, <3>4, OrdersChange DEF vars
    <2>2. ASSUME NEW o \in OrderIds, orders'[o] # Absent, orders'[o].closer # 0
          PROVE  cmds'[orders'[o].closer].kind \in {"cancel", "modify"}
                    /\ cmds'[orders'[o].closer].target = o
      BY <2>1, <2>2 DEF Names
    <2> QED
      BY <2>1, <2>2 DEF ClosedByName, Names
  <1> QED
    BY <1>3, <1>4 DEF Naming

\* A modify's placement and its order replace the order it cancelled.
Replaces(c, product, quote) ==
    LET old == orders[cmds[c].target]
    IN  /\ old # Absent
        /\ old.closer = c
        /\ old.product = product
        /\ quote = cmds[c].quote
PlacesReplacement ==
    \A r \in net : r.call = "place" /\ cmds[r.cmd].kind = "modify" =>
        Replaces(r.cmd, r.product, r.quote)
OpenedReplacement ==
    \A o \in OrderIds :
        orders[o] # Absent /\ cmds[orders[o].origin].kind = "modify" =>
            Replaces(orders[o].origin, orders[o].product, orders[o].quote)

\* The result of a cancel is the order that the current command cancelled.
CancelAnswered ==
    pc = "blocked" /\ calling.call = "cancel" /\ inbox.kind = "result" =>
        /\ orders[calling.order] # Absent
        /\ orders[calling.order].closer = cur
        /\ orders[calling.order].product = inbox.order.product

\* A modify that has come to its placement has cancelled its order.
CancelledBefore ==
    pc = "blocked" /\ calling.call = "place" /\ cmds[cur].kind = "modify" =>
        /\ orders[cmds[cur].target] # Absent
        /\ orders[cmds[cur].target].closer = cur

Replacement ==
    /\ PlacesReplacement
    /\ OpenedReplacement
    /\ CancelAnswered
    /\ CancelledBefore

LEMMA ReplacementInit == Init => Replacement
BY DEF Init, Replacement, PlacesReplacement, OpenedReplacement, CancelAnswered,
       CancelledBefore

\* A replacement stays one: its order was cancelled for good.
LEMMA ReplacesStay ==
    ASSUME Control, Naming, [Next]_vars,
           NEW c \in CmdIds, c <= cur, cmds[c].kind = "modify",
           cmds[c].target \in OrderIds,
           NEW product, NEW quote, Replaces(c, product, quote)
    PROVE  Replaces(c, product, quote)'
  <1>1. cmds'[c].target = cmds[c].target /\ cmds'[c].quote = cmds[c].quote
    BY ChoicesStay DEF SameChoice
  <1>2. SameOrder(cmds[c].target)
    BY OrdersStay DEF Replaces
  <1>3. orders[cmds[c].target].closer # 0
    BY Numbers DEF Replaces
  <1> QED
    BY <1>1, <1>2, <1>3 DEF Replaces, SameOrder

\* A modify names an order.
LEMMA ModifyTarget ==
    ASSUME Control, NEW c \in CmdIds, cmds[c].kind = "modify"
    PROVE  cmds[c].target \in OrderIds /\ cmds[c] \in ModifyCmd
  <1>1. cmds[c] \in Cmd \cup {NotIssued}
    BY DEF Control, TypeOK
  <1>2. cmds[c] # NotIssued
    BY DEF NotIssued
  <1> QED
    BY <1>1, <1>2, ReadCallsAssumption
       DEF Cmd, PlaceCmd, CancelCmd, ModifyCmd, ReadCmd

LEMMA ReplacementNext ==
    ASSUME StrictCancel, Control, Stragglers, Once, Naming, Replacement,
           [Next]_vars
    PROVE  Replacement'
  <1>1. ASSUME NEW r \in net, r.call = "place", cmds'[r.cmd].kind = "modify"
        PROVE  Replaces(r.cmd, r.product, r.quote)'
    <2>1. r.cmd \in CmdIds /\ r.cmd <= cur
      BY Numbers DEF Stragglers, NetNumbered
    <2>2. cmds[r.cmd].kind = "modify"
      BY <1>1, <2>1, ChoicesStay DEF SameChoice
    <2>3. Replaces(r.cmd, r.product, r.quote)
      BY <1>1, <2>2 DEF Replacement, PlacesReplacement
    <2> QED
      BY <2>1, <2>2, <2>3, ReplacesStay, ModifyTarget
  <1>2. PlacesReplacement'
    <2>1. CASE net' \subseteq net
      BY <1>1, <2>1 DEF PlacesReplacement
    <2>2. ASSUME NEW r, net' = net \cup {r},
                 r.call = "place" /\ cmds'[r.cmd].kind = "modify" =>
                     Replaces(r.cmd, r.product, r.quote)'
          PROVE  PlacesReplacement'
      BY <1>1, <2>2 DEF PlacesReplacement
    <2>3. CASE HandlePlaceOrder
      <3>1. PICK product \in Product, quote \in Quote :
              /\ Issue([kind |-> "place", product |-> product, quote |-> quote,
                        verdict |-> "running"])
              /\ Post(PlaceCall(cur + 1, product, quote))
        BY <2>3 DEF HandlePlaceOrder
      <3>2. cmds'[cur + 1].kind = "place"
        BY <3>1, IssueKeepsChoices
      <3> QED
        BY <2>2, <3>1, <3>2 DEF Post, PlaceCall
    <2>4. CASE HandleCancelOrder \/ HandleModifyOrder
      BY <2>2, <2>4 DEF HandleCancelOrder, HandleModifyOrder, Post, CancelCall
    <2>5. CASE \E what : Look(what)
      BY <2>2, <2>5, ReadCallsAssumption DEF Look, Post, ReadCall
    <2>6. CASE ModifyReplaces
      <3>1. /\ pc = "blocked"
            /\ cmds[cur].kind = "modify"
            /\ calling.call = "cancel"
            /\ inbox.kind = "result"
        BY <2>6 DEF ModifyReplaces, Returned
      <3>2. calling.order = cmds[cur].target /\ cur \in CmdIds
        BY <3>1, ReadCallsAssumption DEF Control, Waiting, CallOf
      <3>3. Replaces(cur, inbox.order.product, cmds[cur].quote)
        BY <3>1, <3>2 DEF Replacement, CancelAnswered, Replaces
      <3>5. cmds' = cmds /\ orders' = orders /\ cur' = cur
        BY <2>6 DEF ModifyReplaces
      <3>6. PICK r : /\ net' = net \cup {r}
                     /\ r.cmd = cur
                     /\ r.product = inbox.order.product
                     /\ r.quote = cmds[cur].quote
        BY <2>6 DEF ModifyReplaces, Post, PlaceCall
      <3>7. Replaces(r.cmd, r.product, r.quote)'
        BY <3>3, <3>5, <3>6 DEF Replaces
      <3> QED
        BY <2>2, <3>6, <3>7
    <2>7. CASE Interrupt \/ PlaceReturns \/ CancelReturns \/ ReadReturns
                  \/ ModifyGivesUp \/ ModifyReturns
      BY <2>1, <2>7 DEF Interrupt, PlaceReturns, CancelReturns, ReadReturns,
                        ModifyGivesUp, ModifyReturns, Finish
    <2>8. CASE Exchange \/ Network
      BY <2>1, <2>8
         DEF Exchange, Network, ExchangeAccepts, ExchangeCancels,
             ExchangeReportsClosed, ExchangeReads, ExchangeRefuses, Answer, Fill,
             TokenExpires, LoseRequest, CurlFails, GatewayAnswers
    <2>9. CASE Authenticate \/ ExitMenu \/ Restart \/ UNCHANGED vars
      BY <2>1, <2>9 DEF Authenticate, ExitMenu, Restart, vars
    <2> QED
      BY <2>3, <2>4, <2>5, <2>6, <2>7, <2>8, <2>9
         DEF Next, User, ClientReturns, HandleOpenOrder, HandleAccountSummary,
             HandleMarketData
  <1>3. OpenedReplacement'
    <2> SUFFICES ASSUME NEW o \in OrderIds, NEW c, NEW product, NEW quote,
                        orders'[o] # Absent,
                        c = orders'[o].origin,
                        product = orders'[o].product,
                        quote = orders'[o].quote,
                        cmds'[c].kind = "modify"
                 PROVE  Replaces(c, product, quote)'
      BY DEF OpenedReplacement, Replaces
    <2>1. CASE orders[o] # Absent
      <3>1. /\ c = orders[o].origin
            /\ orders'[o].product = orders[o].product
            /\ orders'[o].quote = orders[o].quote
        BY <2>1, OrdersStay DEF SameOrder
      <3>2. c \in CmdIds /\ c <= cur
        BY <2>1, <3>1, Numbers DEF Once, OrdersNumbered
      <3>3. cmds[c].kind = "modify"
        BY <3>2, ChoicesStay DEF SameChoice
      <3>4. Replaces(c, orders[o].product, orders[o].quote)
        BY <2>1, <3>1, <3>3 DEF Replacement, OpenedReplacement
      <3>5. Replaces(c, product, quote)
        BY <3>1, <3>4
      <3> QED
        BY <3>2, <3>3, <3>5, ReplacesStay, ModifyTarget
    <2>2. CASE orders[o] = Absent
      <3>1. orders' # orders
        BY <2>2
      <3>2. ExchangeAccepts
        <4>1. CASE ExchangeCancels
          BY <2>2, <4>1, CancelsStep
        <4>2. CASE Fill
          BY <2>2, <4>2, FillStep
        <4> QED
          BY <3>1, <4>1, <4>2, OrdersChange DEF vars
      <3>3. PICK r \in net :
              /\ r.call = "place"
              /\ orders'[o].origin = r.cmd
              /\ orders'[o].product = r.product
              /\ orders'[o].quote = r.quote
        BY <2>2, <3>2, AcceptsStep
      <3> QED
        BY <1>1, <3>3
    <2> QED
      BY <2>1, <2>2
  <1>4. CancelAnswered'
    <2> SUFFICES ASSUME pc' = "blocked", calling'.call = "cancel",
                        inbox'.kind = "result"
                 PROVE  /\ orders'[calling'.order] # Absent
                        /\ orders'[calling'.order].closer = cur'
                        /\ orders'[calling'.order].product = inbox'.order.product
      BY DEF CancelAnswered
    <2>1. CASE UNCHANGED <<pc, calling, inbox, cur>>
      <3>1. /\ orders[calling.order] # Absent
            /\ orders[calling.order].closer = cur
            /\ orders[calling.order].product = inbox.order.product
        BY <2>1 DEF Replacement, CancelAnswered
      <3>2. calling.order \in OrderIds /\ cur # 0
        BY <2>1, Numbers, ReadCallsAssumption
           DEF Control, Waiting, Request, PlaceRequest, CancelRequest, ReadRequest
      <3> QED
        BY <2>1, <3>1, <3>2, OrdersStay DEF SameOrder
    <2>2. CASE ExchangeCancels /\ inbox' # inbox
      <3>1. PICK r \in net, o \in OrderIds :
              /\ r.order = o
              /\ orders'[o] # Absent
              /\ orders'[o].closer = r.cmd
              /\ Answer(r, Result(o, orders'[o]))
        BY <2>2, CancelsStep
      <3>2. calling = r /\ inbox' = Result(o, orders'[o]) /\ UNCHANGED clientVars
        BY <2>2, <3>1 DEF Answer
      <3> QED
        BY <3>1, <3>2 DEF Result, Control, Waiting, clientVars
    <2>3. CASE ExchangeAccepts /\ inbox' # inbox
      <3>1. PICK r \in net : r.call = "place" /\ \E b : Answer(r, b)
        BY <2>3 DEF ExchangeAccepts
      <3>2. calling' = r
        BY <2>3, <3>1 DEF Answer, clientVars
      <3> QED
        BY <3>1, <3>2
    <2>4. CASE (ExchangeAccepts \/ ExchangeCancels \/ Fill \/ TokenExpires
                  \/ LoseRequest) /\ inbox' = inbox
      BY <2>1, <2>4
         DEF ExchangeAccepts, ExchangeCancels, Answer, Fill, TokenExpires,
             LoseRequest, clientVars
    <2>5. CASE ExchangeReads \/ ExchangeRefuses
      BY <2>1, <2>5
         DEF ExchangeReads, ExchangeRefuses, Answer, Listing, Refusal, clientVars
    <2>6. CASE CurlFails \/ GatewayAnswers
      BY <2>6 DEF CurlFails, GatewayAnswers, Empty, Unreadable, Odd
    <2>7. CASE inbox' = NoReply
      BY <2>7 DEF NoReply
    <2>8. CASE Interrupt \/ PlaceReturns \/ CancelReturns \/ ReadReturns
                  \/ ModifyGivesUp \/ ModifyReturns
      BY <2>8 DEF Interrupt, PlaceReturns, CancelReturns, ReadReturns,
                  ModifyGivesUp, ModifyReturns, Finish, NoReply
    <2>9. CASE Authenticate \/ ExitMenu \/ Restart
      BY <2>9 DEF Authenticate, ExitMenu, Restart
    <2>10. CASE UNCHANGED vars
      BY <2>1, <2>10 DEF vars, clientVars
    <2> QED
      BY <2>1, <2>2, <2>3, <2>4, <2>5, <2>6, <2>7, <2>8, <2>9, <2>10
         DEF Next, User, ClientReturns, Exchange, Network, HandleOpenOrder,
             HandleAccountSummary, HandleMarketData, ExchangeReportsClosed, Fill,
             TokenExpires, LoseRequest, HandlePlaceOrder, HandleCancelOrder,
             HandleModifyOrder, ModifyReplaces, Look, Post
  <1>5. CancelledBefore'
    <2> SUFFICES ASSUME pc' = "blocked", calling'.call = "place",
                        cmds'[cur'].kind = "modify"
                 PROVE  /\ orders'[cmds'[cur'].target] # Absent
                        /\ orders'[cmds'[cur'].target].closer = cur'
      BY DEF CancelledBefore
    <2>1. CASE UNCHANGED <<pc, calling, cmds, cur>>
      <3>1. /\ orders[cmds[cur].target] # Absent
            /\ orders[cmds[cur].target].closer = cur
        BY <2>1 DEF Replacement, CancelledBefore
      <3>2. cmds[cur].target \in OrderIds /\ cur # 0
        BY <2>1, Numbers, ModifyTarget DEF Control, Waiting
      <3> QED
        BY <2>1, <3>1, <3>2, OrdersStay DEF SameOrder
    <2>2. CASE ModifyReplaces
      <3>1. /\ pc = "blocked"
            /\ cmds[cur].kind = "modify"
            /\ calling.call = "cancel"
            /\ inbox.kind = "result"
            /\ UNCHANGED <<cmds, cur, orders>>
        BY <2>2 DEF ModifyReplaces, Returned
      <3>2. calling.order = cmds[cur].target
        BY <3>1, ReadCallsAssumption DEF Control, Waiting, CallOf
      <3> QED
        BY <3>1, <3>2 DEF Replacement, CancelAnswered
    <2>3. CASE HandlePlaceOrder
      <3>1. PICK product \in Product, quote \in Quote :
              Issue([kind |-> "place", product |-> product, quote |-> quote,
                     verdict |-> "running"])
        BY <2>3 DEF HandlePlaceOrder
      <3>2. cmds'[cur + 1].kind = "place" /\ cur' = cur + 1
        BY <3>1, IssueKeepsChoices DEF Issue
      <3> QED
        BY <3>2
    <2>4. CASE HandleCancelOrder
      BY <2>4 DEF HandleCancelOrder, Post, CancelCall
    <2>5. CASE HandleModifyOrder
      BY <2>5 DEF HandleModifyOrder, Post, CancelCall
    <2>6. CASE \E what : Look(what)
      BY <2>6, ReadCallsAssumption DEF Look, Post, ReadCall
    <2>7. CASE Interrupt \/ PlaceReturns \/ CancelReturns \/ ReadReturns
                  \/ ModifyGivesUp \/ ModifyReturns
      BY <2>7 DEF Interrupt, PlaceReturns, CancelReturns, ReadReturns,
                  ModifyGivesUp, ModifyReturns, Finish, NoRequest
    <2>8. CASE Exchange \/ Network
      BY <2>1, <2>8
         DEF Exchange, Network, ExchangeAccepts, ExchangeCancels,
             ExchangeReportsClosed, ExchangeReads, ExchangeRefuses, Answer, Fill,
             TokenExpires, LoseRequest, CurlFails, GatewayAnswers, clientVars
    <2>9. CASE Authenticate \/ ExitMenu \/ Restart
      BY <2>9 DEF Authenticate, ExitMenu, Restart
    <2>10. CASE UNCHANGED vars
      BY <2>1, <2>10 DEF vars, clientVars
    <2> QED
      BY <2>2, <2>3, <2>4, <2>5, <2>6, <2>7, <2>8, <2>9, <2>10
         DEF Next, User, ClientReturns, HandleOpenOrder, HandleAccountSummary,
             HandleMarketData
  <1> QED
    BY <1>2, <1>3, <1>4, <1>5 DEF Replacement

Following == Control /\ Stragglers /\ Once /\ Naming
                /\ (StrictCancel => Replacement)

LEMMA FollowingAlways == Spec => []Following
  <1>1. Init => Following
    BY ControlInit, StragglersInit, OnceInit, NamingInit, ReplacementInit
       DEF Following
  <1>2. Following /\ [Next]_vars => Following'
    BY ControlNext, StragglersNext, OnceNext, NamingNext, ReplacementNext
       DEF Following
  <1> QED
    BY <1>1, <1>2, PTL DEF Spec

\* What a modify opened replaces the one order it cancelled.
LEMMA ReplacedOrder ==
    ASSUME Following, StrictCancel, NEW c \in 1..cur,
           cmds[c].kind = "modify", NEW o \in Opened(c)
    PROVE  /\ Replaces(c, orders[o].product, orders[o].quote)
           /\ cmds[c].target \in OrderIds
           /\ ClosedBy(c) = {cmds[c].target}
           /\ orders[cmds[c].target].state = "cancelled"
  <1>1. c \in CmdIds /\ c # 0
    BY BoundsAssumption DEF Following, Control, TypeOK, CmdIds
  <1>2. cmds[c].target \in OrderIds
    BY <1>1, ModifyTarget DEF Following
  <1>3. Replaces(c, orders[o].product, orders[o].quote)
    BY DEF Following, Replacement, OpenedReplacement, Opened
  <1>4. \A p \in OrderIds : orders[p] # Absent /\ orders[p].closer = c
            => p = cmds[c].target
    BY <1>1 DEF Following, Naming, ClosedByName, Names
  <1>5. ClosedBy(c) = {cmds[c].target}
    BY <1>2, <1>3, <1>4 DEF ClosedBy, Replaces
  <1>6. orders[cmds[c].target].state = "cancelled"
    BY <1>1, <1>2, <1>3 DEF Following, Naming, ClosedByName, Replaces
  <1> QED
    BY <1>2, <1>3, <1>5, <1>6

\* The replacement of a modify never lives beside the order it replaces.
THEOREM ReplacementIsAfterCancel == Spec => []ReplacementFollowsCancel
  <1>1. Following => ReplacementFollowsCancel
    BY ReplacedOrder DEF ReplacementFollowsCancel, Replaces
  <1> QED
    BY <1>1, FollowingAlways, PTL

\* No order has two replacements.
THEOREM AtMostOneSuccessor == Spec => []OneSuccessor
  <1>1. ASSUME Following, StrictCancel, NEW c \in 1..cur, NEW d \in 1..cur,
               cmds[c].kind = "modify", Opened(c) # {},
               cmds[d].kind = "modify", Opened(d) # {},
               cmds[c].target = cmds[d].target
        PROVE  c = d
    <2>1. PICK o \in Opened(c), p \in Opened(d) : TRUE
      BY <1>1
    <2>2. /\ Replaces(c, orders[o].product, orders[o].quote)
          /\ Replaces(d, orders[p].product, orders[p].quote)
      BY <1>1, ReplacedOrder
    <2> QED
      BY <1>1, <2>2 DEF Replaces
  <1>2. Following => OneSuccessor
    BY <1>1 DEF OneSuccessor
  <1> QED
    BY <1>2, FollowingAlways, PTL

-----------------------------------------------------------------------------
(***************************************************************************)
(* Verdicts.                                                               *)
(***************************************************************************)
\* The result of a placement is an order of the current command, and a result
\* that shows a cancelled order shows one that is cancelled.
ResultIsTrue ==
    pc = "blocked" /\ inbox.kind = "result" =>
        /\ calling.call = "place" => ~NotOpened(cur)
        /\ calling.call = "cancel" /\ inbox.order.state = "cancelled" =>
              orders[calling.order].state = "cancelled"

LEMMA ResultInit == Init => ResultIsTrue
BY DEF Init, ResultIsTrue

LEMMA ResultNext ==
    Following /\ ResultIsTrue /\ [Next]_vars => ResultIsTrue'
  <1> SUFFICES ASSUME Following, ResultIsTrue, [Next]_vars,
                      pc' = "blocked", inbox'.kind = "result"
               PROVE  /\ calling'.call = "place" => ~NotOpened(cur)'
                      /\ calling'.call = "cancel"
                           /\ inbox'.order.state = "cancelled" =>
                            orders'[calling'.order].state = "cancelled"
    BY DEF ResultIsTrue
  <1>0. Control /\ Naming
    BY DEF Following
  <1>1. CASE UNCHANGED <<pc, calling, inbox, cur>>
    <2>1. ~NotOpened(cur) => ~NotOpened(cur)'
      BY <1>0, <1>1, OrdersStay DEF NotOpened, SameOrder
    <2>2. ASSUME calling.call = "cancel",
                 orders[calling.order].state = "cancelled"
          PROVE  orders'[calling.order].state = "cancelled"
      <3>1. calling.order \in OrderIds
        BY <1>0, <1>1, <2>2, ReadCallsAssumption
           DEF Control, Waiting, Request, PlaceRequest, CancelRequest, ReadRequest
      <3>2. orders[calling.order] # Absent
        BY <2>2, NotAbsent DEF OrderStates
      <3> QED
        BY <1>0, <2>2, <3>1, <3>2, OrdersStay DEF SameOrder
    <2> QED
      BY <1>1, <2>1, <2>2 DEF ResultIsTrue
  <1>2. CASE ExchangeAccepts /\ inbox' # inbox
    <2>1. PICK r \in net, o \in OrderIds :
            /\ r.call = "place"
            /\ orders'[o] # Absent
            /\ orders'[o].origin = r.cmd
            /\ Answer(r, Result(o, orders'[o]))
      BY <1>0, <1>2, AcceptsStep
    <2>2. calling = r /\ UNCHANGED <<pc, calling, cur, cmds>>
      BY <1>2, <2>1 DEF Answer, clientVars
    <2>3. r.cmd = cur
      BY <1>0, <2>2 DEF Control, Waiting
    <2> QED
      BY <2>1, <2>2, <2>3 DEF NotOpened
  <1>3. CASE ExchangeCancels /\ inbox' # inbox
    <2>1. PICK r \in net, o \in OrderIds :
            /\ r.call = "cancel"
            /\ r.order = o
            /\ orders'[o].state = "cancelled"
            /\ Answer(r, Result(o, orders'[o]))
      BY <1>0, <1>3, CancelsStep
    <2>2. calling' = r
      BY <1>3, <2>1 DEF Answer, clientVars
    <2> QED
      BY <2>1, <2>2
  <1>4. CASE ExchangeReportsClosed /\ inbox' # inbox
    <2>1. PICK r \in net :
            /\ r.call = "cancel"
            /\ Answer(r, Result(r.order, orders[r.order]))
            /\ UNCHANGED orders
      BY <1>4 DEF ExchangeReportsClosed
    <2>2. calling' = r /\ inbox' = Result(r.order, orders[r.order])
      BY <1>4, <2>1 DEF Answer, clientVars
    <2> QED
      BY <2>1, <2>2 DEF Result
  <1>5. CASE (ExchangeAccepts \/ ExchangeCancels \/ ExchangeReportsClosed
                \/ Fill \/ TokenExpires \/ LoseRequest) /\ inbox' = inbox
    BY <1>1, <1>5
       DEF ExchangeAccepts, ExchangeCancels, ExchangeReportsClosed, Answer, Fill,
           TokenExpires, LoseRequest, clientVars
  <1>6. CASE ExchangeReads \/ ExchangeRefuses
    BY <1>1, <1>6
       DEF ExchangeReads, ExchangeRefuses, Answer, Listing, Refusal, clientVars
  <1>7. CASE CurlFails \/ GatewayAnswers
    BY <1>7 DEF CurlFails, GatewayAnswers, Empty, Unreadable, Odd
  <1>8. CASE inbox' = NoReply
    BY <1>8 DEF NoReply
  <1>9. CASE Authenticate \/ ExitMenu \/ Restart
    BY <1>9 DEF Authenticate, ExitMenu, Restart
  <1>10. CASE UNCHANGED vars
    BY <1>1, <1>10 DEF vars, clientVars
  <1> QED
    BY <1>2, <1>3, <1>4, <1>5, <1>6, <1>7, <1>8, <1>9, <1>10
       DEF Next, User, ClientReturns, Exchange, Network, HandleOpenOrder,
           HandleAccountSummary, HandleMarketData, HandlePlaceOrder,
           HandleCancelOrder, HandleModifyOrder, ModifyReplaces, Look, Post,
           Interrupt, PlaceReturns, CancelReturns, ReadReturns, ModifyGivesUp,
           ModifyReturns, Finish, Fill, TokenExpires, LoseRequest

-----------------------------------------------------------------------------
LEMMA OpenedOrNot ==
    \A c : /\ Opened(c) = {} <=> NotOpened(c)
           /\ ClosedBy(c) = {} <=> NotClosed(c)
BY DEF Opened, ClosedBy, NotOpened, NotClosed

\* What the user is told when a call ends is true.
LEMMA PlaceTruth ==
    ASSUME Following, ResultIsTrue, PlaceReturns
    PROVE  Truth(cur, PlaceVerdict(inbox))
  <1>1. pc = "blocked" /\ cmds[cur].kind = "place" /\ calling.call = "place"
    BY ReadCallsAssumption
       DEF PlaceReturns, Returned, Following, Control, Waiting, CallOf
  <1>2. inbox.kind = "result" => Opened(cur) # {}
    BY <1>1, OpenedOrNot DEF ResultIsTrue
  <1>3. inbox.kind = "error" => Opened(cur) = {}
    BY <1>1, OpenedOrNot DEF Following, Once, RefusedHadNoEffect, Unplaced
  <1>4. /\ PlaceVerdict(inbox) \in {"placed", "notPlaced"} => inbox.kind = "result"
        /\ PlaceVerdict(inbox) = "error" => inbox.kind = "error"
        /\ PlaceVerdict(inbox)
              \in {"placed", "notPlaced", "error", "crashed", "invalid"}
    BY DEF PlaceVerdict
  <1> QED
    BY <1>1, <1>2, <1>3, <1>4 DEF Truth

LEMMA CancelTruth ==
    ASSUME Following, ResultIsTrue, CancelReturns
    PROVE  Truth(cur, CancelVerdict(inbox))
  <1>1. /\ pc = "blocked"
        /\ cmds[cur].kind = "cancel"
        /\ calling.call = "cancel"
        /\ calling.order = cmds[cur].target
    BY ReadCallsAssumption
       DEF CancelReturns, Returned, Following, Control, Waiting, CallOf
  <1>2. CancelVerdict(inbox) = "cancelled"
            => inbox.kind = "result" /\ inbox.order.state = "cancelled"
    BY DEF CancelVerdict
  <1>3. CancelVerdict(inbox) \in {"cancelled", "notCancelled", "crashed", "invalid"}
    BY DEF CancelVerdict
  <1> QED
    BY <1>1, <1>2, <1>3 DEF Truth, ResultIsTrue

LEMMA GiveUpTruth ==
    ASSUME Following, ModifyGivesUp
    PROVE  Truth(cur, GiveUpVerdict(inbox))
  <1>1. pc = "blocked" /\ cmds[cur].kind = "modify" /\ calling.call = "cancel"
    BY DEF ModifyGivesUp, Returned
  <1>2. inbox.kind = "error" => Opened(cur) = {} /\ ClosedBy(cur) = {}
    BY <1>1, OpenedOrNot
       DEF Following, Once, RefusedHadNoEffect, NotYetPlaced, Unplaced, Uncancelled
  <1>3. /\ GiveUpVerdict(inbox) = "refused" => inbox.kind = "error"
        /\ GiveUpVerdict(inbox) \in {"refused", "crashed", "invalid"}
    BY DEF GiveUpVerdict
  <1> QED
    BY <1>1, <1>2, <1>3 DEF Truth

LEMMA ModifyTruth ==
    ASSUME Following, ResultIsTrue, ModifyReturns
    PROVE  Truth(cur, ModifyVerdict(inbox))
  <1>1. pc = "blocked" /\ cmds[cur].kind = "modify" /\ calling.call = "place"
    BY DEF ModifyReturns, Returned
  <1>2. inbox.kind = "result" => Opened(cur) # {}
    BY <1>1, OpenedOrNot DEF ResultIsTrue
  <1>3. inbox.kind = "error" => Opened(cur) = {}
    BY <1>1, OpenedOrNot DEF Following, Once, RefusedHadNoEffect, Unplaced
  <1>4. StrictCancel => ClosedBy(cur) = {cmds[cur].target}
    <2>1. cur \in CmdIds /\ cur # 0
      BY <1>1, Numbers DEF Following, Control, Waiting
    <2>2. cmds[cur].target \in OrderIds
      BY <1>1, <2>1, ModifyTarget DEF Following
    <2>3. \A p \in OrderIds : orders[p] # Absent /\ orders[p].closer = cur
              => p = cmds[cur].target
      BY <2>1 DEF Following, Naming, ClosedByName, Names
    <2> QED
      BY <1>1, <2>2, <2>3 DEF Following, Replacement, CancelledBefore, ClosedBy
  <1>5. /\ ModifyVerdict(inbox) \in {"modified", "notModified"} => inbox.kind = "result"
        /\ ModifyVerdict(inbox) = "error" => inbox.kind = "error"
        /\ ModifyVerdict(inbox)
              \in {"modified", "notModified", "error", "crashed", "invalid"}
    BY DEF ModifyVerdict
  <1> QED
    BY <1>1, <1>2, <1>3, <1>4, <1>5 DEF Truth

\* Verdicts that say nothing of the orders.
LEMMA EmptyTruth ==
    /\ \A c : Truth(c, "crashed") /\ Truth(c, "running")
    /\ \A c, b : Truth(c, ReadVerdict(b))
  <1>1. \A b : ReadVerdict(b) \in {"crashed", "unavailable", "shown", "blank"}
    BY DEF ReadVerdict
  <1> QED
    BY <1>1 DEF Truth

\* What is true of a command stays true while no order changes...
LEMMA TruthKept ==
    ASSUME UNCHANGED orders, NEW c, SameChoice(c), NEW v, Truth(c, v)
    PROVE  Truth(c, v)'
BY DEF Truth, SameChoice, Opened, ClosedBy

\* ... and, once its outcome was told, when orders do change.
LEMMA EffectsKeepTruth ==
    ASSUME Following, ExchangeAccepts \/ ExchangeCancels \/ Fill,
           NEW c \in 1..cur, Truth(c, cmds[c].verdict)
    PROVE  Truth(c, cmds[c].verdict)'
  <1>0. /\ Control /\ Stragglers /\ Naming
        /\ [Next]_vars
        /\ c \in CmdIds
    BY Numbers, BoundsAssumption
       DEF Following, Control, TypeOK, CmdIds, Next, Exchange
  <1>1. UNCHANGED cmds
    BY DEF ExchangeAccepts, ExchangeCancels, Fill, Answer, clientVars
  <1>2. CASE cmds[c].verdict \in {"running", "crashed", "invalid"}
    BY <1>1, <1>2 DEF Truth
  <1>3. CASE cmds[c].verdict \notin {"running", "crashed", "invalid"}
    <2>1. \A r \in net : r.call \in Changing => r.cmd # c
      BY <1>0, <1>3, NetIsOpen
    <2>2. /\ NotOpened(c)' <=> NotOpened(c)
          /\ \A o \in OrderIds :
                orders'[o] # Absent /\ orders'[o].closer = c
                    <=> orders[o] # Absent /\ orders[o].closer = c
      <3>1. CASE ExchangeAccepts
        <4>1. PICK r \in net, o \in OrderIds :
                /\ r.call = "place"
                /\ orders[o] = Absent
                /\ orders'[o] # Absent
                /\ orders'[o].origin = r.cmd
                /\ orders'[o].closer = 0
                /\ \A p \in OrderIds \ {o} : orders'[p] = orders[p]
          BY <1>0, <3>1, AcceptsStep
        <4>2. r.cmd # c /\ c # 0
          BY <1>0, <2>1, <4>1, Numbers DEF Changing
        <4> QED
          BY <4>1, <4>2 DEF NotOpened
      <3>2. CASE ExchangeCancels
        <4>1. PICK r \in net, o \in OrderIds :
                /\ r.call = "cancel"
                /\ orders[o] # Absent
                /\ orders[o].state = "open"
                /\ orders'[o] # Absent
                /\ orders'[o].closer = r.cmd
                /\ orders'[o].origin = orders[o].origin
                /\ \A p \in OrderIds \ {o} : orders'[p] = orders[p]
          BY <1>0, <3>2, CancelsStep
        <4>2. r.cmd # c /\ orders[o].closer = 0 /\ c # 0
          BY <1>0, <2>1, <4>1, Numbers DEF Changing, Naming, ClosedByName
        <4> QED
          BY <4>1, <4>2 DEF NotOpened
      <3>3. CASE Fill
        BY <1>0, <3>3, FillStep DEF NotOpened
      <3> QED
        BY <3>1, <3>2, <3>3
    <2>3. (Opened(c) = {})' <=> Opened(c) = {}
      BY <2>2 DEF Opened, NotOpened
    <2>4. ClosedBy(c)' = ClosedBy(c)
      BY <2>2 DEF ClosedBy
    <2>5. ASSUME cmds[c].kind = "cancel",
                 orders[cmds[c].target].state = "cancelled"
          PROVE  orders'[cmds[c].target].state = "cancelled"
      <3>1. cmds[c].target \in OrderIds
        <4>1. cmds[c] \in Cmd \cup {NotIssued} /\ cmds[c] # NotIssued
          BY <1>0, <2>5 DEF Control, TypeOK, NotIssued
        <4> QED
          BY <2>5, <4>1, ReadCallsAssumption
             DEF Cmd, PlaceCmd, CancelCmd, ModifyCmd, ReadCmd
      <3>2. orders[cmds[c].target] # Absent
        BY <2>5, NotAbsent DEF OrderStates
      <3> QED
        BY <1>0, <2>5, <3>1, <3>2, OrdersStay DEF SameOrder
    <2> QED
      BY <1>1, <2>3, <2>4, <2>5 DEF Truth
  <1> QED
    BY <1>2, <1>3

\* The end of the current command tells something true.
LEMMA FinishVerdicts ==
    ASSUME Following, VerdictsHold, pc = "blocked", NEW v \in Verdicts,
           Finish(v), Truth(cur, v)
    PROVE  VerdictsHold'
  <1>1. cur \in CmdIds /\ cmds[cur] \in Cmd /\ cur' = cur /\ UNCHANGED orders
    BY DEF Following, Control, Waiting, Finish
  <1>2. 1..cur \subseteq CmdIds
    BY BoundsAssumption DEF Following, Control, TypeOK, CmdIds
  <1>3. ASSUME NEW c \in 1..cur, c # cur PROVE Truth(c, cmds[c].verdict)'
    <2>1. cmds'[c] = cmds[c]
      BY <1>2, <1>3 DEF Finish, Following, Control, TypeOK
    <2>2. SameChoice(c)
      BY <2>1 DEF SameChoice
    <2>3. PICK w : w = cmds[c].verdict /\ Truth(c, w)
      BY <1>3 DEF VerdictsHold
    <2>4. Truth(c, w)'
      BY <1>1, <2>2, <2>3, TruthKept
    <2> QED
      BY <2>1, <2>3, <2>4
  <1>4. Truth(cur, v)'
    <2>1. PICK c : c = cur
      OBVIOUS
    <2>2. SameChoice(c) /\ Truth(c, v)
      BY <1>1, <2>1, FinishKeepsChoices DEF Following
    <2>3. Truth(c, v)'
      BY <1>1, <2>2, TruthKept
    <2> QED
      BY <1>1, <2>1, <2>3
  <1>5. cmds'[cur].verdict = v
    BY <1>1, VerdictKeepsType DEF Finish, Following, Control, TypeOK
  <1> QED
    BY <1>1, <1>3, <1>4, <1>5 DEF VerdictsHold

LEMMA IssueVerdicts ==
    ASSUME Following, VerdictsHold, NEW cmd, cmd.verdict = "running", Issue(cmd)
    PROVE  VerdictsHold'
  <1>1. /\ cur' = cur + 1 /\ UNCHANGED orders
        /\ cmds'[cur + 1] = cmd
        /\ \A c \in 1..cur : cmds'[c] = cmds[c]
        /\ cur \in Nat
    BY BoundsAssumption DEF Issue, Following, Control, TypeOK, CmdIds
  <1>2. ASSUME NEW c \in 1..cur PROVE Truth(c, cmds[c].verdict)'
    <2>1. cmds'[c] = cmds[c] /\ SameChoice(c)
      BY <1>1 DEF SameChoice
    <2>2. PICK w : w = cmds[c].verdict /\ Truth(c, w)
      BY <1>2 DEF VerdictsHold
    <2>3. Truth(c, w)'
      BY <1>1, <2>1, <2>2, TruthKept
    <2> QED
      BY <2>1, <2>2, <2>3
  <1>3. Truth(cur, cmds[cur].verdict)'
    BY <1>1 DEF Truth
  <1> QED
    BY <1>1, <1>2, <1>3 DEF VerdictsHold

LEMMA VerdictsNext ==
    Following /\ ResultIsTrue /\ VerdictsHold /\ [Next]_vars => VerdictsHold'
  <1> SUFFICES ASSUME Following, ResultIsTrue, VerdictsHold, [Next]_vars
               PROVE  VerdictsHold'
    OBVIOUS
  <1>1. CASE UNCHANGED <<cur, cmds, orders>>
    BY <1>1 DEF VerdictsHold, Truth, Opened, ClosedBy
  <1>2. CASE HandlePlaceOrder
    BY <1>2, IssueVerdicts DEF HandlePlaceOrder
  <1>3. CASE HandleCancelOrder
    BY <1>3, IssueVerdicts DEF HandleCancelOrder
  <1>4. CASE HandleModifyOrder
    BY <1>4, IssueVerdicts DEF HandleModifyOrder
  <1>5. ASSUME NEW what, Look(what) PROVE VerdictsHold'
    BY <1>5, IssueVerdicts DEF Look
  <1>6. CASE Interrupt
    BY <1>6, FinishVerdicts, EmptyTruth DEF Interrupt, Verdicts
  <1>7. CASE PlaceReturns
    BY <1>7, FinishVerdicts, PlaceTruth, VerdictTypes DEF PlaceReturns, Returned
  <1>8. CASE CancelReturns
    BY <1>8, FinishVerdicts, CancelTruth, VerdictTypes DEF CancelReturns, Returned
  <1>9. CASE ReadReturns
    BY <1>9, FinishVerdicts, EmptyTruth, VerdictTypes DEF ReadReturns, Returned
  <1>10. CASE ModifyGivesUp
    BY <1>10, FinishVerdicts, GiveUpTruth, VerdictTypes DEF ModifyGivesUp, Returned
  <1>11. CASE ModifyReturns
    BY <1>11, FinishVerdicts, ModifyTruth, VerdictTypes DEF ModifyReturns, Returned
  <1>12. CASE ExchangeAccepts \/ ExchangeCancels \/ Fill
    <2>1. cur' = cur
      BY <1>12 DEF ExchangeAccepts, ExchangeCancels, Fill, Answer, clientVars
    <2> QED
      BY <1>12, <2>1, EffectsKeepTruth DEF VerdictsHold
  <1>13. CASE Authenticate \/ ExitMenu \/ Restart \/ ModifyReplaces
                \/ ExchangeReportsClosed \/ ExchangeReads \/ ExchangeRefuses
                \/ TokenExpires \/ Network \/ UNCHANGED vars
    BY <1>1, <1>13
       DEF Authenticate, ExitMenu, Restart, ModifyReplaces, ExchangeReportsClosed,
           ExchangeReads, ExchangeRefuses, Answer, TokenExpires, Network,
           LoseRequest, CurlFails, GatewayAnswers, vars, clientVars
  <1> QED
    BY <1>2, <1>3, <1>4, <1>5, <1>6, <1>7, <1>8, <1>9, <1>10, <1>11, <1>12,
       <1>13
       DEF Next, User, ClientReturns, Exchange, HandleOpenOrder,
           HandleAccountSummary, HandleMarketData

\* What a handler told the user is true, then and ever after.
THEOREM VerdictsAreTrue == Spec => []VerdictsHold
  <1>1. Init => ResultIsTrue /\ VerdictsHold
    BY ResultInit DEF Init, VerdictsHold
  <1> QED
    BY <1>1, FollowingAlways, ResultNext, VerdictsNext, PTL DEF Spec

-----------------------------------------------------------------------------
(***************************************************************************)
(* OrderSession implements OrderPromise, for every value of the constants, *)
(* if the exchange refuses to cancel an order that is not open.            *)
(***************************************************************************)

\* A placement belongs to a command that places.
PlacesByName ==
    \A r \in net : r.call = "place" => cmds[r.cmd].kind \in {"place", "modify"}

LEMMA PlacesByNameNext ==
    Following /\ PlacesByName /\ [Next]_vars => PlacesByName'
  <1> SUFFICES ASSUME Following, PlacesByName, [Next]_vars
               PROVE  PlacesByName'
    OBVIOUS
  <1>0. Control /\ Stragglers
    BY DEF Following
  <1>1. ASSUME NEW r \in net, r.call = "place"
        PROVE  cmds'[r.cmd].kind \in {"place", "modify"}
    <2>1. r.cmd \in CmdIds /\ r.cmd <= cur
      BY <1>0, Numbers DEF Stragglers, NetNumbered
    <2> QED
      BY <1>0, <1>1, <2>1, ChoicesStay DEF PlacesByName, SameChoice
  <1>2. CASE net' \subseteq net
    BY <1>1, <1>2 DEF PlacesByName
  <1>3. CASE HandlePlaceOrder
    <2>1. PICK product \in Product, quote \in Quote :
            /\ Issue([kind |-> "place", product |-> product, quote |-> quote,
                      verdict |-> "running"])
            /\ Post(PlaceCall(cur + 1, product, quote))
      BY <1>3 DEF HandlePlaceOrder
    <2>2. cmds'[cur + 1].kind = "place"
      BY <1>0, <2>1, IssueKeepsChoices
    <2> QED
      BY <1>1, <2>1, <2>2 DEF Post, PlaceCall, PlacesByName
  <1>4. CASE HandleCancelOrder
    BY <1>1, <1>4 DEF HandleCancelOrder, Post, CancelCall, PlacesByName
  <1>5. CASE HandleModifyOrder
    BY <1>1, <1>5 DEF HandleModifyOrder, Post, CancelCall, PlacesByName
  <1>6. CASE \E what : Look(what)
    BY <1>1, <1>6, ReadCallsAssumption DEF Look, Post, ReadCall, PlacesByName
  <1>7. CASE ModifyReplaces
    BY <1>1, <1>7 DEF ModifyReplaces, Returned, Post, PlaceCall, PlacesByName
  <1>8. CASE Interrupt \/ PlaceReturns \/ CancelReturns \/ ReadReturns
                \/ ModifyGivesUp \/ ModifyReturns
    BY <1>2, <1>8 DEF Interrupt, PlaceReturns, CancelReturns, ReadReturns,
                      ModifyGivesUp, ModifyReturns, Finish
  <1>9. CASE Exchange \/ Network
    BY <1>2, <1>9
       DEF Exchange, Network, ExchangeAccepts, ExchangeCancels,
           ExchangeReportsClosed, ExchangeReads, ExchangeRefuses, Answer, Fill,
           TokenExpires, LoseRequest, CurlFails, GatewayAnswers
  <1>10. CASE Authenticate \/ ExitMenu \/ Restart \/ UNCHANGED vars
    BY <1>2, <1>10 DEF Authenticate, ExitMenu, Restart, vars
  <1> QED
    BY <1>3, <1>4, <1>5, <1>6, <1>7, <1>8, <1>9, <1>10
       DEF Next, User, ClientReturns, HandleOpenOrder, HandleAccountSummary,
           HandleMarketData

-----------------------------------------------------------------------------
\* The steps of the client that begin or end a command, and the effects at the
\* exchange, are the steps of the promise.
LEMMA InitPromises == Init => Promise!Init
BY OpenedOrNot
   DEF Init, Promise!Init, PhaseOf, KindOf, TargetOf, NotIssued, Opened, ClosedBy

LEMMA StutterPromises ==
    ASSUME UNCHANGED <<cmds, orders>>
    PROVE  UNCHANGED Promise!vars
BY DEF Promise!vars, Opened, ClosedBy

LEMMA BeginPromises ==
    ASSUME Following, NEW cmd \in Cmd, cmd.verdict = "running", Issue(cmd)
    PROVE  Promise!Begin(cur + 1)
  <1>1. /\ cur + 1 \in CmdIds
        /\ cmds \in [CmdIds -> Cmd \cup {NotIssued}]
        /\ cmds' = [cmds EXCEPT ![cur + 1] = cmd]
        /\ UNCHANGED orders
    BY BoundsAssumption DEF Following, Control, TypeOK, Issue, CmdIds
  <1>2. cmds[cur + 1] = NotIssued
    BY <1>1, Numbers DEF Following, Control, Numbering
  <1>3. \A d \in CmdIds : cmds[d].verdict # "running"
    BY DEF Following, Control, Numbering, Issue
  <1>4. KindOf(cmd.kind) \in Promise!Kinds
    BY IssuedIsIssued, ReadCallsAssumption DEF Kinds, KindOf, Promise!Kinds
  <1>5. TargetOf(cmd) \in Promise!Targets(KindOf(cmd.kind))
    BY IssuedIsIssued, ReadCallsAssumption
       DEF Kinds, KindOf, TargetOf, Promise!Targets, Cmd, PlaceCmd, CancelCmd,
           ModifyCmd, ReadCmd
  <1>6. \A v : PhaseOf(v) = "live" => v = "running"
    BY DEF PhaseOf
  <1>7. PhaseOf("none") = "idle" /\ PhaseOf("running") = "live"
    BY DEF PhaseOf
  <1>8. [c \in CmdIds |-> PhaseOf(cmds'[c].verdict)]
            = [[c \in CmdIds |-> PhaseOf(cmds[c].verdict)] EXCEPT ![cur + 1] = "live"]
    BY <1>1, <1>7
  <1>9. [c \in CmdIds |-> KindOf(cmds'[c].kind)]
            = [[c \in CmdIds |-> KindOf(cmds[c].kind)] EXCEPT
                  ![cur + 1] = KindOf(cmd.kind)]
    BY <1>1
  <1>10. [c \in CmdIds |-> TargetOf(cmds'[c])]
            = [[c \in CmdIds |-> TargetOf(cmds[c])] EXCEPT ![cur + 1] = TargetOf(cmd)]
    BY <1>1
  <1>11. \A c : Opened(c)' = Opened(c) /\ ClosedBy(c)' = ClosedBy(c)
    BY <1>1 DEF Opened, ClosedBy
  <1>12. /\ [c \in CmdIds |-> PhaseOf(cmds[c].verdict)][cur + 1] = "idle"
         /\ \A d \in CmdIds :
                [c \in CmdIds |-> PhaseOf(cmds[c].verdict)][d] # "live"
    BY <1>1, <1>2, <1>3, <1>6, <1>7 DEF NotIssued
  <1> QED
    BY <1>4, <1>5, <1>8, <1>9, <1>10, <1>11, <1>12 DEF Promise!Begin

LEMMA EndPromises ==
    ASSUME Following, pc = "blocked", NEW v \in Verdicts \ {"running"}, v # "none",
           Finish(v)
    PROVE  Promise!End(cur)
  <1>1. /\ cur \in CmdIds
        /\ cmds[cur] \in Cmd
        /\ cmds[cur].verdict = "running"
        /\ cmds \in [CmdIds -> Cmd \cup {NotIssued}]
        /\ UNCHANGED orders
    BY DEF Following, Control, TypeOK, Waiting, Finish
  <1>2. /\ cmds'[cur].verdict = v
        /\ \A c \in CmdIds : c # cur => cmds'[c] = cmds[c]
    BY <1>1, VerdictKeepsType DEF Finish
  <1>3. PhaseOf(v) \in {"settled", "adrift"} /\ PhaseOf("running") = "live"
    BY DEF PhaseOf, Verdicts
  <1>4. \A c \in CmdIds : SameChoice(c)
    BY FinishKeepsChoices DEF Following
  <1>5. \A c \in CmdIds : KindOf(cmds'[c].kind) = KindOf(cmds[c].kind)
                              /\ TargetOf(cmds'[c]) = TargetOf(cmds[c])
    BY <1>4 DEF SameChoice, TargetOf
  <1> QED
    BY <1>1, <1>2, <1>3, <1>5 DEF Promise!End, Opened, ClosedBy

LEMMA OpenPromises ==
    ASSUME StrictCancel, Following, PlacesByName, ExchangeAccepts
    PROVE  \E c \in CmdIds, o \in OrderIds : Promise!Open(c, o)
  <1>0. Control /\ Stragglers /\ Once /\ Naming /\ Replacement
    BY DEF Following
  <1>1. PICK r \in net, o \in OrderIds :
          /\ r.call = "place"
          /\ orders[o] = Absent
          /\ orders'[o] # Absent
          /\ orders'[o].origin = r.cmd
          /\ orders'[o].closer = 0
          /\ \A p \in OrderIds \ {o} : orders'[p] = orders[p]
          /\ Answer(r, Result(o, orders'[o]))
    BY <1>0, AcceptsStep
  <1> DEFINE c == r.cmd
  <1>2. c \in CmdIds /\ c # 0 /\ UNCHANGED cmds
    BY <1>0, <1>1, Numbers DEF Answer, clientVars
  <1>3. PhaseOf(cmds[c].verdict) \in {"live", "adrift"}
    BY <1>0, <1>1, NetIsOpen DEF Changing, PhaseOf
  <1>4. cmds[c].kind \in {"place", "modify"}
    BY <1>1 DEF PlacesByName
  <1>5. KindOf(cmds[c].kind) \in {"open", "replace"}
    BY <1>4 DEF KindOf
  <1>6. ClosedBy(c) = TargetOf(cmds[c])
    <2>1. \A p \in OrderIds : orders[p] # Absent /\ orders[p].closer = c
              => Names(c, p)
      BY <1>0, <1>2 DEF Naming, ClosedByName
    <2>2. CASE cmds[c].kind = "place"
      BY <2>1, <2>2 DEF Names, ClosedBy, TargetOf
    <2>3. CASE cmds[c].kind = "modify"
      <3>1. orders[cmds[c].target] # Absent /\ orders[cmds[c].target].closer = c
        BY <1>0, <1>1, <2>3 DEF Replacement, PlacesReplacement, Replaces
      <3>2. cmds[c].target \in OrderIds
        BY <1>0, <1>2, <2>3, ModifyTarget
      <3> QED
        BY <2>1, <2>3, <3>1, <3>2 DEF Names, ClosedBy, TargetOf
    <2> QED
      BY <1>4, <2>2, <2>3
  <1>7. Opened(c) = {}
    BY <1>0, <1>1, OpenedOrNot DEF Once, PlaceOnce
  <1>8. \A d \in CmdIds : o \notin Opened(d)
    BY <1>1 DEF Opened
  <1>9. /\ Opened(c)' = {o}
        /\ \A d \in CmdIds : d # c => Opened(d)' = Opened(d)
    BY <1>1, <1>7 DEF Opened
  <1>10. \A d \in CmdIds : ClosedBy(d)' = ClosedBy(d)
    BY <1>0, <1>1, Numbers DEF ClosedBy
  <1>11. [d \in CmdIds |-> Opened(d)']
            = [[d \in CmdIds |-> Opened(d)] EXCEPT ![c] = {o}]
    BY <1>2, <1>9
  <1> HIDE DEF c
  <1> QED
    BY <1>2, <1>3, <1>5, <1>6, <1>7, <1>8, <1>10, <1>11 DEF Promise!Open

LEMMA ClosePromises ==
    ASSUME Following, ExchangeCancels
    PROVE  \E c \in CmdIds, o \in OrderIds : Promise!Close(c, o)
  <1>0. Control /\ Stragglers /\ Once /\ Naming
    BY DEF Following
  <1>1. PICK r \in net, o \in OrderIds :
          /\ r.call = "cancel"
          /\ r.order = o
          /\ orders[o] # Absent
          /\ orders[o].state = "open"
          /\ orders'[o] # Absent
          /\ orders'[o].closer = r.cmd
          /\ orders'[o].origin = orders[o].origin
          /\ \A p \in OrderIds \ {o} : orders'[p] = orders[p]
          /\ Answer(r, Result(o, orders'[o]))
    BY <1>0, CancelsStep
  <1> DEFINE c == r.cmd
  <1>2. c \in CmdIds /\ c # 0 /\ UNCHANGED cmds
    BY <1>0, <1>1, Numbers DEF Answer, clientVars
  <1>3. PhaseOf(cmds[c].verdict) \in {"live", "adrift"}
    BY <1>0, <1>1, NetIsOpen DEF Changing, PhaseOf
  <1>4. o \in TargetOf(cmds[c])
    BY <1>0, <1>1 DEF Naming, CancelsTarget, Names, TargetOf
  <1>5. ClosedBy(c) = {}
    BY <1>0, <1>1, OpenedOrNot DEF Once, CancelOnce
  <1>6. \E d \in CmdIds : o \in Opened(d)
    BY <1>0, <1>1, Numbers DEF Opened
  <1>7. orders[o].closer = 0
    BY <1>0, <1>1 DEF Naming, ClosedByName
  <1>8. \A d \in CmdIds : o \notin ClosedBy(d)
    BY <1>0, <1>7, Numbers DEF ClosedBy
  <1>9. /\ ClosedBy(c)' = {o}
        /\ \A d \in CmdIds : d # c => ClosedBy(d)' = ClosedBy(d)
    BY <1>1, <1>5, <1>8 DEF ClosedBy
  <1>10. \A d \in CmdIds : Opened(d)' = Opened(d)
    BY <1>1 DEF Opened
  <1>11. [d \in CmdIds |-> ClosedBy(d)']
            = [[d \in CmdIds |-> ClosedBy(d)] EXCEPT ![c] = {o}]
    BY <1>2, <1>9
  <1> HIDE DEF c
  <1> QED
    BY <1>2, <1>3, <1>4, <1>5, <1>6, <1>8, <1>10, <1>11 DEF Promise!Close

\* Filling an order is none of the promise's business.
LEMMA FillPromises ==
    ASSUME Following, Fill
    PROVE  UNCHANGED Promise!vars
  <1>1. /\ \A c : Opened(c)' = Opened(c) /\ ClosedBy(c)' = ClosedBy(c)
        /\ UNCHANGED cmds
    BY FillStep DEF Following, Opened, ClosedBy, clientVars
  <1> QED
    BY <1>1 DEF Promise!vars

LEMMA NextPromises ==
    ASSUME StrictCancel, Following, PlacesByName, [Next]_vars
    PROVE  [Promise!Next]_(Promise!vars)
  <1>1. ASSUME NEW cmd \in Cmd, cmd.verdict = "running", Issue(cmd)
        PROVE  Promise!Next
    <2>1. cur + 1 \in CmdIds
      BY <1>1, BoundsAssumption DEF Following, Control, TypeOK, Issue, CmdIds
    <2> QED
      BY <1>1, <2>1, BeginPromises DEF Promise!Next
  <1>2. ASSUME pc = "blocked", NEW v \in Verdicts \ {"running"}, Finish(v)
        PROVE  Promise!Next
    <2>1. cur \in CmdIds /\ v # "none"
      BY <1>2 DEF Following, Control, Waiting, Verdicts
    <2> QED
      BY <1>2, <2>1, EndPromises DEF Promise!Next
  <1>3. CASE HandlePlaceOrder
    BY <1>1, <1>3 DEF HandlePlaceOrder, Cmd, PlaceCmd, Verdicts
  <1>4. CASE HandleCancelOrder
    BY <1>1, <1>4 DEF HandleCancelOrder, Cmd, CancelCmd, Verdicts
  <1>5. CASE HandleModifyOrder
    BY <1>1, <1>5 DEF HandleModifyOrder, Cmd, ModifyCmd, Verdicts
  <1>6. CASE \E what : Look(what)
    BY <1>1, <1>6 DEF Look, Cmd, ReadCmd, Verdicts
  <1>7. CASE Interrupt
    BY <1>2, <1>7 DEF Interrupt, Verdicts
  <1>8. CASE PlaceReturns \/ CancelReturns \/ ReadReturns \/ ModifyGivesUp
                \/ ModifyReturns
    BY <1>2, <1>8, VerdictTypes
       DEF PlaceReturns, CancelReturns, ReadReturns, ModifyGivesUp,
           ModifyReturns, Returned
  <1>9. CASE ExchangeAccepts
    BY <1>9, OpenPromises DEF Promise!Next
  <1>10. CASE ExchangeCancels
    BY <1>10, ClosePromises DEF Promise!Next
  <1>11. CASE Fill
    BY <1>11, FillPromises
  <1>12. CASE UNCHANGED <<cmds, orders>>
    BY <1>12, StutterPromises
  <1> QED
    BY <1>3, <1>4, <1>5, <1>6, <1>7, <1>8, <1>9, <1>10, <1>11, <1>12
       DEF Next, User, ClientReturns, Exchange, Network, HandleOpenOrder,
           HandleAccountSummary, HandleMarketData, Authenticate, ExitMenu,
           Restart, ModifyReplaces, ExchangeReportsClosed, ExchangeReads,
           ExchangeRefuses, Answer, TokenExpires, LoseRequest, CurlFails,
           GatewayAnswers, vars, clientVars

\* The order desk does what OrderPromise promises.
THEOREM SessionKeepsPromise ==
    ASSUME StrictCancel
    PROVE  Spec => KeepsPromise
  <1>1. Init => PlacesByName
    BY DEF Init, PlacesByName
  <1>2. Spec => [](Following /\ PlacesByName)
    BY <1>1, FollowingAlways, PlacesByNameNext, PTL DEF Spec
  <1>3. Following /\ PlacesByName /\ [Next]_vars => [Promise!Next]_(Promise!vars)
    BY NextPromises
  <1> QED
    BY <1>2, <1>3, InitPromises, PTL DEF Spec, KeepsPromise, Promise!Spec
=============================================================================
