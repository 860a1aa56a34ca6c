----------------------------- MODULE OrderSession -----------------------------
(***************************************************************************)
(* The order desk of the program: main()'s menu, the handlers that place,  *)
(* cancel, modify and look at orders, the DeribitAPI calls they make, the  *)
(* HTTP transport under those calls, and the exchange at its other end.    *)
(*                                                                         *)
(* Every call blocks in curl_easy_perform.  While it blocks the request    *)
(* may be lost, executed, or executed later than the moment the client     *)
(* stops waiting for it; the answer may be lost or replaced by whatever a  *)
(* gateway sends.  The program may end in any handler, and the user may    *)
(* start it again.  The exchange, the network and the user are external.   *)
(*                                                                         *)
(* CmdIds numbers the commands the user chooses from the menu, across      *)
(* restarts.  The record of a command and the fields origin and closer of  *)
(* an order are bookkeeping: the program keeps neither.                    *)
(***************************************************************************)
EXTENDS Naturals

CONSTANTS
    OrderIds,       \* ids the exchange can give to an order
    Instruments,    \* instrument names
    Sides,          \* words the user may type as the side of an order
    Amounts,        \* amounts and prices the user may type
    Prices,
    ReadCalls,      \* the read-only commands the user may choose
    MaxCmds,        \* bound: menu commands, over all sessions
    MaxSessions,    \* bound: starts of the program
    StrictCancel    \* TRUE: the exchange answers the cancel of an order that
                    \* is not open with an error, never with a result

ASSUME ReadCallsAssumption ==
    ReadCalls \subseteq {"open_orders", "account_summary", "market_data"}
ASSUME BoundsAssumption == MaxCmds \in Nat /\ MaxSessions \in Nat \ {0}
ASSUME StrictCancelAssumption == StrictCancel \in BOOLEAN

VARIABLES
    pc,         \* "start", "menu", "blocked" (in curl_easy_perform), "exited"
    session,    \* which start of the program this is
    token,      \* access_token: "none", "live", or "stale" once it expired
    cur,        \* the last command the user chose
    cmds,       \* the commands and what the user was told of each
    calling,    \* the request the client is blocked on
    inbox,      \* what curl_easy_perform is about to return
    net,        \* requests the exchange has not executed yet
    orders      \* the exchange's orders

clientVars == <<pc, session, token, cur, cmds, calling>>
vars == <<clientVars, inbox, net, orders>>

-----------------------------------------------------------------------------
CmdIds == 1..MaxCmds

Product == [instrument : Instruments, side : Sides, type : {"limit", "market"}]
Quote == [amount : Amounts, price : Prices]

OrderStates == {"open", "filled", "cancelled", "rejected"}
Absent == [state |-> "none"]
Order == [state : OrderStates, product : Product, quote : Quote,
          origin : CmdIds, closer : {0} \cup CmdIds]

PlaceRequest == [call : {"place"}, cmd : CmdIds, auth : BOOLEAN,
                 product : Product, quote : Quote]
CancelRequest == [call : {"cancel"}, cmd : CmdIds, auth : BOOLEAN,
                  order : OrderIds]
ReadRequest == [call : ReadCalls, cmd : CmdIds, auth : BOOLEAN]
Request == PlaceRequest \cup CancelRequest \cup ReadRequest
NoRequest == [call |-> "none"]

(***************************************************************************)
(* What a call returns: "" (curl failed), text that json::parse or a typed *)
(* field read throws on, JSON with neither of the fields the handlers look *)
(* for, a JSON-RPC error, or a JSON-RPC result.                            *)
(***************************************************************************)
NoReply == [kind |-> "none"]
Empty == [kind |-> "empty"]
Unreadable == [kind |-> "unreadable"]
Odd == [kind |-> "odd"]
Refusal == [kind |-> "error"]
Result(o, ord) == [kind |-> "result", id |-> o, order |-> ord]
Listing == [kind |-> "listing"]
Reply == {Empty, Unreadable, Odd, Refusal, Listing}
            \cup [kind : {"result"}, id : OrderIds, order : Order]

NotIssued == [kind |-> "none", verdict |-> "none"]
Verdicts == {"running", "placed", "notPlaced", "cancelled", "notCancelled",
             "modified", "notModified", "error", "refused", "invalid",
             "shown", "blank", "unavailable", "crashed"}
PlaceCmd == [kind : {"place"}, product : Product, quote : Quote,
             verdict : Verdicts]
CancelCmd == [kind : {"cancel"}, target : OrderIds, verdict : Verdicts]
ModifyCmd == [kind : {"modify"}, target : OrderIds, quote : Quote,
              verdict : Verdicts]
ReadCmd == [kind : ReadCalls, verdict : Verdicts]
Cmd == PlaceCmd \cup CancelCmd \cup ModifyCmd \cup ReadCmd

Init ==
    /\ pc = "start"
    /\ session = 1
    /\ token = "none"
    /\ cur = 0
    /\ cmds = [c \in CmdIds |-> NotIssued]
    /\ calling = NoRequest
    /\ inbox = NoReply
    /\ net = {}
    /\ orders = [o \in OrderIds |-> Absent]

-----------------------------------------------------------------------------
(***************************************************************************)
(* The client.                                                             *)
(***************************************************************************)

\* main() up to the menu: getEnvVar and authenticate() either give the session
\* a token or end it.
Authenticate ==
    /\ pc = "start"
    /\ \/ pc' = "menu" /\ token' = "live"
       \/ pc' = "exited" /\ token' = "none"
    /\ UNCHANGED <<session, cur, cmds, calling, inbox, net, orders>>

\* One curl_easy_perform: the request is on its way and the client waits.
Post(r) ==
    /\ calling' = r
    /\ net' = net \cup {r}
    /\ inbox' = NoReply

PlaceCall(c, product, quote) ==
    [call |-> "place", cmd |-> c, auth |-> token = "live",
     product |-> product, quote |-> quote]

CancelCall(c, o) ==
    [call |-> "cancel", cmd |-> c, auth |-> token = "live", order |-> o]

ReadCall(c, what) ==
    [call |-> what, cmd |-> c, auth |-> what = "market_data" \/ token = "live"]

\* A menu choice becomes command number cur + 1.
Issue(cmd) ==
    /\ pc = "menu"
    /\ cur < MaxCmds
    /\ pc' = "blocked"
    /\ cur' = cur + 1
    /\ cmds' = [cmds EXCEPT ![cur + 1] = cmd]
    /\ UNCHANGED <<session, token, orders>>

HandlePlaceOrder ==
    \E product \in Product, quote \in Quote :
        /\ Issue([kind |-> "place", product |-> product, quote |-> quote,
                  verdict |-> "running"])
        /\ Post(PlaceCall(cur + 1, product, quote))

HandleCancelOrder ==
    \E o \in OrderIds :
        /\ Issue([kind |-> "cancel", target |-> o, verdict |-> "running"])
        /\ Post(CancelCall(cur + 1, o))

\* modifyOrder starts with the cancel of the order it modifies.
HandleModifyOrder ==
    \E o \in OrderIds, quote \in Quote :
        /\ Issue([kind |-> "modify", target |-> o, quote |-> quote,
                  verdict |-> "running"])
        /\ Post(CancelCall(cur + 1, o))

\* The handlers that only look: one GET or POST and no effect.
Look(what) ==
    /\ what \in ReadCalls
    /\ Issue([kind |-> what, verdict |-> "running"])
    /\ Post(ReadCall(cur + 1, what))

HandleOpenOrder == Look("open_orders")
HandleAccountSummary == Look("account_summary")
HandleMarketData == Look("market_data")

ExitMenu ==
    /\ pc = "menu"
    /\ pc' = "exited"
    /\ UNCHANGED <<session, token, cur, cmds, calling, inbox, net, orders>>

\* What each handler tells the user of the text its call returned.  "crashed"
\* is an exception that no handler catches and that ends main(): the process
\* is gone before the user is told anything of the command.
\* Fault: a lost answer is told as an error.
PlaceVerdictOfLostAnswer(b) ==
    CASE b.kind = "result" -> IF b.order.state = "open" THEN "placed"
                                                        ELSE "notPlaced"
      [] b.kind \in {"empty", "unreadable", "error"} -> "error"
      [] OTHER -> "invalid"

PlaceVerdict(b) ==
    CASE b.kind \in {"empty", "unreadable"} -> "crashed"
      [] b.kind = "result" -> IF b.order.state = "open" THEN "placed"
                                                        ELSE "notPlaced"
      [] b.kind = "error" -> "error"
      [] OTHER -> "invalid"

\* Fault: any result is taken for a cancelled order.
CancelVerdictOfAnyState(b) ==
    CASE b.kind \in {"empty", "unreadable"} -> "crashed"
      [] b.kind = "result" -> "cancelled"
      [] OTHER -> "invalid"

\* Fault: no answer is told as an order that is not cancelled.
CancelVerdictOfLostAnswer(b) ==
    CASE b.kind \in {"empty", "unreadable"} -> "notCancelled"
      [] b.kind = "result" -> IF b.order.state = "cancelled" THEN "cancelled"
                                                             ELSE "notCancelled"
      [] OTHER -> "invalid"

CancelVerdict(b) ==
    CASE b.kind \in {"empty", "unreadable"} -> "crashed"
      [] b.kind = "result" -> IF b.order.state = "cancelled" THEN "cancelled"
                                                             ELSE "notCancelled"
      [] OTHER -> "invalid"

\* Fault: whatever is not a result is told as a refusal.
GiveUpVerdictOfAnyAnswer(b) == "refused"

\* modifyOrder gives up and hands the answer to its cancel to the handler.
\* "refused": both "Failed to cancel order for modification" and the error.
GiveUpVerdict(b) ==
    CASE b.kind \in {"empty", "unreadable"} -> "crashed"
      [] b.kind = "error" -> "refused"
      [] OTHER -> "invalid"

ModifyVerdict(b) ==
    CASE b.kind \in {"empty", "unreadable"} -> "crashed"
      [] b.kind = "result" -> IF b.order.state = "open" THEN "modified"
                                                        ELSE "notModified"
      [] b.kind = "error" -> "error"
      [] OTHER -> "invalid"

\* The read handlers test for "" before they parse, and print nothing of an
\* answer that has no result.
ReadVerdict(b) ==
    CASE b.kind = "unreadable" -> "crashed"
      [] b.kind = "empty" -> "unavailable"
      [] b.kind = "listing" -> "shown"
      [] OTHER -> "blank"

\* The handler of the current command returns to the menu, or the process ends.
Finish(v) ==
    /\ cmds' = [cmds EXCEPT ![cur].verdict = v]
    /\ pc' = IF v = "crashed" THEN "exited" ELSE "menu"
    /\ calling' = NoRequest
    /\ inbox' = NoReply
    /\ UNCHANGED <<session, token, cur, net, orders>>

\* curl_easy_perform has returned to the handler of a command of kind k.
Returned(k) ==
    /\ pc = "blocked"
    /\ inbox # NoReply
    /\ cmds[cur].kind = k

\* Fault: a placement whose answer is lost is sent again.
PlaceRetries ==
    /\ Returned("place")
    /\ IF inbox = Empty
          THEN Post(calling) /\ UNCHANGED <<pc, session, token, cur, cmds, orders>>
          ELSE Finish(PlaceVerdict(inbox))

PlaceReturns ==
    /\ Returned("place")
    /\ Finish(PlaceVerdict(inbox))

CancelReturns ==
    /\ Returned("cancel")
    /\ Finish(CancelVerdict(inbox))

\* The cancel inside modifyOrder returned no "result".
ModifyGivesUp ==
    /\ Returned("modify")
    /\ calling.call = "cancel"
    /\ inbox.kind # "result"
    /\ Finish(GiveUpVerdict(inbox))

\* Fault: the amount and the price trade places between the two signatures.
ModifyReplacesSwapped ==
    /\ Returned("modify")
    /\ calling.call = "cancel"
    /\ inbox.kind = "result"
    /\ Post(PlaceCall(cur, inbox.order.product,
                      [amount |-> cmds[cur].quote.price,
                       price |-> cmds[cur].quote.amount]))
    /\ UNCHANGED <<pc, session, token, cur, cmds, orders>>

\* Fault: the type of the order is not carried over.
ModifyReplacesAsLimit ==
    /\ Returned("modify")
    /\ calling.call = "cancel"
    /\ inbox.kind = "result"
    /\ Post(PlaceCall(cur, [inbox.order.product EXCEPT !.type = "limit"],
                      cmds[cur].quote))
    /\ UNCHANGED <<pc, session, token, cur, cmds, orders>>

\* Fault: the replacement is placed even if the cancel was refused.
ModifyReplacesAnyway ==
    /\ Returned("modify")
    /\ calling.call = "cancel"
    /\ inbox.kind \in {"result", "error"}
    /\ \E product \in Product : Post(PlaceCall(cur, product, cmds[cur].quote))
    /\ UNCHANGED <<pc, session, token, cur, cmds, orders>>

\* It returned one: modifyOrder places the replacement for the same product.
ModifyReplaces ==
    /\ Returned("modify")
    /\ calling.call = "cancel"
    /\ inbox.kind = "result"
    /\ Post(PlaceCall(cur, inbox.order.product, cmds[cur].quote))
    /\ UNCHANGED <<pc, session, token, cur, cmds, orders>>

ModifyReturns ==
    /\ Returned("modify")
    /\ calling.call = "place"
    /\ Finish(ModifyVerdict(inbox))

ReadReturns ==
    /\ \E what \in ReadCalls : Returned(what)
    /\ Finish(ReadVerdict(inbox))

\* The user interrupts a program that does not return from its call: no call
\* has a timeout.
Interrupt ==
    /\ pc = "blocked"
    /\ Finish("crashed")

Restart ==
    /\ pc = "exited"
    /\ session < MaxSessions
    /\ session' = session + 1
    /\ pc' = "start"
    /\ token' = "none"
    /\ UNCHANGED <<cur, cmds, calling, inbox, net, orders>>

-----------------------------------------------------------------------------
(***************************************************************************)
(* The exchange.                                                           *)
(***************************************************************************)

\* A request is executed once.  Its answer reaches the client only if the
\* client is still waiting for this very request and has no answer yet.
Answer(r, b) ==
    /\ net' = net \ {r}
    /\ inbox' = IF calling = r /\ inbox = NoReply THEN b ELSE inbox
    /\ UNCHANGED clientVars

NewOrder(r, s) ==
    [state |-> s, product |-> r.product, quote |-> r.quote,
     origin |-> r.cmd, closer |-> 0]

ExchangeAccepts ==
    \E r \in net, o \in OrderIds, s \in {"open", "filled", "rejected"} :
        /\ r.call = "place"
        /\ r.auth
        /\ r.product.side \in {"buy", "sell"}
        /\ orders[o] = Absent
        /\ orders' = [orders EXCEPT ![o] = NewOrder(r, s)]
        /\ Answer(r, Result(o, NewOrder(r, s)))

Closed(ord, c) == [ord EXCEPT !.state = "cancelled", !.closer = c]

ExchangeCancels ==
    \E r \in net :
        /\ r.call = "cancel"
        /\ r.auth
        /\ orders[r.order].state = "open"
        /\ orders' = [orders EXCEPT ![r.order] = Closed(@, r.cmd)]
        /\ Answer(r, Result(r.order, Closed(orders[r.order], r.cmd)))

\* An exchange that is not strict answers a late cancel with the order as it is.
ExchangeReportsClosed ==
    \E r \in net :
        /\ ~StrictCancel
        /\ r.call = "cancel"
        /\ r.auth
        /\ orders[r.order].state \in OrderStates \ {"open"}
        /\ Answer(r, Result(r.order, orders[r.order]))
        /\ UNCHANGED orders

ExchangeReads ==
    \E r \in net :
        /\ r.call \in ReadCalls
        /\ r.auth
        /\ Answer(r, Listing)
        /\ UNCHANGED orders

\* No token, no such order, no such method, no funds, too many requests...
ExchangeRefuses ==
    \E r \in net :
        /\ Answer(r, Refusal)
        /\ UNCHANGED orders

\* The market takes a resting order, whatever the client is doing.
Fill ==
    \E o \in OrderIds :
        /\ orders[o].state = "open"
        /\ orders' = [orders EXCEPT ![o].state = "filled"]
        /\ UNCHANGED <<clientVars, inbox, net>>

\* The token of the session expires; nothing in the program renews it.
TokenExpires ==
    /\ token = "live"
    /\ token' = "stale"
    /\ UNCHANGED <<pc, session, cur, cmds, calling, inbox, net, orders>>

-----------------------------------------------------------------------------
(***************************************************************************)
(* The network.                                                            *)
(***************************************************************************)
LoseRequest ==
    \E r \in net :
        /\ net' = net \ {r}
        /\ UNCHANGED <<clientVars, inbox, orders>>

\* curl_easy_perform fails, whether or not the request got through and
\* whether or not an answer was on its way: the call returns "".
CurlFails ==
    /\ pc = "blocked"
    /\ inbox # Empty
    /\ inbox' = Empty
    /\ UNCHANGED <<clientVars, net, orders>>

\* Something between the client and the exchange answers in its place; the
\* request may still reach the exchange.
GatewayAnswers ==
    /\ pc = "blocked"
    /\ inbox = NoReply
    /\ inbox' \in {Unreadable, Odd}
    /\ UNCHANGED <<clientVars, net, orders>>

-----------------------------------------------------------------------------
ClientReturns ==
    \/ PlaceReturns \/ CancelReturns \/ ReadReturns
    \/ ModifyGivesUp \/ ModifyReplaces \/ ModifyReturns

User ==
    \/ HandlePlaceOrder \/ HandleCancelOrder \/ HandleModifyOrder
    \/ HandleOpenOrder \/ HandleAccountSummary \/ HandleMarketData
    \/ ExitMenu \/ Interrupt \/ Restart

Exchange ==
    \/ ExchangeAccepts \/ ExchangeCancels \/ ExchangeReportsClosed
    \/ ExchangeReads \/ ExchangeRefuses \/ Fill \/ TokenExpires

Network == LoseRequest \/ CurlFails \/ GatewayAnswers

Next == Authenticate \/ User \/ ClientReturns \/ Exchange \/ Network

Spec == Init /\ [][Next]_vars

\* The program acts on what a call returned; nothing else is sure to happen.
FairSpec == Spec /\ WF_vars(ClientReturns)

-----------------------------------------------------------------------------
(***************************************************************************)
(* Properties.                                                             *)
(***************************************************************************)

\* Every variable has its type, and a client that waits has a request out.
TypeOK ==
    /\ pc \in {"start", "menu", "blocked", "exited"}
    /\ session \in 1..MaxSessions
    /\ token \in {"none", "live", "stale"}
    /\ cur \in {0} \cup CmdIds
    /\ cmds \in [CmdIds -> Cmd \cup {NotIssued}]
    /\ calling \in Request \cup {NoRequest}
    /\ inbox \in Reply \cup {NoReply}
    /\ net \subseteq Request
    /\ orders \in [OrderIds -> Order \cup {Absent}]

Opened(c) == {o \in OrderIds : orders[o] # Absent /\ orders[o].origin = c}
ClosedBy(c) == {o \in OrderIds : orders[o] # Absent /\ orders[o].closer = c}

\* No command opens two orders, whatever is lost, delayed or restarted: the
\* handlers never send a placement twice (main.cpp:41, manageOrders.cpp:134).
AtMostOneOrder ==
    \A c \in CmdIds : \A o1, o2 \in Opened(c) : o1 = o2

\* A request that can still change an order after the client stopped waiting
\* for it belongs to a command that ended the process or that reported an
\* unrecognised answer; none is left behind by a command with a clear outcome.
StragglersAreFlagged ==
    \A r \in net :
        r # calling /\ r.call \in {"place", "cancel"}
            => cmds[r.cmd].verdict \in {"crashed", "invalid"}

\* What a handler told the user is true at the exchange, then and ever after:
\* a success has happened, an error or a refusal has changed nothing but what
\* it says (main.cpp:41-56, 95-107, 123-137).  The cancel half of a modify that
\* failed in its placement did happen.
Truth(c, v) ==
    LET k == cmds[c].kind
    IN  /\ v \in {"placed", "notPlaced", "modified", "notModified"}
              => Opened(c) # {}
        /\ k = "cancel" /\ v = "cancelled"
              => orders[cmds[c].target].state = "cancelled"
        /\ v \in {"error", "refused"} => Opened(c) = {}
        /\ v = "refused" => ClosedBy(c) = {}
        /\ StrictCancel /\ k = "modify" /\ v \in {"modified", "notModified", "error"}
              => ClosedBy(c) = {cmds[c].target}
VerdictsHold == \A c \in 1..cur : Truth(c, cmds[c].verdict)

\* The replacement a modify places never lives beside the order it replaces:
\* that order was cancelled by this very modify, and the replacement has its
\* product with the amount and price the user asked for.  It needs an exchange
\* that refuses to cancel an order that is not open, because modifyOrder does
\* not look at order_state (manageOrders.cpp:124).
ReplacementFollowsCancel ==
    StrictCancel =>
        \A c \in 1..cur : \A o \in Opened(c) :
            cmds[c].kind = "modify" =>
                /\ ClosedBy(c) = {cmds[c].target}
                /\ orders[cmds[c].target].state = "cancelled"
                /\ orders[o].product = orders[cmds[c].target].product
                /\ orders[o].quote = cmds[c].quote

\* Modifying one order again and again, across lost answers and restarts,
\* leaves at most one replacement of it.
OneSuccessor ==
    StrictCancel =>
        \A c, d \in 1..cur :
            /\ cmds[c].kind = "modify" /\ Opened(c) # {}
            /\ cmds[d].kind = "modify" /\ Opened(d) # {}
            /\ cmds[c].target = cmds[d].target
            => c = d

\* An order appears or is cancelled only for a command that is running, that
\* ended the process, or that reported an unrecognised answer.
InTime ==
    \A o \in OrderIds :
        /\ orders[o] = Absent /\ orders'[o] # Absent
             => cmds[orders'[o].origin].verdict
                   \in {"running", "crashed", "invalid"}
        /\ orders[o].state # "cancelled" /\ orders'[o].state = "cancelled"
             => cmds[orders'[o].closer].verdict
                   \in {"running", "crashed", "invalid"}
EffectsInTime == [][InTime]_vars

\* If every curl_easy_perform returns, every command ends: the user is told
\* something or the process is gone.  No handler waits for anything else.
CallsReturn == []<>~(pc = "blocked" /\ inbox = NoReply)
CommandEnds ==
    CallsReturn => \A c \in CmdIds :
        cmds[c].verdict = "running" ~> cmds[c].verdict # "running"

\* handlePlaceOrder says "Order not placed" (main.cpp:51), offers market orders
\* (main.cpp:32), and would be expected to say so only of an order that did not
\* trade.
NotPlacedMeansNoTrade ==
    \A c \in 1..cur :
        cmds[c].verdict = "notPlaced" =>
            \A o \in Opened(c) : orders[o].state # "filled"
=============================================================================
