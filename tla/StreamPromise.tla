---------------------------- MODULE StreamPromise ----------------------------
(***************************************************************************)
(* What the documentation of websocketpp promises the application about    *)
(* the handlers of one connection (docs/handlers.dox, connection.hpp):     *)
(* open or fail, never both and each at most once; close once and only for *)
(* a connection that opened; messages between the two.  And what           *)
(* TradingTime needs of it: its subscriptions leave in order, after open.  *)
(***************************************************************************)
EXTENDS Naturals

CONSTANT Requests       \* how many subscriptions the open handler sends

VARIABLES opens, fails, closes, delivered, requested
promise == <<opens, fails, closes, delivered, requested>>

Init == opens = 0 /\ fails = 0 /\ closes = 0 /\ delivered = 0 /\ requested = 0

\* The connection attempt succeeds, and with it the attempt is over.
Open == /\ opens = 0 /\ fails = 0
        /\ opens' = 1
        /\ UNCHANGED <<fails, closes, delivered, requested>>

Fail == /\ opens = 0 /\ fails = 0
        /\ fails' = 1
        /\ UNCHANGED <<opens, closes, delivered, requested>>

Close == /\ opens = 1 /\ closes = 0
         /\ closes' = 1
         /\ UNCHANGED <<opens, fails, delivered, requested>>

Deliver == /\ opens = 1 /\ closes = 0
           /\ delivered' = delivered + 1
           /\ UNCHANGED <<opens, fails, closes, requested>>

\* Further subscriptions are handed to the transport.
Request == /\ opens = 1
           /\ requested' \in requested + 1 .. Requests
           /\ UNCHANGED <<opens, fails, closes, delivered>>

Next == Open \/ Fail \/ Close \/ Deliver \/ Request
Spec == Init /\ [][Next]_promise
=============================================================================
