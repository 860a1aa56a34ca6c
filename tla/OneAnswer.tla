------------------------------ MODULE OneAnswer ------------------------------
(***************************************************************************)
(* What a transport policy owes the connection for one asynchronous call   *)
(* (transport/base/connection.hpp): it calls the handler exactly once.     *)
(***************************************************************************)
EXTENDS Naturals

VARIABLES asked,        \* the call has been made
          answers       \* how often its handler has been called
call == <<asked, answers>>

Init == asked = FALSE /\ answers = 0
Ask  == ~asked /\ asked' = TRUE /\ UNCHANGED answers
Answer == asked /\ answers = 0 /\ answers' = 1 /\ UNCHANGED asked
\* The handler may be called from within the call.
AskAndAnswer == ~asked /\ asked' = TRUE /\ answers' = 1

Next == Ask \/ Answer \/ AskAndAnswer
Safety == Init /\ [][Next]_call
Spec == Safety /\ WF_call(Answer)
=============================================================================
