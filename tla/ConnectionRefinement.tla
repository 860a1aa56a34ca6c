------------------------ MODULE ConnectionRefinement ------------------------
(***************************************************************************)
(* The connection keeps the promises of StreamPromise.  The subscriptions  *)
(* are the first Total frames the connection accepts (QueueOrder), so that *)
(* the length of `written' tells how many of them have left.               *)
(***************************************************************************)
EXTENDS Connection

requested == IF Len(written) < Total THEN Len(written) ELSE Total

Promise == INSTANCE StreamPromise WITH Requests <- Total

\* The handlers are called as documented: every step of the connection is one of
\* StreamPromise or leaves what the application sees unchanged.
KeepsPromise == Promise!Spec

\* `Either open or fail will be called for each connection. Never both.'
\* (docs/handlers.dox:77.)
OpenOrFail == ~(opens > 0 /\ fails > 0)
=============================================================================
