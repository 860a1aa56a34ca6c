------------------------------ MODULE MCTerminal ------------------------------
(***************************************************************************)
(* The terminal: what the user types (Console), and what the queries show  *)
(* of the answers (Displays).  One run looks at one of the two; the other  *)
(* does not start.                                                         *)
(***************************************************************************)
EXTENDS MCConsole

CONSTANTS MaxDepth, MaxRows, MaxCommands        \* of Displays
ASSUME DisplaysAssumption == MaxDepth \in Nat /\ MaxRows \in Nat

VARIABLES pc, command, display, answer, row, shown,
          part                                  \* the one that runs

Screen == INSTANCE Displays
screen == <<pc, command, display, answer, row, shown>>

TerminalInit == Init /\ Screen!Init /\ part \in {"typed", "shown"}

TerminalNext ==
    \/ part = "typed" /\ Next /\ UNCHANGED <<screen, part>>
    \/ part = "shown" /\ Screen!Next /\ UNCHANGED <<vars, part>>

TerminalSpec == TerminalInit /\ [][TerminalNext]_<<vars, screen, part>>

-----------------------------------------------------------------------------
\* What is shown of an answer is a whole number of rows in its order, and a command that
\* returns to the menu has shown them all.
ShownWholeOrNotAtAll == Screen!ShownWholeOrNotAtAll

\* The process ends in a display exactly when the answer lacks something, and has then shown
\* what was complete before it.
EndsOnlyForLack == Screen!EndsOnlyForLack
=============================================================================
