------------------------------ MODULE Displays ------------------------------
(***************************************************************************)
(* The commands that show what the exchange knows: handleOpenOrder,        *)
(* handleAccountSummary and the three of handleMarketData (main.cpp), from *)
(* the answer on.  What they have in common is how an incomplete answer is *)
(* met: json's operator[] of a value that may change adds a null for what  *)
(* is not there, a conversion of a null throws (the process ends with a    *)
(* message), and operator[] of a const value asserts (it is aborted).      *)
(*                                                                         *)
(* A field, a row's fields or a level is "value", "null" or "absent"; the  *)
(* fields one display converts before it shows anything are one `head',    *)
(* as incomplete as the most incomplete of them (best_bid_price of a book  *)
(* is shown unconverted and not among them).                               *)
(***************************************************************************)
EXTENDS Naturals, Sequences, SequencesExt

CONSTANTS
    MaxDepth,       \* bound: levels on a side of a book
    MaxRows,        \* bound: open orders, instruments
    MaxCommands     \* bound: commands of one process

Tables  == {"open_orders", "instruments"}
Records == {"account_summary", "ticker"}
Field   == {"value", "null", "absent"}
Depth   == 5        \* the levels handleMarketData shows

Results(d) ==
    IF d \in Tables THEN [kind : {"result"}, rows : SeqOf(Field, MaxRows)]
    ELSE IF d \in Records THEN [kind : {"result"}, head : Field]
    ELSE [kind : {"result"}, head : Field, bids : 0 .. MaxDepth, asks : 0 .. MaxDepth]
Answers(d) == {[kind |-> k] : k \in {"failed", "garbage", "no_result"}} \cup Results(d)

VARIABLES
    pc,             \* "menu", "answered", "rows", "exit1", "aborted"
    command,        \* commands so far, this one included
    display, answer,
    row,            \* the loop variable, from 1
    shown           \* history: the rows the command has shown

vars == <<pc, command, display, answer, row, shown>>

-----------------------------------------------------------------------------
Request(d) ==
    /\ pc = "menu" /\ command < MaxCommands
    /\ pc' = "answered" /\ command' = command + 1
    /\ display' = d /\ answer' \in Answers(d) /\ row' = 1
    /\ shown' = <<>>

Goes(to) == pc' = to /\ UNCHANGED <<command, display, answer, row>>
Quiet    == UNCHANGED shown

\* Nothing came, or an answer without a result: back to the menu, nothing is shown.
NothingToShow ==
    pc = "answered" /\ answer.kind \in {"failed", "no_result"} /\ Goes("menu") /\ Quiet

\* json::parse throws, and main ends.
NotJson == pc = "answered" /\ answer.kind = "garbage" /\ Goes("exit1") /\ Quiet

Shows == shown' = Append(shown, row)

\* The fields above the rows are converted, then shown with the rest.
Above ==
    /\ pc = "answered" /\ answer.kind = "result"
    /\ IF display \in Tables THEN Goes("rows") /\ Quiet
       ELSE IF answer.head # "value" THEN Goes("exit1") /\ Quiet
       ELSE IF display = "order_book" THEN Goes("rows") /\ Quiet
       ELSE Goes("menu") /\ Shows

\* One row of a table.
Row ==
    /\ pc = "rows" /\ display \in Tables /\ row <= Len(answer.rows)
    /\ \/ /\ answer.rows[row] = "value"
          /\ Shows
          /\ row' = row + 1 /\ UNCHANGED <<pc, command, display, answer>>
       \/ answer.rows[row] = "null" /\ Goes("exit1") /\ UNCHANGED shown
       \/ answer.rows[row] = "absent" /\ Goes("aborted") /\ UNCHANGED shown

\* Fault: a book that ends early is shown as far as it goes.
LevelIfThere ==
    /\ pc = "rows" /\ display = "order_book" /\ row <= Depth
    /\ IF row <= answer.bids /\ row <= answer.asks
       THEN /\ Shows
            /\ row' = row + 1 /\ UNCHANGED <<pc, command, display, answer>>
       ELSE Goes("menu") /\ UNCHANGED shown
\* One level of the book: what lies behind the last level of a side is a null.
Level ==
    /\ pc = "rows" /\ display = "order_book" /\ row <= Depth
    /\ IF row <= answer.bids /\ row <= answer.asks
       THEN /\ Shows
            /\ row' = row + 1 /\ UNCHANGED <<pc, command, display, answer>>
       ELSE Goes("exit1") /\ UNCHANGED shown

\* Fault: the last row is taken for the end.
RowsEndEarly ==
    /\ pc = "rows"
    /\ row >= (IF display = "order_book" THEN Depth ELSE Len(answer.rows))
    /\ Goes("menu") /\ Quiet
RowsEnd ==
    /\ pc = "rows"
    /\ row > (IF display = "order_book" THEN Depth ELSE Len(answer.rows))
    /\ Goes("menu") /\ Quiet

-----------------------------------------------------------------------------
Init ==
    /\ pc = "menu" /\ command = 0
    /\ display = "ticker" /\ answer = [kind |-> "failed"] /\ row = 1
    /\ shown = <<>>

Next ==
    \/ \E d \in Tables \cup Records \cup {"order_book"} : Request(d)
    \/ NothingToShow \/ NotJson \/ Above \/ Row \/ Level \/ RowsEnd

Spec == Init /\ [][Next]_vars

-----------------------------------------------------------------------------
\* The number of rows an answer has to show before the command may end.
Owed == IF answer.kind # "result" THEN 0
        ELSE IF display \in Records THEN 1
        ELSE IF display \in Tables THEN Len(answer.rows)
        ELSE Depth

\* What is shown of an answer is a whole number of rows in its order, and a command that
\* returns to the menu has shown them all: no order, instrument or level is passed over,
\* and a short book is never shown as if it were the book.
ShownWholeOrNotAtAll ==
    /\ \A i \in DOMAIN shown : shown[i] = i
    /\ pc = "menu" => Len(shown) = Owed

\* The process ends in the middle of a command exactly when the answer is not JSON or
\* lacks what the command needs; then what was complete before that has been shown: a
\* book with d < 5 levels on its shorter side has shown d of them.
Lacking ==
    \/ answer.kind = "garbage"
    \/ /\ answer.kind = "result" /\ display \in Tables
       /\ \E i \in DOMAIN answer.rows : answer.rows[i] # "value"
    \/ /\ answer.kind = "result" /\ display \notin Tables
       /\ \/ answer.head # "value"
          \/ display = "order_book" /\ (answer.bids < Depth \/ answer.asks < Depth)
EndsOnlyForLack ==
    /\ pc \in {"exit1", "aborted"} => Lacking
    /\ pc = "menu" => ~Lacking
    /\ pc = "exit1" /\ answer.kind = "result" /\ display = "order_book" /\ answer.head = "value" =>
          Len(shown) = (IF answer.bids < answer.asks THEN answer.bids ELSE answer.asks)
=============================================================================
