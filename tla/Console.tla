-------------------------------- MODULE Console --------------------------------
(***************************************************************************)
(* What the menu and the handlers read from std::cin, and the calls they   *)
(* make with it.                                                           *)
(*                                                                         *)
(* The user types words between blanks.  >> into a string takes the whole  *)
(* word; >> into a number takes as much as reads as that number and leaves *)
(* the rest for the next read.  A read that fails sets the failbit, which  *)
(* nothing in the program clears: from then on every >> returns at once    *)
(* and leaves its variable alone.  Of a value that was read the model      *)
(* keeps only where it came from.                                          *)
(***************************************************************************)
EXTENDS Naturals, Sequences

CONSTANTS
    Words,      \* words the user may type, and what numbers leave of them
    Typed,      \* the words the user may type
    Nothing,    \* no rest of a word
    AsDouble,   \* for a word that starts with a double: what follows it
    AsInt,      \* for a word that starts with an int: what follows it
    IntOf,      \* for the same words: the int
    MaxSymbols, \* bound: symbols to subscribe to, or what an unset int holds
    MaxCalls    \* bound: calls the handlers make

ASSUME WordsAssumption ==
    /\ Typed \subseteq Words
    /\ Nothing \notin Words
    /\ AsDouble \in [DOMAIN AsDouble -> Words \cup {Nothing}]
    /\ AsInt \in [DOMAIN AsInt -> Words \cup {Nothing}]
    /\ IntOf \in [DOMAIN AsInt -> Nat]
ASSUME ConsoleBounds == MaxSymbols \in Nat /\ MaxCalls \in Nat

VARIABLES
    at,         \* "menu", a handler, "calling" or "exited"
    asked,      \* what the handler will still read, in order
    args,       \* where the values it has read came from
    rest,       \* what a number left of its word
    blank,      \* the user has answered the present prompt with an empty line
    failed,     \* the failbit of std::cin
    calls       \* the calls made so far

stream == <<rest, blank, failed>>
vars == <<at, asked, args, stream, calls>>

(***************************************************************************)
(* "typed": answered to this prompt; "late": typed after an empty line;    *)
(* "spill": the rest of the answer to the prompt before; "zero": stored by *)
(* >> when the word is no number; "unset": what the variable held, "" for  *)
(* a string and garbage for a number; "default": the default kind.         *)
(***************************************************************************)
Sources == {"typed", "late", "spill", "zero", "unset", "default"}
Reads == {"word", "number", "type", "choice", "count"}
Arity == [place |-> 5, open_orders |-> 0, cancel |-> 1, modify |-> 3,
          account_summary |-> 1, order_book |-> 1, ticker |-> 1, instruments |-> 2]
CallNames == DOMAIN Arity \cup {"stream"}

Init ==
    /\ at = "menu"
    /\ asked = <<>>
    /\ args = <<>>
    /\ rest = Nothing
    /\ blank = FALSE
    /\ failed = FALSE
    /\ calls = <<>>

-----------------------------------------------------------------------------
(***************************************************************************)
(* std::cin.                                                               *)
(***************************************************************************)

\* The next word, typed now unless a number left something over.
NextWords == IF failed THEN {} ELSE IF rest = Nothing THEN Typed ELSE {rest}

Source == IF rest # Nothing THEN "spill" ELSE IF blank THEN "late" ELSE "typed"

Takes(left) == rest' = left /\ blank' = FALSE /\ UNCHANGED failed

\* A word that is no number stays in the stream.
Rejects(w) == rest' = w /\ blank' = FALSE /\ failed' = TRUE

\* >> does nothing once the failbit is set, and sets it at the end of the input.
NoInput ==
    /\ failed \/ rest = Nothing
    /\ failed' = TRUE
    /\ blank' = FALSE
    /\ UNCHANGED rest

Waits == (at = "menu" /\ Len(calls) < MaxCalls) \/ asked # <<>>

\* The user presses return and >> goes on waiting.
EmptyLine ==
    /\ Waits
    /\ ~failed
    /\ rest = Nothing
    /\ ~blank
    /\ blank' = TRUE
    /\ UNCHANGED <<at, asked, args, rest, failed, calls>>

-----------------------------------------------------------------------------
(***************************************************************************)
(* The menu and the handlers.                                              *)
(***************************************************************************)
Prompts(h) ==
    CASE h = "place" -> <<"word", "word", "number", "number", "type">>
      [] h = "modify" -> <<"word", "number", "number">>
      [] h \in {"cancel", "account_summary"} -> <<"word">>
      [] h = "market_data" -> <<"choice">>
      [] h = "stream" -> <<"count">>
      [] OTHER -> <<>>

Option(w) ==
    CASE w = "1" -> "place"
      [] w = "2" -> "open_orders"
      [] w = "3" -> "cancel"
      [] w = "4" -> "modify"
      [] w = "5" -> "account_summary"
      [] w = "6" -> "market_data"
      [] w = "7" -> "stream"
      [] w = "8" -> "exited"
      [] OTHER -> "menu"

Enter(h) == at' = h /\ asked' = Prompts(h)

\* Fault: an invalid option clears the stream.
ChooseOptionAndClear ==
    /\ at = "menu"
    /\ Len(calls) < MaxCalls
    /\ \/ \E w \in NextWords : Takes(Nothing) /\ Enter(Option(w))
       \/ NoInput /\ ~failed /\ Enter("menu")
       \/ failed /\ failed' = FALSE /\ rest' = Nothing /\ UNCHANGED <<at, asked, blank>>
    /\ UNCHANGED <<args, calls>>

\* What is no option, "" included, is told as "Invalid option.".
ChooseOption ==
    /\ at = "menu"
    /\ Len(calls) < MaxCalls
    /\ \/ \E w \in NextWords : Takes(Nothing) /\ Enter(Option(w))
       \/ NoInput /\ Enter("menu")
    /\ UNCHANGED <<args, calls>>

\* The handler reads what it asks for next.
Reading(kind) ==
    /\ asked # <<>>
    /\ Head(asked) = kind
    /\ UNCHANGED calls

Got(source) ==
    /\ args' = Append(args, source)
    /\ asked' = Tail(asked)
    /\ UNCHANGED at

ReadWord ==
    /\ Reading("word")
    /\ \/ \E w \in NextWords : Takes(Nothing) /\ Got(Source)
       \/ NoInput /\ Got("unset")

ReadNumber ==
    /\ Reading("number")
    /\ \/ \E w \in NextWords \cap DOMAIN AsDouble : Takes(AsDouble[w]) /\ Got(Source)
       \/ \E w \in NextWords \ DOMAIN AsDouble : Rejects(w) /\ Got("zero")
       \/ NoInput /\ Got("unset")

\* Fault: the loop for the order type ends when the stream has failed.
ReadOrderTypeOnce ==
    /\ Reading("type")
    /\ \/ \E w \in NextWords \cap {"1", "2"} : Takes(Nothing) /\ Got(Source)
       \/ \E w \in NextWords \ {"1", "2"} : Takes(Nothing) /\ UNCHANGED <<at, args, asked>>
       \/ NoInput /\ Got("unset")

\* The order type is asked for until it is "1" or "2".
ReadOrderType ==
    /\ Reading("type")
    /\ \/ \E w \in NextWords \cap {"1", "2"} : Takes(Nothing) /\ Got(Source)
       \/ \E w \in NextWords \ {"1", "2"} : Takes(Nothing) /\ UNCHANGED <<at, args, asked>>
       \/ NoInput /\ UNCHANGED <<at, args, asked>>

Asks(h, prompts) == at' = h /\ asked' = prompts

\* Fault: the default kind is passed over and nothing is sent for it.
MarketChoiceWithoutKind(w) ==
    \/ w = "1" /\ Asks("order_book", <<"word">>)
    \/ w = "2" /\ Asks("ticker", <<"word">>)
    \/ w = "3" /\ Asks("instruments", <<"word">>)
    \/ w \notin {"1", "2", "3"} /\ Asks("menu", <<>>)

MarketChoice(w) ==
    \/ w = "1" /\ Asks("order_book", <<"word">>)
    \/ w = "2" /\ Asks("ticker", <<"word">>)
    \/ w = "3" /\ Asks("instruments", <<"word", "word">>)
    \/ w \notin {"1", "2", "3"} /\ Asks("menu", <<>>)

ReadMarketChoice ==
    /\ Reading("choice")
    /\ UNCHANGED args
    /\ \/ \E w \in NextWords : Takes(Nothing) /\ MarketChoice(w)
       \/ NoInput /\ MarketChoice("")

Symbols(n) == [i \in 1..n |-> "word"]

ReadCount ==
    /\ Reading("count")
    /\ UNCHANGED <<at, args>>
    /\ \/ \E w \in NextWords \cap DOMAIN AsInt :
             /\ IntOf[w] <= MaxSymbols
             /\ Takes(AsInt[w])
             /\ asked' = Symbols(IntOf[w])
       \/ \E w \in NextWords \ DOMAIN AsInt : Rejects(w) /\ asked' = <<>>
       \/ NoInput /\ \E n \in 0..MaxSymbols : asked' = Symbols(n)

\* All is read: the handler makes its call.
MakeCall ==
    /\ at \in CallNames
    /\ asked = <<>>
    /\ calls' = Append(calls, [call |-> at, args |-> args])
    /\ at' = "calling"
    /\ args' = <<>>
    /\ UNCHANGED <<asked, stream>>

\* The call comes back to the menu, or the handler throws on its answer.
CallReturns ==
    /\ at = "calling"
    /\ at' \in {"menu", "exited"}
    /\ UNCHANGED <<asked, args, stream, calls>>

Next ==
    \/ EmptyLine
    \/ ChooseOption
    \/ ReadWord
    \/ ReadNumber
    \/ ReadOrderType
    \/ ReadMarketChoice
    \/ ReadCount
    \/ MakeCall
    \/ CallReturns

Spec == Init /\ [][Next]_vars

-----------------------------------------------------------------------------
\* Every variable has its type, and every call has as many arguments as the
\* DeribitAPI function it stands for.
TypeOK ==
    /\ at \in CallNames \cup {"menu", "market_data", "calling", "exited"}
    /\ asked \in Seq(Reads)
    /\ args \in Seq(Sources)
    /\ rest \in Words \cup {Nothing}
    /\ blank \in BOOLEAN
    /\ failed \in BOOLEAN
    /\ calls \in Seq([call : CallNames, args : Seq(Sources)])
    /\ \A i \in DOMAIN calls :
           calls[i].call # "stream" => Len(calls[i].args) = Arity[calls[i].call]

Entered(c) == \A i \in DOMAIN c.args : c.args[i] \in {"typed", "late", "spill"}

\* No order is placed with an amount, a price or a type the user did not enter:
\* after a read that fails the handler never leaves the loop that asks for the
\* type (main.cpp:34).
PlacesWhatWasEntered ==
    \A i \in DOMAIN calls : calls[i].call = "place" => Entered(calls[i])

\* A call made with a value the user did not enter, as modifyOrder is with a
\* number that did not parse (main.cpp:119-123), is the last call of the
\* process: after it the menu reads nothing any more (main.cpp:345).
NothingAfterAFailedRead ==
    \A i \in DOMAIN calls : ~Entered(calls[i]) => i = Len(calls)

\* "Enter Kind (default: future)" (main.cpp:271): the kind is what the user
\* enters at the prompt, and the default for a user who enters nothing, never a
\* word typed after an empty answer.
EmptyKindIsDefault ==
    \A i \in DOMAIN calls :
        calls[i].call = "instruments" => calls[i].args[2] # "late"
=============================================================================
