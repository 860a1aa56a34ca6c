---------------------------- MODULE TerminalProofs ----------------------------
(***************************************************************************)
(* Proofs about the terminal: what the user types (Console), for every set *)
(* of words and every bound, and what the queries show (Displays), for     *)
(* answers and books of any size and any number of commands.               *)
(*                                                                         *)
(* What the calls were made with is known once three things are: how far   *)
(* the handler is in its prompts (Position), that only a failed stream     *)
(* gives a value the user did not enter (Sincere), and that the placement  *)
(* ends its prompts with the loop a failed stream does not leave           *)
(* (LoopIsLast).                                                           *)
(***************************************************************************)
EXTENDS MCTerminal, TLAPS


Types ==
    /\ at \in CallNames \cup {"menu", "market_data", "calling", "exited"}
    /\ asked \in Seq(Reads)
    /\ args \in Seq(Sources)
    /\ rest \in Words \cup {Nothing}
    /\ blank \in BOOLEAN
    /\ failed \in BOOLEAN
    /\ calls \in Seq([call : CallNames, args : Seq(Sources)])

\* A handler has read part of its prompts and will read the others.
Position ==
    /\ at \in {"menu", "calling", "exited"} => asked = <<>> /\ args = <<>>
    /\ at = "market_data" => asked = <<"choice">> /\ args = <<>>
    /\ at \in DOMAIN Arity =>
          /\ Len(args) + Len(asked) = Arity[at]
          /\ \A i \in DOMAIN asked : asked[i] \in {"word", "number", "type"}
    /\ at = "stream" => \A i \in DOMAIN asked : asked[i] \in {"word", "count"}

\* The order type is the last thing a placement asks for, and a placement that
\* has asked for everything read it from a stream that had not failed.
LoopIsLast ==
    at = "place" =>
        \/ asked # <<>> /\ asked[Len(asked)] = "type"
        \/ asked = <<>> /\ ~failed

Given == {"typed", "late", "spill"}

\* Only a stream that failed gives values that were not entered.
Sincere == ~failed => \A i \in DOMAIN args : args[i] \in Given

\* A call with a value that was not entered is the last, and the stream failed;
\* a handler that reads follows no such call.
LastIsUnentered ==
    /\ \A i \in DOMAIN calls : ~Entered(calls[i]) => i = Len(calls) /\ failed
    /\ at \notin {"menu", "calling", "exited"} =>
          \A i \in DOMAIN calls : Entered(calls[i])

Arities ==
    \A i \in DOMAIN calls :
        calls[i].call # "stream" => Len(calls[i].args) = Arity[calls[i].call]

ConsoleInv ==
    /\ Types
    /\ Position
    /\ LoopIsLast
    /\ Sincere
    /\ LastIsUnentered
    /\ Arities
    /\ PlacesWhatWasEntered

-----------------------------------------------------------------------------
LEMMA ArityDomain ==
    DOMAIN Arity = {"place", "open_orders", "cancel", "modify", "account_summary",
                    "order_book", "ticker", "instruments"}
    BY DEF Arity

LEMMA ConsoleInit == Init => ConsoleInv
  <1> SUFFICES ASSUME Init PROVE ConsoleInv
    OBVIOUS
  <1>1. Types
    <2>1. \A S : <<>> \in Seq(S)
      OBVIOUS
    <2> QED
      BY <2>1 DEF Init, Types
  <1>2. Position
    BY ArityDomain DEF Init, Position
  <1>3. LoopIsLast /\ Sincere /\ LastIsUnentered /\ Arities /\ PlacesWhatWasEntered
    BY DEF Init, LoopIsLast, Sincere, LastIsUnentered, Arities, PlacesWhatWasEntered
  <1> QED
    BY <1>1, <1>2, <1>3 DEF ConsoleInv

\* What the handlers do to the calls: nothing, but for MakeCall.
LEMMA CallsStay ==
    ASSUME ConsoleInv, calls' = calls, failed => failed',
           at' \notin {"menu", "calling", "exited"} =>
               \A i \in DOMAIN calls : Entered(calls[i])
    PROVE  LastIsUnentered' /\ Arities' /\ PlacesWhatWasEntered'
    BY DEF ConsoleInv, LastIsUnentered, Arities, PlacesWhatWasEntered, Entered

\* A read takes one answer, and one that was not entered fails the stream.
LEMMA GotOne ==
    ASSUME ConsoleInv, NEW source \in Sources, Got(source), calls' = calls,
           asked # <<>>, Head(asked) # "choice", Head(asked) # "count",
           rest' \in Words \cup {Nothing}, blank' \in BOOLEAN, failed' \in BOOLEAN,
           failed => failed',
           source \in Given \/ failed',
           Head(asked) = "type" => ~failed'
    PROVE  ConsoleInv'
  <1>1. Types'
    BY DEF ConsoleInv, Types, Got
  <1>2. at \notin {"menu", "calling", "exited", "market_data"}
    BY DEF ConsoleInv, Position
  <1>3. Len(args') = Len(args) + 1 /\ Len(asked') = Len(asked) - 1
    BY DEF ConsoleInv, Types, Got
  <1>4. \A i \in DOMAIN asked' : asked'[i] = asked[i + 1] /\ i + 1 \in DOMAIN asked
    BY DEF ConsoleInv, Types, Got
  <1>5. \A i \in DOMAIN args' : args'[i] = source \/ (i \in DOMAIN args /\ args'[i] = args[i])
    BY DEF ConsoleInv, Types, Got
  <1>6. Position'
    <2>1. at' = at
      BY DEF Got
    <2>2. Len(args) \in Nat /\ Len(asked) \in Nat
      BY DEF ConsoleInv, Types
    <2> QED
      BY <1>2, <1>3, <1>4, <2>1, <2>2, ArityDomain DEF ConsoleInv, Position, Arity
  <1>7. LoopIsLast'
    <2>1. CASE Len(asked) = 1
      BY <2>1, <1>1, <1>3 DEF ConsoleInv, Types, LoopIsLast, Got
    <2>2. CASE Len(asked) # 1
      <3>1. Len(asked) > 1 /\ asked' # <<>>
        <4>1. Len(asked) \in Nat \ {0}
          BY DEF ConsoleInv, Types
        <4> QED
          BY <2>2, <1>3, <4>1
      <3>2. asked'[Len(asked')] = asked[Len(asked)]
        BY <3>1, <1>3, <1>4, <1>1 DEF ConsoleInv, Types, Got
      <3> QED
        BY <3>1, <3>2 DEF ConsoleInv, LoopIsLast, Got
    <2> QED
      BY <2>1, <2>2
  <1>8. Sincere'
    BY <1>5 DEF ConsoleInv, Sincere
  <1>9. LastIsUnentered' /\ Arities' /\ PlacesWhatWasEntered'
    BY <1>2, CallsStay DEF ConsoleInv, LastIsUnentered
  <1> QED
    BY <1>1, <1>6, <1>7, <1>8, <1>9 DEF ConsoleInv

LEMMA SourceIsGiven == Source \in Given
    BY DEF Source, Given

LEMMA WordsAreWords ==
    ConsoleInv => \A w \in NextWords : ~failed /\ w \in Words
    BY WordsAssumption DEF ConsoleInv, Types, NextWords

\* Reading at the end of the input, or from a failed stream, fails.
LEMMA NoInputFails ==
    ConsoleInv /\ NoInput => /\ failed' = TRUE
                             /\ blank' = FALSE
                             /\ rest' \in Words \cup {Nothing}
    BY DEF ConsoleInv, Types, NoInput

LEMMA TakesKeeps ==
    ASSUME ConsoleInv, NEW left \in Words \cup {Nothing}, Takes(left)
    PROVE  failed' = failed /\ blank' = FALSE /\ rest' \in Words \cup {Nothing}
    BY DEF Takes

LEMMA ReadWordKeeps == ConsoleInv /\ ReadWord => ConsoleInv'
  <1> SUFFICES ASSUME ConsoleInv, ReadWord PROVE ConsoleInv'
    OBVIOUS
  <1>0. Reading("word") /\ failed \in BOOLEAN
    BY DEF ReadWord, ConsoleInv, Types
  <1>1. CASE \E w \in NextWords : Takes(Nothing) /\ Got(Source)
    <2>1. Source \in Given /\ Source \in Sources
      BY SourceIsGiven DEF Given, Sources
    <2>2. ~failed /\ failed' = failed /\ blank' = FALSE /\ rest' \in Words \cup {Nothing}
      BY <1>1, WordsAreWords, TakesKeeps
    <2> QED
      BY <1>0, <1>1, <2>1, <2>2, GotOne DEF Reading
  <1>2. CASE NoInput /\ Got("unset")
    <2>1. "unset" \in Sources
      BY DEF Sources
    <2> QED
      BY <1>0, <1>2, <2>1, NoInputFails, GotOne DEF Reading
  <1> QED
    BY <1>1, <1>2 DEF ReadWord

LEMMA ReadNumberKeeps == ConsoleInv /\ ReadNumber => ConsoleInv'
  <1> SUFFICES ASSUME ConsoleInv, ReadNumber PROVE ConsoleInv'
    OBVIOUS
  <1>0. Reading("number") /\ failed \in BOOLEAN
    BY DEF ReadNumber, ConsoleInv, Types
  <1>1. ASSUME NEW w \in NextWords \cap DOMAIN AsDouble, Takes(AsDouble[w]), Got(Source)
        PROVE  ConsoleInv'
    <2>1. Source \in Given /\ Source \in Sources
      BY SourceIsGiven DEF Given, Sources
    <2>2. AsDouble[w] \in Words \cup {Nothing}
      BY WordsAssumption
    <2>3. ~failed /\ failed' = failed /\ blank' = FALSE /\ rest' \in Words \cup {Nothing}
      BY <1>1, <2>2, WordsAreWords, TakesKeeps
    <2> QED
      BY <1>0, <1>1, <2>1, <2>3, GotOne DEF Reading
  <1>2. ASSUME NEW w \in NextWords \ DOMAIN AsDouble, Rejects(w), Got("zero")
        PROVE  ConsoleInv'
    <2>1. "zero" \in Sources
      BY DEF Sources
    <2>2. failed' = TRUE /\ blank' = FALSE /\ rest' \in Words \cup {Nothing}
      BY <1>2, WordsAreWords DEF Rejects
    <2> QED
      BY <1>0, <1>2, <2>1, <2>2, GotOne DEF Reading
  <1>3. CASE NoInput /\ Got("unset")
    <2>1. "unset" \in Sources
      BY DEF Sources
    <2> QED
      BY <1>0, <1>3, <2>1, NoInputFails, GotOne DEF Reading
  <1> QED
    BY <1>1, <1>2, <1>3 DEF ReadNumber

\* A step that only reads from the stream keeps what is known of the handler,
\* if a placement has still to leave its loop.
LEMMA OnlyReads ==
    ASSUME ConsoleInv, UNCHANGED <<at, asked, args, calls>>,
           rest' \in Words \cup {Nothing}, blank' \in BOOLEAN, failed' \in BOOLEAN,
           failed => failed', failed' => failed \/ asked # <<>> \/ at = "menu"
    PROVE  ConsoleInv'
  <1>1. Types' /\ Position' /\ Sincere'
    BY DEF ConsoleInv, Types, Position, Sincere
  <1>2. LoopIsLast'
    BY DEF ConsoleInv, LoopIsLast
  <1>3. LastIsUnentered' /\ Arities' /\ PlacesWhatWasEntered'
    BY CallsStay DEF ConsoleInv, LastIsUnentered
  <1> QED
    BY <1>1, <1>2, <1>3 DEF ConsoleInv

LEMMA ReadOrderTypeKeeps == ConsoleInv /\ ReadOrderType => ConsoleInv'
  <1> SUFFICES ASSUME ConsoleInv, ReadOrderType PROVE ConsoleInv'
    OBVIOUS
  <1>0. Reading("type") /\ failed \in BOOLEAN
    BY DEF ReadOrderType, ConsoleInv, Types
  <1>1. CASE \E w \in NextWords \cap {"1", "2"} : Takes(Nothing) /\ Got(Source)
    <2>1. Source \in Given /\ Source \in Sources
      BY SourceIsGiven DEF Given, Sources
    <2>2. ~failed /\ failed' = failed /\ blank' = FALSE /\ rest' \in Words \cup {Nothing}
      BY <1>1, WordsAreWords, TakesKeeps
    <2> QED
      BY <1>0, <1>1, <2>1, <2>2, GotOne DEF Reading
  <1>2. CASE \E w \in NextWords \ {"1", "2"} : Takes(Nothing) /\ UNCHANGED <<at, args, asked>>
    <2>2. failed' = failed /\ blank' = FALSE /\ rest' \in Words \cup {Nothing}
      BY <1>2, TakesKeeps
    <2> QED
      BY <1>0, <1>2, <2>2, OnlyReads DEF Reading
  <1>3. CASE NoInput /\ UNCHANGED <<at, args, asked>>
    BY <1>0, <1>3, NoInputFails, OnlyReads DEF Reading
  <1> QED
    BY <1>1, <1>2, <1>3 DEF ReadOrderType

LEMMA EmptyLineKeeps == ConsoleInv /\ EmptyLine => ConsoleInv'
    BY OnlyReads DEF EmptyLine, ConsoleInv, Types

-----------------------------------------------------------------------------
\* From the menu, which has not failed, the user enters a handler.
LEMMA EnterKeeps ==
    ASSUME ConsoleInv, at = "menu", ~failed, UNCHANGED <<failed, args, calls>>,
           rest' \in Words \cup {Nothing}, blank' \in BOOLEAN,
           NEW h \in {"place", "open_orders", "cancel", "modify", "account_summary",
                      "market_data", "stream", "exited", "menu"},
           Enter(h)
    PROVE  ConsoleInv'
  <1>1. at' = h /\ asked' = Prompts(h) /\ args' = <<>>
    BY DEF Enter, ConsoleInv, Position
  <1>2. Prompts(h) \in Seq(Reads) /\ h \in CallNames \cup {"menu", "market_data", "exited"}
    <2>1. h \in CallNames \cup {"menu", "market_data", "exited"}
      BY ArityDomain DEF CallNames
    <2>2. CASE h = "place"
      BY <2>1, <2>2 DEF Prompts, Reads
    <2>3. CASE h = "modify"
      BY <2>1, <2>3 DEF Prompts, Reads
    <2>4. CASE h \in {"cancel", "account_summary"}
      <3>1. Prompts(h) = <<"word">>
        BY <2>4 DEF Prompts
      <3> QED
        BY <2>1, <3>1 DEF Reads
    <2>5. CASE h = "market_data"
      BY <2>1, <2>5 DEF Prompts, Reads
    <2>6. CASE h = "stream"
      BY <2>1, <2>6 DEF Prompts, Reads
    <2>7. CASE h \in {"open_orders", "exited", "menu"}
      BY <2>1, <2>7 DEF Prompts, Reads
    <2> QED
      BY <2>2, <2>3, <2>4, <2>5, <2>6, <2>7
  <1>3. Types'
    BY <1>1, <1>2 DEF ConsoleInv, Types
  <1>4. Position'
    <2>1. CASE h \in {"menu", "exited"}
      BY <1>1, <2>1, ArityDomain DEF Position, Prompts
    <2>2. CASE h = "market_data"
      BY <1>1, <2>2, ArityDomain DEF Position, Prompts
    <2>3. CASE h = "stream"
      BY <1>1, <2>3, ArityDomain DEF Position, Prompts
    <2>4. CASE h \in {"place", "modify"}
      BY <1>1, <2>4, ArityDomain DEF Position, Prompts, Arity
    <2>5. CASE h \in {"open_orders", "cancel", "account_summary"}
      BY <1>1, <2>5, ArityDomain DEF Position, Prompts, Arity
    <2> QED
      BY <2>1, <2>2, <2>3, <2>4, <2>5
  <1>5. LoopIsLast'
    <2>1. CASE h = "place"
      BY <1>1, <2>1 DEF LoopIsLast, Prompts
    <2> QED
      BY <1>1, <2>1 DEF LoopIsLast
  <1>6. Sincere'
    BY <1>1 DEF Sincere
  <1>7. LastIsUnentered' /\ Arities' /\ PlacesWhatWasEntered'
    BY CallsStay DEF ConsoleInv, LastIsUnentered
  <1> QED
    BY <1>3, <1>4, <1>5, <1>6, <1>7 DEF ConsoleInv

LEMMA ChooseOptionKeeps == ConsoleInv /\ ChooseOption => ConsoleInv'
  <1> SUFFICES ASSUME ConsoleInv, ChooseOption PROVE ConsoleInv'
    OBVIOUS
  <1>1. ASSUME NEW w \in NextWords, Takes(Nothing), Enter(Option(w))
        PROVE  ConsoleInv'
    <2>1. Option(w) \in {"place", "open_orders", "cancel", "modify", "account_summary",
                         "market_data", "stream", "exited", "menu"}
      BY DEF Option
    <2>2. ~failed /\ failed' = failed /\ blank' = FALSE /\ rest' \in Words \cup {Nothing}
      BY <1>1, WordsAreWords, TakesKeeps
    <2> QED
      BY <1>1, <2>1, <2>2, EnterKeeps DEF ChooseOption
  <1>2. CASE NoInput /\ Enter("menu")
    <2>1. UNCHANGED <<at, asked>>
      BY <1>2 DEF ChooseOption, Enter, Prompts, ConsoleInv, Position
    <2> QED
      BY <1>2, <2>1, NoInputFails, OnlyReads DEF ChooseOption
  <1> QED
    BY <1>1, <1>2 DEF ChooseOption

\* Only the market data handler asks for a choice, and only the stream for a count.
LEMMA WhoAsks ==
    ASSUME ConsoleInv, asked # <<>>
    PROVE  /\ Head(asked) = "choice" => at = "market_data"
           /\ Head(asked) = "count" => at = "stream"
  <1>1. 1 \in DOMAIN asked /\ Head(asked) = asked[1]
    BY DEF ConsoleInv, Types
  <1>2. at \in DOMAIN Arity \cup {"stream", "menu", "market_data", "calling", "exited"}
    BY DEF ConsoleInv, Types, CallNames
  <1> QED
    BY <1>1, <1>2 DEF ConsoleInv, Position

LEMMA ReadMarketChoiceKeeps == ConsoleInv /\ ReadMarketChoice => ConsoleInv'
  <1> SUFFICES ASSUME ConsoleInv, ReadMarketChoice PROVE ConsoleInv'
    OBVIOUS
  <1>1. at = "market_data" /\ args = <<>>
    BY WhoAsks DEF ReadMarketChoice, Reading, ConsoleInv, Position
  <1>2. UNCHANGED <<args, calls>>
    BY DEF ReadMarketChoice, Reading
  <1>3. /\ rest' \in Words \cup {Nothing} /\ blank' \in BOOLEAN /\ failed' \in BOOLEAN
        /\ failed => failed'
    BY TakesKeeps, NoInputFails DEF ReadMarketChoice, ConsoleInv, Types
  <1>4. \/ at' \in {"order_book", "ticker"} /\ asked' = <<"word">>
        \/ at' = "instruments" /\ asked' = <<"word", "word">>
        \/ at' = "menu" /\ asked' = <<>>
    BY DEF ReadMarketChoice, MarketChoice, Asks
  <1>5. Types'
    <2>1. asked' \in Seq(Reads)
      <3>1. <<>> \in Seq(Reads) /\ <<"word">> \in Seq(Reads) /\ <<"word", "word">> \in Seq(Reads)
        BY DEF Reads
      <3> QED
        BY <1>4, <3>1
    <2>2. at' \in CallNames \cup {"menu"}
      BY <1>4, ArityDomain DEF CallNames
    <2> QED
      BY <1>2, <1>3, <2>1, <2>2 DEF ConsoleInv, Types
  <1>6. Position'
    <2>1. CASE at' \in {"order_book", "ticker"} /\ asked' = <<"word">>
      BY <1>1, <1>2, <2>1, ArityDomain DEF Position, Arity
    <2>2. CASE at' = "instruments" /\ asked' = <<"word", "word">>
      BY <1>1, <1>2, <2>2, ArityDomain DEF Position, Arity
    <2>3. CASE at' = "menu" /\ asked' = <<>>
      BY <1>1, <1>2, <2>3, ArityDomain DEF Position
    <2> QED
      BY <1>4, <2>1, <2>2, <2>3
  <1>7. LoopIsLast' /\ Sincere'
    BY <1>1, <1>2, <1>4 DEF LoopIsLast, Sincere
  <1>8. LastIsUnentered' /\ Arities' /\ PlacesWhatWasEntered'
    BY <1>1, <1>2, <1>3, CallsStay DEF ConsoleInv, LastIsUnentered
  <1> QED
    BY <1>5, <1>6, <1>7, <1>8 DEF ConsoleInv

LEMMA ReadCountKeeps == ConsoleInv /\ ReadCount => ConsoleInv'
  <1> SUFFICES ASSUME ConsoleInv, ReadCount PROVE ConsoleInv'
    OBVIOUS
  <1>1. at = "stream"
    BY WhoAsks DEF ReadCount, Reading
  <1>2. UNCHANGED <<at, args, calls>>
    BY DEF ReadCount, Reading
  <1>3. /\ rest' \in Words \cup {Nothing} /\ blank' \in BOOLEAN /\ failed' \in BOOLEAN
        /\ failed => failed'
    <2>1. \A w \in NextWords \cap DOMAIN AsInt : AsInt[w] \in Words \cup {Nothing}
      BY WordsAssumption
    <2>2. \A w \in NextWords : Rejects(w) =>
              failed' = TRUE /\ blank' = FALSE /\ rest' \in Words \cup {Nothing}
      BY WordsAreWords DEF Rejects
    <2> QED
      BY <2>1, <2>2, TakesKeeps, NoInputFails DEF ReadCount, ConsoleInv, Types
  <1>4. \A n \in Nat : Symbols(n) \in Seq({"word"})
    BY DEF Symbols
  <1>5. asked' \in Seq({"word"})
    <2>1. ASSUME NEW w \in NextWords \cap DOMAIN AsInt
          PROVE  IntOf[w] \in Nat
      BY WordsAssumption
    <2>2. 0..MaxSymbols \subseteq Nat /\ <<>> \in Seq({"word"})
      BY ConsoleBounds
    <2> QED
      BY <1>4, <2>1, <2>2 DEF ReadCount
  <1>6. Types'
    BY <1>2, <1>3, <1>5 DEF ConsoleInv, Types, Reads
  <1>7. Position'
    BY <1>1, <1>2, <1>5, ArityDomain DEF Position
  <1>8. LoopIsLast' /\ Sincere'
    BY <1>1, <1>2, <1>3 DEF ConsoleInv, LoopIsLast, Sincere
  <1>9. LastIsUnentered' /\ Arities' /\ PlacesWhatWasEntered'
    BY <1>1, <1>2, <1>3, CallsStay DEF ConsoleInv, LastIsUnentered
  <1> QED
    BY <1>6, <1>7, <1>8, <1>9 DEF ConsoleInv

\* What was asked for is all read, and what was not entered the stream refused.
LEMMA MakeCallKeeps == ConsoleInv /\ MakeCall => ConsoleInv'
  <1> SUFFICES ASSUME ConsoleInv, MakeCall PROVE ConsoleInv'
    OBVIOUS
  <1> DEFINE call == [call |-> at, args |-> args]
  <1>1. /\ at \in CallNames /\ asked = <<>> /\ at' = "calling" /\ args' = <<>>
        /\ calls' = Append(calls, call) /\ UNCHANGED <<asked, stream>>
    BY DEF MakeCall
  <1>2. call \in [call : CallNames, args : Seq(Sources)]
    BY <1>1 DEF ConsoleInv, Types
  <1>3. /\ Len(calls') = Len(calls) + 1 /\ calls'[Len(calls')] = call
        /\ \A i \in DOMAIN calls' :
              i = Len(calls') \/ (i \in DOMAIN calls /\ calls'[i] = calls[i])
    BY <1>1, <1>2 DEF ConsoleInv, Types
  <1>4. Types'
    BY <1>1, <1>2 DEF ConsoleInv, Types, stream
  <1>5. Position' /\ LoopIsLast' /\ Sincere'
    BY <1>1, ArityDomain DEF Position, LoopIsLast, Sincere
  <1>6. ~failed => Entered(call)
    BY DEF ConsoleInv, Sincere, Entered, Given
  <1>7. at \notin {"menu", "calling", "exited"}
    BY <1>1, ArityDomain DEF CallNames
  <1>8. \A i \in DOMAIN calls : Entered(calls[i])
    BY <1>7 DEF ConsoleInv, LastIsUnentered
  <1>9. LastIsUnentered'
    BY <1>1, <1>3, <1>6, <1>8 DEF LastIsUnentered, stream, ConsoleInv, Types, Entered
  <1>10. Arities'
    <2>1. at # "stream" => Len(args) = Arity[at]
      BY <1>1 DEF ConsoleInv, Position, Types, CallNames
    <2> QED
      BY <1>3, <2>1 DEF Arities, ConsoleInv
  <1>11. PlacesWhatWasEntered'
    <2>1. at = "place" => Entered(call)
      BY <1>1, <1>6 DEF ConsoleInv, LoopIsLast
    <2> QED
      BY <1>3, <1>8, <2>1 DEF PlacesWhatWasEntered, Entered
  <1> QED
    BY <1>4, <1>5, <1>9, <1>10, <1>11 DEF ConsoleInv

LEMMA CallReturnsKeeps == ConsoleInv /\ CallReturns => ConsoleInv'
  <1> SUFFICES ASSUME ConsoleInv, CallReturns PROVE ConsoleInv'
    OBVIOUS
  <1>1. /\ at = "calling" /\ at' \in {"menu", "exited"}
        /\ UNCHANGED <<asked, args, calls, rest, blank, failed>>
    BY DEF CallReturns, stream
  <1>2. Types'
    BY <1>1 DEF ConsoleInv, Types
  <1>3. Position' /\ LoopIsLast' /\ Sincere'
    BY <1>1, ArityDomain DEF ConsoleInv, Position, LoopIsLast, Sincere
  <1>4. LastIsUnentered' /\ Arities' /\ PlacesWhatWasEntered'
    BY <1>1, CallsStay
  <1> QED
    BY <1>2, <1>3, <1>4 DEF ConsoleInv

LEMMA ConsoleNext == ConsoleInv /\ [Next]_vars => ConsoleInv'
  <1> SUFFICES ASSUME ConsoleInv, [Next]_vars PROVE ConsoleInv'
    OBVIOUS
  <1>1. CASE UNCHANGED vars
    BY <1>1 DEF vars, stream, ConsoleInv, Types, Position, LoopIsLast, Sincere,
       LastIsUnentered, Arities, PlacesWhatWasEntered, Entered
  <1> QED
    BY <1>1, EmptyLineKeeps, ChooseOptionKeeps, ReadWordKeeps, ReadNumberKeeps,
       ReadOrderTypeKeeps, ReadMarketChoiceKeeps, ReadCountKeeps, MakeCallKeeps,
       CallReturnsKeeps DEF Next

LEMMA ConsoleInvariance == Spec => []ConsoleInv
    BY ConsoleInit, ConsoleNext, PTL DEF Spec

-----------------------------------------------------------------------------
\* Every variable has its type, and every call its arguments (TypeOK).
THEOREM ConsoleTypes == Spec => []TypeOK
  <1>1. ConsoleInv => TypeOK
    BY DEF ConsoleInv, Types, Arities, TypeOK
  <1> QED
    BY <1>1, ConsoleInvariance, PTL

\* No order is placed with a value the user did not enter (main.cpp:34).
THEOREM OrdersAreEntered == Spec => []PlacesWhatWasEntered
  <1>1. ConsoleInv => PlacesWhatWasEntered
    BY DEF ConsoleInv
  <1> QED
    BY <1>1, ConsoleInvariance, PTL

\* A call made with a value the user did not enter is the last (main.cpp:345).
THEOREM UnenteredCallIsLast == Spec => []NothingAfterAFailedRead
  <1>1. ConsoleInv => NothingAfterAFailedRead
    BY DEF ConsoleInv, LastIsUnentered, NothingAfterAFailedRead
  <1> QED
    BY <1>1, ConsoleInvariance, PTL

-----------------------------------------------------------------------------
(***************************************************************************)
(* What the queries show: the theorems are about the terminal, of which    *)
(* Displays is the screen.  Neither property is inductive: that the        *)
(* process ends only for lack of something needs that the rows passed so   *)
(* far lacked nothing (Passed).                                            *)
(***************************************************************************)
\* The answers have the shape of their display.
Shape ==
    /\ pc \in {"menu", "answered", "rows", "exit1", "aborted"}
    /\ display \in Screen!Tables \cup Screen!Records \cup {"order_book"}
    /\ answer.kind \in {"failed", "garbage", "no_result", "result"}
    /\ answer.kind = "result" /\ display \in Screen!Tables => answer.rows \in Seq(Screen!Field)
    /\ answer.kind = "result" /\ display \notin Screen!Tables => answer.head \in Screen!Field
    /\ answer.kind = "result" /\ display = "order_book" => answer.bids \in Nat /\ answer.asks \in Nat

\* The rows shown are those before the loop variable.
Rows ==
    /\ row \in Nat \ {0}
    /\ shown \in Seq(Nat)
    /\ \A i \in DOMAIN shown : shown[i] = i
    /\ pc = "answered" => shown = <<>> /\ row = 1
    /\ pc = "rows" => Len(shown) = row - 1
    /\ pc = "menu" => Len(shown) = Screen!Owed

\* A display that goes through its rows has an answer that lacks nothing of those shown.
Passed ==
    pc = "rows" =>
        /\ answer.kind = "result" /\ display \notin Screen!Records
        /\ display \in Screen!Tables =>
              /\ row <= Len(answer.rows) + 1
              /\ \A i \in 1 .. row - 1 : answer.rows[i] = "value"
        /\ display = "order_book" =>
              /\ answer.head = "value" /\ row <= Screen!Depth + 1
              /\ row - 1 <= answer.bids /\ row - 1 <= answer.asks

DisplaysInv == Shape /\ Rows /\ Passed /\ Screen!EndsOnlyForLack

-----------------------------------------------------------------------------
LEMMA DisplayNames ==
    /\ Screen!Tables = {"open_orders", "instruments"}
    /\ Screen!Records = {"account_summary", "ticker"}
    /\ Screen!Depth = 5
    BY DEF Screen!Tables, Screen!Records, Screen!Depth

\* A row is shown behind those before it.
LEMMA OneMoreRow ==
    ASSUME NEW s \in Seq(Nat), NEW n \in Nat \ {0}, Len(s) = n - 1, \A i \in DOMAIN s : s[i] = i
    PROVE  /\ Append(s, n) \in Seq(Nat) /\ Len(Append(s, n)) = n
           /\ \A i \in DOMAIN Append(s, n) : Append(s, n)[i] = i
    OBVIOUS

LEMMA InitDisplaysInv == Screen!Init => DisplaysInv
    BY DisplayNames
       DEF Screen!Init, DisplaysInv, Shape, Rows, Passed, Screen!EndsOnlyForLack, Screen!Lacking,
           Screen!Owed

LEMMA AnswerShape ==
    ASSUME NEW d \in Screen!Tables \cup Screen!Records \cup {"order_book"},
           NEW a \in Screen!Answers(d)
    PROVE  /\ a.kind \in {"failed", "garbage", "no_result", "result"}
           /\ a.kind = "result" /\ d \in Screen!Tables => a.rows \in Seq(Screen!Field)
           /\ a.kind = "result" /\ d \notin Screen!Tables => a.head \in Screen!Field
           /\ a.kind = "result" /\ d = "order_book" => a.bids \in Nat /\ a.asks \in Nat
  <1>1. CASE a \in {[kind |-> k] : k \in {"failed", "garbage", "no_result"}}
    BY <1>1
  <1>2. CASE a \in Screen!Results(d)
    <2>1. CASE d \in Screen!Tables
      <3>1. a \in [kind : {"result"}, rows : Screen!SeqOf(Screen!Field, MaxRows)]
        BY <1>2, <2>1 DEF Screen!Results
      <3>2. PICK m \in 0 .. MaxRows : a.rows \in [1 .. m -> Screen!Field]
        BY <3>1, DisplaysAssumption DEF Screen!SeqOf
      <3>3. a.rows \in Seq(Screen!Field)
        BY <3>2, DisplaysAssumption
      <3> QED
        BY <2>1, <3>1, <3>3, DisplayNames
    <2>2. CASE d \in Screen!Records
      BY <1>2, <2>2, DisplayNames DEF Screen!Results
    <2>3. CASE d = "order_book"
      BY <1>2, <2>3, DisplayNames, DisplaysAssumption DEF Screen!Results
    <2> QED
      BY <2>1, <2>2, <2>3
  <1> QED
    BY <1>1, <1>2 DEF Screen!Answers

\* A command is asked for.
LEMMA RequestStep ==
    ASSUME DisplaysInv, NEW d \in Screen!Tables \cup Screen!Records \cup {"order_book"},
           Screen!Request(d)
    PROVE  DisplaysInv'
  <1>1. /\ pc' = "answered" /\ display' = d /\ answer' \in Screen!Answers(d) /\ row' = 1
        /\ shown' = <<>>
    BY DEF Screen!Request
  <1>2. Shape'
    BY <1>1, AnswerShape DEF Shape
  <1>3. Rows'
    BY <1>1 DEF Rows
  <1>4. Passed' /\ Screen!EndsOnlyForLack'
    BY <1>1 DEF Passed, Screen!EndsOnlyForLack
  <1> QED
    BY <1>2, <1>3, <1>4 DEF DisplaysInv

\* A step that shows nothing keeps everything but the place.
LEMMA GoesStep ==
    ASSUME DisplaysInv, NEW to \in {"menu", "rows", "exit1", "aborted"}, Screen!Goes(to), shown' = shown,
           to = "menu" => Len(shown) = Screen!Owed /\ ~Screen!Lacking,
           to = "rows" => Len(shown) = row - 1 /\ Passed',
           to \in {"exit1", "aborted"} => Screen!Lacking,
           to = "exit1" /\ answer.kind = "result" /\ display = "order_book" /\ answer.head = "value" =>
              Len(shown) = (IF answer.bids < answer.asks THEN answer.bids ELSE answer.asks)
    PROVE  DisplaysInv'
  <1>1. pc' = to /\ UNCHANGED <<command, display, answer, row, shown>>
    BY DEF Screen!Goes
  <1>2. Shape'
    BY <1>1 DEF DisplaysInv, Shape
  <1>3. (Screen!Owed)' = Screen!Owed /\ (Screen!Lacking' <=> Screen!Lacking)
    BY <1>1 DEF Screen!Owed, Screen!Lacking
  <1>4. Rows'
    BY <1>1, <1>3 DEF DisplaysInv, Rows
  <1>5. Passed'
    BY <1>1 DEF Passed
  <1>6. Screen!EndsOnlyForLack'
    BY <1>1, <1>3 DEF Screen!EndsOnlyForLack
  <1> QED
    BY <1>2, <1>4, <1>5, <1>6 DEF DisplaysInv

\* A row is shown, and the display goes on with the next.
LEMMA ShowsRow ==
    ASSUME DisplaysInv, pc = "rows", Screen!Shows, row' = row + 1,
           UNCHANGED <<pc, command, display, answer>>, Passed'
    PROVE  DisplaysInv'
  <1>1. Shape'
    BY DEF DisplaysInv, Shape
  <1>2. shown' = Append(shown, row) /\ row \in Nat \ {0} /\ Len(shown) = row - 1
        /\ shown \in Seq(Nat) /\ \A i \in DOMAIN shown : shown[i] = i
    BY DEF DisplaysInv, Rows, Screen!Shows
  <1>3. Rows'
    BY <1>2, OneMoreRow DEF Rows
  <1>4. Screen!EndsOnlyForLack'
    BY DEF Screen!EndsOnlyForLack
  <1> QED
    BY <1>1, <1>3, <1>4 DEF DisplaysInv

LEMMA AboveStep ==
    DisplaysInv /\ Screen!Above => DisplaysInv'
  <1> SUFFICES ASSUME DisplaysInv, Screen!Above PROVE DisplaysInv'
    OBVIOUS
  <1>0. /\ pc = "answered" /\ answer.kind = "result" /\ shown = <<>> /\ row = 1
        /\ display \in Screen!Tables \cup Screen!Records \cup {"order_book"}
    BY DEF DisplaysInv, Screen!Above, Shape, Rows
  <1>1. CASE display \in Screen!Tables
    <2>1. Screen!Goes("rows") /\ shown' = shown
      BY <1>1 DEF Screen!Above, Screen!Quiet
    <2>2. Passed'
      BY <1>0, <1>1, <2>1, DisplayNames DEF Passed, Screen!Goes, DisplaysInv, Shape
    <2> QED
      BY <1>0, <2>1, <2>2, GoesStep
  <1>2. CASE display \notin Screen!Tables /\ answer.head # "value"
    <2>1. Screen!Goes("exit1") /\ shown' = shown
      BY <1>2 DEF Screen!Above, Screen!Quiet
    <2>2. Screen!Lacking
      BY <1>0, <1>2 DEF Screen!Lacking
    <2> QED
      BY <1>2, <2>1, <2>2, GoesStep
  <1>3. CASE display = "order_book" /\ answer.head = "value"
    <2>1. Screen!Goes("rows") /\ shown' = shown
      BY <1>3, DisplayNames DEF Screen!Above, Screen!Quiet
    <2>2. Passed'
      BY <1>0, <1>3, <2>1, DisplayNames DEF Passed, Screen!Goes, DisplaysInv, Shape
    <2> QED
      BY <1>0, <2>1, <2>2, GoesStep
  <1>4. CASE display \in Screen!Records /\ answer.head = "value"
    <2>1. Screen!Goes("menu") /\ shown' = <<1>>
      BY <1>0, <1>4, DisplayNames DEF Screen!Above, Screen!Shows
    <2>2. pc' = "menu" /\ UNCHANGED <<command, display, answer, row>>
      BY <2>1 DEF Screen!Goes
    <2>3. Shape'
      BY <2>2 DEF DisplaysInv, Shape
    <2>4. (Screen!Owed)' = 1 /\ ~Screen!Lacking'
      BY <1>0, <1>4, <2>2, DisplayNames DEF Screen!Owed, Screen!Lacking
    <2>5. Rows'
      BY <1>0, <2>1, <2>2, <2>4 DEF Rows
    <2>6. Passed' /\ Screen!EndsOnlyForLack'
      BY <2>2, <2>4 DEF Passed, Screen!EndsOnlyForLack
    <2> QED
      BY <2>3, <2>5, <2>6 DEF DisplaysInv
  <1> QED
    BY <1>0, <1>1, <1>2, <1>3, <1>4, DisplayNames
\* Nothing is there to show.
LEMMA EndOfAnswerStep ==
    DisplaysInv /\ (Screen!NothingToShow \/ Screen!NotJson) => DisplaysInv'
  <1> SUFFICES ASSUME DisplaysInv, Screen!NothingToShow \/ Screen!NotJson PROVE DisplaysInv'
    OBVIOUS
  <1>1. CASE Screen!NothingToShow
    <2>1. /\ pc = "answered" /\ answer.kind \in {"failed", "no_result"} /\ Screen!Goes("menu")
          /\ shown' = shown
      BY <1>1 DEF Screen!NothingToShow, Screen!Quiet
    <2>2. Len(shown) = Screen!Owed /\ ~Screen!Lacking
      BY <2>1 DEF DisplaysInv, Rows, Screen!Owed, Screen!Lacking
    <2> QED
      BY <2>1, <2>2, GoesStep
  <1>2. CASE Screen!NotJson
    <2>1. /\ pc = "answered" /\ answer.kind = "garbage" /\ Screen!Goes("exit1")
          /\ shown' = shown
      BY <1>2 DEF Screen!NotJson, Screen!Quiet
    <2> QED
      BY <2>1, GoesStep DEF Screen!Lacking
  <1> QED
    BY <1>1, <1>2

\* A row of a table is shown when it is complete, and ends the process otherwise.
LEMMA RowStep ==
    DisplaysInv /\ Screen!Row => DisplaysInv'
  <1> SUFFICES ASSUME DisplaysInv, Screen!Row PROVE DisplaysInv'
    OBVIOUS
  <1>0. /\ pc = "rows" /\ display \in Screen!Tables /\ row \in Nat \ {0} /\ row <= Len(answer.rows)
        /\ answer.kind = "result" /\ answer.rows \in Seq(Screen!Field) /\ display # "order_book"
    BY DisplayNames DEF DisplaysInv, Passed, Shape, Rows, Screen!Row
  <1>1. CASE answer.rows[row] = "value"
    <2>1. Screen!Shows /\ row' = row + 1 /\ UNCHANGED <<pc, command, display, answer>>
      BY <1>1 DEF Screen!Row
    <2>2. Passed'
      BY <1>0, <1>1, <2>1, DisplayNames DEF DisplaysInv, Passed
    <2> QED
      BY <1>0, <2>1, <2>2, ShowsRow
  <1>2. CASE answer.rows[row] # "value"
    <2>1. \E to \in {"exit1", "aborted"} : Screen!Goes(to) /\ shown' = shown
      BY <1>2 DEF Screen!Row
    <2>2. Screen!Lacking
      BY <1>0, <1>2 DEF Screen!Lacking
    <2> QED
      BY <1>0, <2>1, <2>2, GoesStep
  <1> QED
    BY <1>1, <1>2

\* A level is shown when both sides have it, and ends the process otherwise.
LEMMA LevelStep ==
    DisplaysInv /\ Screen!Level => DisplaysInv'
  <1> SUFFICES ASSUME DisplaysInv, Screen!Level PROVE DisplaysInv'
    OBVIOUS
  <1>0. /\ pc = "rows" /\ display = "order_book" /\ row \in Nat \ {0} /\ row <= Screen!Depth
        /\ Screen!Depth = 5 /\ answer.kind = "result" /\ answer.bids \in Nat /\ answer.asks \in Nat
        /\ row - 1 <= answer.bids /\ row - 1 <= answer.asks /\ Len(shown) = row - 1
    BY DisplayNames DEF DisplaysInv, Passed, Shape, Rows, Screen!Level
  <1>1. CASE row <= answer.bids /\ row <= answer.asks
    <2>1. Screen!Shows /\ row' = row + 1 /\ UNCHANGED <<pc, command, display, answer>>
      BY <1>1 DEF Screen!Level
    <2>2. Passed'
      BY <1>0, <1>1, <2>1, DisplayNames DEF DisplaysInv, Passed
    <2> QED
      BY <1>0, <2>1, <2>2, ShowsRow
  <1>2. CASE ~(row <= answer.bids /\ row <= answer.asks)
    <2>1. Screen!Goes("exit1") /\ shown' = shown
      BY <1>2 DEF Screen!Level
    <2>2. Screen!Lacking
      BY <1>0, <1>2, DisplayNames DEF Screen!Lacking
    <2>3. Len(shown) = (IF answer.bids < answer.asks THEN answer.bids ELSE answer.asks)
      BY <1>0, <1>2
    <2> QED
      BY <2>1, <2>2, <2>3, GoesStep
  <1> QED
    BY <1>1, <1>2

\* The rows are at their end, and lacked nothing.
LEMMA RowsEndStep ==
    DisplaysInv /\ Screen!RowsEnd => DisplaysInv'
  <1> SUFFICES ASSUME DisplaysInv, Screen!RowsEnd PROVE DisplaysInv'
    OBVIOUS
  <1>0. /\ pc = "rows" /\ Screen!Goes("menu") /\ shown' = shown
        /\ row \in Nat \ {0} /\ Len(shown) = row - 1
        /\ answer.kind = "result" /\ display \in Screen!Tables \cup {"order_book"}
    BY DEF DisplaysInv, Passed, Shape, Rows, Screen!RowsEnd, Screen!Quiet
  <1>1. CASE display = "order_book"
    <2>1. row = 6 /\ answer.head = "value" /\ answer.bids >= 5 /\ answer.asks >= 5
          /\ answer.bids \in Nat /\ answer.asks \in Nat
      BY <1>0, <1>1, DisplayNames DEF DisplaysInv, Passed, Shape, Screen!RowsEnd
    <2>2. Len(shown) = Screen!Owed /\ ~Screen!Lacking
      BY <1>0, <1>1, <2>1, DisplayNames DEF Screen!Owed, Screen!Lacking
    <2> QED
      BY <1>0, <2>2, GoesStep
  <1>2. CASE display \in Screen!Tables
    <2>1. /\ answer.rows \in Seq(Screen!Field) /\ row = Len(answer.rows) + 1
          /\ \A i \in 1 .. row - 1 : answer.rows[i] = "value"
      BY <1>0, <1>2, DisplayNames DEF DisplaysInv, Passed, Shape, Screen!RowsEnd
    <2>2. Len(shown) = Screen!Owed /\ ~Screen!Lacking
      BY <1>0, <1>2, <2>1, DisplayNames DEF Screen!Owed, Screen!Lacking
    <2> QED
      BY <1>0, <2>2, GoesStep
  <1> QED
    BY <1>0, <1>1, <1>2

LEMMA ScreenStep ==
    DisplaysInv /\ Screen!Next => DisplaysInv'
  <1> SUFFICES ASSUME DisplaysInv, Screen!Next PROVE DisplaysInv'
    OBVIOUS
  <1>1. CASE \E d \in Screen!Tables \cup Screen!Records \cup {"order_book"} : Screen!Request(d)
    BY <1>1, RequestStep
  <1>2. CASE Screen!NothingToShow \/ Screen!NotJson
    BY <1>2, EndOfAnswerStep
  <1>3. CASE Screen!Above
    BY <1>3, AboveStep
  <1>4. CASE Screen!Row
    BY <1>4, RowStep
  <1>5. CASE Screen!Level
    BY <1>5, LevelStep
  <1>6. CASE Screen!RowsEnd
    BY <1>6, RowsEndStep
  <1> QED
    BY <1>1, <1>2, <1>3, <1>4, <1>5, <1>6 DEF Screen!Next

\* While the user types, the screen stands still.
LEMMA StillScreen ==
    DisplaysInv /\ UNCHANGED screen => DisplaysInv'
  <1> SUFFICES ASSUME DisplaysInv, UNCHANGED screen PROVE DisplaysInv'
    OBVIOUS
  <1>1. UNCHANGED <<pc, command, display, answer, row, shown>>
    BY DEF screen
  <1>2. Shape' /\ Passed'
    BY <1>1 DEF DisplaysInv, Shape, Passed
  <1>3. (Screen!Owed)' = Screen!Owed /\ (Screen!Lacking' <=> Screen!Lacking)
    BY <1>1 DEF Screen!Owed, Screen!Lacking
  <1>4. Rows'
    BY <1>1, <1>3 DEF DisplaysInv, Rows
  <1>5. Screen!EndsOnlyForLack'
    BY <1>1, <1>3 DEF DisplaysInv, Screen!EndsOnlyForLack
  <1> QED
    BY <1>2, <1>4, <1>5 DEF DisplaysInv

\* The displays keep their invariant, with answers of any size and any number of commands.
THEOREM DisplaysHold == TerminalSpec => []DisplaysInv
  <1>1. TerminalInit => DisplaysInv
    BY InitDisplaysInv DEF TerminalInit
  <1>2. DisplaysInv /\ [TerminalNext]_<<vars, screen, part>> => DisplaysInv'
    BY ScreenStep, StillScreen DEF TerminalNext
  <1> QED
    BY <1>1, <1>2, PTL DEF TerminalSpec

\* What handleOpenOrder, handleAccountSummary and handleMarketData show of an answer is a
\* whole number of rows, each once and in its order, and all of them when they return.
THEOREM NoRowIsPassedOver == TerminalSpec => []ShownWholeOrNotAtAll
  <1>1. DisplaysInv => ShownWholeOrNotAtAll
    BY DEF DisplaysInv, Rows, ShownWholeOrNotAtAll, Screen!ShownWholeOrNotAtAll
  <1> QED
    BY <1>1, DisplaysHold, PTL

\* The process ends in a display exactly when the answer is no JSON or lacks a field the
\* display converts, and a short book has then been shown to its last whole level.
THEOREM DisplaysEndOnlyForLack == TerminalSpec => []EndsOnlyForLack
  <1>1. DisplaysInv => EndsOnlyForLack
    BY DEF DisplaysInv, EndsOnlyForLack
  <1> QED
    BY <1>1, DisplaysHold, PTL
=============================================================================
