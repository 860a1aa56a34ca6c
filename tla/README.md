# A TLA+ model of TradingTime

TradingTime is a console client for the Deribit test exchange: one C++ process,
one thread, a menu on standard input, HTTP calls made with libcurl, and a
WebSocket stream made with websocketpp; answers are read with nlohmann's json.
This directory holds its specifications: modules that TLC checks on small
instances, and theorems that TLAPS proves for every value of the constants.
`PROJECT.json` says which lines each definition stands for.

Contents: 1 inventory, 2 plan, 3 the modules and the code, 4 the runs, 5 bounds
and fairness, 6 what is proved, 7 findings, 8 what is not modelled.

## 1. Inventory

| Component | Code | State | Operations |
|---|---|---|---|
| Authentication | `auth.cpp`, `main.cpp` 326-338 | `access_token`, for the life of the process | `authenticate` once, before the menu |
| Order desk | `main.cpp` 18-139, 340-383 | none between commands: ids are what the user types | place, cancel, modify an order |
| DeribitAPI order calls | `manageOrders.cpp` 9-143 | none beyond the token | `placeOrder`, `cancelOrder`, `modifyOrder` (cancel, then place), `getOpenOrders` |
| Account summary, market data | `manageAccount.cpp`, `deribit_api.cpp`, `manageOrders.cpp` 145-171, `main.cpp` 141-305 | none | one query each, and its display |
| Console input | `main.cpp`, every `cin >>` | the stream: what is left of a word, the failbit | the prompts of the menu and of each handler |
| WebSocket stream | `webSocket.cpp` 54-125 | the connection, in websocketpp | `startWebSocket`: open handler, message handler, `run()` |
| Connection | `impl/connection_impl.hpp` | two state variables, a handshake timer, the send queue, what is being written | the handlers of every asynchronous operation, `send`, `terminate` |
| Transport | `transport/asio/{endpoint,connection}.hpp` | per stage an operation and a timer | `async_connect`, `init`, `async_shutdown` and their handlers |
| Frames | `processors/hybi13.hpp`, `frame.hpp` | the header and the two messages under construction | `consume` |
| HTTP response | `http/impl/response.hpp`, `parser.hpp` | the buffer, the state, the headers | `consume` |
| UTF-8 | `utf8_validator.hpp`; the scanner's own in `json.hpp` | decoder state | one byte |
| JSON scanner and parser | `json.hpp` | one character put back; two stacks and the document | `scan`, `parse`, the builder's callbacks |
| WebSocket reconnection, channel helpers | `webSocket.cpp` 15-52, 127-155 | an attempt counter | called from nowhere |
| The rest of `libs/` and `json.hpp`, build output | | vendored or generated | |

How they interact. `main` authenticates, then reads an option and calls a
handler; the handler reads its values, makes one DeribitAPI call (`modifyOrder`:
two) and tells the user what the answer says. Every call blocks in
`curl_easy_perform`, without a timeout. A call that fails returns `""`; most
handlers parse that, `json::parse` throws, and the `catch` in `main` (385) ends
the process. Nothing is persisted: after a restart only the exchange knows the
orders. `startWebSocket` keeps the thread in `run()` until nothing is left to
do for the connection, or a handler throws. Within `run()` the asio loop
executes one handler at a time; each starts operations whose handlers come
later, in no order asio promises. The bytes of a read go through the response
parser until the header is complete, then through `consume`; text goes through
the UTF-8 validator, and from the message handler through `json::parse`.

What is hard, and what makes each part correct:

- **Order desk and calls.** A request whose answer is lost may have been
  executed, or be executed later, in the next session. `modifyOrder` is two
  calls and stops anywhere between them, while the market fills the order it
  replaces. Correct means: what the user was told is true at the exchange, no
  command has its effect twice, nothing happens for a command that was reported
  with a clear outcome, and a replacement never lives beside what it replaces.
- **Console input.** A number that does not parse leaves `std::cin` failed for
  the rest of the process, and part of an answer may spill into the next
  prompt. Correct means: no order is placed with values the user did not enter.
- **Displays.** They read five levels of each side of a book, and fields and
  rows, whatever the answer holds. Correct means: a part is never shown as if it
  were the whole.
- **Connection.** The server, three timers, failing writes, and a handler that
  throws end the connection in any order. Correct means: one read and one write
  at a time, frames leave in order and none is forgotten, and the handlers are
  called as documented.
- **Transport.** An operation and its timer can both have their handlers queued,
  where neither can be cancelled. Correct means: one answer per call.
- **Readers** (frames, response, UTF-8, JSON). The input is cut anywhere, or ends
  anywhere, and each reader keeps its place in a few variables. Correct means:
  what comes out is what a definition of the format says of the whole input.

The hazards, each at its line and with the properties that answer to it, are
under `hazards` in `PROJECT.json`.

## 2. Plan

In the order of what matters most to a user who trades; all of it is done.

1. `OrderSession`, `OrderPromise`, `OrderSessionRefinement`, and their proofs.
2. `Console` and its proofs.
3. `Connection`, `StreamPromise`, `ConnectionRefinement`, and their proofs.
4. `Transport` and `OneAnswer`, the promise `Connection` builds on; a proof.
5. `FrameReader`, `HttpResponse`, `Utf8`, and their proofs.
6. `JsonScanner`, `JsonParser`, `Displays`, and their proofs.

A module that composes the order desk with the stream is not planned any more:
both run in one thread and share nothing but the access token, which the stream
does not use, and the process, which an exception of either ends.

What is left: `OrderSession` with partial fills (8).

## 3. The modules and the code

| Module | What it is |
|---|---|
| `OrderSession`, `MCOrderSession` | one process after another, the network, and the exchange; symmetry of the order ids |
| `OrderPromise`, `OrderSessionRefinement` | the abstract specification: commands with at most one close and one open; the mapping to it |
| `OrderSessionProofs` | the proofs, those of the mapping included |
| `Console`, `MCConsole` | standard input and its instance |
| `Displays` | what the queries show of an answer |
| `MCTerminal`, `TerminalProofs` | `Console` or `Displays`; the proofs of both |
| `Connection`, `MCConnection` | `startWebSocket` and the connection it runs; symbols and reads |
| `StreamPromise`, `ConnectionRefinement` | when the handlers of a connection are called; the mapping to it |
| `ConnectionProofs` | the proofs, those of the mapping included |
| `Transport`, `OneAnswer`, `TransportProofs` | the asynchronous calls that run against a timer; what they owe; the proofs |
| `MCProgress` | `Connection` or `Transport`, for the liveness of both |
| `FrameReader`, `ServerFrames`, `MCFrameReader` | `consume`; frames to read; fragmented text alone |
| `HttpResponse`, `ServerResponses` | the response's header; responses to read |
| `Utf8`, `MCUtf8` | the decoder and the scanner's; bytes |
| `MCReading` | the three readers of the stream, one at a time |
| `FrameReaderProofs`, `HeaderAndTextProofs` | the proofs about them |
| `JsonScanner`, `JsonScannerProofs` | characters to tokens, next to the grammar of lexemes; the proofs |
| `JsonParser`, `JsonParserProofs` | tokens to a document; the proofs |
| `MCAnswers`, `MCJsonParser` | scanner and parser, one at a time; what a document is |

`MCTerminal`, `MCProgress`, `MCReading` and `MCAnswers` put modules that share no variable
side by side: a variable `part` or `layer` says which of them runs, the others
stay in an initial state. A behaviour of such a module is one of the module that
runs, so that one run of TLC checks them all.

**OrderSession.** `pc` is where the one thread is: before the menu, in the menu,
blocked in `curl_easy_perform`, or gone. A menu option and the values typed for
it are one action (`HandlePlaceOrder`, ...), which creates the next record of
`cmds` and posts the request. The records are bookkeeping: they hold what the
user asked for and was told, which no variable of the program does. `net` holds
the requests the exchange has not executed; a request stays there after the
client stopped waiting for it. `inbox` is what the call is about to return,
and is one of seven kinds, those the handlers tell apart: `""`, text that
cannot be read (`json::parse` or a typed read throws), JSON without the fields
looked for, an error, a result, a listing, nothing yet. The `...Verdict`
operators are the branches of the handlers: `crashed` is the exception that
ends `main`, `invalid` the "Invalid JSON response" branch. `Finish` returns to
the menu or ends the process. `ModifyReplaces` is line 134 of
`manageOrders.cpp`: it takes instrument, direction and type from the answer to
the cancel and looks at nothing else in it.

The exchange and the network are external, and are what the code must expect
of them: a request is executed at most once or lost; a call can fail whether or
not its request was executed; a gateway may answer in the exchange's place; a
resting order may be filled at any time; the exchange may refuse anything. The
constant `StrictCancel` is the one assumption the code leans on: whether the
exchange answers the cancel of an order that is not open with an error. The
program does not look at `order_state` there, so what it does depends on it.
A placement answered by `rejected` stands for every state that is neither
`open` nor `filled`.

**Console.** A word is an atom; `AsDouble` and `AsInt` say what `>>` into a
number leaves of it, which is what `rest` holds for the next read. `failed` is
the failbit. `asked` is what the handler has still to read, `args` where the
values it has came from: typed at their prompt, typed after an empty line,
spilled from the answer before, zero after a failed parse, or never set. The
amounts and words themselves are not kept. `ReadOrderType` is the loop of lines
34-38; on a failed stream it changes nothing, for ever.

**Connection.** `run()` is one thread that executes handlers. `pending` holds
the operations that were started, `ready` those that completed and whose handler
has not run, with their result; `posts` counts the `write_frame` handlers that
`dispatch` posted. Each handler is an action, with what it calls (`Terminate`,
`Push`, `SendCloseFrame` are the helpers the code has) as part of it. The loop of
`handle_read_frame` is one action per frame, since a message handler runs in it;
`reading` says that it executes, and no other handler can. `Throw` is an
exception through `run()`: `startWebSocket` catches it and the `io_service` is
destroyed with all that is queued. What a frame is, and what `consume` makes of
bytes, is the business of `FrameReader`; here a frame is one of seven kinds by
what the connection does about it. `accepted` and `written` are histories, of
what was pushed on the queue and handed to the transport. That `connect`, `init`
and the shutdown call back once is assumed here and checked of `Transport`.

**Transport.** Four stages (resolve, connect, TLS handshake, shutdown), each with
an operation and a timer. A handler that is queued is no longer cancellable, so
both handlers of a stage may be queued; `late` says that the clock is past the
timer's end, which the operation's handler asks for. When a timer's handler is
queued the clock is past its end: the reactor read it to find that out.

**FrameReader, HttpResponse.** One call of `consume` is one step per turn of its
loop, and reads are cut anywhere up to a bound. A byte is the field it is part
of; sizes are scaled down, their order is kept. The server sends frame by frame,
resp. line by line (`Send`), while the client reads. The reference is a history:
`log` holds, for each frame sent, what RFC 6455 makes of the frames up to it
(`ReadFrame`), which looks at whole frames and never at a byte of the reader's;
`ends` holds where the lines of the response end. `Counted` of
`HttpResponse` keeps the `+ 1` of `sizeof(header_delimiter)`, which counts a NUL.
A header line passes `process_header` (`Separator`, `Name`, `Value`, the last two
stripped of blanks by `Strip`) and `append_header`, which refuses a name with
anything but the letters of a token (`ValidName`, `TokenLetters`). The
reference of `HttpResponse` uses none of these: `FieldLine`, `LengthLine` and `Says`
are the grammar of a line, about its bytes and their places, and `BadHeader` and
`BodyLength` are said with them. For lengths that are not minimal the reference
of `FrameReader` takes its close code from the code: RFC 6455 forbids them and
names none.

**Utf8.** `Type` and `Transition` are the two halves of the table `utf8d`;
`Ranges` the byte ranges of `scan_string`. Both read the same byte in a step.

**JsonScanner.** A character is an atom for those it cannot be told apart from by
the scanner; the input is chosen as `get` asks for it, so that all texts up to a
length are read. `Peek` and `Unget` are the character behind a number.

**JsonParser.** The document is a heap of nodes and a reference is the number of
one; `Target` is where the builder's `handle_value` puts a value. `wants` is the
place of `sax_parse_internal` between two tokens, `states` its stack.

**Displays.** An answer is reduced to which of the fields and rows are there; the
three ways the json library meets a missing one are its comment.

Operators whose comment starts with `Fault:` are plausible mistakes. No
specification uses them: each can take the place of the definition after it, to
show that a property notices.

## 4. The runs

| Run | Checks | Shows |
|---|---|---|
| `safety` | `TypeOK`, `StragglersAreFlagged`, `VerdictsHold`, `ReplacementFollowsCancel`, `EffectsInTime`, `KeepsPromise` | with loss, delay, crash and restart, what a handler said is true, orders change only for a command whose outcome is open, a replacement follows its cancel, and `OrderSession` implements `OrderPromise` |
| `three` | `AtMostOneOrder`, `OneSuccessor` | over three commands, no command opens two orders, no order gets two replacements |
| `lenient` | `VerdictsHold`, `CommandEnds` | the verdicts against an exchange that answers late cancels with the order as it is; every command ends if the calls return |
| `not_placed` | `NotPlacedMeansNoTrade` | violated: see 7 |
| `console` | `TypeOK`, `PlacesWhatWasEntered`, `NothingAfterAFailedRead`, `ShownWholeOrNotAtAll`, `EndsOnlyForLack` | no order with values that were not entered; a call made after a failed read is the last; an answer is shown whole and in order, or the process ends for what it lacks |
| `default_kind` | `EmptyKindIsDefault` | violated: see 7 |
| `stream` | `TypeOK`, `OneRead`, `OneWrite`, `QueueOrder`, `NoLostWakeup`, `CloseTimed`, `AllOrNothing`, `KeepsPromise` | two symbols, every answer to the handshake that parses and every kind of frame: the connection is correct in the sense of 1, and implements `StreamPromise` |
| `progress` | `OnePending`, `Settles`, `RunEnds`, `AnsweredOnce` | an attempt to connect is settled, a connection that closes lets `run()` return, a call of the transport is answered once |
| `failed_open` | `OpenOrFail` | violated: see 7 |
| `reading` | `ReadsResponse`, `LimitHolds`, `ReadsAll`, `Bounded`, `DecodesCharacters`, `SameText`, `GetsThrough` | the three readers of the stream, against their definitions |
| `frames_split` | `ReadsAll` | violated: see 7 |
| `answers` | `TokensAreExact`, `RefusesOnlyWrongTokens`, `ParsesTheDocument`, `RefusesOnlyWrongText`, `ReferencesAreAPath`, `StacksAgree` | what becomes of an answer, from its characters to the document |

The properties in words:

- `VerdictsHold`: "placed", "not placed", "modified", "not modified" come only
  with an order; "cancelled" only with a cancelled order; an error or a refusal
  only without an order; and, under `StrictCancel`, a modify that failed in its
  second call did cancel the first order. It is an invariant, so it also says
  that a late request never makes an old verdict false.
- `StragglersAreFlagged` and `EffectsInTime`: what can still happen, and what
  does happen, belongs to a command that runs, that ended the process, or that
  was reported as unreadable. A user who was told a clear outcome need fear no
  surprise from it.
- `ReplacementFollowsCancel` and `OneSuccessor` hold under `StrictCancel` only:
  against another exchange `modifyOrder` places a second order beside a filled
  one, and the `lenient` run leaves them out for that reason.
- `CommandEnds` assumes that calls return; without a timeout (5) they need not.
- `OneRead`, `OneWrite`: what `transport/base/connection.hpp` says that the
  connection promises its transport. The second also says that
  `m_current_msgs.back()` exists where `handle_write_frame` takes it.
- `NoLostWakeup`: a frame queued while a write is outstanding is written only
  because the write's handler looks again.
- `AllOrNothing`: a symbol that `send` refuses makes the open handler throw after
  earlier symbols were queued; none of these reaches the server.
- `KeepsPromise` of the stream: open or fail, never both; close once and after
  open; messages between them; the subscriptions in their order after open.
- `OnePending`: of an operation and its timer, exactly one is going to answer.
- `ReadsAll`, `ReadsResponse`, `TokensAreExact`, `ParsesTheDocument`: the output
  is that of a definition that looks at whole frames, lines, lexemes or values.
  `ReadsAll` has a hypothesis, `CharactersEnd`: see 7. `RefusesOnly...`:
  no input is refused that could still have become a good one.
- `Bounded`, `LimitHolds`: the limits on messages and headers hold over pieces.
- `SameText`: `json::parse` meets no byte that the validator let through and it
  does not.
- `ReferencesAreAPath`: the builder's references into containers that grow stay
  good; `StacksAgree`: its assertions on the kind of the innermost one hold.

Deadlock is not checked: processes may exit, `startWebSocket` returns, inputs
end, and commands and sessions are bounded.

## 5. Bounds and fairness

`MaxCmds` bounds the commands over all sessions and `MaxSessions` the starts of
the process. Two commands and two sessions are the least in which a request of
a dead process meets a command of its successor; the `three` run has three of
each of commands and orders, so that one order can be placed, modified, and
modified again. Two order ids let a modify have both its old and its new
order; two amounts tell the asked amount from the old one; the side `hold`
stands for a word that is neither `buy` nor `sell`, for which there is no
method. One instrument is enough: products differ by side and type. In
`Console`, `MaxCalls = 2` lets a call follow a call; the words are the eight
options, a word that is no number, and numbers that leave something: `1x`,
`1.5` for an int, `.5.5` for a double. `MaxSymbols` bounds the symbols of a
stream, and what an int that was never set may hold.

In `stream` there are two symbols, of which the second may be refused, so that
there are subscriptions before the refusal; three reads (`MaxReads`) of up to two
frames, one for the state that the first frame leaves, with the pairs that meet
in a closing connection; `progress` has two reads of one frame. `Transport` has
no bound. In `reading` the streams are all sequences of three of fifteen good
frames and of two with one wrong one among nine, with sizes on both sides of
every limit; up to three bytes are read at once, so that reads begin and end in
every field. Responses have up to two headers of six that are
stored and five that are not, six bytes a read, so that a line, its end and the blank
line are cut everywhere; the limit lets two short headers pass however they are
cut in full reads, and stops a long one. `Ends` are the
ends of every row of `utf8d`. In `answers` a text has up to six characters of
numbers, seven of strings (eight of surrogate pairs, the shortest that has two),
five of the rest; nine tokens are an object with two members of one key, or
four levels of nesting; `MaxUnsigned` and `MaxNegative`
are passed by three digits. A book has up to six levels, one more than is shown.

The theorems have no such bounds.

Fairness.

- `OrderSession`: `WF_vars(ClientReturns)` alone: once `curl_easy_perform` has
  returned, the one thread goes on, for nothing else runs in the process and the
  handlers wait for nothing but calls and input. Neither the network, the
  exchange nor the user is fair: `CommandEnds` states as its hypothesis
  (`CallsReturn`) that calls return, since no call sets a timeout.
- `Connection`: the thread runs what is ready; a timer expires; the transport
  calls back, since each of its operations has a timer of its own
  (`AnsweredOnce` is what justifies this); a socket that was shut down fails what
  is pending on it. The server is not fair: it may accept the request and never
  send, read or close. So `RunEnds` is about connections that close, and an open
  one may keep `startWebSocket` for ever.
- `Transport`: the loop runs, time passes, a timer that has run out is queued. No
  operation need complete.
- `FrameReader`: the reader goes on while there is something to read. The server
  need not send.

## 6. What is proved

Assumptions: those the modules name, which say no more than that the constants
have their types; of the streams and responses in `MCReading` also that a length
field holds the length, and that a line is what lies between two delimiters.
`StrictCancel` is a hypothesis where it is needed, never an
assumption, and so is `Parsable`, that no answer of the server has an extensions
header that cannot be parsed (7).

**OrderSession.** None of the properties is inductive: a step that answers a
request keeps `VerdictsHold` only if that answer belongs to the command that
runs, and that no earlier request of this command was executed. The invariant is
built in layers, each proved with those under it:

1. `Control`: types, and that the client waits exactly while the last command
   runs, for a call of that command; commands are numbered in order.
2. `Stragglers`: a call that was answered by the exchange is no longer on its
   way. Then a command that ends clearly leaves nothing behind.
3. `Once`: for each command, a placement on its way means no order yet, a
   cancel on its way means no cancelled order yet, a refusal means neither.
   Then no command opens two orders.
4. `Naming`: what a command cancelled is the order it names. The request of an
   earlier session is in this as well, which is why it is stated over all of
   `net`.
5. `Replacement`, under `StrictCancel`: from the answer to the cancel on, the
   modify's target is cancelled by this modify; the placement on its way, and
   the order it becomes, carry its product and the asked quote.
6. `ResultIsTrue`: a result in `inbox` shows an order of this command.

Each layer has a lemma for `Init` and one for the step, with a case per action;
`Following` is the conjunction of the first five. Theorems: `TypeCorrect`,
`NoSilentStraggler`, `EffectsAreInTime` (an action property), `NoDoubleOrder`,
`ReplacementIsAfterCancel`, `AtMostOneSuccessor`, `VerdictsAreTrue`.

**Refinement.** `SessionKeepsPromise`: under `StrictCancel`, `Spec` implies
`OrderPromise`'s. One lemma per kind of step: issuing a command is `Begin`, its
end is `End`, an accepted placement is `Open`, an executed cancel is `Close`,
and all else is a stutter. `Open` needs `Replacement` and `Once` to show its
guard, and both need the straggler of a dead process to be `adrift`.

**Console.** `ConsoleInv` adds to the types how far the handler is in its
prompts, that only a failed stream gives a value that was not entered, that the
order type comes last in a placement, and that a call with such a value is the
last one made. Theorems: `ConsoleTypes`, `OrdersAreEntered`,
`UnenteredCallIsLast`.

**Displays.** `DisplaysInv` says that the rows shown are those before `row` (`Rows`),
and that a display that goes through its rows lacks nothing of those shown (`Passed`). Theorems: `NoRowIsPassedOver`,
`DisplaysEndOnlyForLack`, for answers and books of any size.

**Connection.** `IInv` is inductive. The properties are not, since each depends on
which operations are outstanding in which state:

1. `Chain`: one operation drives the connection forward (connecting,
   initialising, the request, the response, a read, or the loop over the frames
   of a read). `OneRead` is a part of this that is not inductive alone: the first
   read of frames is started by the response's handler.
2. `Phases`: nothing is queued or written before the connection has opened, and
   all subscriptions are as soon as it has. `QueueOrder` and `AllOrNothing` need
   it, the latter because a handler that throws ends `run()` in the same step.
3. `Writing`: the write flag stands for a write in flight, and the last frame
   being written is the last written. It fails for closed connections only, since
   the last write never gives the flag back. `NoLostWakeup` needs it.
4. `CloseTimed` and `BeforeRun` complete it.

Theorems: `TypeCorrect`, `OneReadAtATime`, `OneWriteAtATime`, `KeepsOrder`,
`NoWakeupLost`, `NothingHalfSent`, `ClosingIsTimed`, and `Invariant` itself, for
any number of symbols, any server and any sequence of frames.

`StreamKeepsPromise`: under `Parsable`, `Spec` implies `StreamPromise`'s. Its
invariant `Lifecycle` says that a shutdown is in flight at most once, bound to
the handler that is due, and none while the connection is not closed. It is not
part of `IInv`, for it fails without `Parsable`.

**Transport.** `TransportInv` ties what is pending to what has been called: `Watched`,
what the state of a stage's timer says of its operation; `Begun`, which stages have
begun, and that the one before is over; `Owes`, that a call made is unanswered exactly
while the timer of one of its stages can still run out. `OneOfTwoAnswers` says that
exactly one of operation and timer answers; `NeverAnsweredTwice` is the safety part
of the mapping to `OneAnswer`.

**FrameReader.** `FramesAreRead` and `MessagesBounded`, for any frames, any sizes,
any chunks. The reader knows its place only by `m_state`, `m_bytes_needed` and the
lengths of what it holds, so that the invariant has to say where it is:

1. `LogInv`: the bytes sent are those of the frames, one behind the other; what the
   reference says it does not take back.
2. `Place(i, c)`: the reader has used up `c` bytes of frame `i`, the buffer is what
   was sent behind them, the header kept is that of the frame, and what is still
   needed ends where the field ends.
3. `Content(i, c)`: everything before frame `i` has been delivered, and the two
   messages under construction hold what is open before frame `i` and the part of
   its payload up to `c`, with the validator's state for that text.
4. `Failed`: after an error what is delivered and the close code are final.

`Place` holds for all streams; `Content` only while no fragmented text ends inside
a character (7), and `MessagesBounded` therefore needs `Place` alone. That a text may
be validated piece by piece is the lemma `Utf8Joined`. Each step has a lemma that
yields the next place: the same frame further on, or the next one.

**HttpResponse** (`HeaderAndTextProofs`). `ResponseIsRead` and `HeaderLimit`. `HeaderInv` likewise says which
line the buffer begins in (`AtLine`), that the lines before it are those in `m_headers`
(`TakenLines`), that a complete line is not left in the buffer (`ThisRead`), and that
the counter is at least the bytes of the lines taken (`CountInv`).
That the first delimiter of a buffer ends the line the server sent needs that the
bytes of a delimiter never begin in the line before. That a line is stored exactly if
it is a header by the grammar (`HeaderLines`), and that the number read is the one the
first line of that name says (`LengthLinesOf`, `NumberOfLine`, `LengthOfBody`), are
lemmas about lines of any length; the steps `Line` and `BlankLine` cite them where a
response is refused.

**Utf8** (`HeaderAndTextProofs`). `DecodesAllCharacters`: `CharInv` says that the bytes of a character so far
are the beginning of one, and that the state of the table and the bits gathered in
`m_codepoint` are those of these bytes. `SameTextAlways`: the table of the validator
and the ranges of the scanner go together; `IInv` says which ranges are left in each
of the table's states.

**JsonScanner.** `TokensExact` and `RefusalIsRight`, for texts of any length and any
bounds of the two integer types; the assumption is that these are natural numbers.
The grammar (`Contents`, `DigitsValue`, `Tokenisable`) is made of functions defined by
recursion over texts. That a function satisfies its equation is not given: the equations
are proved first, from an induction over numbers (`NumberInduction`, itself from the
least number of a set) and the lemma `TextRecursion`, which takes the equation as a set.
No step after that unfolds a recursion but by its equation.

1. `NumAt` says what has been read of a number in each state of `scan_number`, by
   positions; `NumberGrows` and `NumberEnds` are the table read forwards, `NumberGoesOn`
   and `NumberOpen` backwards: a longer number would have gone on, and an unfinished one
   is none.
2. `Inside` says the same of `scan_string`: the contents so far are a text with one reading,
   or this and the beginning of an escape. `NeverComplete`: what is neither stays without a
   reading whatever follows, since a piece that reached over its end would have begun in it.
3. `ScanInv`: the tokens cover the text up to the token that has begun, each a lexeme of
   its kind with its value; a character that was put back is not covered.
4. `RestInv`: of every text the input can still be, that it is made of lexemes only if
   what follows the tokens is, and that none is once the scanner has refused. The step at
   the end of a token needs that no other lexeme begins there (`NumberFirst`,
   `StringFirst`). `RefusesOnlyWrongTokens` asks for a few ways to go on (`Completions`);
   `RestInv` holds for all.

**JsonParser.** `StacksAgreeAlways`, for texts of any length and depth. A value
is written over the node that `object_element` refers to; that this is never an
open container is because a node lies behind the container it is in. `IInv` says
so, and that the open containers lie one behind the other. `ReferencesAlwaysGood`: on top of `IInv`,
`PathInv` says that each open container is the last thing put into the one
around it, and that `object_element` is a member of the innermost one while a
value is to come.

`DocumentParsed` and `RefusalOfTexts` say that the parser is right: the document
built is the only one the grammar gives the text, and no document begins with a text
that is refused. The reference, `Documents`, is a recursive function on phrases (which
tokens, read as what); `DenotedRule` shows that such a function exists, by an
induction over the length of phrases, and so does `TreeExists` for the document below a
node. On them rests `DocInv`, inductive together with `IInv`:

1. `Frames`: for each open container, where its bracket is, where the element being read
   began, and what is done of it before that. `Contents` says that in every text that
   goes on from here the rest of the container decides the whole: what it denotes is
   `done` joined with what the tokens from the element on denote. The invariant speaks of
   all the longer texts because the parser does not look ahead.
2. `Shows`, `Begun`: the node of the container has just these parts, the one being
   read left out. A step writes the innermost container and the node its value goes to;
   all others keep their documents (`FramesStay`), since there is one reference to a node
   and it leads forward (`Heap`). A key that comes twice writes over the part of the first.
3. `Between`: an element that is read is `Complete`, the value of its tokens however the
   text goes on. This needs that no value goes on where another one ends (`OneValueEnd`,
   by induction over the length), so that a comma or a bracket ends the container's frame
   or moves it on (`CloseComplete`, `CommaFrame`).
4. `Hopeless`, for a text that is refused: the token that was not taken leaves the
   innermost container without elements (`InnermostStuck`), hence without a value, and so
   outwards by induction over the frames (`StuckOutermost`). `RefusesOnlyWrongText` tries a
   few ways to go on (`Middles`, `Closers`); `Hopeless` holds for all.

`DocInv` speaks of all texts and is out of TLC's reach; the runs check the properties it
is for.

Only model-checked: the liveness properties (`CommandEnds`, `Settles`, `RunEnds`,
`GetsThrough`, and that an answer comes in `AnsweredOnce`), which TLAPS does not
reach. The runs also check every property that is proved.

## 7. Findings

- `NotPlacedMeansNoTrade` (run `not_placed`). `handlePlaceOrder` reports every
  `order_state` but `open` as "Order not placed" (`main.cpp:51`). A market order
  that fills at once, which the prompt at `main.cpp:32` offers, has traded. What
  `VerdictsHold` says of "not placed" is therefore only that there is an
  order.
- `EmptyKindIsDefault` (run `default_kind`). The prompt says "(default:
  future)" (`main.cpp:271`) and `deribit_api.h:28` declares the default, but
  `cin >> kind` skips empty lines: the next word typed is the kind, and the
  default is never used.
- `OpenOrFail` (run `failed_open`). A response whose Sec-WebSocket-Extensions
  header cannot be parsed makes `handle_read_http_response` terminate the
  connection and go on to open it (`connection_impl.hpp:1629`): both the open and
  the fail handler are called, which `docs/handlers.dox:77` excludes. The other
  runs of the stream leave this answer out, but for `progress`.
- `ReadsAll` (run `frames_split`). `finalize_message` looks at the opcode of the
  last frame, which is `continuation` for a message in fragments
  (`hybi13.hpp:537`): a text message in fragments that ends inside a character is
  delivered. `ReadsAll` of `reading` leaves such streams out by its hypothesis
  `CharactersEnd`, and so does `FramesAreRead`.

Four more definitions state what a document says, and do not hold; they have no
run of their own. TLC shows each with the run's constants changed as said:

- `TimeoutFails` (`Connection`): "Connections that time out will have their fail
  handlers called" (`connection.hpp:488`). The open-handshake timer may have run
  out, its handler be queued, when the response is read; the handler does not look
  at the state and terminates the open connection, so that the close handler is
  called. (`progress` with `Answers = {"accepted"}` and `MaxReads = 1`.)
- `OneCloseFrame` (`Connection`): the change log (`changelog.md:430`) reports two
  close frames in a row as fixed. A close frame with a bad code is acknowledged by
  a connection that is closing, too. (`stream` with `Bursts <- CloseBursts`.)
- `RejectsOnlyBigger` (`HttpResponse`): a header below `max_header_size` is
  rejected, since each line is counted with a byte too many.
  (`reading` as it is.)
- `EndIsTheEnd` (`JsonScanner`): "in strict mode, input must be completely read"
  (`json.hpp:12296`). A NUL is taken for the end. (Any text with `"nul"`.)

And one that is outside the models: `pre_init` of the TLS policy calls back twice
if the host name is refused for SNI. The host is a constant of `startWebSocket`,
so that this program does not get there.

## 8. What is not modelled

- `reconnect_websocket` and the channel helpers: no caller, so that no behaviour of
  the program depends on them.
- websocketpp's servers, iostream transport, logging and locks: not instantiated,
  or without state that anything else reads. Of the connection: pings of the
  application, `interrupt`, `pause_reading`, the setters. Writing frames, masking
  and the handshake's keys are conversions without state.
- json.hpp's serialiser, binary formats, pointers, patches and iterators: not
  called by the program, or conversions. `JsonScanner` leaves the skipping of a
  byte order mark and comments (which `parse` is not asked to ignore) out.
- Of the response's header: folded lines at the start of a line (`extract_lws` takes a
  CR LF and a blank for one, and a line holds no CR LF), a value of several digits
  (a number is one byte), and signs and overflow of `>>`. `strip_lws` reads from behind
  as well and then takes a blank, LF, CR at the end of a text for a folded line: lines
  hold none (`PlainLinesAssumption`). An empty name is accepted, as by the code, though HTTP asks for a letter.
- A number beyond the range of `int` for the count of symbols: `>>` fails but stores
  the largest `int`, and the loop appends that many empty symbols, where `Console`
  (`ReadCount`) asks for none. A clock that is exactly at a timer's end (`Transport`): it is not past it.
- Lengths of frames with the top bit set, which RFC 6455 forbids and for which a
  sum in `hybi13.hpp:457` can wrap.
- How text is built, sent and laid out; TLS itself; HTTP status codes of the calls,
  which the code does not look at.
- Partial fills: an order is open, filled, cancelled or rejected.
- Signals other than the user's interrupt of a call; the expiry of time in curl.
- Build files and CMake's output: generated.

The map covers a small share of all lines below `src/`: most of them are vendored
code the program never calls (`json.hpp` alone is 24,765), and generated files.
