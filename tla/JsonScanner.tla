---------------------------- MODULE JsonScanner ----------------------------
(***************************************************************************)
(* nlohmann::lexer: how the text of an answer becomes tokens.  The input   *)
(* is given one character at a time, as get() asks for it; a number is     *)
(* known to have ended only by the character after it, which unget() keeps *)
(* for the next token.                                                     *)
(*                                                                         *)
(* A character is an atom: "ws", "," (which stands for the six structural  *)
(* characters), "q" (a quote), "bs" (a backslash), "true" (the literals),  *)
(* the characters of numbers, with two digits; inside strings "n" (the     *)
(* letters of the short escapes), "u", "z" (any other), "ctl" (a control   *)
(* character), "nul"; and, as one atom, the four hexadecimal digits of a   *)
(* high or a low surrogate or of another code point ("hi", "lo", "bmp").   *)
(* Digits and hexadecimal groups are not mixed: the characters of an input *)
(* hold one or the other.  UTF-8 in strings is module Utf8.                *)
(***************************************************************************)
EXTENDS Integers, Sequences, FiniteSets, SequencesExt

CONSTANTS
    Inputs,         \* [chars, length]: the characters of an input, and its greatest length
    MaxUnsigned,    \* the greatest unsigned integer
    MaxNegative     \* the magnitude of the least signed one

Digit == {"0", "1"}
Char == {"ws", ",", "q", "bs", "true", "-", "+", ".", "e", "n", "u", "z", "ctl", "nul",
         "hi", "lo", "bmp"} \cup Digit
EOF  == "eof"

VARIABLES
    input,          \* one of Inputs
    text,           \* history: the characters of the input given so far
    ended,          \* the input is at its end
    current, next_unget,
    state,          \* "start", or how far scan_number, scan_string is
    from,           \* where in the text the token begins
    number_type, token_buffer,
    tokens          \* history: [type, from, to, value]

vars == <<input, text, ended, current, next_unget, state, from, number_type, token_buffer, tokens>>

NumberStates == {"minus", "zero", "any1", "decimal1", "decimal2", "exponent", "sign", "any2"}
StringStates == {"string", "escape", "codepoint1", "backslash2", "u2", "codepoint2"}

-----------------------------------------------------------------------------
\* get: the character that was put back, or the next one of the input.
Get(c) ==
    /\ next_unget' = FALSE
    /\ current' = c
    /\ UNCHANGED input
    /\ \/ next_unget /\ c = current /\ UNCHANGED <<text, ended>>
       \/ ~next_unget /\ c = EOF /\ ended' = TRUE /\ UNCHANGED text
       \/ /\ ~next_unget /\ ~ended /\ c \in input.chars /\ Len(text) < input.length
          /\ text' = Append(text, c) /\ UNCHANGED ended

\* The position of the character that Get gives.
Here == IF next_unget THEN Len(text) ELSE Len(text) + 1

Token(type, to, value) ==
    tokens' = Append(tokens, [type |-> type, from |-> from, to |-> to, value |-> value])
Fail == state' = "parse_error" /\ UNCHANGED <<from, number_type, token_buffer, tokens>>

-----------------------------------------------------------------------------
\* scan: whitespace is skipped, the first character says what the token is.  A NUL
\* ends the input as its end does.
SkipWhitespace ==
    /\ state = "start" /\ Get("ws")
    /\ UNCHANGED <<state, from, number_type, token_buffer, tokens>>

ScanOneCharacter(c, type) ==
    /\ state = "start" /\ Get(c)
    /\ tokens' = Append(tokens, [type |-> type, from |-> Here, to |-> Here, value |-> <<>>])
    /\ UNCHANGED <<state, from, number_type, token_buffer>>

ScanEnd(c) ==
    /\ c \in {EOF, "nul"}
    /\ state = "start" /\ Get(c)
    /\ state' = "end_of_input"
    /\ UNCHANGED <<from, number_type, token_buffer, tokens>>

ScanWrong(c) ==
    /\ c \in Char \ ({"ws", ",", "true", "q", "-", "nul"} \cup Digit)
    /\ state = "start" /\ Get(c) /\ Fail

BeginNumber(c) ==
    /\ c \in Digit \cup {"-"}
    /\ state = "start" /\ Get(c)
    /\ from' = Here
    /\ token_buffer' = <<c>>
    /\ number_type' = IF c = "-" THEN "integer" ELSE "unsigned"
    /\ state' = IF c = "-" THEN "minus" ELSE IF c = "0" THEN "zero" ELSE "any1"
    /\ UNCHANGED tokens

BeginString ==
    /\ state = "start" /\ Get("q")
    /\ from' = Here
    /\ token_buffer' = <<>>
    /\ state' = "string"
    /\ UNCHANGED <<number_type, tokens>>

-----------------------------------------------------------------------------
\* scan_number's table.  "done" puts the character back.
\* Fault: a zero may not be followed by a fraction.
NextNumberZeroAlone(s, c) ==
    IF s = "minus" THEN (IF c = "0" THEN "zero" ELSE IF c = "1" THEN "any1" ELSE "error")
    ELSE IF s = "any1" /\ c \in Digit THEN "any1"
    ELSE IF s = "any1" /\ c = "." THEN "decimal1"
    ELSE IF s \in {"zero", "any1", "decimal2"} /\ c = "e" THEN "exponent"
    ELSE IF s \in {"decimal1", "decimal2"} /\ c \in Digit THEN "decimal2"
    ELSE IF s = "exponent" /\ c \in {"+", "-"} THEN "sign"
    ELSE IF s \in {"exponent", "sign", "any2"} /\ c \in Digit THEN "any2"
    ELSE IF s \in {"decimal1", "exponent", "sign"} THEN "error"
    ELSE "done"
NextNumber(s, c) ==
    IF s = "minus" THEN (IF c = "0" THEN "zero" ELSE IF c = "1" THEN "any1" ELSE "error")
    ELSE IF s = "any1" /\ c \in Digit THEN "any1"
    ELSE IF s \in {"zero", "any1"} /\ c = "." THEN "decimal1"
    ELSE IF s \in {"zero", "any1", "decimal2"} /\ c = "e" THEN "exponent"
    ELSE IF s \in {"decimal1", "decimal2"} /\ c \in Digit THEN "decimal2"
    ELSE IF s = "exponent" /\ c \in {"+", "-"} THEN "sign"
    ELSE IF s \in {"exponent", "sign", "any2"} /\ c \in Digit THEN "any2"
    ELSE IF s \in {"decimal1", "exponent", "sign"} THEN "error"
    ELSE "done"

DigitsValue[ds \in Seq(Char)] ==
    IF ds = <<>> THEN 0 ELSE 10 * DigitsValue[Front(ds)] + (IF Last(ds) = "1" THEN 1 ELSE 0)

\* Fault: the range of the type is not checked.
NumberOfAnySize(type, buffer) ==
    CASE type = "unsigned" -> [type |-> type, value |-> DigitsValue[buffer]]
      [] type = "integer"  -> [type |-> type, value |-> -DigitsValue[Tail(buffer)]]
      [] OTHER -> [type |-> "float", value |-> buffer]
\* strtoull or strtoll; what does not fit becomes a float.
Number(type, buffer) ==
    IF type = "unsigned" /\ DigitsValue[buffer] <= MaxUnsigned
    THEN [type |-> type, value |-> DigitsValue[buffer]]
    ELSE IF type = "integer" /\ DigitsValue[Tail(buffer)] <= MaxNegative
    THEN [type |-> type, value |-> -DigitsValue[Tail(buffer)]]
    ELSE [type |-> "float", value |-> buffer]

\* Fault: the character after a number is lost.
DropLookahead == next_unget' = FALSE
Unget == next_unget' = TRUE

\* What Get changes, when the character is put back.
Peek(c) ==
    /\ current' = c
    /\ UNCHANGED input
    /\ \/ c = EOF /\ ended' = TRUE /\ UNCHANGED text
       \/ /\ ~ended /\ c \in input.chars /\ Len(text) < input.length
          /\ text' = Append(text, c) /\ UNCHANGED ended

ScanNumber(c) ==
    /\ state \in NumberStates
    /\ LET next == NextNumber(state, c)
       IN  \/ next = "error" /\ Get(c) /\ Fail
           \/ /\ next \in NumberStates /\ Get(c)
              /\ state' = next
              /\ token_buffer' = Append(token_buffer, c)
              /\ number_type' = IF next \in {"decimal1", "exponent"} THEN "float" ELSE number_type
              /\ UNCHANGED <<from, tokens>>
           \/ /\ next = "done" /\ Peek(c) /\ Unget
              /\ state' = "start"
              /\ LET n == Number(number_type, token_buffer)
                 IN  Token(n.type, Len(text), n.value)
              /\ UNCHANGED <<from, number_type, token_buffer>>

-----------------------------------------------------------------------------
\* scan_string: the characters of a string are copied, escapes are replaced.
Add(c, next) == /\ token_buffer' = Append(token_buffer, c)
                /\ state' = next
                /\ UNCHANGED <<from, number_type, tokens>>
Skip(next)   == state' = next /\ UNCHANGED <<from, number_type, token_buffer, tokens>>

\* Fault: an escaped backslash is not known.
EscapesWithoutBackslash == {"q", "n"}
\* The letters of the short escapes.
Escapes == {"q", "bs", "n"}
Replacement(c) == IF c = "n" THEN "newline" ELSE c

\* Fault: any code point completes a pair.
AnyPair(c) == c \in {"hi", "lo", "bmp"}
\* The second half of a pair is a low surrogate.
Pair(c) == c = "lo"

\* What is no character of a string, or does not continue an escape.
WrongInString(c) ==
    /\ state = "string" => c \in {EOF, "ctl", "nul"}
    /\ state = "escape" => c \notin Escapes \cup {"u"}
    /\ state = "codepoint1" => c \notin {"bmp", "hi"}
    /\ state = "backslash2" => c # "bs"
    /\ state = "u2" => c # "u"
    /\ state = "codepoint2" => ~Pair(c)

ScanString(c) ==
    /\ state \in StringStates
    /\ Get(c)
    /\ \/ /\ state = "string" /\ c = "q"
          /\ Token("string", Len(text) + 1, token_buffer)
          /\ state' = "start"
          /\ UNCHANGED <<from, number_type, token_buffer>>
       \/ state = "string" /\ c \notin {"q", "bs", EOF, "ctl", "nul"} /\ Add(c, "string")
       \/ state = "string" /\ c = "bs" /\ Skip("escape")
       \/ state = "escape" /\ c \in Escapes /\ Add(Replacement(c), "string")
       \/ state = "escape" /\ c = "u" /\ Skip("codepoint1")
       \/ state = "codepoint1" /\ c = "bmp" /\ Add("U+bmp", "string")
       \/ state = "codepoint1" /\ c = "hi" /\ Skip("backslash2")
       \/ state = "backslash2" /\ c = "bs" /\ Skip("u2")
       \/ state = "u2" /\ c = "u" /\ Skip("codepoint2")
       \/ state = "codepoint2" /\ Pair(c) /\ Add("U+astral", "string")
       \/ WrongInString(c) /\ Fail

-----------------------------------------------------------------------------
Init ==
    /\ input \in Inputs
    /\ text = <<>> /\ ended = FALSE
    /\ current = EOF /\ next_unget = FALSE
    /\ state = "start" /\ from = 0
    /\ number_type = "unsigned" /\ token_buffer = <<>>
    /\ tokens = <<>>

Next ==
    \/ SkipWhitespace
    \/ ScanOneCharacter(",", "structural") \/ ScanOneCharacter("true", "literal")
    \/ BeginString
    \/ \E c \in input.chars \cup {EOF} :
          ScanEnd(c) \/ ScanWrong(c) \/ BeginNumber(c) \/ ScanNumber(c) \/ ScanString(c)

Spec == Init /\ [][Next]_vars

-----------------------------------------------------------------------------
(***************************************************************************)
(* The reference: the grammar of RFC 8259.                                 *)
(***************************************************************************)
AllDigits(s) == s # <<>> /\ \A i \in 1 .. Len(s) : s[i] \in Digit
IsInt(s)  == AllDigits(s) /\ (s[1] = "0" => Len(s) = 1)
IsFrac(s) == s = <<>> \/ (s[1] = "." /\ AllDigits(Tail(s)))
IsExp(s)  == s = <<>> \/ (s[1] = "e" /\ \E n \in {1, 2} :
                             /\ n <= Len(s) /\ (n = 2 => s[2] \in {"+", "-"})
                             /\ AllDigits(SubSeq(s, n + 1, Len(s))))
IsUnsigned(s) == \E i, j \in 0 .. Len(s) :
                    i <= j /\ IsInt(SubSeq(s, 1, i)) /\ IsFrac(SubSeq(s, i + 1, j))
                           /\ IsExp(SubSeq(s, j + 1, Len(s)))
IsNumber(s) == IsUnsigned(s) \/ (s # <<>> /\ s[1] = "-" /\ IsUnsigned(Tail(s)))

\* What the contents of a string are made of, and what each piece stands for.
Pieces ==
    {[text |-> <<c>>, value |-> c] : c \in Char \ {"q", "bs", "ctl", "nul"}}
    \cup {[text |-> <<"bs", "q">>, value |-> "q"],
          [text |-> <<"bs", "bs">>, value |-> "bs"],
          [text |-> <<"bs", "n">>, value |-> "newline"],
          [text |-> <<"bs", "u", "bmp">>, value |-> "U+bmp"],
          [text |-> <<"bs", "u", "hi", "bs", "u", "lo">>, value |-> "U+astral"]}
EndsWith(s, p) == Len(p) <= Len(s) /\ \A k \in 1 .. Len(p) : s[Len(s) - Len(p) + k] = p[k]

\* The contents of a string, with its escapes replaced: the set of its readings.
Contents[s \in Seq(Char)] ==
    IF s = <<>> THEN {<<>>}
    ELSE UNION {{Append(before, p.value) : before \in Contents[SubSeq(s, 1, Len(s) - Len(p.text))]} :
                p \in {x \in Pieces : EndsWith(s, x.text)}}
IsString(s) == Len(s) >= 2 /\ s[1] = "q" /\ s[Len(s)] = "q" /\ Contents[SubSeq(s, 2, Len(s) - 1)] # {}

IsLexeme(s) == s = <<",">> \/ s = <<"true">> \/ IsNumber(s) \/ IsString(s)

\* A text is a sequence of lexemes with whitespace between them; a number is not
\* followed by what only another number could begin with or continue.
Tokenisable[s \in Seq(Char)] ==
    \/ s = <<>>
    \/ s[1] = "ws" /\ Tokenisable[SubSeq(s, 2, Len(s))]
    \/ \E n \in 1 .. Len(s) :
          /\ IsLexeme(SubSeq(s, 1, n))
          /\ n < Len(s) /\ IsNumber(SubSeq(s, 1, n)) => s[n + 1] \notin Digit \cup {".", "e"}
          /\ Tokenisable[SubSeq(s, n + 1, Len(s))]

\* What could follow to complete a token that has begun.
Completions == {<<>>, <<"1">>, <<"q">>, <<"n", "q">>, <<"bmp", "q">>,
                <<"bs", "u", "lo", "q">>, <<"u", "lo", "q">>, <<"lo", "q">>}

\* The text that has been turned into tokens.
Scanned == IF next_unget /\ current # EOF THEN Front(text) ELSE text
Lexeme(t) == SubSeq(text, t.from, t.to)

\* Between tokens, the tokens are the text: each is a lexeme of its kind and there is
\* nothing but whitespace around them, the character after a number included.
TokensAreTheText ==
    state = "start" =>
        /\ \A i \in DOMAIN tokens :
              LET s == Lexeme(tokens[i]) IN
              /\ tokens[i].type \in {"unsigned", "integer", "float"} => IsNumber(s)
              /\ tokens[i].type = "string" => IsString(s)
              /\ tokens[i].type \in {"structural", "literal"} => s \in {<<",">>, <<"true">>}
        /\ \A p \in 1 .. Len(Scanned) :
              \/ Scanned[p] = "ws"
              \/ \E i \in DOMAIN tokens : p \in tokens[i].from .. tokens[i].to
        /\ \A i \in 1 .. Len(tokens) - 1 : tokens[i].to < tokens[i + 1].from

\* A text is refused only when no text that begins with it is made of lexemes.
RefusesOnlyWrongText ==
    state = "parse_error" =>
        \A more \in (IF ended THEN {<<>>} ELSE {m \in Completions : ToSet(m) \subseteq input.chars}) :
            ~Tokenisable[text \o more]

\* An integer is an integer of its type exactly when its value fits, whatever its
\* length, and has that value; a string has its escapes replaced.
ValuesAreExact ==
    \A i \in DOMAIN tokens :
        LET t == tokens[i]
            s == Lexeme(t)
            whole == \A p \in 1 .. Len(s) : s[p] \notin {".", "e"}
            n == DigitsValue[IF s[1] = "-" THEN Tail(s) ELSE s]
        IN  /\ t.type = "unsigned" => whole /\ s[1] # "-" /\ n <= MaxUnsigned /\ t.value = n
            /\ t.type = "integer" => whole /\ s[1] = "-" /\ n <= MaxNegative /\ t.value = -n
            /\ t.type = "float" /\ whole => IF s[1] = "-" THEN n > MaxNegative ELSE n > MaxUnsigned
            /\ t.type = "string" => {t.value} = Contents[SubSeq(s, 2, Len(s) - 1)]

\* `in strict mode, input must be completely read' (json.hpp:12296): what parse takes
\* for the end of the input is its end.  Does not hold (README, section 7) for a NUL.
EndIsTheEnd == state = "end_of_input" => ended
=============================================================================
