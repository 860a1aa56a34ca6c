----------------------------- MODULE MCAnswers -----------------------------
(***************************************************************************)
(* What becomes of an answer of the exchange: characters are made tokens   *)
(* (JsonScanner, on the characters of numbers, on those of escapes, on     *)
(* those of surrogate pairs, and on control characters), tokens a document *)
(* (JsonParser).  One run looks at one layer, with all its inputs; the     *)
(* others do not start.                                                    *)
(***************************************************************************)
EXTENDS JsonParser

CONSTANTS
    MaxNumbers, MaxStrings, MaxPairs, MaxMarks,   \* the bounds of JsonScanner's text
    MaxUnsigned, MaxNegative

VARIABLES
    layer,          \* the layer that runs
    input, source, ended, current, next_unget, state, from, number_type, token_buffer, tokens

NumberChars == {"0", "1", "-", "+", ".", "e", ",", "true", "ws"}
StringChars == {"q", "bs", "n", "u", "hi", "lo", "bmp"}
PairChars   == {"q", "bs", "u", "hi", "lo"}
MarkChars   == {"q", "n", "true", ",", "ws", "ctl", "nul"}

Inputs == {[chars |-> NumberChars, length |-> MaxNumbers], [chars |-> StringChars, length |-> MaxStrings],
           [chars |-> PairChars, length |-> MaxPairs], [chars |-> MarkChars, length |-> MaxMarks]}

Scanner == INSTANCE JsonScanner WITH text <- source
scanner == <<input, source, ended, current, next_unget, state, from, number_type, token_buffer, tokens>>

ASSUME BoundsAssumption == MaxUnsigned \in Nat /\ MaxNegative \in Nat

AnswersInit == Init /\ Scanner!Init /\ layer \in {"characters", "tokens"}

AnswersNext ==
    \/ layer = "characters" /\ Scanner!Next /\ UNCHANGED <<vars, layer>>
    \/ layer = "tokens" /\ Next /\ UNCHANGED <<scanner, layer>>

AnswersSpec == AnswersInit /\ [][AnswersNext]_<<vars, scanner, layer>>

-----------------------------------------------------------------------------
\* The scanner refuses a text only when no text that begins with it is made of lexemes.
RefusesOnlyWrongTokens == Scanner!RefusesOnlyWrongText

\* Between tokens, the tokens are the text, the character behind a number included;
\* numbers keep their values where they fit, strings have their escapes replaced.
TokensAreExact == Scanner!TokensAreTheText /\ Scanner!ValuesAreExact
=============================================================================
