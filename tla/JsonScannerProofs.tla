-------------------------- MODULE JsonScannerProofs --------------------------
(***************************************************************************)
(* nlohmann::lexer (JsonScanner) on texts of any length: what it has made  *)
(* of a text between two tokens is what the grammar of RFC 8259 says of    *)
(* the text (TokensExact), and what it refuses no text that goes on can    *)
(* make good (RefusalIsRight).                                             *)
(*                                                                         *)
(* The grammar is written with functions that are defined by recursion     *)
(* over texts (Contents, DigitsValue, Tokenisable).  That they satisfy     *)
(* their equations is proved here, from an induction over the length of    *)
(* the text (NumberInduction, TextRecursion); everything else uses the     *)
(* equations only.                                                         *)
(*                                                                         *)
(* The state of scan_number says which part of a number has been read      *)
(* (NumAt), the state of scan_string which contents and which beginning of *)
(* an escape (Inside).  ScanInv says that, and that the tokens cover the   *)
(* text up to the token that has begun; RestInv says of every text the     *)
(* input can still be that it is made of lexemes only if the rest behind   *)
(* the tokens is.                                                          *)
(***************************************************************************)
EXTENDS MCAnswers, SequenceTheorems, WellFoundedInduction, TLAPS

-----------------------------------------------------------------------------
(***************************************************************************)
(* Induction and recursion over texts, and the contents of a string.       *)
(***************************************************************************)

\* The least number of a set.
LEMMA LeastNumber == \A T \in SUBSET Nat : T # {} => \E x \in T : \A y \in T : x <= y
  <1> DEFINE R == {ss \in Nat \X Nat : ss[1] < ss[2]}
  <1>1. IsWellFoundedOn(R, Nat)
    BY NatLessThanWellFounded DEF OpToRel
  <1> SUFFICES ASSUME NEW T \in SUBSET Nat, T # {} PROVE \E x \in T : \A y \in T : x <= y
    OBVIOUS
  <1>2. PICK x \in T : \A y \in T : ~(<<y, x>> \in R)
    <2> HIDE DEF R
    <2>1. T \subseteq Nat
      OBVIOUS
    <2> QED
      BY <1>1, <2>1, WFMin, Zenon
  <1>3. \A y \in T : ~(y < x)
    BY <1>2
  <1> QED
    BY <1>3

\* Induction over numbers, for the set of those that have a property.
LEMMA NumberInduction ==
    ASSUME NEW P, 0 \in P, \A n \in Nat : n \in P => n + 1 \in P
    PROVE  Nat \subseteq P
  <1> SUFFICES ASSUME Nat \ P # {} PROVE FALSE
    OBVIOUS
  <1>1. PICK x \in Nat \ P : \A y \in Nat \ P : x <= y
    BY LeastNumber
  <1>2. x # 0 /\ x - 1 \in Nat
    BY <1>1
  <1>3. x - 1 \in P
    BY <1>1, <1>2
  <1> QED
    BY <1>1, <1>2, <1>3

Str == Seq(Scanner!Char)

-----------------------------------------------------------------------------
\* What a function that is defined by recursion over the length of a text must be: the
\* value at a text depends on the values at shorter ones only.
Narrow(d, T) ==
    \A f, g \in [Str -> T], s \in Str :
        (\A r \in Str : Len(r) < Len(s) => f[r] = g[r]) => d[<<f, s>>] = d[<<g, s>>]
Rule(d, T) == d \in [[Str -> T] \X Str -> T]
Solves(f, d, T) == f \in [Str -> T] /\ \A s \in Str : f[s] = d[<<f, s>>]
Up(d, T, n, f) == f \in [Str -> T] /\ \A s \in Str : Len(s) < n => f[s] = d[<<f, s>>]

LEMMA LengthOfStr == \A s \in Str : Len(s) \in Nat
  BY DEF Str

LEMMA UpExists ==
    ASSUME NEW T, T # {}, NEW d, Rule(d, T), Narrow(d, T)
    PROVE  \A n \in Nat : \E f : Up(d, T, n, f)
  <1> DEFINE P == {n \in Nat : \E f : Up(d, T, n, f)}
  <1>1. 0 \in P
    <2>1. PICK t \in T : TRUE
      OBVIOUS
    <2>2. [s \in Str |-> t] \in [Str -> T]
      BY <2>1
    <2>3. Up(d, T, 0, [s \in Str |-> t])
      BY <2>2, LengthOfStr DEF Up
    <2> QED
      BY <2>3
  <1>2. ASSUME NEW n \in Nat, n \in P PROVE n + 1 \in P
    <2>1. PICK g : Up(d, T, n, g)
      BY <1>2
    <2> DEFINE f == [s \in Str |-> d[<<g, s>>]]
    <2>2. g \in [Str -> T] /\ f \in [Str -> T]
      BY <2>1 DEF Up, Rule
    <2>3. ASSUME NEW s \in Str, Len(s) < n + 1 PROVE f[s] = d[<<f, s>>]
      <3>1. ASSUME NEW r \in Str, Len(r) < Len(s) PROVE f[r] = g[r]
        <4>1. Len(r) < n
          BY <2>3, <3>1, LengthOfStr
        <4> QED
          BY <2>1, <4>1 DEF Up
      <3> HIDE DEF f
      <3>2. d[<<f, s>>] = d[<<g, s>>]
        BY <2>2, <3>1 DEF Narrow
      <3> QED
        BY <3>2 DEF f
    <2> HIDE DEF f
    <2>4. Up(d, T, n + 1, f)
      BY <2>2, <2>3 DEF Up
    <2> QED
      BY <2>4
  <1> HIDE DEF P
  <1>3. Nat \subseteq P
    BY <1>1, <1>2, NumberInduction
  <1> QED
    BY <1>3 DEF P

LEMMA TextRecursion ==
    ASSUME NEW T, T # {}, NEW d, Rule(d, T), Narrow(d, T)
    PROVE  \E f : Solves(f, d, T)
  <1>1. ASSUME NEW m \in Nat, NEW n \in Nat, NEW f, NEW g, Up(d, T, m, f), Up(d, T, n, g)
        PROVE  \A s \in Str : Len(s) < m /\ Len(s) < n => f[s] = g[s]
    <2> DEFINE P == {k \in Nat : \A r \in Str : Len(r) < k /\ Len(r) < m /\ Len(r) < n => f[r] = g[r]}
    <2>1. 0 \in P
      BY LengthOfStr
    <2>2. ASSUME NEW k \in Nat, k \in P PROVE k + 1 \in P
      <3> SUFFICES ASSUME NEW r \in Str, Len(r) < k + 1, Len(r) < m, Len(r) < n PROVE f[r] = g[r]
        OBVIOUS
      <3>1. \A q \in Str : Len(q) < Len(r) => f[q] = g[q]
        BY <2>2, LengthOfStr
      <3>2. d[<<f, r>>] = d[<<g, r>>]
        BY <1>1, <3>1 DEF Narrow, Up
      <3> QED
        BY <1>1, <3>2 DEF Up
    <2> HIDE DEF P
    <2>3. Nat \subseteq P
      BY <2>1, <2>2, NumberInduction
    <2>4. \A s \in Str : Len(s) + 1 \in P /\ Len(s) < Len(s) + 1
      BY <2>3, LengthOfStr
    <2> QED
      BY <2>4 DEF P
  <1> DEFINE A(n) == CHOOSE f : Up(d, T, n, f)
             F == [s \in Str |-> A(Len(s) + 1)[s]]
  <1>2. \A n \in Nat : Up(d, T, n, A(n))
    BY UpExists
  <1> HIDE DEF A
  <1>3. F \in [Str -> T]
    BY <1>2, LengthOfStr DEF Up
  <1>4. ASSUME NEW s \in Str PROVE F[s] = d[<<F, s>>]
    <2>1. Len(s) + 1 \in Nat /\ Len(s) < Len(s) + 1
      BY LengthOfStr
    <2>2. Up(d, T, Len(s) + 1, A(Len(s) + 1))
      BY <1>2, <2>1
    <2>3. ASSUME NEW r \in Str, Len(r) < Len(s) PROVE F[r] = A(Len(s) + 1)[r]
      <3>1. Len(r) + 1 \in Nat /\ Len(r) < Len(r) + 1 /\ Len(r) < Len(s) + 1
        BY <2>3, LengthOfStr
      <3>2. Up(d, T, Len(r) + 1, A(Len(r) + 1))
        BY <1>2, <3>1
      <3>3. A(Len(r) + 1)[r] = A(Len(s) + 1)[r]
        BY <1>1, <2>1, <2>2, <3>1, <3>2
      <3> QED
        BY <3>3
    <2>4. A(Len(s) + 1) \in [Str -> T] /\ A(Len(s) + 1)[s] = d[<<A(Len(s) + 1), s>>]
      BY <2>1, <2>2 DEF Up
    <2>5. F[s] = A(Len(s) + 1)[s]
      OBVIOUS
    <2> HIDE DEF F
    <2>6. d[<<F, s>>] = d[<<A(Len(s) + 1), s>>]
      BY <1>3, <2>3, <2>4 DEF Narrow
    <2> QED
      BY <2>4, <2>5, <2>6
  <1> QED
    BY <1>3, <1>4 DEF Solves

-----------------------------------------------------------------------------
\* The readings of the contents of a string.
PieceValues == {p.value : p \in Scanner!Pieces}
Fits(s) == {p \in Scanner!Pieces : Scanner!EndsWith(s, p.text)}
Before(s, p) == SubSeq(s, 1, Len(s) - Len(p.text))
Extended(f, s, p) == {Append(b, p.value) : b \in f[Before(s, p)]}
Gathered(f, s) == IF s = <<>> THEN {<<>>} ELSE UNION {Extended(f, s, p) : p \in Fits(s)}

LEMMA PieceTexts ==
    ASSUME NEW p \in Scanner!Pieces
    PROVE  p.text \in Str /\ Len(p.text) \in 1 .. 6 /\ p.value \in PieceValues
  <1>1. p.value \in PieceValues
    BY DEF PieceValues
  <1>2. CASE p \in {[text |-> <<c>>, value |-> c] : c \in Scanner!Char \ {"q", "bs", "ctl", "nul"}}
    <2>1. PICK c \in Scanner!Char : p.text = <<c>>
      BY <1>2
    <2> QED
      BY <1>1, <2>1 DEF Str
  <1>3. CASE p \notin {[text |-> <<c>>, value |-> c] : c \in Scanner!Char \ {"q", "bs", "ctl", "nul"}}
    <2>1. p.text \in {<<"bs", "q">>, <<"bs", "bs">>, <<"bs", "n">>, <<"bs", "u", "bmp">>,
                      <<"bs", "u", "hi", "bs", "u", "lo">>}
      BY <1>3 DEF Scanner!Pieces
    <2>2. {"bs", "q", "n", "u", "hi", "lo", "bmp"} \subseteq Scanner!Char
      BY DEF Scanner!Char
    <2>3. Len(p.text) \in 1 .. 6
      BY <2>1
    <2> DEFINE C == Scanner!Char
    <2>4. /\ <<"bs", "q">> \in Seq(C) /\ <<"bs", "bs">> \in Seq(C) /\ <<"bs", "n">> \in Seq(C)
          /\ <<"bs", "u", "bmp">> \in Seq(C) /\ <<"bs", "u", "hi", "bs", "u", "lo">> \in Seq(C)
      <3> HIDE DEF C
      <3>1. "bs" \in C /\ "q" \in C /\ "n" \in C /\ "u" \in C /\ "hi" \in C /\ "lo" \in C /\ "bmp" \in C
        BY <2>2 DEF C
      <3> QED
        BY <3>1
    <2>5. p.text \in Str
      BY <2>1, <2>4 DEF Str
    <2> QED
      BY <1>1, <2>3, <2>5
  <1> QED
    BY <1>2, <1>3

\* The beginning of a text.
LEMMA Beginning ==
    ASSUME NEW s \in Str, NEW n \in Nat, n <= Len(s)
    PROVE  /\ SubSeq(s, 1, n) \in Str /\ Len(SubSeq(s, 1, n)) = n
           /\ \A k \in 1 .. n : SubSeq(s, 1, n)[k] = s[k]
  <1>1. Len(s) \in Nat /\ \A k \in 1 .. n : s[k] \in Scanner!Char
    BY DEF Str
  <1> QED
    BY <1>1 DEF Str

LEMMA PieceTaken ==
    ASSUME NEW s \in Str, NEW p \in Fits(s)
    PROVE  /\ p \in Scanner!Pieces /\ Len(p.text) \in 1 .. 6 /\ p.value \in PieceValues
           /\ Before(s, p) \in Str /\ Len(Before(s, p)) = Len(s) - Len(p.text)
           /\ Len(Before(s, p)) < Len(s)
           /\ \A k \in 1 .. Len(s) - Len(p.text) : Before(s, p)[k] = s[k]
  <1>1. p \in Scanner!Pieces /\ Len(p.text) \in 1 .. 6 /\ p.value \in PieceValues
    BY PieceTexts DEF Fits
  <1>2. Len(p.text) <= Len(s) /\ Len(s) \in Nat
    BY LengthOfStr DEF Fits, Scanner!EndsWith
  <1>3. Len(s) - Len(p.text) \in Nat /\ Len(s) - Len(p.text) <= Len(s)
    BY <1>1, <1>2
  <1> DEFINE n == Len(s) - Len(p.text)
  <1>4. /\ Before(s, p) \in Str /\ Len(Before(s, p)) = n
        /\ \A k \in 1 .. n : Before(s, p)[k] = s[k]
    <2>1. Before(s, p) = SubSeq(s, 1, n)
      BY DEF Before
    <2>2. n \in Nat /\ n <= Len(s)
      BY <1>3
    <2> HIDE DEF n
    <2> QED
      BY <2>1, <2>2, Beginning
  <1>5. n < Len(s)
    <2>1. \A i \in 1 .. 6 : i \in Nat /\ i >= 1
      OBVIOUS
    <2>2. Len(p.text) \in Nat /\ Len(p.text) >= 1
      BY <1>1, <2>1
    <2> QED
      BY <1>2, <2>2
  <1> QED
    BY <1>1, <1>4, <1>5

LEMMA ContentsUnfolds ==
    \A s \in Str : Scanner!Contents[s] = Gathered(Scanner!Contents, s)
  <1> DEFINE T == SUBSET Seq(PieceValues)
             d == [fs \in [Str -> T] \X Str |-> Gathered(fs[1], fs[2])]
  <1>1. ASSUME NEW f \in [Str -> T], NEW s \in Str PROVE Gathered(f, s) \in T
    <2>1. ASSUME NEW p \in Fits(s) PROVE Extended(f, s, p) \subseteq Seq(PieceValues)
      <3>1. f[Before(s, p)] \subseteq Seq(PieceValues) /\ p.value \in PieceValues
        BY PieceTaken
      <3> QED
        BY <3>1 DEF Extended
    <2>2. <<>> \in Seq(PieceValues)
      OBVIOUS
    <2> QED
      BY <2>1, <2>2 DEF Gathered
  <1>2. ASSUME NEW f \in [Str -> T], NEW g \in [Str -> T], NEW s \in Str,
               \A r \in Str : Len(r) < Len(s) => f[r] = g[r]
        PROVE  Gathered(f, s) = Gathered(g, s)
    <2>1. \A p \in Fits(s) : f[Before(s, p)] = g[Before(s, p)]
      BY <1>2, PieceTaken
    <2>2. \A p \in Fits(s) : Extended(f, s, p) = Extended(g, s, p)
      BY <2>1 DEF Extended
    <2> QED
      BY <2>2 DEF Gathered
  <1> HIDE DEF T
  <1>3. Rule(d, T)
    BY <1>1 DEF Rule
  <1>4. \A f \in [Str -> T], s \in Str : d[<<f, s>>] = Gathered(f, s)
    OBVIOUS
  <1>5. Narrow(d, T)
    <2> HIDE DEF d
    <2> QED
      BY <1>2, <1>4 DEF Narrow
  <1>6. T # {}
    BY DEF T
  <1> HIDE DEF d
  <1>7. PICK f : Solves(f, d, T)
    BY <1>3, <1>5, <1>6, TextRecursion
  <1>8. f = [s \in Str |-> Gathered(f, s)]
    BY <1>4, <1>7 DEF Solves
  <1>9. Scanner!Contents = CHOOSE h : h = [s \in Str |-> Gathered(h, s)]
    BY DEF Scanner!Contents, Str, Gathered, Extended, Before, Fits
  <1>10. Scanner!Contents = [s \in Str |-> Gathered(Scanner!Contents, s)]
    BY <1>8, <1>9
  <1> DEFINE G(s) == Gathered(Scanner!Contents, s)
  <1>11. Scanner!Contents = [s \in Str |-> G(s)]
    BY <1>10
  <1> HIDE DEF G
  <1>12. \A s \in Str : Scanner!Contents[s] = G(s)
    BY <1>11
  <1> QED
    BY <1>12 DEF G

-----------------------------------------------------------------------------
Cut(s, n) == SubSeq(s, 1, Len(s) - n)
Readings(s) == Scanner!Contents[s]
Ends(s, p) == Scanner!EndsWith(s, p)
Special == {"q", "bs", "ctl", "nul"}
Short(x) == IF x = "n" THEN "newline" ELSE x

LEMMA AppendedText ==
    ASSUME NEW s \in Str, NEW x \in Scanner!Char
    PROVE  /\ Append(s, x) \in Str /\ Len(Append(s, x)) = Len(s) + 1 /\ Append(s, x) # <<>>
           /\ Append(s, x)[Len(s) + 1] = x
           /\ \A k \in 1 .. Len(s) : Append(s, x)[k] = s[k]
  BY DEF Str

LEMMA SameText ==
    ASSUME NEW s \in Str, NEW t \in Str, Len(s) = Len(t), \A k \in 1 .. Len(s) : s[k] = t[k]
    PROVE  s = t
  <1>1. s \in Seq(Scanner!Char) /\ t \in Seq(Scanner!Char)
    BY DEF Str
  <1> QED
    BY ONLY <1>1, Len(s) = Len(t), \A k \in 1 .. Len(s) : s[k] = t[k], SeqEqual, Zenon

LEMMA CutText ==
    ASSUME NEW s \in Str, NEW n \in Nat, n <= Len(s)
    PROVE  /\ Cut(s, n) \in Str /\ Len(Cut(s, n)) = Len(s) - n
           /\ \A k \in 1 .. Len(s) - n : Cut(s, n)[k] = s[k]
  <1> DEFINE m == Len(s) - n
  <1>1. m \in Nat /\ m <= Len(s)
    BY LengthOfStr
  <1> HIDE DEF m
  <1>2. /\ SubSeq(s, 1, m) \in Str /\ Len(SubSeq(s, 1, m)) = m
        /\ \A k \in 1 .. m : SubSeq(s, 1, m)[k] = s[k]
    BY <1>1, Beginning
  <1> QED
    BY <1>2 DEF Cut, m

LEMMA CutAppended ==
    ASSUME NEW s \in Str, NEW x \in Scanner!Char, NEW n \in Nat, n <= Len(s)
    PROVE  Cut(Append(s, x), n + 1) = Cut(s, n)
  <1>1. Len(s) \in Nat /\ n + 1 \in Nat /\ n + 1 <= Len(s) + 1
        /\ Len(s) + 1 - (n + 1) = Len(s) - n
        /\ \A k \in 1 .. Len(s) - n : k \in 1 .. Len(s)
    BY LengthOfStr
  <1>2. /\ Cut(Append(s, x), n + 1) \in Str /\ Len(Cut(Append(s, x), n + 1)) = Len(s) - n
        /\ \A k \in 1 .. Len(s) - n : Cut(Append(s, x), n + 1)[k] = Append(s, x)[k]
    <2> DEFINE t == Append(s, x)
               m == n + 1
    <2>1. t \in Str /\ Len(t) = Len(s) + 1
      BY AppendedText
    <2>2. m \in Nat /\ m <= Len(t) /\ Len(t) - m = Len(s) - n
      BY <1>1, <2>1
    <2> HIDE DEF t, m
    <2>3. /\ Cut(t, m) \in Str /\ Len(Cut(t, m)) = Len(t) - m
          /\ \A k \in 1 .. Len(t) - m : Cut(t, m)[k] = t[k]
      BY <2>1, <2>2, CutText
    <2> QED
      BY <2>2, <2>3 DEF t, m
  <1>3. /\ Cut(s, n) \in Str /\ Len(Cut(s, n)) = Len(s) - n
        /\ \A k \in 1 .. Len(s) - n : Cut(s, n)[k] = s[k]
    BY CutText
  <1>4. \A k \in 1 .. Len(s) - n : Append(s, x)[k] = s[k]
    BY <1>1, AppendedText
  <1> QED
    BY <1>2, <1>3, <1>4, SameText

LEMMA NothingCut == \A s \in Str : Cut(s, 0) = s
  <1> SUFFICES ASSUME NEW s \in Str PROVE Cut(s, 0) = s
    OBVIOUS
  <1>1. Len(s) \in Nat /\ Len(s) - 0 = Len(s) /\ 0 \in Nat /\ 0 <= Len(s)
    BY LengthOfStr
  <1>2. Cut(s, 0) \in Str /\ Len(Cut(s, 0)) = Len(s) /\ \A k \in 1 .. Len(s) : Cut(s, 0)[k] = s[k]
    BY <1>1, CutText
  <1> QED
    BY <1>2, SameText

\* What the last piece of a text can be, by its last character.
LEMMA PieceIs ==
    \A p : p \in Scanner!Pieces <=>
             \/ \E c \in Scanner!Char \ Special : p = [text |-> <<c>>, value |-> c]
             \/ \E c \in {"q", "bs", "n"} : p = [text |-> <<"bs", c>>, value |-> Short(c)]
             \/ p = [text |-> <<"bs", "u", "bmp">>, value |-> "U+bmp"]
             \/ p = [text |-> <<"bs", "u", "hi", "bs", "u", "lo">>, value |-> "U+astral"]
  BY DEF Scanner!Pieces, Special, Short

\* The readings of a text that is one character longer.
OneMore(s, x, v) ==
    \/ x \notin Special /\ \E b \in Readings(s) : v = Append(b, x)
    \/ /\ x \in {"q", "bs", "n"} /\ Ends(s, <<"bs">>)
       /\ \E b \in Readings(Cut(s, 1)) : v = Append(b, Short(x))
    \/ /\ x = "bmp" /\ Ends(s, <<"bs", "u">>)
       /\ \E b \in Readings(Cut(s, 2)) : v = Append(b, "U+bmp")
    \/ /\ x = "lo" /\ Ends(s, <<"bs", "u", "hi", "bs", "u">>)
       /\ \E b \in Readings(Cut(s, 5)) : v = Append(b, "U+astral")

LEMMA EndsAppended ==
    ASSUME NEW s \in Str, NEW x \in Scanner!Char, NEW c
    PROVE  /\ Ends(Append(s, x), <<c>>) <=> x = c
           /\ \A a : Ends(Append(s, x), <<a, c>>) <=> x = c /\ Ends(s, <<a>>)
           /\ \A a, b : Ends(Append(s, x), <<a, b, c>>) <=> x = c /\ Ends(s, <<a, b>>)
           /\ \A a, b, d, e, f : Ends(Append(s, x), <<a, b, d, e, f, c>>) <=> x = c /\ Ends(s, <<a, b, d, e, f>>)
  <1>1. /\ Len(s) \in Nat /\ Len(Append(s, x)) = Len(s) + 1 /\ Append(s, x)[Len(s) + 1] = x
        /\ \A k \in 1 .. Len(s) : Append(s, x)[k] = s[k]
    BY AppendedText, LengthOfStr
  <1> DEFINE t == Append(s, x)
             n == Len(s)
  <1> HIDE DEF t, n
  <1>2. n \in Nat /\ Len(t) = n + 1 /\ t[n + 1] = x /\ Len(s) = n /\ \A k \in 1 .. n : t[k] = s[k]
    BY <1>1 DEF t, n
  <1>3. Ends(t, <<c>>) <=> x = c
    BY <1>2 DEF Ends, Scanner!EndsWith
  <1>4. ASSUME NEW a PROVE Ends(t, <<a, c>>) <=> x = c /\ Ends(s, <<a>>)
    BY <1>2 DEF Ends, Scanner!EndsWith
  <1>5. ASSUME NEW a, NEW b PROVE Ends(t, <<a, b, c>>) <=> x = c /\ Ends(s, <<a, b>>)
    BY <1>2 DEF Ends, Scanner!EndsWith
  <1>6. ASSUME NEW a, NEW b, NEW d, NEW e, NEW f
        PROVE Ends(t, <<a, b, d, e, f, c>>) <=> x = c /\ Ends(s, <<a, b, d, e, f>>)
    BY <1>2 DEF Ends, Scanner!EndsWith
  <1> QED
    BY <1>3, <1>4, <1>5, <1>6 DEF t

LEMMA ContentsOfMore ==
    ASSUME NEW s \in Str, NEW x \in Scanner!Char, NEW v
    PROVE  v \in Readings(Append(s, x)) <=> OneMore(s, x, v)
  <1> DEFINE t == Append(s, x)
  <1>1. t \in Str /\ t # <<>> /\ Len(t) = Len(s) + 1 /\ Len(s) \in Nat
    BY AppendedText, LengthOfStr
  <1>2. v \in Readings(t) <=>
          \E p \in Scanner!Pieces : Ends(t, p.text) /\ \E b \in Readings(Before(t, p)) : v = Append(b, p.value)
    <2>1. Readings(t) = UNION {Extended(Scanner!Contents, t, p) : p \in Fits(t)}
      BY <1>1, ContentsUnfolds DEF Readings, Gathered
    <2> QED
      BY <2>1 DEF Extended, Fits, Ends, Readings
  <1> DEFINE Way(p) == Ends(t, p.text) /\ \E b \in Readings(Before(t, p)) : v = Append(b, p.value)
  <1>3. ASSUME NEW n \in Nat, n <= Len(s), NEW p, Len(p.text) = n + 1 PROVE Before(t, p) = Cut(s, n)
    <2>1. Before(t, p) = Cut(t, n + 1)
      BY <1>3 DEF Before, Cut
    <2> QED
      BY <1>3, <2>1, CutAppended
  <1>4. \A n \in Nat : \A p : Len(p.text) = n + 1 /\ Ends(t, p.text) => n <= Len(s)
    BY <1>1 DEF Ends, Scanner!EndsWith
  <1> HIDE DEF t
  <1>5. ASSUME NEW c PROVE Way([text |-> <<c>>, value |-> c]) <=> x = c /\ \E b \in Readings(s) : v = Append(b, c)
    <2> DEFINE p == [text |-> <<c>>, value |-> c]
    <2>1. p.text = <<c>> /\ p.value = c /\ Len(p.text) = 0 + 1 /\ 0 \in Nat /\ 0 <= Len(s)
      BY <1>1
    <2> HIDE DEF p
    <2>2. Before(t, p) = s
      BY <1>3, <2>1, NothingCut
    <2>3. Ends(t, <<c>>) <=> x = c
      BY EndsAppended DEF t
    <2> QED
      BY <2>1, <2>2, <2>3 DEF p
  <1>6. ASSUME NEW c PROVE Way([text |-> <<"bs", c>>, value |-> Short(c)]) <=>
              x = c /\ Ends(s, <<"bs">>) /\ \E b \in Readings(Cut(s, 1)) : v = Append(b, Short(c))
    <2> DEFINE p == [text |-> <<"bs", c>>, value |-> Short(c)]
    <2>1. p.text = <<"bs", c>> /\ p.value = Short(c) /\ Len(p.text) = 1 + 1 /\ 1 \in Nat
      OBVIOUS
    <2> HIDE DEF p
    <2>2. Ends(t, p.text) <=> x = c /\ Ends(s, <<"bs">>)
      BY <2>1, EndsAppended DEF t
    <2>3. Ends(t, p.text) => Before(t, p) = Cut(s, 1)
      BY <1>3, <1>4, <2>1
    <2> QED
      BY <2>1, <2>2, <2>3 DEF p
  <1>7. Way([text |-> <<"bs", "u", "bmp">>, value |-> "U+bmp"]) <=>
              x = "bmp" /\ Ends(s, <<"bs", "u">>) /\ \E b \in Readings(Cut(s, 2)) : v = Append(b, "U+bmp")
    <2> DEFINE p == [text |-> <<"bs", "u", "bmp">>, value |-> "U+bmp"]
    <2>1. p.text = <<"bs", "u", "bmp">> /\ p.value = "U+bmp" /\ Len(p.text) = 2 + 1 /\ 2 \in Nat
      OBVIOUS
    <2> HIDE DEF p
    <2>2. Ends(t, p.text) <=> x = "bmp" /\ Ends(s, <<"bs", "u">>)
      BY <2>1, EndsAppended DEF t
    <2>3. Ends(t, p.text) => Before(t, p) = Cut(s, 2)
      BY <1>3, <1>4, <2>1
    <2> QED
      BY <2>1, <2>2, <2>3 DEF p
  <1>8. Way([text |-> <<"bs", "u", "hi", "bs", "u", "lo">>, value |-> "U+astral"]) <=>
              /\ x = "lo" /\ Ends(s, <<"bs", "u", "hi", "bs", "u">>)
              /\ \E b \in Readings(Cut(s, 5)) : v = Append(b, "U+astral")
    <2> DEFINE p == [text |-> <<"bs", "u", "hi", "bs", "u", "lo">>, value |-> "U+astral"]
    <2>1. /\ p.text = <<"bs", "u", "hi", "bs", "u", "lo">> /\ p.value = "U+astral"
          /\ Len(p.text) = 5 + 1 /\ 5 \in Nat
      OBVIOUS
    <2> HIDE DEF p
    <2>2. Ends(t, p.text) <=> x = "lo" /\ Ends(s, <<"bs", "u", "hi", "bs", "u">>)
      BY <2>1, EndsAppended DEF t
    <2>3. Ends(t, p.text) => Before(t, p) = Cut(s, 5)
      BY <1>3, <1>4, <2>1
    <2> QED
      BY <2>1, <2>2, <2>3 DEF p
  <1>9. (\E p \in Scanner!Pieces : Way(p)) <=>
          \/ \E c \in Scanner!Char \ Special : Way([text |-> <<c>>, value |-> c])
          \/ \E c \in {"q", "bs", "n"} : Way([text |-> <<"bs", c>>, value |-> Short(c)])
          \/ Way([text |-> <<"bs", "u", "bmp">>, value |-> "U+bmp"])
          \/ Way([text |-> <<"bs", "u", "hi", "bs", "u", "lo">>, value |-> "U+astral"])
    <2> HIDE DEF Way
    <2>1. ASSUME NEW p \in Scanner!Pieces, Way(p)
          PROVE  \/ \E c \in Scanner!Char \ Special : Way([text |-> <<c>>, value |-> c])
                 \/ \E c \in {"q", "bs", "n"} : Way([text |-> <<"bs", c>>, value |-> Short(c)])
                 \/ Way([text |-> <<"bs", "u", "bmp">>, value |-> "U+bmp"])
                 \/ Way([text |-> <<"bs", "u", "hi", "bs", "u", "lo">>, value |-> "U+astral"])
      <3>1. \/ \E c \in Scanner!Char \ Special : p = [text |-> <<c>>, value |-> c]
            \/ \E c \in {"q", "bs", "n"} : p = [text |-> <<"bs", c>>, value |-> Short(c)]
            \/ p = [text |-> <<"bs", "u", "bmp">>, value |-> "U+bmp"]
            \/ p = [text |-> <<"bs", "u", "hi", "bs", "u", "lo">>, value |-> "U+astral"]
        BY PieceIs
      <3>2. \A c : p = c => Way(c)
        BY <2>1
      <3> QED
        BY <3>1, <3>2, Zenon
    <2>2. ASSUME NEW c \in Scanner!Char \ Special PROVE [text |-> <<c>>, value |-> c] \in Scanner!Pieces
      BY PieceIs, Zenon
    <2>3. ASSUME NEW c \in {"q", "bs", "n"} PROVE [text |-> <<"bs", c>>, value |-> Short(c)] \in Scanner!Pieces
      BY PieceIs, Zenon
    <2>4. /\ [text |-> <<"bs", "u", "bmp">>, value |-> "U+bmp"] \in Scanner!Pieces
          /\ [text |-> <<"bs", "u", "hi", "bs", "u", "lo">>, value |-> "U+astral"] \in Scanner!Pieces
      BY PieceIs, Zenon
    <2> QED
      BY <2>1, <2>2, <2>3, <2>4, Zenon
  <1>10. v \in Readings(t) <=> \E p \in Scanner!Pieces : Way(p)
    BY <1>2 DEF t
  <1> HIDE DEF Way
  <1>11. (\E c \in Scanner!Char \ Special : Way([text |-> <<c>>, value |-> c])) <=>
             x \notin Special /\ \E b \in Readings(s) : v = Append(b, x)
    BY <1>5, Zenon
  <1>12. (\E c \in {"q", "bs", "n"} : Way([text |-> <<"bs", c>>, value |-> Short(c)])) <=>
             /\ x \in {"q", "bs", "n"} /\ Ends(s, <<"bs">>)
             /\ \E b \in Readings(Cut(s, 1)) : v = Append(b, Short(x))
    BY <1>6, Zenon
  <1>13. v \in Readings(t) <=> OneMore(s, x, v)
    BY <1>7, <1>8, <1>9, <1>10, <1>11, <1>12, Zenon DEF OneMore
  <1> QED
    BY <1>13 DEF t

LEMMA ContentsOfNothing == Readings(<<>>) = {<<>>}
  <1>1. <<>> \in Str
    BY DEF Str
  <1> QED
    BY <1>1, ContentsUnfolds DEF Readings, Gathered

-----------------------------------------------------------------------------
Complete(s) == Readings(s) # {}

\* A complete text and the beginning of an escape.
Esc1(s) == Append(s, "bs")
Esc2(s) == Append(Esc1(s), "u")
Esc3(s) == Append(Esc2(s), "hi")
Esc4(s) == Append(Esc3(s), "bs")
Esc5(s) == Append(Esc4(s), "u")
Open(w) == \E s \in Str : Complete(s) /\ w \in {Esc1(s), Esc2(s), Esc3(s), Esc4(s), Esc5(s)}

LEMMA EscapeTexts ==
    \A s \in Str : Esc1(s) \in Str /\ Esc2(s) \in Str /\ Esc3(s) \in Str /\ Esc4(s) \in Str /\ Esc5(s) \in Str
  <1>1. {"bs", "u", "hi"} \subseteq Scanner!Char
    BY DEF Scanner!Char
  <1> QED
    BY <1>1, AppendedText DEF Esc1, Esc2, Esc3, Esc4, Esc5

LEMMA LastCut ==
    ASSUME NEW s \in Str, Len(s) >= 1
    PROVE  /\ Cut(s, 1) \in Str /\ Len(Cut(s, 1)) = Len(s) - 1 /\ s[Len(s)] \in Scanner!Char
           /\ s = Append(Cut(s, 1), s[Len(s)])
  <1> DEFINE n == Len(s)
             r == Cut(s, 1)
             x == s[n]
  <1>1. n \in Nat /\ n >= 1 /\ 1 \in Nat /\ n \in 1 .. n /\ x \in Scanner!Char
    BY DEF Str
  <1>2. r \in Str /\ Len(r) = n - 1 /\ \A k \in 1 .. n - 1 : r[k] = s[k]
    BY <1>1, CutText
  <1> HIDE DEF r, x
  <1>3. /\ Append(r, x) \in Str /\ Len(Append(r, x)) = Len(r) + 1 /\ Append(r, x)[Len(r) + 1] = x
        /\ \A k \in 1 .. Len(r) : Append(r, x)[k] = r[k]
    BY <1>1, <1>2, AppendedText
  <1>4. Len(Append(r, x)) = n
    BY <1>1, <1>2, <1>3
  <1>5. \A k \in 1 .. n : Append(r, x)[k] = s[k]
    <2> SUFFICES ASSUME NEW k \in 1 .. n PROVE Append(r, x)[k] = s[k]
      OBVIOUS
    <2>1. CASE k = n
      BY <1>1, <1>2, <1>3, <2>1 DEF x
    <2>2. CASE k \in 1 .. n - 1
      BY <1>2, <1>3, <2>2
    <2>3. k = n \/ k \in 1 .. n - 1
      BY <1>1
    <2> QED
      BY <2>1, <2>2, <2>3
  <1>6. s = Append(r, x)
    BY <1>3, <1>4, <1>5, SameText
  <1> QED
    BY <1>1, <1>2, <1>6 DEF r, x

LEMMA AppendSame ==
    \A s, t \in Str, x, y \in Scanner!Char : Append(s, x) = Append(t, y) => s = t /\ x = y
  <1> SUFFICES ASSUME NEW s \in Str, NEW t \in Str, NEW x \in Scanner!Char, NEW y \in Scanner!Char,
                      Append(s, x) = Append(t, y)
               PROVE  s = t /\ x = y
    OBVIOUS
  <1>1. Len(s) + 1 = Len(t) + 1 /\ Len(s) \in Nat /\ Len(t) \in Nat
    BY AppendedText, LengthOfStr
  <1>2. Len(s) = Len(t)
    BY <1>1
  <1> DEFINE a == Append(s, x)
  <1>3. a[Len(s) + 1] = x /\ \A k \in 1 .. Len(s) : a[k] = s[k]
    BY AppendedText
  <1>4. a = Append(t, y)
    OBVIOUS
  <1> HIDE DEF a
  <1>5. a[Len(t) + 1] = y /\ \A k \in 1 .. Len(t) : a[k] = t[k]
    BY <1>4, AppendedText
  <1>6. x = y /\ \A k \in 1 .. Len(s) : s[k] = t[k]
    BY <1>2, <1>3, <1>5
  <1> QED
    BY <1>2, <1>6, SameText

\* What ends in the beginning of an escape.
LEMMA EndsAre ==
    ASSUME NEW s \in Str
    PROVE  /\ Ends(s, <<"bs">>) => s = Esc1(Cut(s, 1)) /\ Cut(s, 1) \in Str /\ Len(Cut(s, 1)) < Len(s)
           /\ Ends(s, <<"bs", "u">>) => s = Esc2(Cut(s, 2)) /\ Cut(s, 2) \in Str
           /\ Ends(s, <<"bs", "u", "hi">>) => s = Esc3(Cut(s, 3)) /\ Cut(s, 3) \in Str
           /\ Ends(s, <<"bs", "u", "hi", "bs">>) => s = Esc4(Cut(s, 4)) /\ Cut(s, 4) \in Str
           /\ Ends(s, <<"bs", "u", "hi", "bs", "u">>) => s = Esc5(Cut(s, 5)) /\ Cut(s, 5) \in Str
  <1> DEFINE n == Len(s)
  <1>1. n \in Nat
    BY LengthOfStr
  <1>2. ASSUME NEW m \in Nat, m < n
        PROVE  /\ Cut(s, m) \in Str /\ Cut(s, m + 1) \in Str /\ s[n - m] \in Scanner!Char
               /\ Cut(s, m) = Append(Cut(s, m + 1), s[n - m])
               /\ Len(Cut(s, m + 1)) < n
    <2> DEFINE t == Cut(s, m)
    <2>1. m <= n /\ m + 1 \in Nat /\ m + 1 <= n /\ n - m \in 1 .. n - m /\ n - m >= 1
      BY <1>1, <1>2
    <2>2. t \in Str /\ Len(t) = n - m /\ \A k \in 1 .. n - m : t[k] = s[k]
      BY <2>1, CutText
    <2>3. /\ Cut(s, m + 1) \in Str /\ Len(Cut(s, m + 1)) = n - (m + 1)
          /\ \A k \in 1 .. n - (m + 1) : Cut(s, m + 1)[k] = s[k]
      BY <2>1, CutText
    <2> HIDE DEF t
    <2>4. /\ Cut(t, 1) \in Str /\ Len(Cut(t, 1)) = Len(t) - 1 /\ t[Len(t)] \in Scanner!Char
          /\ t = Append(Cut(t, 1), t[Len(t)])
      BY <2>1, <2>2, LastCut
    <2>5. \A k \in 1 .. Len(t) - 1 : Cut(t, 1)[k] = t[k]
      BY <2>1, <2>2, CutText, ZenonT(40)
    <2>6. Len(t) - 1 = n - (m + 1)
      BY <1>1, <2>2
    <2>7. \A k \in 1 .. n - (m + 1) : Cut(t, 1)[k] = s[k]
      BY <1>1, <2>2, <2>5, <2>6
    <2>8. Cut(t, 1) = Cut(s, m + 1)
      BY <2>3, <2>4, <2>6, <2>7, SameText
    <2>9. n - (m + 1) < n
      BY <1>1
    <2> QED
      BY <2>1, <2>2, <2>3, <2>4, <2>8, <2>9 DEF t
  <1>3. Cut(s, 0) = s
    BY NothingCut
  <1> HIDE DEF n
  <1>4. ASSUME Ends(s, <<"bs">>) PROVE n >= 1 /\ s[n - 0] = "bs"
    BY <1>1, <1>4 DEF Ends, Scanner!EndsWith, n
  <1>5. ASSUME Ends(s, <<"bs", "u">>) PROVE n >= 2 /\ s[n - 0] = "u" /\ s[n - 1] = "bs"
    BY <1>1, <1>5 DEF Ends, Scanner!EndsWith, n
  <1>6. ASSUME Ends(s, <<"bs", "u", "hi">>) PROVE n >= 3 /\ s[n - 0] = "hi" /\ s[n - 1] = "u" /\ s[n - 2] = "bs"
    BY <1>1, <1>6 DEF Ends, Scanner!EndsWith, n
  <1>7. ASSUME Ends(s, <<"bs", "u", "hi", "bs">>)
        PROVE  n >= 4 /\ s[n - 0] = "bs" /\ s[n - 1] = "hi" /\ s[n - 2] = "u" /\ s[n - 3] = "bs"
    BY <1>1, <1>7 DEF Ends, Scanner!EndsWith, n
  <1>8. ASSUME Ends(s, <<"bs", "u", "hi", "bs", "u">>)
        PROVE  n >= 5 /\ s[n - 0] = "u" /\ s[n - 1] = "bs" /\ s[n - 2] = "hi" /\ s[n - 3] = "u" /\ s[n - 4] = "bs"
    BY <1>1, <1>8 DEF Ends, Scanner!EndsWith, n
  <1>9. /\ n >= 1 => Cut(s, 0) = Append(Cut(s, 1), s[n - 0]) /\ Cut(s, 1) \in Str /\ Len(Cut(s, 1)) < n
        /\ n >= 2 => Cut(s, 1) = Append(Cut(s, 2), s[n - 1]) /\ Cut(s, 2) \in Str /\ n >= 1
        /\ n >= 3 => Cut(s, 2) = Append(Cut(s, 3), s[n - 2]) /\ Cut(s, 3) \in Str /\ n >= 2
        /\ n >= 4 => Cut(s, 3) = Append(Cut(s, 4), s[n - 3]) /\ Cut(s, 4) \in Str /\ n >= 3
        /\ n >= 5 => Cut(s, 4) = Append(Cut(s, 5), s[n - 4]) /\ Cut(s, 5) \in Str /\ n >= 4
    <2>1. /\ n >= 1 => 0 < n /\ 0 \in Nat /\ 0 + 1 = 1
          /\ n >= 2 => 1 < n /\ 1 \in Nat /\ 1 + 1 = 2 /\ n >= 1
          /\ n >= 3 => 2 < n /\ 2 \in Nat /\ 2 + 1 = 3 /\ n >= 2
          /\ n >= 4 => 3 < n /\ 3 \in Nat /\ 3 + 1 = 4 /\ n >= 3
          /\ n >= 5 => 4 < n /\ 4 \in Nat /\ 4 + 1 = 5 /\ n >= 4
      BY <1>1
    <2> QED
      BY <1>2, <2>1
  <1>10. Ends(s, <<"bs">>) => s = Esc1(Cut(s, 1)) /\ Cut(s, 1) \in Str /\ Len(Cut(s, 1)) < n
    BY <1>3, <1>4, <1>9, Zenon DEF Esc1
  <1>11. Ends(s, <<"bs", "u">>) => s = Esc2(Cut(s, 2)) /\ Cut(s, 2) \in Str
    BY <1>3, <1>5, <1>9, Zenon DEF Esc1, Esc2
  <1>12. Ends(s, <<"bs", "u", "hi">>) => s = Esc3(Cut(s, 3)) /\ Cut(s, 3) \in Str
    BY <1>3, <1>6, <1>9, Zenon DEF Esc1, Esc2, Esc3
  <1>13. Ends(s, <<"bs", "u", "hi", "bs">>) => s = Esc4(Cut(s, 4)) /\ Cut(s, 4) \in Str
    BY <1>3, <1>7, <1>9, Zenon DEF Esc1, Esc2, Esc3, Esc4
  <1>14. Ends(s, <<"bs", "u", "hi", "bs", "u">>) => s = Esc5(Cut(s, 5)) /\ Cut(s, 5) \in Str
    BY <1>3, <1>8, <1>9, Zenon DEF Esc1, Esc2, Esc3, Esc4, Esc5
  <1> QED
    BY <1>10, <1>11, <1>12, <1>13, <1>14 DEF n

\* What begins an escape behind a complete text is not complete itself.
LEMMA BackslashAlone == \A s \in Str : Complete(s) => ~Complete(Esc1(s))
  <1> DEFINE P == {n \in Nat : \A s \in Str : Len(s) < n /\ Complete(s) => ~Complete(Esc1(s))}
  <1>1. 0 \in P
    BY LengthOfStr
  <1>2. ASSUME NEW n \in Nat, n \in P PROVE n + 1 \in P
    <2> SUFFICES ASSUME NEW s \in Str, Len(s) < n + 1, Complete(s), Complete(Esc1(s)) PROVE FALSE
      OBVIOUS
    <2>1. PICK v : v \in Readings(Esc1(s))
      BY DEF Complete
    <2>2. "bs" \in Scanner!Char
      BY DEF Scanner!Char
    <2>3. OneMore(s, "bs", v)
      BY <2>1, <2>2, ContentsOfMore DEF Esc1
    <2>4. Ends(s, <<"bs">>) /\ Complete(Cut(s, 1))
      BY <2>3 DEF OneMore, Special, Complete
    <2>5. s = Esc1(Cut(s, 1)) /\ Cut(s, 1) \in Str /\ Len(Cut(s, 1)) < Len(s)
      BY <2>4, EndsAre
    <2>6. Len(Cut(s, 1)) < n
      BY <2>5, LengthOfStr
    <2>7. ~Complete(Esc1(Cut(s, 1)))
      BY <1>2, <2>4, <2>5, <2>6
    <2> QED
      BY <2>5, <2>7
  <1> HIDE DEF P
  <1>3. Nat \subseteq P
    BY <1>1, <1>2, NumberInduction
  <1>4. \A s \in Str : Len(s) + 1 \in P /\ Len(s) < Len(s) + 1
    BY <1>3, LengthOfStr
  <1> QED
    BY <1>4 DEF P

\* A text ends in its last character.
LEMMA LastCharacter ==
    ASSUME NEW s \in Str, NEW x \in Scanner!Char
    PROVE  /\ Ends(Append(s, x), <<"bs">>) => x = "bs"
           /\ Ends(Append(s, x), <<"bs", "u">>) => x = "u"
           /\ Ends(Append(s, x), <<"bs", "u", "hi">>) => x = "hi"
           /\ Ends(Append(s, x), <<"bs", "u", "hi", "bs">>) => x = "bs"
           /\ Ends(Append(s, x), <<"bs", "u", "hi", "bs", "u">>) => x = "u"
  <1> DEFINE t == Append(s, x)
             n == Len(t)
  <1>1. n \in Nat /\ t[n] = x
    BY AppendedText, LengthOfStr
  <1> HIDE DEF t, n
  <1> QED
    BY <1>1 DEF t, n, Ends, Scanner!EndsWith

LEMMA EscapeIncomplete ==
    \A s \in Str : Complete(s) =>
        ~Complete(Esc1(s)) /\ ~Complete(Esc2(s)) /\ ~Complete(Esc3(s)) /\ ~Complete(Esc4(s)) /\ ~Complete(Esc5(s))
  <1> SUFFICES ASSUME NEW s \in Str, Complete(s)
               PROVE  ~Complete(Esc1(s)) /\ ~Complete(Esc2(s)) /\ ~Complete(Esc3(s))
                      /\ ~Complete(Esc4(s)) /\ ~Complete(Esc5(s))
    OBVIOUS
  <1>1. /\ Esc1(s) \in Str /\ Esc2(s) \in Str /\ Esc3(s) \in Str /\ Esc4(s) \in Str
        /\ "bs" \in Scanner!Char /\ "u" \in Scanner!Char /\ "hi" \in Scanner!Char
    BY EscapeTexts DEF Scanner!Char
  <1>2. ~Complete(Esc1(s))
    BY BackslashAlone
  <1>3. ~Complete(Esc2(s))
    <2>1. ASSUME NEW v, OneMore(Esc1(s), "u", v) PROVE FALSE
      BY <1>2, <2>1 DEF OneMore, Special, Complete
    <2> QED
      BY <1>1, <2>1, ContentsOfMore DEF Esc2, Complete
  <1>4. ~Complete(Esc3(s))
    <2>1. ASSUME NEW v, OneMore(Esc2(s), "hi", v) PROVE FALSE
      BY <1>3, <2>1 DEF OneMore, Special, Complete
    <2> QED
      BY <1>1, <2>1, ContentsOfMore DEF Esc3, Complete
  <1>5. ~Complete(Esc4(s))
    <2>1. ~Ends(Esc3(s), <<"bs">>)
      BY <1>1, LastCharacter DEF Esc3
    <2>2. ASSUME NEW v, OneMore(Esc3(s), "bs", v) PROVE FALSE
      BY <2>1, <2>2 DEF OneMore, Special
    <2> QED
      BY <1>1, <2>2, ContentsOfMore DEF Esc4, Complete
  <1>6. ~Complete(Esc5(s))
    <2>1. ASSUME NEW v, OneMore(Esc4(s), "u", v) PROVE FALSE
      BY <1>5, <2>1 DEF OneMore, Special, Complete
    <2> QED
      BY <1>1, <2>1, ContentsOfMore DEF Esc5, Complete
  <1> QED
    BY <1>2, <1>3, <1>4, <1>5, <1>6

\* The beginnings of what is open.
LEMMA EscapeCut ==
    ASSUME NEW s \in Str
    PROVE  /\ Cut(Esc1(s), 1) = s
           /\ Cut(Esc2(s), 1) = Esc1(s) /\ Cut(Esc2(s), 2) = s
           /\ Cut(Esc3(s), 1) = Esc2(s) /\ Cut(Esc3(s), 3) = s
           /\ Cut(Esc4(s), 1) = Esc3(s) /\ Cut(Esc4(s), 4) = s
           /\ Cut(Esc5(s), 1) = Esc4(s) /\ Cut(Esc5(s), 2) = Esc3(s) /\ Cut(Esc5(s), 3) = Esc2(s)
           /\ Cut(Esc5(s), 4) = Esc1(s) /\ Cut(Esc5(s), 5) = s
  <1>1. Esc1(s) \in Str /\ Esc2(s) \in Str /\ Esc3(s) \in Str /\ Esc4(s) \in Str /\ Esc5(s) \in Str
    BY EscapeTexts
  <1>2. {"bs", "u", "hi"} \subseteq Scanner!Char
    BY DEF Scanner!Char
  <1>3. /\ Len(s) \in Nat /\ Len(Esc1(s)) = Len(s) + 1 /\ Len(Esc2(s)) = Len(Esc1(s)) + 1
        /\ Len(Esc3(s)) = Len(Esc2(s)) + 1 /\ Len(Esc4(s)) = Len(Esc3(s)) + 1
    BY <1>1, <1>2, LengthOfStr, AppendedText DEF Esc1, Esc2, Esc3, Esc4
  <1>4. ASSUME NEW t \in Str, NEW x \in Scanner!Char
        PROVE  /\ Cut(Append(t, x), 1) = t
               /\ 1 <= Len(t) => Cut(Append(t, x), 2) = Cut(t, 1)
               /\ 2 <= Len(t) => Cut(Append(t, x), 3) = Cut(t, 2)
               /\ 3 <= Len(t) => Cut(Append(t, x), 4) = Cut(t, 3)
               /\ 4 <= Len(t) => Cut(Append(t, x), 5) = Cut(t, 4)
    <2>1. /\ 0 \in Nat /\ 1 \in Nat /\ 2 \in Nat /\ 3 \in Nat /\ 4 \in Nat /\ 0 <= Len(t)
          /\ 0 + 1 = 1 /\ 1 + 1 = 2 /\ 2 + 1 = 3 /\ 3 + 1 = 4 /\ 4 + 1 = 5
      BY LengthOfStr
    <2> QED
      BY <2>1, CutAppended, NothingCut
  <1>5. /\ 1 <= Len(Esc1(s)) /\ 2 <= Len(Esc2(s)) /\ 3 <= Len(Esc3(s)) /\ 4 <= Len(Esc4(s))
        /\ 1 <= Len(Esc2(s)) /\ 2 <= Len(Esc3(s)) /\ 3 <= Len(Esc4(s))
        /\ 1 <= Len(Esc3(s)) /\ 2 <= Len(Esc4(s)) /\ 1 <= Len(Esc4(s))
    BY <1>3
  <1>6. Cut(Esc1(s), 1) = s
    BY <1>2, <1>4 DEF Esc1
  <1>7. Cut(Esc2(s), 1) = Esc1(s) /\ Cut(Esc2(s), 2) = s
    BY <1>1, <1>2, <1>4, <1>5, <1>6 DEF Esc2
  <1>8. Cut(Esc3(s), 1) = Esc2(s) /\ Cut(Esc3(s), 2) = Esc1(s) /\ Cut(Esc3(s), 3) = s
    BY <1>1, <1>2, <1>4, <1>5, <1>7 DEF Esc3
  <1>9. /\ Cut(Esc4(s), 1) = Esc3(s) /\ Cut(Esc4(s), 2) = Esc2(s) /\ Cut(Esc4(s), 3) = Esc1(s)
        /\ Cut(Esc4(s), 4) = s
    BY <1>1, <1>2, <1>4, <1>5, <1>8 DEF Esc4
  <1>10. /\ Cut(Esc5(s), 1) = Esc4(s) /\ Cut(Esc5(s), 2) = Esc3(s) /\ Cut(Esc5(s), 3) = Esc2(s)
         /\ Cut(Esc5(s), 4) = Esc1(s) /\ Cut(Esc5(s), 5) = s
    BY <1>1, <1>2, <1>4, <1>5, <1>9 DEF Esc5
  <1> QED
    BY <1>6, <1>7, <1>8, <1>9, <1>10

\* The readings of a text that is complete and has one more piece.
LEMMA PieceAdded ==
    ASSUME NEW s \in Str, NEW b, Readings(s) = {b}
    PROVE  /\ \A x \in Scanner!Char \ Special : Readings(Append(s, x)) = {Append(b, x)}
           /\ \A x \in {"q", "bs", "n"} : Readings(Append(Esc1(s), x)) = {Append(b, Short(x))}
           /\ Readings(Append(Esc2(s), "bmp")) = {Append(b, "U+bmp")}
           /\ Readings(Append(Esc5(s), "lo")) = {Append(b, "U+astral")}
  <1>1. Complete(s) /\ Esc1(s) \in Str /\ Esc2(s) \in Str /\ Esc3(s) \in Str /\ Esc4(s) \in Str /\ Esc5(s) \in Str
    BY EscapeTexts DEF Complete
  <1>2. Readings(Esc1(s)) = {} /\ Readings(Esc2(s)) = {} /\ Readings(Esc5(s)) = {}
    BY <1>1, EscapeIncomplete DEF Complete
  <1>3. {"q", "bs", "n", "u", "hi", "lo", "bmp"} \subseteq Scanner!Char
    BY DEF Scanner!Char
  <1>4. ASSUME NEW x \in Scanner!Char \ Special PROVE Readings(Append(s, x)) = {Append(b, x)}
    <2>1. \A r \in Str : r \in {Cut(s, 1), Cut(s, 2), Cut(s, 5)} /\ Complete(r) =>
              s # Esc1(r) /\ s # Esc2(r) /\ s # Esc5(r)
      BY <1>1, EscapeIncomplete
    <2>2. ASSUME NEW v PROVE v \in Readings(Append(s, x)) <=> v = Append(b, x)
      <3>1. v \in Readings(Append(s, x)) <=> OneMore(s, x, v)
        BY ContentsOfMore
      <3>2. v = Append(b, x) => OneMore(s, x, v)
        BY DEF OneMore
      <3>3. OneMore(s, x, v) => v = Append(b, x)
        BY <2>1, EndsAre DEF OneMore, Complete
      <3> QED
        BY <3>1, <3>2, <3>3
    <2> QED
      BY <2>2
  <1>5. ASSUME NEW x \in {"q", "bs", "n"} PROVE Readings(Append(Esc1(s), x)) = {Append(b, Short(x))}
    <2>1. Ends(Esc1(s), <<"bs">>) /\ Cut(Esc1(s), 1) = s
      BY <1>3, EscapeCut, EndsAppended DEF Esc1
    <2>2. ASSUME NEW v PROVE v \in Readings(Append(Esc1(s), x)) <=> v = Append(b, Short(x))
      <3>1. v \in Readings(Append(Esc1(s), x)) <=> OneMore(Esc1(s), x, v)
        BY <1>1, <1>3, ContentsOfMore
      <3> QED
        BY <1>2, <2>1, <3>1 DEF OneMore
    <2> QED
      BY <2>2
  <1>6. Readings(Append(Esc2(s), "bmp")) = {Append(b, "U+bmp")}
    <2>1. Ends(Esc2(s), <<"bs", "u">>) /\ Cut(Esc2(s), 2) = s
      BY <1>1, <1>3, EscapeCut, EndsAppended DEF Esc1, Esc2
    <2>2. ASSUME NEW v PROVE v \in Readings(Append(Esc2(s), "bmp")) <=> v = Append(b, "U+bmp")
      <3>1. v \in Readings(Append(Esc2(s), "bmp")) <=> OneMore(Esc2(s), "bmp", v)
        BY <1>1, <1>3, ContentsOfMore
      <3> QED
        BY <1>2, <2>1, <3>1 DEF OneMore
    <2> QED
      BY <2>2
  <1>7. Readings(Append(Esc5(s), "lo")) = {Append(b, "U+astral")}
    <2>1. Ends(Esc5(s), <<"bs", "u", "hi", "bs", "u">>) /\ Cut(Esc5(s), 5) = s
      <3>1. /\ Len(s) \in Nat /\ Len(Esc1(s)) = Len(s) + 1 /\ Len(Esc2(s)) = Len(Esc1(s)) + 1
            /\ Len(Esc3(s)) = Len(Esc2(s)) + 1 /\ Len(Esc4(s)) = Len(Esc3(s)) + 1
        BY <1>1, <1>3, LengthOfStr, AppendedText DEF Esc1, Esc2, Esc3, Esc4
      <3>2. Ends(Esc5(s), <<"bs", "u", "hi", "bs", "u">>)
        <4> DEFINE n == Len(s)
        <4>1. /\ Len(Esc5(s)) = n + 5 /\ Esc5(s)[n + 1] = "bs" /\ Esc5(s)[n + 2] = "u" /\ Esc5(s)[n + 3] = "hi"
              /\ Esc5(s)[n + 4] = "bs" /\ Esc5(s)[n + 5] = "u"
          <5>1. /\ Esc1(s)[Len(s) + 1] = "bs"
                /\ Esc2(s)[Len(Esc1(s)) + 1] = "u" /\ \A k \in 1 .. Len(Esc1(s)) : Esc2(s)[k] = Esc1(s)[k]
                /\ Esc3(s)[Len(Esc2(s)) + 1] = "hi" /\ \A k \in 1 .. Len(Esc2(s)) : Esc3(s)[k] = Esc2(s)[k]
                /\ Esc4(s)[Len(Esc3(s)) + 1] = "bs" /\ \A k \in 1 .. Len(Esc3(s)) : Esc4(s)[k] = Esc3(s)[k]
                /\ Esc5(s)[Len(Esc4(s)) + 1] = "u" /\ \A k \in 1 .. Len(Esc4(s)) : Esc5(s)[k] = Esc4(s)[k]
                /\ Len(Esc5(s)) = Len(Esc4(s)) + 1
            BY <1>1, <1>3, AppendedText DEF Esc1, Esc2, Esc3, Esc4, Esc5
          <5> QED
            BY <3>1, <5>1
        <4> QED
          BY <3>1, <4>1, SMTT(30) DEF Ends, Scanner!EndsWith
      <3> QED
        BY <3>2, EscapeCut
    <2>2. ASSUME NEW v PROVE v \in Readings(Append(Esc5(s), "lo")) <=> v = Append(b, "U+astral")
      <3>1. v \in Readings(Append(Esc5(s), "lo")) <=> OneMore(Esc5(s), "lo", v)
        BY <1>1, <1>3, ContentsOfMore
      <3> QED
        BY <1>2, <2>1, <3>1 DEF OneMore
    <2> QED
      BY <2>2
  <1> QED
    BY <1>4, <1>5, <1>6, <1>7

-----------------------------------------------------------------------------
\* t begins with r.
Begins(t, r) == Len(r) <= Len(t) /\ \A k \in 1 .. Len(r) : t[k] = r[k]
\* No text that begins with w is complete.
Blocked(w) == \A t \in Str : Begins(t, w) => ~Complete(t)

LEMMA CutBegins ==
    ASSUME NEW t \in Str, NEW w \in Str, Begins(t, w), NEW n \in Nat, n <= Len(t), Len(w) <= Len(t) - n
    PROVE  Begins(Cut(t, n), w)
  <1>1. /\ Len(Cut(t, n)) = Len(t) - n /\ \A k \in 1 .. Len(t) - n : Cut(t, n)[k] = t[k]
    BY CutText
  <1>2. \A k \in 1 .. Len(w) : k \in 1 .. Len(t) - n
    BY LengthOfStr
  <1> QED
    BY <1>1, <1>2 DEF Begins

LEMMA BeginsWhole ==
    ASSUME NEW t \in Str, NEW w \in Str, Begins(t, w), Len(t) = Len(w) PROVE t = w
  BY SameText DEF Begins

\* A text that is neither complete nor open stays incomplete whatever follows: a piece
\* that reached over its end would have begun in it.
LEMMA NeverComplete ==
    ASSUME NEW w \in Str, ~Complete(w), ~Open(w)
    PROVE  Blocked(w)
  <1> DEFINE P == {n \in Nat : \A t \in Str : Len(t) < n /\ Begins(t, w) => ~Complete(t)}
  <1>1. 0 \in P
    BY LengthOfStr
  <1>2. ASSUME NEW n \in Nat, n \in P PROVE n + 1 \in P
    <2> SUFFICES ASSUME NEW t \in Str, Len(t) < n + 1, Begins(t, w), Complete(t) PROVE FALSE
      OBVIOUS
    <2> DEFINE u == Cut(t, 1)
               x == t[Len(t)]
    <2>1. Len(t) \in Nat /\ Len(w) \in Nat /\ Len(w) <= Len(t)
      BY LengthOfStr DEF Begins
    <2>2. Len(t) # Len(w)
      BY BeginsWhole
    <2>3. Len(t) >= 1 /\ 1 \in Nat /\ 1 <= Len(t) /\ Len(w) <= Len(t) - 1
      BY <2>1, <2>2
    <2>4. u \in Str /\ Len(u) = Len(t) - 1 /\ x \in Scanner!Char /\ t = Append(u, x)
      BY <2>3, LastCut
    <2>5. Begins(u, w)
      BY <2>3, CutBegins
    <2> HIDE DEF u, x
    <2>6. Len(u) \in Nat /\ Len(u) < n
      BY <2>1, <2>4
    <2>7. ~Complete(u)
      BY <1>2, <2>4, <2>5, <2>6
    <2>8. PICK v : OneMore(u, x, v)
      BY <2>4, ContentsOfMore DEF Complete
    <2>9. ASSUME NEW m \in Nat, m <= Len(u), Complete(Cut(u, m)) PROVE Len(u) - m < Len(w)
      <3> SUFFICES ASSUME Len(w) <= Len(u) - m PROVE FALSE
        BY <2>1, <2>6, <2>9
      <3>1. Begins(Cut(u, m), w) /\ Cut(u, m) \in Str /\ Len(Cut(u, m)) = Len(u) - m
        BY <2>4, <2>5, <2>9, CutBegins, CutText
      <3>2. Len(Cut(u, m)) < n
        BY <2>6, <2>9, <3>1
      <3> QED
        BY <1>2, <2>9, <3>1, <3>2
    \* w ends j characters before u does.
    <2>10. PICK j \in Nat : j <= Len(u) /\ Len(w) = Len(u) - j
      <3>1. Len(u) - Len(w) \in Nat
        BY <2>1, <2>3, <2>4
      <3> QED
        BY <2>1, <2>6, <3>1, SMTT(30)
    <2>11. w = Cut(u, j)
      <3>1. Begins(Cut(u, j), w) /\ Cut(u, j) \in Str /\ Len(Cut(u, j)) = Len(w)
        <4>1. Len(w) = Len(u) - j /\ Len(w) <= Len(u) - j
          BY <2>1, <2>10
        <4> QED
          BY <2>4, <2>5, <2>10, <4>1, CutBegins, CutText
      <3> QED
        BY <3>1, BeginsWhole
    <2>12. CASE Ends(u, <<"bs">>) /\ Complete(Cut(u, 1))
      <3>1. u = Esc1(Cut(u, 1)) /\ Cut(u, 1) \in Str /\ Len(u) >= 1
        BY <2>4, <2>6, <2>12, EndsAre DEF Ends, Scanner!EndsWith
      <3>2. j = 0
        BY <2>6, <2>9, <2>10, <2>12, <3>1
      <3> QED
        BY <2>4, <2>11, <2>12, <3>1, <3>2, NothingCut DEF Open
    <2>13. CASE Ends(u, <<"bs", "u">>) /\ Complete(Cut(u, 2))
      <3>1. u = Esc2(Cut(u, 2)) /\ Cut(u, 2) \in Str /\ Len(u) >= 2
        BY <2>4, <2>6, <2>13, EndsAre DEF Ends, Scanner!EndsWith
      <3>2. j = 0 \/ j = 1
        BY <2>6, <2>9, <2>10, <2>13, <3>1
      <3>3. Cut(u, 0) = u /\ Cut(u, 1) = Esc1(Cut(u, 2))
        BY <2>4, <2>6, <3>1, NothingCut, EscapeCut
      <3> QED
        BY <2>11, <2>13, <3>1, <3>2, <3>3 DEF Open
    <2>14. CASE Ends(u, <<"bs", "u", "hi", "bs", "u">>) /\ Complete(Cut(u, 5))
      <3>1. u = Esc5(Cut(u, 5)) /\ Cut(u, 5) \in Str /\ Len(u) >= 5
        BY <2>4, <2>6, <2>14, EndsAre DEF Ends, Scanner!EndsWith
      <3>2. j = 0 \/ j = 1 \/ j = 2 \/ j = 3 \/ j = 4
        BY <2>6, <2>9, <2>10, <2>14, <3>1
      <3>3. /\ Cut(u, 0) = u /\ Cut(u, 1) = Esc4(Cut(u, 5)) /\ Cut(u, 2) = Esc3(Cut(u, 5))
            /\ Cut(u, 3) = Esc2(Cut(u, 5)) /\ Cut(u, 4) = Esc1(Cut(u, 5))
        BY <2>4, <3>1, NothingCut, EscapeCut
      <3> QED
        BY <2>11, <2>14, <3>1, <3>2, <3>3 DEF Open
    <2> QED
      BY <2>7, <2>8, <2>12, <2>13, <2>14 DEF OneMore, Complete
  <1> HIDE DEF P
  <1>3. Nat \subseteq P
    BY <1>1, <1>2, NumberInduction
  <1>4. \A t \in Str : Len(t) + 1 \in P /\ Len(t) < Len(t) + 1
    BY <1>3, LengthOfStr
  <1> QED
    BY <1>4 DEF P, Blocked

LEMMA EscapeLast ==
    ASSUME NEW e \in Str, NEW r \in Str, NEW x \in Scanner!Char
    PROVE  /\ Append(e, x) = Esc1(r) => x = "bs" /\ e = r
           /\ Append(e, x) = Esc2(r) => x = "u" /\ e = Esc1(r)
           /\ Append(e, x) = Esc3(r) => x = "hi" /\ e = Esc2(r)
           /\ Append(e, x) = Esc4(r) => x = "bs" /\ e = Esc3(r)
           /\ Append(e, x) = Esc5(r) => x = "u" /\ e = Esc4(r)
  <1>1. /\ Esc1(r) \in Str /\ Esc2(r) \in Str /\ Esc3(r) \in Str /\ Esc4(r) \in Str
        /\ "bs" \in Scanner!Char /\ "u" \in Scanner!Char /\ "hi" \in Scanner!Char
    BY EscapeTexts DEF Scanner!Char
  <1>2. Append(e, x) = Esc1(r) => x = "bs" /\ e = r
    BY <1>1, AppendSame DEF Esc1
  <1>3. Append(e, x) = Esc2(r) => x = "u" /\ e = Esc1(r)
    BY <1>1, AppendSame DEF Esc2
  <1>4. Append(e, x) = Esc3(r) => x = "hi" /\ e = Esc2(r)
    BY <1>1, AppendSame DEF Esc3
  <1>5. Append(e, x) = Esc4(r) => x = "bs" /\ e = Esc3(r)
    BY <1>1, AppendSame DEF Esc4
  <1>6. Append(e, x) = Esc5(r) => x = "u" /\ e = Esc4(r)
    BY <1>1, AppendSame DEF Esc5
  <1> QED
    BY <1>2, <1>3, <1>4, <1>5, <1>6

\* Behind the quote that closes a string.
LEMMA ClosedBlocked == ASSUME NEW s \in Str, Complete(s) PROVE Blocked(Append(s, "q"))
  <1>1. "q" \in Scanner!Char
    BY DEF Scanner!Char
  <1>2. ~Complete(Append(s, "q"))
    <2>1. \A r \in Str : Complete(r) => s # Esc1(r)
      BY EscapeIncomplete
    <2>2. ASSUME NEW v, OneMore(s, "q", v) PROVE FALSE
      BY <2>1, <2>2, EndsAre DEF OneMore, Special, Complete
    <2> QED
      BY <1>1, <2>2, ContentsOfMore DEF Complete
  <1>3. ~Open(Append(s, "q"))
    BY <1>1, EscapeLast DEF Open
  <1>4. Append(s, "q") \in Str
    BY <1>1, AppendedText
  <1> QED
    BY <1>2, <1>3, <1>4, NeverComplete

-----------------------------------------------------------------------------
\* How far a string has come: its contents are c, and b is what has been read of them.
Inside(st, c, b) ==
    \E s \in Str : /\ Readings(s) = {b}
                   /\ \/ st = "string" /\ c = s
                      \/ st = "escape" /\ c = Esc1(s)
                      \/ st = "codepoint1" /\ c = Esc2(s)
                      \/ st = "backslash2" /\ c = Esc3(s)
                      \/ st = "u2" /\ c = Esc4(s)
                      \/ st = "codepoint2" /\ c = Esc5(s)
WrongNext(st, d) ==
    \/ st = "string" /\ d \in {"ctl", "nul"}
    \/ st = "escape" /\ d \notin {"q", "bs", "n", "u"}
    \/ st = "codepoint1" /\ d \notin {"bmp", "hi"}
    \/ st = "backslash2" /\ d # "bs"
    \/ st = "u2" /\ d # "u"
    \/ st = "codepoint2" /\ d # "lo"

LEMMA WrongBlocked ==
    ASSUME NEW st, NEW c, NEW b, Inside(st, c, b), NEW d \in Scanner!Char, WrongNext(st, d)
    PROVE  Append(c, d) \in Str /\ Blocked(Append(c, d))
  <1>1. PICK s \in Str : /\ Complete(s)
                         /\ \/ st = "string" /\ c = s
                            \/ st = "escape" /\ c = Esc1(s)
                            \/ st = "codepoint1" /\ c = Esc2(s)
                            \/ st = "backslash2" /\ c = Esc3(s)
                            \/ st = "u2" /\ c = Esc4(s)
                            \/ st = "codepoint2" /\ c = Esc5(s)
    BY DEF Inside, Complete
  <1>2. /\ c \in Str /\ Append(c, d) \in Str
        /\ Esc1(s) \in Str /\ Esc2(s) \in Str /\ Esc3(s) \in Str /\ Esc4(s) \in Str
        /\ {"bs", "u", "hi"} \subseteq Scanner!Char
    BY <1>1, EscapeTexts, AppendedText DEF Scanner!Char
  <1>3. ~Complete(Esc1(s)) /\ ~Complete(Esc2(s)) /\ ~Complete(Esc3(s)) /\ ~Complete(Esc4(s)) /\ ~Complete(Esc5(s))
    BY <1>1, EscapeIncomplete
  <1>4. \A r \in Str : Complete(r) => s # Esc1(r) /\ s # Esc2(r) /\ s # Esc3(r) /\ s # Esc4(r) /\ s # Esc5(r)
    BY <1>1, EscapeIncomplete
  <1>5. ASSUME NEW e \in Str, NEW r \in Str, NEW x \in Scanner!Char
        PROVE  /\ Append(e, x) = Esc1(r) => x = "bs" /\ e = r
               /\ Append(e, x) = Esc2(r) => x = "u" /\ e = Esc1(r)
               /\ Append(e, x) = Esc3(r) => x = "hi" /\ e = Esc2(r)
               /\ Append(e, x) = Esc4(r) => x = "bs" /\ e = Esc3(r)
               /\ Append(e, x) = Esc5(r) => x = "u" /\ e = Esc4(r)
    BY EscapeLast
  \* A piece cannot end with d, and no escape can be open behind it.
  <1>6. CASE st = "string"
    <2>1. c = s /\ d \in {"ctl", "nul"}
      BY <1>1, <1>6 DEF WrongNext
    <2>2. \A v : ~OneMore(c, d, v)
      BY <2>1 DEF OneMore, Special
    <2>3. ~Open(Append(c, d))
      BY <1>2, <1>5, <2>1 DEF Open
    <2> QED
      BY <1>2, <2>2, <2>3, ContentsOfMore, NeverComplete DEF Complete
  <1>7. CASE st = "escape"
    <2>1. c = Esc1(s) /\ d \notin {"q", "bs", "n", "u"}
      BY <1>1, <1>7 DEF WrongNext
    <2>2. \A v : ~OneMore(c, d, v)
      BY <1>2, <1>3, <2>1, LastCharacter DEF OneMore, Complete, Esc1
    <2>3. ~Open(Append(c, d))
      <3> SUFFICES ASSUME NEW r \in Str, Append(c, d) = Esc3(r) PROVE FALSE
        BY <1>2, <1>5, <2>1 DEF Open
      <3>1. c = Esc2(r)
        BY <1>2, <1>5
      <3>2. Append(s, "bs") = Esc2(r)
        BY <2>1, <3>1 DEF Esc1
      <3> QED
        BY <1>2, <1>5, <3>2
    <2> QED
      BY <1>2, <2>2, <2>3, ContentsOfMore, NeverComplete DEF Complete
  <1>8. CASE st = "codepoint1"
    <2>1. c = Esc2(s) /\ d \notin {"bmp", "hi"}
      BY <1>1, <1>8 DEF WrongNext
    <2>2. \A v : ~OneMore(c, d, v)
      <3>1. ~Ends(c, <<"bs">>)
        BY <1>2, <2>1, LastCharacter DEF Esc2
      <3>2. ASSUME Ends(c, <<"bs", "u", "hi", "bs", "u">>), Complete(Cut(c, 5)) PROVE FALSE
        <4>1. Esc2(s) = Esc5(Cut(c, 5)) /\ Cut(c, 5) \in Str
          BY <1>2, <2>1, <3>2, EndsAre
        <4>2. Esc1(s) = Esc4(Cut(c, 5))
          BY <1>2, <1>5, <4>1 DEF Esc2
        <4>3. s = Esc3(Cut(c, 5))
          BY <1>2, <1>5, <4>1, <4>2 DEF Esc1
        <4> QED
          BY <1>4, <3>2, <4>1, <4>3
      <3> QED
        BY <1>3, <2>1, <3>1, <3>2 DEF OneMore, Complete
    <2>3. ~Open(Append(c, d))
      <3> SUFFICES ASSUME NEW r \in Str, Complete(r),
                          Append(c, d) \in {Esc1(r), Esc2(r), Esc4(r), Esc5(r)} PROVE FALSE
        BY <1>2, <1>5, <2>1 DEF Open
      <3>1. c = r \/ c \in {Esc1(r), Esc3(r), Esc4(r)}
        BY <1>2, <1>5
      <3>2. c # r
        BY <1>3, <2>1
      <3>3. Append(Esc1(s), "u") \in {Esc1(r), Esc3(r), Esc4(r)}
        BY <2>1, <3>1, <3>2 DEF Esc2
      <3> QED
        BY <1>2, <1>5, <3>3
    <2> QED
      BY <1>2, <2>2, <2>3, ContentsOfMore, NeverComplete DEF Complete
  <1>9. CASE st = "backslash2"
    <2>1. c = Esc3(s) /\ d # "bs"
      BY <1>1, <1>9 DEF WrongNext
    <2>2. \A v : ~OneMore(c, d, v)
      <3>1. ~Ends(c, <<"bs">>) /\ ~Ends(c, <<"bs", "u">>) /\ ~Ends(c, <<"bs", "u", "hi", "bs", "u">>)
        BY <1>2, <2>1, LastCharacter DEF Esc3
      <3> QED
        BY <1>3, <2>1, <3>1 DEF OneMore, Complete
    <2>3. ~Open(Append(c, d))
      <3> SUFFICES ASSUME NEW r \in Str, Append(c, d) \in {Esc2(r), Esc3(r), Esc5(r)} PROVE FALSE
        BY <1>2, <1>5, <2>1 DEF Open
      <3>1. c \in {Esc1(r), Esc2(r), Esc4(r)}
        BY <1>2, <1>5
      <3>2. Append(Esc2(s), "hi") \in {Esc1(r), Esc2(r), Esc4(r)}
        BY <2>1, <3>1 DEF Esc3
      <3> QED
        BY <1>2, <1>5, <3>2
    <2> QED
      BY <1>2, <2>2, <2>3, ContentsOfMore, NeverComplete DEF Complete
  <1>10. CASE st = "u2"
    <2>1. c = Esc4(s) /\ d # "u"
      BY <1>1, <1>10 DEF WrongNext
    <2>2. \A v : ~OneMore(c, d, v)
      <3>1. ~Ends(c, <<"bs", "u">>) /\ ~Ends(c, <<"bs", "u", "hi", "bs", "u">>)
        BY <1>2, <2>1, LastCharacter DEF Esc4
      <3>2. Cut(c, 1) = Esc3(s)
        BY <2>1, EscapeCut
      <3> QED
        BY <1>3, <2>1, <3>1, <3>2 DEF OneMore, Complete
    <2>3. ~Open(Append(c, d))
      <3> SUFFICES ASSUME NEW r \in Str, Complete(r),
                          Append(c, d) \in {Esc1(r), Esc3(r), Esc4(r)} PROVE FALSE
        BY <1>2, <1>5, <2>1 DEF Open
      <3>1. c = r \/ c \in {Esc2(r), Esc3(r)}
        BY <1>2, <1>5
      <3>2. c # r
        BY <1>3, <2>1
      <3>3. Append(Esc3(s), "bs") \in {Esc2(r), Esc3(r)}
        BY <2>1, <3>1, <3>2 DEF Esc4
      <3> QED
        BY <1>2, <1>5, <3>3
    <2> QED
      BY <1>2, <2>2, <2>3, ContentsOfMore, NeverComplete DEF Complete
  <1>11. CASE st = "codepoint2"
    <2>1. c = Esc5(s) /\ d # "lo"
      BY <1>1, <1>11 DEF WrongNext
    <2>2. \A v : ~OneMore(c, d, v)
      <3>1. ~Ends(c, <<"bs">>)
        BY <1>2, <2>1, LastCharacter DEF Esc5
      <3>2. Cut(c, 2) = Esc3(s)
        BY <2>1, EscapeCut
      <3> QED
        BY <1>3, <2>1, <3>1, <3>2 DEF OneMore, Complete
    <2>3. ~Open(Append(c, d))
      <3> SUFFICES ASSUME NEW r \in Str, Complete(r), Append(c, d) \in {Esc1(r), Esc2(r), Esc3(r), Esc4(r), Esc5(r)}
                   PROVE FALSE
        BY DEF Open
      <3>0. c = r \/ c = Esc2(r) \/ c \in {Esc1(r), Esc3(r), Esc4(r)}
        BY <1>2, <1>5
      <3>1. \/ Append(Esc4(s), "u") = r
            \/ Append(Esc4(s), "u") = Esc2(r)
            \/ Append(Esc4(s), "u") \in {Esc1(r), Esc3(r), Esc4(r)}
        BY <2>1, <3>0 DEF Esc5
      <3>2. Append(Esc4(s), "u") # r
        BY <1>3 DEF Esc5
      <3>3. Append(Esc4(s), "u") # Esc2(r)
        <4> SUFFICES ASSUME Append(Esc4(s), "u") = Esc2(r) PROVE FALSE
          OBVIOUS
        <4>1. Append(Esc3(s), "bs") = Esc1(r)
          <5>1. Esc4(s) = Esc1(r)
            BY <1>2, <1>5
          <5> QED
            BY <5>1 DEF Esc4
        <4>2. r = Esc3(s)
          BY <1>2, <1>5, <4>1
        <4> QED
          BY <1>3, <4>2
      <3> QED
        BY <1>2, <1>5, <3>1, <3>2, <3>3
    <2> QED
      BY <1>2, <2>2, <2>3, ContentsOfMore, NeverComplete DEF Complete
  <1> QED
    BY <1>6, <1>7, <1>8, <1>9, <1>10, <1>11 DEF WrongNext

-----------------------------------------------------------------------------
(***************************************************************************)
(* Numbers: the grammar by positions, and how far each state of            *)
(* scan_number has come.                                                   *)
(***************************************************************************)

\* A number is written after its sign, if it has one, as digits from position to position.
Digits(u, i, j) == \A k \in i .. j : u[k] \in Scanner!Digit
IntTo(u, i) == 1 <= i /\ i <= Len(u) /\ Digits(u, 1, i) /\ (u[1] = "0" => i = 1)
FracTo(u, i, j) == j = i \/ (i + 2 <= j /\ j <= Len(u) /\ u[i + 1] = "." /\ Digits(u, i + 2, j))
ExpAt(u, j, n) == /\ u[j + 1] = "e"
                  /\ \E m \in {1, 2} : (m = 2 => u[j + 2] \in {"+", "-"}) /\ j + m < n /\ Digits(u, j + m + 1, n)
Mantissa(u, i, j) == i <= j /\ IntTo(u, i) /\ FracTo(u, i, j)
Shape(u) == \E i, j \in Nat : Mantissa(u, i, j) /\ j <= Len(u) /\ (Len(u) = j \/ ExpAt(u, j, Len(u)))

Body(b) == IF b[1] = "-" THEN Tail(b) ELSE b

LEMMA PartOf ==
    ASSUME NEW u \in Str, NEW a \in Nat, NEW b \in Nat, 1 <= a, a <= b + 1, b <= Len(u)
    PROVE  /\ SubSeq(u, a, b) \in Str /\ Len(SubSeq(u, a, b)) = b - a + 1
           /\ \A k \in 1 .. b - a + 1 : SubSeq(u, a, b)[k] = u[a + k - 1]
           /\ SubSeq(u, a, b) = <<>> <=> a = b + 1
           /\ Scanner!AllDigits(SubSeq(u, a, b)) <=> a <= b /\ Digits(u, a, b)
  <1> DEFINE v == SubSeq(u, a, b)
  <1>1. Len(u) \in Nat /\ \A k \in 1 .. Len(u) : u[k] \in Scanner!Char
    BY DEF Str
  <1>2. v \in Str /\ Len(v) = b - a + 1 /\ \A k \in 1 .. b - a + 1 : v[k] = u[a + k - 1]
    BY <1>1 DEF Str
  <1>3. v = <<>> <=> a = b + 1
    BY <1>2 DEF Str
  <1> HIDE DEF v
  <1>4. \A k \in 1 .. b - a + 1 : a + k - 1 \in a .. b
    OBVIOUS
  <1>5. \A k \in a .. b : k - a + 1 \in 1 .. b - a + 1 /\ a + (k - a + 1) - 1 = k
    OBVIOUS
  <1>6. (\A k \in 1 .. b - a + 1 : v[k] \in Scanner!Digit) <=> \A k \in a .. b : u[k] \in Scanner!Digit
    <2>1. ASSUME \A k \in 1 .. b - a + 1 : v[k] \in Scanner!Digit, NEW k \in a .. b PROVE u[k] \in Scanner!Digit
      <3>1. v[k - a + 1] = u[a + (k - a + 1) - 1] /\ v[k - a + 1] \in Scanner!Digit
        BY <1>2, <1>5, <2>1
      <3> QED
        BY <1>5, <3>1
    <2>2. ASSUME \A k \in a .. b : u[k] \in Scanner!Digit, NEW k \in 1 .. b - a + 1 PROVE v[k] \in Scanner!Digit
      BY <1>2, <1>4, <2>2
    <2> QED
      BY <2>1, <2>2
  <1>7. Scanner!AllDigits(v) <=> a <= b /\ Digits(u, a, b)
    <2>1. Len(v) = b - a + 1
      BY <1>2
    <2>2. Scanner!AllDigits(v) <=> v # <<>> /\ \A k \in 1 .. b - a + 1 : v[k] \in Scanner!Digit
      BY <2>1 DEF Scanner!AllDigits
    <2>3. v # <<>> <=> a <= b
      BY <1>3
    <2> QED
      BY <1>6, <2>2, <2>3 DEF Digits
  <1> QED
    BY <1>2, <1>3, <1>7 DEF v

LEMMA TailPart ==
    ASSUME NEW s \in Str, s # <<>>
    PROVE  /\ Tail(s) \in Str /\ Len(Tail(s)) = Len(s) - 1 /\ Len(s) >= 1
           /\ \A k \in 1 .. Len(s) - 1 : Tail(s)[k] = s[k + 1]
  BY DEF Str

\* The grammar, by positions.
LEMMA ShapeIs == ASSUME NEW u \in Str PROVE Scanner!IsUnsigned(u) <=> Shape(u)
  <1> DEFINE n == Len(u)
  <1>1. n \in Nat
    BY LengthOfStr
  <1>2. ASSUME NEW i \in 0 .. n PROVE Scanner!IsInt(SubSeq(u, 1, i)) <=> IntTo(u, i)
    <2>1. 1 \in Nat /\ i \in Nat /\ 1 <= i + 1 /\ i <= Len(u) /\ 1 <= 1
      BY <1>1
    <2> DEFINE v == SubSeq(u, 1, i)
    <2>2. /\ Len(v) = i - 1 + 1 /\ \A k \in 1 .. i - 1 + 1 : v[k] = u[1 + k - 1]
          /\ Scanner!AllDigits(v) <=> 1 <= i /\ Digits(u, 1, i)
      BY <2>1, PartOf
    <2> HIDE DEF v
    <2>3. Len(v) = i /\ (1 <= i => v[1] = u[1])
      <3>1. 1 <= i => 1 \in 1 .. i - 1 + 1 /\ 1 + 1 - 1 = 1
        BY <2>1
      <3> QED
        BY <2>1, <2>2, <3>1
    <2>4. Scanner!IsInt(v) <=> IntTo(u, i)
      BY <2>1, <2>2, <2>3 DEF Scanner!IsInt, IntTo
    <2> QED
      BY <2>4 DEF v
  <1>3. ASSUME NEW i \in 0 .. n, NEW j \in 0 .. n, i <= j
        PROVE  Scanner!IsFrac(SubSeq(u, i + 1, j)) <=> FracTo(u, i, j)
    <2> DEFINE v == SubSeq(u, i + 1, j)
    <2>1. i + 1 \in Nat /\ j \in Nat /\ i \in Nat /\ 1 <= i + 1 /\ i + 1 <= j + 1 /\ j <= Len(u)
      BY <1>1, <1>3
    <2>2. /\ v \in Str /\ Len(v) = j - (i + 1) + 1 /\ \A k \in 1 .. j - (i + 1) + 1 : v[k] = u[(i + 1) + k - 1]
          /\ v = <<>> <=> i + 1 = j + 1
      BY <2>1, PartOf, ZenonT(40)
    <2> HIDE DEF v
    <2>3. Len(v) = j - i /\ (v = <<>> <=> i = j)
      BY <2>1, <2>2
    <2>4. CASE v = <<>>
      BY <2>3, <2>4 DEF Scanner!IsFrac, FracTo
    <2>5. CASE v # <<>>
      <3>1. i < j /\ v[1] = u[i + 1]
        <4>1. i < j /\ 1 \in 1 .. j - (i + 1) + 1 /\ (i + 1) + 1 - 1 = i + 1
          BY <2>1, <2>3, <2>5
        <4> QED
          BY <2>2, <4>1
      <3>2. Scanner!AllDigits(Tail(v)) <=> i + 2 <= j /\ Digits(u, i + 2, j)
        <4>1. Tail(v) = SubSeq(u, i + 2, j)
          <5>1. /\ Tail(v) \in Str /\ Len(Tail(v)) = Len(v) - 1
                /\ \A k \in 1 .. Len(v) - 1 : Tail(v)[k] = v[k + 1]
            BY <2>2, <2>5, TailPart
          <5> DEFINE w == SubSeq(u, i + 2, j)
          <5>2. i + 2 \in Nat /\ 1 <= i + 2 /\ i + 2 <= j + 1
            BY <2>1, <3>1
          <5>3. w \in Str /\ Len(w) = j - (i + 2) + 1 /\ \A k \in 1 .. j - (i + 2) + 1 : w[k] = u[(i + 2) + k - 1]
            BY <2>1, <5>2, PartOf
          <5> HIDE DEF w
          <5>4. Len(Tail(v)) = Len(w)
            BY <2>1, <2>3, <5>1, <5>3
          <5>5. ASSUME NEW k \in 1 .. Len(w) PROVE Tail(v)[k] = w[k]
            <6>1. /\ k \in 1 .. Len(v) - 1 /\ k + 1 \in 1 .. j - (i + 1) + 1 /\ (i + 1) + (k + 1) - 1 = (i + 2) + k - 1
                  /\ k \in 1 .. j - (i + 2) + 1
              BY <2>1, <2>3, <3>1, <5>3
            <6>2. Tail(v)[k] = v[k + 1] /\ v[k + 1] = u[(i + 1) + (k + 1) - 1] /\ w[k] = u[(i + 2) + k - 1]
              BY <2>2, <5>1, <5>3, <6>1
            <6> QED
              BY <6>1, <6>2
          <5>6. Tail(v) = w
            BY <5>1, <5>3, <5>4, <5>5, SameText
          <5> QED
            BY <5>6 DEF w
        <4>2. i + 2 \in Nat /\ 1 <= i + 2 /\ i + 2 <= j + 1
          BY <2>1, <3>1
        <4> QED
          BY <2>1, <4>1, <4>2, PartOf
      <3>3. Scanner!IsFrac(v) <=> v[1] = "." /\ Scanner!AllDigits(Tail(v))
        BY <2>5 DEF Scanner!IsFrac
      <3>4. FracTo(u, i, j) <=> u[i + 1] = "." /\ i + 2 <= j /\ Digits(u, i + 2, j)
        BY <2>1, <3>1 DEF FracTo
      <3>5. Scanner!IsFrac(v) <=> FracTo(u, i, j)
        BY <3>1, <3>2, <3>3, <3>4
      <3> QED
        BY <3>5 DEF v
    <2> QED
      BY <2>4, <2>5 DEF v
  <1>4. ASSUME NEW j \in 0 .. n
        PROVE  Scanner!IsExp(SubSeq(u, j + 1, n)) <=> n = j \/ ExpAt(u, j, n)
    <2> DEFINE v == SubSeq(u, j + 1, n)
    <2>1. j + 1 \in Nat /\ j \in Nat /\ n \in Nat /\ 1 <= j + 1 /\ j + 1 <= n + 1 /\ n <= Len(u)
      BY <1>1
    <2>2. /\ v \in Str /\ Len(v) = n - (j + 1) + 1 /\ \A k \in 1 .. n - (j + 1) + 1 : v[k] = u[(j + 1) + k - 1]
          /\ v = <<>> <=> j + 1 = n + 1
      BY <2>1, PartOf, SMTT(30)
    <2> HIDE DEF v
    <2>3. Len(v) = n - j /\ (v = <<>> <=> n = j) /\ \A k \in 1 .. n - j : v[k] = u[j + k]
      <3>1. n - (j + 1) + 1 = n - j /\ \A k \in 1 .. n - j : (j + 1) + k - 1 = j + k
        BY <2>1
      <3> QED
        BY <2>1, <2>2, <3>1
    <2>4. CASE v = <<>>
      <3>1. n = j
        BY <2>3, <2>4
      <3> QED
        BY <2>4, <3>1 DEF Scanner!IsExp
    <2>5. CASE v # <<>>
      <3>1. j < n /\ v[1] = u[j + 1] /\ (2 <= Len(v) => v[2] = u[j + 2])
        BY <2>1, <2>3, <2>5
      <3>2. ASSUME NEW m \in {1, 2}, m <= Len(v)
            PROVE  Scanner!AllDigits(SubSeq(v, m + 1, Len(v))) <=> j + m < n /\ Digits(u, j + m + 1, n)
        <4>1. SubSeq(v, m + 1, Len(v)) = SubSeq(u, j + m + 1, n)
          <5> DEFINE x == SubSeq(v, m + 1, Len(v))
                     w == SubSeq(u, j + m + 1, n)
          <5>1. /\ m + 1 \in Nat /\ Len(v) \in Nat /\ 1 <= m + 1 /\ m + 1 <= Len(v) + 1 /\ Len(v) <= Len(v)
                /\ j + m + 1 \in Nat /\ 1 <= j + m + 1 /\ j + m + 1 <= n + 1
            BY <2>1, <2>3, <3>2
          <5>2. x \in Str /\ Len(x) = Len(v) - (m + 1) + 1 /\ \A k \in 1 .. Len(v) - (m + 1) + 1 : x[k] = v[(m + 1) + k - 1]
            BY <2>2, <5>1, PartOf
          <5>3. w \in Str /\ Len(w) = n - (j + m + 1) + 1 /\ \A k \in 1 .. n - (j + m + 1) + 1 : w[k] = u[(j + m + 1) + k - 1]
            <6> DEFINE a == j + m + 1
            <6>1. a \in Nat /\ 1 <= a /\ a <= n + 1
              BY <5>1
            <6> HIDE DEF a, w
            <6>2. LET y == SubSeq(u, a, n) IN
                  y \in Str /\ Len(y) = n - a + 1 /\ \A k \in 1 .. n - a + 1 : y[k] = u[a + k - 1]
              BY <2>1, <6>1, PartOf
            <6> QED
              BY <6>2 DEF a, w
          <5> HIDE DEF x, w
          <5>4. Len(x) = Len(w)
            BY <2>1, <2>3, <5>2, <5>3
          <5>5. ASSUME NEW k \in 1 .. Len(x) PROVE x[k] = w[k]
            <6>1. /\ k \in 1 .. Len(v) - (m + 1) + 1 /\ k \in 1 .. n - (j + m + 1) + 1
                  /\ (m + 1) + k - 1 \in 1 .. n - j /\ j + ((m + 1) + k - 1) = (j + m + 1) + k - 1
              BY <2>1, <2>3, <3>2, <5>2, <5>3, <5>4
            <6>2. x[k] = v[(m + 1) + k - 1] /\ v[(m + 1) + k - 1] = u[j + ((m + 1) + k - 1)] /\ w[k] = u[(j + m + 1) + k - 1]
              BY <2>3, <5>2, <5>3, <6>1
            <6> QED
              BY <6>1, <6>2
          <5>6. x = w
            BY <5>2, <5>3, <5>4, <5>5, SameText
          <5> QED
            BY <5>6 DEF x, w
        <4>2. j + m + 1 \in Nat /\ 1 <= j + m + 1 /\ j + m + 1 <= n + 1
          BY <2>1, <2>3, <3>2
        <4>3. Scanner!AllDigits(SubSeq(u, j + m + 1, n)) <=> j + m + 1 <= n /\ Digits(u, j + m + 1, n)
          BY <2>1, <4>2, PartOf
        <4>4. j + m + 1 <= n <=> j + m < n
          BY <2>1
        <4> QED
          BY <4>1, <4>3, <4>4
      <3>3. \A m \in {1, 2} : j + m < n => m <= Len(v)
        BY <2>1, <2>3
      <3>4. Len(v) \in Nat
        BY <2>1, <2>3
      <3>5. ASSUME Scanner!IsExp(v) PROVE ExpAt(u, j, n)
        <4>1. v[1] = "e"
          BY <2>5, <3>5 DEF Scanner!IsExp
        <4>2. PICK m \in {1, 2} : /\ m <= Len(v) /\ (m = 2 => v[2] \in {"+", "-"})
                                  /\ Scanner!AllDigits(SubSeq(v, m + 1, Len(v)))
          BY <2>5, <3>5 DEF Scanner!IsExp
        <4> QED
          BY <3>1, <3>2, <4>1, <4>2 DEF ExpAt
      <3>6. ASSUME ExpAt(u, j, n) PROVE Scanner!IsExp(v)
        <4>1. PICK m \in {1, 2} : (m = 2 => u[j + 2] \in {"+", "-"}) /\ j + m < n /\ Digits(u, j + m + 1, n)
          BY <3>6 DEF ExpAt
        <4>2. v[1] = "e" /\ m <= Len(v) /\ Scanner!AllDigits(SubSeq(v, m + 1, Len(v))) /\ (m = 2 => v[2] \in {"+", "-"})
          BY <3>1, <3>2, <3>3, <3>6, <4>1 DEF ExpAt
        <4> QED
          BY <4>2 DEF Scanner!IsExp
      <3>7. n # j
        BY <3>1
      <3> QED
        BY <3>5, <3>6, <3>7 DEF v
    <2> QED
      BY <2>4, <2>5 DEF v
  <1> HIDE DEF n
  <1>5. ASSUME Scanner!IsUnsigned(u) PROVE Shape(u)
    <2>1. PICK i \in 0 .. n, j \in 0 .. n :
             i <= j /\ Scanner!IsInt(SubSeq(u, 1, i)) /\ Scanner!IsFrac(SubSeq(u, i + 1, j))
                    /\ Scanner!IsExp(SubSeq(u, j + 1, n))
      BY <1>5 DEF Scanner!IsUnsigned, n
    <2>2. Mantissa(u, i, j) /\ i \in Nat /\ j \in Nat /\ j <= n /\ (n = j \/ ExpAt(u, j, n))
      BY <1>1, <1>2, <1>3, <1>4, <2>1 DEF Mantissa
    <2> QED
      BY <2>2 DEF Shape, n
  <1>6. ASSUME Shape(u) PROVE Scanner!IsUnsigned(u)
    <2>1. PICK i \in Nat, j \in Nat : Mantissa(u, i, j) /\ j <= n /\ (n = j \/ ExpAt(u, j, n))
      BY <1>6 DEF Shape, n
    <2>2. i \in 0 .. n /\ j \in 0 .. n /\ i <= j /\ IntTo(u, i) /\ FracTo(u, i, j)
      BY <1>1, <2>1 DEF Mantissa
    <2>3. Scanner!IsInt(SubSeq(u, 1, i)) /\ Scanner!IsFrac(SubSeq(u, i + 1, j)) /\ Scanner!IsExp(SubSeq(u, j + 1, n))
      BY <1>2, <1>3, <1>4, <2>1, <2>2
    <2> QED
      BY <2>2, <2>3 DEF Scanner!IsUnsigned, n
  <1> QED
    BY <1>5, <1>6

-----------------------------------------------------------------------------
\* How far a number has come in each state of scan_number.
NumAt(st, u) ==
    LET n == Len(u) IN
    \/ st = "minus" /\ n = 0
    \/ st = "zero" /\ n = 1 /\ u[1] = "0"
    \/ st = "any1" /\ n >= 1 /\ u[1] # "0" /\ Digits(u, 1, n)
    \/ st = "decimal1" /\ \E i \in Nat : IntTo(u, i) /\ n = i + 1 /\ u[i + 1] = "."
    \/ st = "decimal2" /\ \E i \in Nat : IntTo(u, i) /\ i + 2 <= n /\ u[i + 1] = "." /\ Digits(u, i + 2, n)
    \/ st = "exponent" /\ \E i, j \in Nat : Mantissa(u, i, j) /\ n = j + 1 /\ u[j + 1] = "e"
    \/ st = "sign" /\ \E i, j \in Nat : Mantissa(u, i, j) /\ n = j + 2 /\ u[j + 1] = "e" /\ u[j + 2] \in {"+", "-"}
    \/ st = "any2" /\ \E i, j \in Nat : Mantissa(u, i, j) /\ ExpAt(u, j, n)

LEMMA DigitsAre == Scanner!Digit = {"0", "1"}
  BY DEF Scanner!Digit

\* A number may end in these states, and in no other.
LEMMA NumberEnds ==
    ASSUME NEW st \in {"zero", "any1", "decimal2", "any2"}, NEW u \in Str, NumAt(st, u)
    PROVE  Shape(u)
  <1> DEFINE n == Len(u)
  <1>1. n \in Nat /\ n <= n
    BY LengthOfStr
  <1>2. CASE st \in {"zero", "any1"}
    <2>1. Mantissa(u, n, n)
      BY <1>1, <1>2, DigitsAre DEF NumAt, Mantissa, IntTo, FracTo, Digits
    <2> QED
      BY <1>1, <2>1 DEF Shape
  <1>3. CASE st = "decimal2"
    <2>1. PICK i \in Nat : IntTo(u, i) /\ i + 2 <= n /\ u[i + 1] = "." /\ Digits(u, i + 2, n)
      BY <1>3 DEF NumAt
    <2>2. Mantissa(u, i, n)
      BY <1>1, <2>1 DEF Mantissa, FracTo
    <2> QED
      BY <1>1, <2>2 DEF Shape
  <1>4. CASE st = "any2"
    <2>1. PICK i \in Nat, j \in Nat : Mantissa(u, i, j) /\ ExpAt(u, j, n)
      BY <1>4 DEF NumAt
    <2>2. j <= n
      BY <1>1, <2>1 DEF ExpAt
    <2> QED
      BY <1>1, <2>1, <2>2 DEF Shape
  <1> QED
    BY <1>2, <1>3, <1>4

\* What is said of the beginning of a text holds of the longer text.
LEMMA NumberLonger ==
    ASSUME NEW u \in Str, NEW w \in Str, Begins(w, u)
    PROVE  /\ \A i, j \in Nat : 1 <= i /\ j <= Len(u) => (Digits(u, i, j) <=> Digits(w, i, j))
           /\ \A i \in Nat : i <= Len(u) => (IntTo(u, i) <=> IntTo(w, i))
           /\ \A i, j \in Nat : j <= Len(u) => (Mantissa(u, i, j) <=> Mantissa(w, i, j))
           /\ \A k \in 1 .. Len(u) : w[k] = u[k]
  <1>1. Len(u) \in Nat /\ Len(w) \in Nat /\ Len(u) <= Len(w) /\ \A k \in 1 .. Len(u) : w[k] = u[k]
    BY LengthOfStr DEF Begins
  <1>2. ASSUME NEW i \in Nat, NEW j \in Nat, 1 <= i, j <= Len(u) PROVE Digits(u, i, j) <=> Digits(w, i, j)
    <2>1. \A k \in i .. j : k \in 1 .. Len(u)
      BY <1>1, <1>2
    <2> QED
      BY <1>1, <2>1 DEF Digits
  <1>3. ASSUME NEW i \in Nat, i <= Len(u) PROVE IntTo(u, i) <=> IntTo(w, i)
    <2>1. Digits(u, 1, i) <=> Digits(w, 1, i)
      BY <1>2, <1>3
    <2>2. 1 <= i => w[1] = u[1]
      BY <1>1, <1>3
    <2> QED
      BY <1>1, <1>3, <2>1, <2>2 DEF IntTo
  <1>4. ASSUME NEW i \in Nat, NEW j \in Nat, j <= Len(u) PROVE Mantissa(u, i, j) <=> Mantissa(w, i, j)
    <2>1. i <= j => i <= Len(u)
      BY <1>1, <1>4
    <2>2. i <= j => (IntTo(u, i) <=> IntTo(w, i))
      BY <1>3, <2>1
    <2>3. Digits(u, i + 2, j) <=> Digits(w, i + 2, j)
      <3>1. i + 2 \in Nat /\ 1 <= i + 2
        OBVIOUS
      <3> QED
        BY <1>2, <1>4, <3>1
    <2>4. i + 2 <= j => w[i + 1] = u[i + 1]
      BY <1>1, <1>4
    <2>5. FracTo(u, i, j) <=> FracTo(w, i, j)
      BY <1>1, <1>4, <2>3, <2>4 DEF FracTo
    <2> QED
      BY <2>2, <2>5 DEF Mantissa
  <1> QED
    BY <1>1, <1>2, <1>3, <1>4

\* One more character.
LEMMA NumberGrows ==
    ASSUME NEW st \in Scanner!NumberStates, NEW u \in Str, NumAt(st, u), NEW c \in Scanner!Char,
           Scanner!NextNumber(st, c) \in Scanner!NumberStates
    PROVE  NumAt(Scanner!NextNumber(st, c), Append(u, c))
  <1> DEFINE n == Len(u)
             w == Append(u, c)
             next == Scanner!NextNumber(st, c)
  <1>1. n \in Nat /\ w \in Str /\ Len(w) = n + 1 /\ w[n + 1] = c /\ n <= n /\ 1 <= 1
    BY LengthOfStr, AppendedText
  <1>2. Begins(w, u)
    BY <1>1, AppendedText DEF Begins
  <1> HIDE DEF w
  <1>3. /\ \A i, j \in Nat : 1 <= i /\ j <= n => (Digits(u, i, j) <=> Digits(w, i, j))
        /\ \A i \in Nat : i <= n => (IntTo(u, i) <=> IntTo(w, i))
        /\ \A i, j \in Nat : j <= n => (Mantissa(u, i, j) <=> Mantissa(w, i, j))
        /\ \A k \in 1 .. n : w[k] = u[k]
    BY <1>1, <1>2, NumberLonger
  <1> HIDE DEF n
  <1>4. Len(u) = n
    BY DEF n
  <1>5. ASSUME NEW i \in Nat, 1 <= i, Digits(w, i, n), c \in Scanner!Digit PROVE Digits(w, i, n + 1)
    <2>1. \A k \in i .. n + 1 : k = n + 1 \/ k \in i .. n
      BY <1>1
    <2> QED
      BY <1>1, <1>5, <2>1 DEF Digits
  <1>6. CASE st = "minus"
    <2>1. n = 0
      BY <1>4, <1>6 DEF NumAt
    <2>2. (c = "0" /\ next = "zero") \/ (c = "1" /\ next = "any1")
      BY <1>6 DEF Scanner!NextNumber, Scanner!NumberStates
    <2>3. Digits(w, 1, 1)
      BY <1>1, <2>1, <2>2, DigitsAre DEF Digits
    <2> QED
      BY <1>1, <2>1, <2>2, <2>3 DEF NumAt, w
  <1>7. CASE st = "any1" /\ c \in Scanner!Digit
    <2>1. next = "any1" /\ n >= 1 /\ u[1] # "0" /\ Digits(u, 1, n)
      BY <1>4, <1>7 DEF NumAt, Scanner!NextNumber
    <2>2. w[1] # "0" /\ Digits(w, 1, n + 1)
      <3>1. 1 \in 1 .. n /\ Digits(w, 1, n)
        BY <1>1, <1>3, <2>1
      <3> QED
        BY <1>3, <1>5, <1>7, <2>1, <3>1
    <2> QED
      BY <1>1, <2>1, <2>2 DEF NumAt, w
  <1>8. CASE st \in {"zero", "any1"} /\ c = "."
    <2>1. next = "decimal1"
      BY <1>8, DigitsAre DEF Scanner!NextNumber
    <2>2. IntTo(u, n) /\ n >= 1
      BY <1>1, <1>4, <1>8, DigitsAre DEF NumAt, IntTo, Digits
    <2>3. IntTo(w, n)
      BY <1>1, <1>3, <2>2
    <2> QED
      BY <1>1, <1>8, <2>1, <2>3 DEF NumAt, w
  <1>9. CASE st \in {"zero", "any1", "decimal2"} /\ c = "e"
    <2>1. next = "exponent"
      BY <1>9, DigitsAre DEF Scanner!NextNumber
    <2>2. \E i \in Nat : Mantissa(u, i, n)
      <3>1. CASE st \in {"zero", "any1"}
        <4>1. Mantissa(u, n, n)
          BY <1>1, <1>4, <3>1, DigitsAre DEF NumAt, IntTo, Digits, Mantissa, FracTo
        <4> QED
          BY <1>1, <4>1
      <3>2. CASE st = "decimal2"
        <4>1. PICK i \in Nat : IntTo(u, i) /\ i + 2 <= n /\ u[i + 1] = "." /\ Digits(u, i + 2, n)
          BY <1>4, <3>2 DEF NumAt
        <4>2. Mantissa(u, i, n)
          BY <1>1, <1>4, <4>1 DEF Mantissa, FracTo
        <4> QED
          BY <4>2
      <3> QED
        BY <1>9, <3>1, <3>2
    <2>3. \E i \in Nat : Mantissa(w, i, n)
      BY <1>1, <1>3, <2>2
    <2> QED
      BY <1>1, <1>9, <2>1, <2>3 DEF NumAt, w
  <1>10. CASE st \in {"decimal1", "decimal2"} /\ c \in Scanner!Digit
    <2>1. next = "decimal2"
      BY <1>10, DigitsAre DEF Scanner!NextNumber
    <2>2. PICK i \in Nat : IntTo(u, i) /\ i + 1 <= n /\ u[i + 1] = "." /\ Digits(u, i + 2, n)
      <3>1. CASE st = "decimal1"
        <4>1. PICK i \in Nat : IntTo(u, i) /\ n = i + 1 /\ u[i + 1] = "."
          BY <1>4, <3>1 DEF NumAt
        <4>2. Digits(u, i + 2, n)
          BY <4>1 DEF Digits
        <4> QED
          BY <1>1, <4>1, <4>2
      <3>2. CASE st = "decimal2"
        BY <1>1, <1>4, <3>2 DEF NumAt
      <3> QED
        BY <1>10, <3>1, <3>2
    <2>3. i <= n /\ i + 1 \in 1 .. n /\ i + 2 \in Nat /\ 1 <= i + 2 /\ i + 2 <= n + 1
      BY <1>1, <2>2
    <2>4. IntTo(w, i) /\ w[i + 1] = "." /\ Digits(w, i + 2, n)
      BY <1>1, <1>3, <2>2, <2>3
    <2>5. Digits(w, i + 2, n + 1)
      BY <1>5, <1>10, <2>3, <2>4
    <2> QED
      BY <1>1, <2>1, <2>3, <2>4, <2>5 DEF NumAt, w
  <1>11. CASE st = "exponent" /\ c \in {"+", "-"}
    <2>1. next = "sign"
      BY <1>11, DigitsAre DEF Scanner!NextNumber
    <2>2. PICK i \in Nat, j \in Nat : Mantissa(u, i, j) /\ n = j + 1 /\ u[j + 1] = "e"
      BY <1>4, <1>11 DEF NumAt
    <2>3. Mantissa(w, i, j) /\ w[j + 1] = "e" /\ w[j + 2] = c /\ n + 1 = j + 2
      BY <1>1, <1>3, <2>2
    <2> QED
      BY <1>1, <1>11, <2>1, <2>3 DEF NumAt, w
  <1>12. CASE st \in {"exponent", "sign", "any2"} /\ c \in Scanner!Digit
    <2>1. next = "any2"
      BY <1>12, DigitsAre DEF Scanner!NextNumber
    <2>2. PICK i \in Nat, j \in Nat : /\ Mantissa(u, i, j) /\ u[j + 1] = "e"
                                      /\ \E m \in {1, 2} : /\ m = 2 => u[j + 2] \in {"+", "-"}
                                                           /\ j + m <= n /\ Digits(u, j + m + 1, n)
      <3>1. CASE st = "exponent"
        <4>1. PICK i \in Nat, j \in Nat : Mantissa(u, i, j) /\ n = j + 1 /\ u[j + 1] = "e"
          BY <1>4, <3>1 DEF NumAt
        <4>2. j + 1 <= n /\ Digits(u, j + 1 + 1, n)
          BY <4>1 DEF Digits
        <4> QED
          BY <4>1, <4>2
      <3>2. CASE st = "sign"
        <4>1. PICK i \in Nat, j \in Nat : Mantissa(u, i, j) /\ n = j + 2 /\ u[j + 1] = "e" /\ u[j + 2] \in {"+", "-"}
          BY <1>4, <3>2 DEF NumAt
        <4>2. j + 2 <= n /\ Digits(u, j + 2 + 1, n)
          BY <4>1 DEF Digits
        <4> QED
          BY <4>1, <4>2
      <3>3. CASE st = "any2"
        <4>1. PICK i \in Nat, j \in Nat : Mantissa(u, i, j) /\ ExpAt(u, j, n)
          BY <1>4, <3>3 DEF NumAt
        <4>2. PICK m \in {1, 2} : (m = 2 => u[j + 2] \in {"+", "-"}) /\ j + m < n /\ Digits(u, j + m + 1, n)
          BY <4>1 DEF ExpAt
        <4> QED
          BY <1>1, <4>1, <4>2 DEF ExpAt
      <3> QED
        BY <1>12, <3>1, <3>2, <3>3
    <2>3. PICK m \in {1, 2} : /\ m = 2 => u[j + 2] \in {"+", "-"}
                              /\ j + m <= n /\ Digits(u, j + m + 1, n)
      BY <2>2
    <2>4. j <= n /\ j + 1 \in 1 .. n /\ (m = 2 => j + 2 \in 1 .. n) /\ j + m + 1 \in Nat /\ 1 <= j + m + 1
          /\ j + m < n + 1
      BY <1>1, <2>3
    <2>5. Mantissa(w, i, j) /\ w[j + 1] = "e" /\ (m = 2 => w[j + 2] \in {"+", "-"}) /\ Digits(w, j + m + 1, n)
      BY <1>1, <1>3, <2>2, <2>3, <2>4
    <2>6. Digits(w, j + m + 1, n + 1)
      BY <1>5, <1>12, <2>4, <2>5
    <2>7. ExpAt(w, j, n + 1)
      BY <2>4, <2>5, <2>6 DEF ExpAt
    <2> QED
      BY <1>1, <2>1, <2>5, <2>7 DEF NumAt, w
  <1> QED
    BY <1>6, <1>7, <1>8, <1>9, <1>10, <1>11, <1>12 DEF Scanner!NextNumber, Scanner!NumberStates

-----------------------------------------------------------------------------
(***************************************************************************)
(* The tokens are the text.                                                *)
(***************************************************************************)

\* The number that digits write.
ValueRule(f, s) == IF s = <<>> THEN 0 ELSE 10 * f[Front(s)] + (IF Last(s) = "1" THEN 1 ELSE 0)

LEMMA FrontText == ASSUME NEW s \in Str, s # <<>> PROVE Front(s) \in Str /\ Len(Front(s)) < Len(s)
  <1>1. Len(s) \in Nat /\ Len(s) >= 1
    BY TailPart, LengthOfStr
  <1> DEFINE m == Len(s) - 1
  <1>2. m \in Nat /\ m <= Len(s) /\ m < Len(s)
    BY <1>1
  <1> HIDE DEF m
  <1>3. SubSeq(s, 1, m) \in Str /\ Len(SubSeq(s, 1, m)) = m
    BY <1>2, Beginning
  <1> QED
    BY <1>2, <1>3 DEF Front, m

LEMMA ValueIsANumber == \A s \in Str : Scanner!DigitsValue[s] \in Nat
  <1> DEFINE T == Nat
             d == [fs \in [Str -> T] \X Str |-> ValueRule(fs[1], fs[2])]
  <1>1. ASSUME NEW f \in [Str -> T], NEW s \in Str PROVE ValueRule(f, s) \in T
    <2>1. s # <<>> => f[Front(s)] \in Nat
      BY FrontText
    <2> QED
      BY <2>1 DEF ValueRule
  <1>2. ASSUME NEW f \in [Str -> T], NEW g \in [Str -> T], NEW s \in Str,
               \A r \in Str : Len(r) < Len(s) => f[r] = g[r]
        PROVE  ValueRule(f, s) = ValueRule(g, s)
    <2>1. s # <<>> => f[Front(s)] = g[Front(s)]
      BY <1>2, FrontText
    <2> QED
      BY <2>1 DEF ValueRule
  <1>6. T # {}
    OBVIOUS
  <1> HIDE DEF T
  <1>3. Rule(d, T)
    BY <1>1 DEF Rule
  <1>4. \A f \in [Str -> T], s \in Str : d[<<f, s>>] = ValueRule(f, s)
    OBVIOUS
  <1>5. Narrow(d, T)
    <2> HIDE DEF d
    <2> QED
      BY <1>2, <1>4 DEF Narrow
  <1> HIDE DEF d
  <1>7. PICK f : Solves(f, d, T)
    BY <1>3, <1>5, <1>6, TextRecursion
  <1>8. f \in [Str -> T] /\ f = [s \in Str |-> ValueRule(f, s)]
    BY <1>4, <1>7 DEF Solves
  <1>9. Scanner!DigitsValue = CHOOSE h : h = [s \in Str |-> ValueRule(h, s)]
    BY DEF Scanner!DigitsValue, Str, ValueRule, Front, Last, Scanner!Front, Scanner!Last
  <1> DEFINE D == Scanner!DigitsValue
  <1>10. D = [s \in Str |-> ValueRule(D, s)]
    BY <1>8, <1>9
  <1> HIDE DEF D
  <1>11. \A s \in Str : D[s] \in Nat
    <2> DEFINE P == {n \in Nat : \A s \in Str : Len(s) < n => D[s] \in Nat}
    <2>1. 0 \in P
      BY LengthOfStr
    <2>2. ASSUME NEW n \in Nat, n \in P PROVE n + 1 \in P
      <3> SUFFICES ASSUME NEW s \in Str, Len(s) < n + 1 PROVE D[s] \in Nat
        OBVIOUS
      <3>1. s # <<>> => D[Front(s)] \in Nat
        BY <2>2, FrontText, LengthOfStr
      <3> DEFINE V(r) == ValueRule(D, r)
      <3>2. D = [r \in Str |-> V(r)]
        BY <1>10
      <3> HIDE DEF V
      <3>3. D[s] = V(s)
        BY <3>2
      <3> QED
        BY <3>1, <3>3 DEF V, ValueRule
    <2> HIDE DEF P
    <2>3. Nat \subseteq P
      BY <2>1, <2>2, NumberInduction
    <2>4. \A s \in Str : Len(s) + 1 \in P /\ Len(s) < Len(s) + 1
      BY <2>3, LengthOfStr
    <2> QED
      BY <2>4 DEF P
  <1> QED
    BY <1>11 DEF D

-----------------------------------------------------------------------------
LEMMA BodyText ==
    ASSUME NEW b \in Str, b # <<>>
    PROVE  /\ Body(b) \in Str
           /\ \A c \in Scanner!Char : Append(b, c) \in Str /\ Append(b, c) # <<>> /\ Append(b, c)[1] = b[1]
                                      /\ Body(Append(b, c)) = Append(Body(b), c)
  <1>1. Tail(b) \in Str /\ Len(Tail(b)) = Len(b) - 1 /\ Len(b) >= 1 /\ Len(b) \in Nat
        /\ \A k \in 1 .. Len(b) - 1 : Tail(b)[k] = b[k + 1]
    BY TailPart, LengthOfStr
  <1>2. ASSUME NEW c \in Scanner!Char
        PROVE  Append(b, c) \in Str /\ Append(b, c) # <<>> /\ Append(b, c)[1] = b[1]
               /\ Tail(Append(b, c)) = Append(Tail(b), c)
    <2> DEFINE t == Append(b, c)
               r == Tail(t)
               s == Append(Tail(b), c)
               n == Len(b)
    <2>1. t \in Str /\ Len(t) = n + 1 /\ t # <<>> /\ t[n + 1] = c /\ \A k \in 1 .. n : t[k] = b[k]
      BY AppendedText
    <2>2. s \in Str /\ Len(s) = Len(Tail(b)) + 1 /\ s[Len(Tail(b)) + 1] = c /\ \A k \in 1 .. Len(Tail(b)) : s[k] = Tail(b)[k]
      BY <1>1, AppendedText
    <2> HIDE DEF t, s
    <2>3. r \in Str /\ Len(r) = Len(t) - 1 /\ \A k \in 1 .. Len(t) - 1 : r[k] = t[k + 1]
      BY <2>1, TailPart
    <2> HIDE DEF r, n
    <2>4. n \in Nat /\ n >= 1 /\ Len(b) = n /\ Len(r) = n /\ Len(s) = n
      BY <1>1, <2>1, <2>2, <2>3 DEF n
    <2>5. ASSUME NEW k \in 1 .. n PROVE r[k] = s[k]
      <3>1. k = n \/ (k \in 1 .. n - 1 /\ k + 1 \in 1 .. n)
        BY <2>4
      <3>2. r[k] = t[k + 1]
        BY <2>1, <2>3, <2>4
      <3>3. CASE k = n
        BY <1>1, <2>1, <2>2, <2>4, <3>2, <3>3
      <3>4. CASE k \in 1 .. n - 1 /\ k + 1 \in 1 .. n
        BY <1>1, <2>1, <2>2, <2>4, <3>2, <3>4
      <3> QED
        BY <3>1, <3>3, <3>4
    <2>6. r = s
      BY <2>2, <2>3, <2>4, <2>5, SameText
    <2>7. t[1] = b[1]
      BY <2>1, <2>4
    <2> QED
      BY <2>1, <2>6, <2>7 DEF r, s, t
  <1> QED
    BY <1>1, <1>2 DEF Body

Fraction == {"decimal1", "decimal2", "exponent", "sign", "any2"}
Whole(b) == \A p \in 1 .. Len(b) : b[p] \notin {".", "e"}

\* b, as far as scan_number has come with it, and the type it takes it for.
NumberSoFar(st, b, type) ==
    /\ b \in Str /\ b # <<>> /\ NumAt(st, Body(b))
    /\ type = IF st \in Fraction THEN "float" ELSE IF b[1] = "-" THEN "integer" ELSE "unsigned"
    /\ Whole(b) <=> st \notin Fraction

LEMMA NumberBegins ==
    ASSUME NEW c \in Scanner!Digit \cup {"-"}
    PROVE  NumberSoFar(IF c = "-" THEN "minus" ELSE IF c = "0" THEN "zero" ELSE "any1", <<c>>,
                       IF c = "-" THEN "integer" ELSE "unsigned")
  <1>1. <<c>> \in Str /\ <<c>> # <<>> /\ Len(<<c>>) = 1 /\ <<c>>[1] = c
    <2>1. c \in Scanner!Char
      BY DEF Scanner!Char
    <2> QED
      BY <2>1 DEF Str
  <1>2. Whole(<<c>>)
    BY <1>1, DigitsAre DEF Whole
  <1>3. CASE c = "-"
    <2>1. Body(<<c>>) = <<>>
      BY <1>3 DEF Body
    <2> QED
      BY <1>1, <1>2, <1>3, <2>1 DEF NumberSoFar, NumAt, Fraction
  <1>4. CASE c # "-"
    <2>1. Body(<<c>>) = <<c>>
      BY <1>1, <1>4 DEF Body
    <2>2. c = "0" \/ c = "1"
      BY <1>4, DigitsAre
    <2>3. Digits(<<c>>, 1, 1)
      BY <1>1, <2>2, DigitsAre DEF Digits
    <2> DEFINE st == IF c = "0" THEN "zero" ELSE "any1"
    <2>4. NumAt(st, <<c>>)
      BY <1>1, <2>2, <2>3 DEF NumAt
    <2>5. st \notin Fraction
      BY DEF Fraction
    <2> HIDE DEF st
    <2>6. NumberSoFar(st, <<c>>, "unsigned")
      BY <1>1, <1>2, <1>4, <2>1, <2>4, <2>5 DEF NumberSoFar
    <2> QED
      BY <1>4, <2>6 DEF st
  <1> QED
    BY <1>3, <1>4

LEMMA NumberContinues ==
    ASSUME NEW st \in Scanner!NumberStates, NEW b, NEW type, NumberSoFar(st, b, type), NEW c \in Scanner!Char,
           Scanner!NextNumber(st, c) \in Scanner!NumberStates
    PROVE  NumberSoFar(Scanner!NextNumber(st, c), Append(b, c),
                       IF Scanner!NextNumber(st, c) \in {"decimal1", "exponent"} THEN "float" ELSE type)
  <1> DEFINE next == Scanner!NextNumber(st, c)
             t == Append(b, c)
  <1>1. b \in Str /\ b # <<>> /\ NumAt(st, Body(b)) /\ Body(b) \in Str
    BY BodyText DEF NumberSoFar
  <1>2. t \in Str /\ t # <<>> /\ t[1] = b[1] /\ Body(t) = Append(Body(b), c)
    BY <1>1, BodyText
  <1>3. NumAt(next, Body(t))
    BY <1>1, <1>2, NumberGrows
  <1>4. Len(t) = Len(b) + 1 /\ t[Len(b) + 1] = c /\ (\A k \in 1 .. Len(b) : t[k] = b[k]) /\ Len(b) \in Nat
    BY <1>1, AppendedText, LengthOfStr
  <1> HIDE DEF t
  <1>5. Whole(t) <=> Whole(b) /\ c \notin {".", "e"}
    <2>1. \A p \in 1 .. Len(b) + 1 : p = Len(b) + 1 \/ p \in 1 .. Len(b)
      BY <1>4
    <2>2. Len(b) + 1 \in 1 .. Len(b) + 1 /\ \A p \in 1 .. Len(b) : p \in 1 .. Len(b) + 1
      BY <1>4
    <2> QED
      BY <1>4, <2>1, <2>2 DEF Whole
  <1>6. next \in Fraction <=> st \in Fraction \/ c \in {".", "e"}
    BY DigitsAre DEF Scanner!NextNumber, Fraction, Scanner!NumberStates
  <1>7. next \in {"decimal1", "exponent"} => next \in Fraction
    BY DEF Fraction
  <1>8. next \in Fraction /\ next \notin {"decimal1", "exponent"} => st \in Fraction
    BY DigitsAre DEF Scanner!NextNumber, Fraction, Scanner!NumberStates
  <1> HIDE DEF next
  <1>9. (IF next \in {"decimal1", "exponent"} THEN "float" ELSE type)
        = IF next \in Fraction THEN "float" ELSE IF t[1] = "-" THEN "integer" ELSE "unsigned"
    BY <1>2, <1>6, <1>7, <1>8 DEF NumberSoFar
  <1>10. Whole(t) <=> next \notin Fraction
    BY <1>5, <1>6 DEF NumberSoFar
  <1>11. NumberSoFar(next, t, IF next \in {"decimal1", "exponent"} THEN "float" ELSE type)
    BY <1>2, <1>3, <1>9, <1>10 DEF NumberSoFar
  <1> QED
    BY <1>11 DEF next, t

\* What is a token's: its text is w.
ValueOf(w) == Scanner!DigitsValue[Body(w)]
RightToken(type, value, w) ==
    /\ type \in {"unsigned", "integer", "float"} => Scanner!IsNumber(w)
    /\ type = "string" => Scanner!IsString(w) /\ {value} = Readings(SubSeq(w, 2, Len(w) - 1))
    /\ type \in {"structural", "literal"} => w \in {<<",">>, <<"true">>}
    /\ type = "unsigned" => Whole(w) /\ w[1] # "-" /\ ValueOf(w) <= MaxUnsigned /\ value = ValueOf(w)
    /\ type = "integer" => Whole(w) /\ w[1] = "-" /\ ValueOf(w) <= MaxNegative /\ value = -ValueOf(w)
    /\ type = "float" /\ Whole(w) => IF w[1] = "-" THEN ValueOf(w) > MaxNegative ELSE ValueOf(w) > MaxUnsigned

LEMMA NumberToken ==
    ASSUME NEW st \in Scanner!NumberStates, NEW b, NEW type, NumberSoFar(st, b, type), NEW c,
           Scanner!NextNumber(st, c) = "done"
    PROVE  RightToken(Scanner!Number(type, b).type, Scanner!Number(type, b).value, b)
  <1>1. b \in Str /\ b # <<>> /\ NumAt(st, Body(b)) /\ Body(b) \in Str /\ Tail(b) \in Str
    BY BodyText, TailPart DEF NumberSoFar
  <1>2. st \in {"zero", "any1", "decimal2", "any2"}
    BY DEF Scanner!NextNumber, Scanner!NumberStates
  <1>3. Scanner!IsUnsigned(Body(b))
    BY <1>1, <1>2, NumberEnds, ShapeIs
  <1>4. Scanner!IsNumber(b)
    BY <1>1, <1>3 DEF Scanner!IsNumber, Body
  <1>5. ValueOf(b) \in Nat /\ MaxUnsigned \in Nat /\ MaxNegative \in Nat
    BY <1>1, ValueIsANumber, BoundsAssumption DEF ValueOf
  <1>6. CASE type = "float"
    <2>1. ~Whole(b)
      BY <1>6 DEF NumberSoFar
    <2>2. Scanner!Number(type, b).type = "float"
      BY <1>6 DEF Scanner!Number
    <2> QED
      BY <1>4, <2>1, <2>2 DEF RightToken
  <1>7. CASE type = "integer"
    <2>1. b[1] = "-" /\ Whole(b) /\ ValueOf(b) = Scanner!DigitsValue[Tail(b)]
      BY <1>7 DEF NumberSoFar, ValueOf, Body
    <2>2. CASE ValueOf(b) <= MaxNegative
      <3>1. Scanner!Number(type, b) = [type |-> "integer", value |-> -ValueOf(b)]
        BY <1>7, <2>1, <2>2 DEF Scanner!Number
      <3> QED
        BY <1>4, <2>1, <2>2, <3>1 DEF RightToken
    <2>3. CASE ~(ValueOf(b) <= MaxNegative)
      <3>1. Scanner!Number(type, b).type = "float"
        BY <1>7, <2>1, <2>3 DEF Scanner!Number
      <3>2. ValueOf(b) > MaxNegative
        BY <1>5, <2>3
      <3> QED
        BY <1>4, <2>1, <3>1, <3>2 DEF RightToken
    <2> QED
      BY <2>2, <2>3
  <1>8. CASE type = "unsigned"
    <2>1. b[1] # "-" /\ Whole(b) /\ ValueOf(b) = Scanner!DigitsValue[b]
      BY <1>8 DEF NumberSoFar, ValueOf, Body
    <2>2. CASE ValueOf(b) <= MaxUnsigned
      <3>1. Scanner!Number(type, b) = [type |-> "unsigned", value |-> ValueOf(b)]
        BY <1>8, <2>1, <2>2 DEF Scanner!Number
      <3> QED
        BY <1>4, <2>1, <2>2, <3>1 DEF RightToken
    <2>3. CASE ~(ValueOf(b) <= MaxUnsigned)
      <3>1. Scanner!Number(type, b).type = "float"
        BY <1>8, <2>1, <2>3 DEF Scanner!Number
      <3>2. ValueOf(b) > MaxUnsigned
        BY <1>5, <2>3
      <3> QED
        BY <1>4, <2>1, <3>1, <3>2 DEF RightToken
    <2> QED
      BY <2>2, <2>3
  <1> QED
    BY <1>6, <1>7, <1>8 DEF NumberSoFar

-----------------------------------------------------------------------------
\* A token of text s, and tokens that are the text up to position r.
GoodToken(t, s) ==
    /\ t.from \in Nat /\ t.to \in Nat /\ 1 <= t.from /\ t.from <= t.to /\ t.to <= Len(s)
    /\ RightToken(t.type, t.value, SubSeq(s, t.from, t.to))
Covers(tk, s, r) ==
    /\ \E S : tk \in Seq(S)
    /\ r \in Nat /\ r <= Len(s)
    /\ \A i \in 1 .. Len(tk) : GoodToken(tk[i], s) /\ tk[i].to <= r
    /\ \A i \in 1 .. Len(tk) - 1 : tk[i].to < tk[i + 1].from
    /\ \A p \in 1 .. r : s[p] = "ws" \/ \E i \in 1 .. Len(tk) : p \in tk[i].from .. tk[i].to

LEMMA SamePart ==
    ASSUME NEW s \in Str, NEW c \in Scanner!Char, NEW a \in Nat, NEW b \in Nat, 1 <= a, a <= b + 1, b <= Len(s)
    PROVE  SubSeq(Append(s, c), a, b) = SubSeq(s, a, b)
  <1> DEFINE t == Append(s, c)
             v == SubSeq(s, a, b)
             w == SubSeq(t, a, b)
  <1>1. t \in Str /\ Len(t) = Len(s) + 1 /\ (\A k \in 1 .. Len(s) : t[k] = s[k]) /\ Len(s) \in Nat
    BY AppendedText, LengthOfStr
  <1> HIDE DEF t
  <1>2. b <= Len(t)
    BY <1>1
  <1>3. v \in Str /\ Len(v) = b - a + 1 /\ \A k \in 1 .. b - a + 1 : v[k] = s[a + k - 1]
    BY PartOf
  <1>4. w \in Str /\ Len(w) = b - a + 1 /\ \A k \in 1 .. b - a + 1 : w[k] = t[a + k - 1]
    BY <1>1, <1>2, PartOf
  <1> HIDE DEF v, w
  <1>5. \A k \in 1 .. b - a + 1 : a + k - 1 \in 1 .. Len(s)
    BY <1>1
  <1>6. \A k \in 1 .. b - a + 1 : v[k] = w[k]
    BY <1>1, <1>3, <1>4, <1>5
  <1>7. v = w
    BY <1>3, <1>4, <1>6, SameText
  <1> QED
    BY <1>7 DEF t, v, w

LEMMA GoodTokenStays ==
    ASSUME NEW s \in Str, NEW c \in Scanner!Char, NEW t, GoodToken(t, s)
    PROVE  GoodToken(t, Append(s, c))
  <1>1. Len(Append(s, c)) = Len(s) + 1 /\ Len(s) \in Nat
    BY AppendedText, LengthOfStr
  <1>2. SubSeq(Append(s, c), t.from, t.to) = SubSeq(s, t.from, t.to)
    <2> DEFINE a == t.from
               b == t.to
    <2>1. a \in Nat /\ b \in Nat /\ 1 <= a /\ a <= b + 1 /\ b <= Len(s)
      BY DEF GoodToken
    <2> HIDE DEF a, b
    <2>2. SubSeq(Append(s, c), a, b) = SubSeq(s, a, b)
      BY <2>1, SamePart
    <2> QED
      BY <2>2 DEF a, b
  <1> QED
    BY <1>1, <1>2 DEF GoodToken

LEMMA CoversLonger ==
    ASSUME NEW s \in Str, NEW c \in Scanner!Char, NEW tk, NEW r, Covers(tk, s, r)
    PROVE  Covers(tk, Append(s, c), r)
  <1>1. Len(Append(s, c)) = Len(s) + 1 /\ (\A k \in 1 .. Len(s) : Append(s, c)[k] = s[k]) /\ Len(s) \in Nat
    BY AppendedText, LengthOfStr
  <1>2. \A i \in 1 .. Len(tk) : GoodToken(tk[i], Append(s, c))
    BY GoodTokenStays DEF Covers
  <1>3. r \in Nat /\ r <= Len(s) + 1 /\ \A p \in 1 .. r : p \in 1 .. Len(s)
    BY <1>1 DEF Covers
  <1> QED
    BY <1>1, <1>2, <1>3 DEF Covers

LEMMA CoversSpace ==
    ASSUME NEW s \in Str, NEW tk, NEW r, Covers(tk, s, r), r + 1 <= Len(s), s[r + 1] = "ws"
    PROVE  Covers(tk, s, r + 1)
  <1>1. r \in Nat /\ r + 1 \in Nat
    BY DEF Covers
  <1>2. \A p \in 1 .. r + 1 : p = r + 1 \/ p \in 1 .. r
    BY <1>1
  <1>3. \A i \in 1 .. Len(tk) : tk[i].to <= r + 1
    <2>1. \A i \in 1 .. Len(tk) : tk[i].to \in Nat /\ tk[i].to <= r
      BY DEF Covers, GoodToken
    <2> QED
      BY <1>1, <2>1
  <1> QED
    BY <1>1, <1>2, <1>3 DEF Covers

LEMMA CoversToken ==
    ASSUME NEW s \in Str, NEW tk, NEW r, Covers(tk, s, r), NEW t, GoodToken(t, s), t.from = r + 1
    PROVE  Covers(Append(tk, t), s, t.to)
  <1>1. PICK S : tk \in Seq(S)
    BY DEF Covers
  <1> DEFINE x == Append(tk, t)
             n == Len(tk)
  <1>2. n \in Nat /\ Len(x) = n + 1 /\ x[n + 1] = t /\ \A i \in 1 .. n : x[i] = tk[i]
    BY <1>1
  <1>3. x \in Seq(S \cup {t})
    <2>1. tk \in Seq(S \cup {t})
      BY <1>1
    <2> QED
      BY <2>1
  <1> HIDE DEF x, n
  <1>4. /\ r \in Nat /\ r <= Len(s) /\ t.from = r + 1 /\ t.to \in Nat /\ r + 1 <= t.to /\ t.to <= Len(s)
        /\ \A i \in 1 .. n : GoodToken(tk[i], s) /\ tk[i].to <= r /\ tk[i].to \in Nat /\ tk[i].from \in Nat
        /\ \A i \in 1 .. n - 1 : tk[i].to < tk[i + 1].from
        /\ \A p \in 1 .. r : s[p] = "ws" \/ \E i \in 1 .. n : p \in tk[i].from .. tk[i].to
    BY DEF Covers, GoodToken, n
  <1>5. ASSUME NEW i \in 1 .. n + 1 PROVE GoodToken(x[i], s) /\ x[i].to <= t.to
    <2>1. i = n + 1 \/ i \in 1 .. n
      BY <1>2
    <2>2. CASE i = n + 1
      BY <1>2, <1>4, <2>2
    <2>3. CASE i \in 1 .. n
      <3>1. x[i] = tk[i] /\ tk[i].to <= r /\ tk[i].to \in Nat /\ GoodToken(tk[i], s)
        BY <1>2, <1>4, <2>3
      <3>2. tk[i].to <= t.to
        BY <1>4, <3>1
      <3> QED
        BY <3>1, <3>2
    <2> QED
      BY <2>1, <2>2, <2>3
  <1>6. ASSUME NEW i \in 1 .. n PROVE x[i].to < x[i + 1].from
    <2>1. i = n \/ (i \in 1 .. n - 1 /\ i + 1 \in 1 .. n)
      BY <1>2
    <2>2. CASE i = n
      <3>1. x[i] = tk[i] /\ x[i + 1] = t /\ tk[i].to <= r /\ tk[i].to \in Nat
        BY <1>2, <1>4, <2>2
      <3> QED
        BY <1>4, <3>1
    <2>3. CASE i \in 1 .. n - 1 /\ i + 1 \in 1 .. n
      BY <1>2, <1>4, <2>3
    <2> QED
      BY <2>1, <2>2, <2>3
  <1>7. ASSUME NEW p \in 1 .. t.to PROVE s[p] = "ws" \/ \E i \in 1 .. n + 1 : p \in x[i].from .. x[i].to
    <2>1. p \in 1 .. r \/ p \in t.from .. t.to
      BY <1>4
    <2>2. CASE p \in 1 .. r
      <3>1. \A i \in 1 .. n : x[i] = tk[i] /\ i \in 1 .. n + 1
        BY <1>2
      <3> QED
        BY <1>4, <2>2, <3>1
    <2>3. CASE p \in t.from .. t.to
      <3>1. n + 1 \in 1 .. n + 1 /\ x[n + 1] = t
        BY <1>2
      <3> QED
        BY <2>3, <3>1
    <2> QED
      BY <2>1, <2>2, <2>3
  <1>8. Len(x) = n + 1 /\ Len(x) - 1 = n
    BY <1>2
  <1>9. Covers(x, s, t.to)
    BY <1>3, <1>4, <1>5, <1>6, <1>7, <1>8 DEF Covers
  <1> QED
    BY <1>9 DEF x

-----------------------------------------------------------------------------
\* The scanner between its steps.
Number == Scanner!NumberStates
String == Scanner!StringStates
EOF == Scanner!EOF

\* The last character was put back.
PutBack == next_unget /\ current # EOF
\* How far the text has been made into tokens.
Reached == IF state \in Number \cup String THEN from - 1
           ELSE IF PutBack THEN Len(source) - 1 ELSE Len(source)

TextInv ==
    /\ source \in Str /\ input \in Inputs
    /\ next_unget \in BOOLEAN
    /\ PutBack => source # <<>> /\ source[Len(source)] = current
    /\ state \in {"start", "end_of_input", "parse_error"} \cup Number \cup String
    /\ state # "start" => ~next_unget
TokensInv ==
    IF state \in {"end_of_input", "parse_error"}
    THEN \E r \in Nat : Covers(tokens, source, r)
    ELSE Covers(tokens, source, Reached)
NumberInv ==
    state \in Number =>
        /\ from \in Nat /\ 1 <= from /\ from <= Len(source)
        /\ token_buffer = SubSeq(source, from, Len(source))
        /\ NumberSoFar(state, token_buffer, number_type)
StringInv ==
    state \in String =>
        /\ from \in Nat /\ 1 <= from /\ from <= Len(source) /\ source[from] = "q"
        /\ Inside(state, SubSeq(source, from + 1, Len(source)), token_buffer)
ScanInv == TextInv /\ TokensInv /\ NumberInv /\ StringInv

LEMMA StatesApart ==
    /\ {"start", "end_of_input", "parse_error"} \cap (Number \cup String) = {} /\ Number \cap String = {}
    /\ "string" \in String
  BY DEF Number, String, Scanner!NumberStates, Scanner!StringStates

LEMMA InputChars == \A x \in Inputs : x.chars \subseteq Scanner!Char
  <1>1. /\ NumberChars \subseteq Scanner!Char /\ StringChars \subseteq Scanner!Char
        /\ PairChars \subseteq Scanner!Char /\ MarkChars \subseteq Scanner!Char
    BY DEF NumberChars, StringChars, PairChars, MarkChars, Scanner!Char, Scanner!Digit
  <1> QED
    BY <1>1 DEF Inputs

LEMMA EOFApart == EOF \notin Scanner!Char
  BY DEF EOF, Scanner!EOF, Scanner!Char, Scanner!Digit

LEMMA ScanInit == Scanner!Init => ScanInv
  <1> SUFFICES ASSUME Scanner!Init PROVE ScanInv
    OBVIOUS
  <1>1. /\ input \in Inputs /\ source = <<>> /\ next_unget = FALSE /\ state = "start" /\ tokens = <<>>
    BY DEF Scanner!Init
  <1>2. source \in Str /\ Len(source) = 0
    BY <1>1 DEF Str
  <1>3. state \notin Number \cup String
    BY <1>1, StatesApart
  <1>4. Reached = 0
    BY <1>1, <1>2, <1>3 DEF Reached, PutBack
  <1>5. Covers(tokens, source, 0)
    <2>1. tokens \in Seq({}) /\ Len(tokens) = 0
      BY <1>1
    <2> QED
      BY <1>2, <2>1 DEF Covers
  <1> QED
    BY <1>1, <1>2, <1>3, <1>4, <1>5 DEF ScanInv, TextInv, TokensInv, NumberInv, StringInv, PutBack

\* The next character, at the beginning of a token or in one.
LEMMA GetGives ==
    ASSUME TextInv, TokensInv, state \notin {"end_of_input", "parse_error"},
           NEW c \in Scanner!Char, Scanner!Get(c)
    PROVE  /\ source' \in Str /\ input' = input /\ next_unget' = FALSE
           /\ Scanner!Here = Len(source') /\ source'[Len(source')] = c /\ Len(source') >= 1
           /\ Covers(tokens, source', Reached)
           /\ state = "start" => Reached + 1 = Len(source')
           /\ state # "start" => source' = Append(source, c) /\ Scanner!Here = Len(source) + 1
  <1>1. Covers(tokens, source, Reached) /\ source \in Str /\ Len(source) \in Nat
    BY LengthOfStr DEF TextInv, TokensInv
  <1>2. c # EOF
    BY EOFApart
  <1>3. input' = input /\ next_unget' = FALSE
    BY DEF Scanner!Get
  <1>4. state = "start" => Reached = IF PutBack THEN Len(source) - 1 ELSE Len(source)
    BY StatesApart DEF Reached
  <1>5. CASE next_unget
    <2>1. state = "start" /\ c = current /\ source' = source
      BY <1>5 DEF Scanner!Get, TextInv
    <2>2. PutBack
      BY <1>2, <1>5, <2>1 DEF PutBack
    <2>3. source # <<>> /\ source[Len(source)] = c
      BY <2>1, <2>2 DEF TextInv
    <2>4. Len(source) >= 1
      BY <1>1, <2>3, TailPart
    <2>5. Scanner!Here = Len(source)
      BY <1>5 DEF Scanner!Here
    <2>6. Reached + 1 = Len(source)
      BY <1>1, <1>4, <2>1, <2>2
    <2> QED
      BY <1>1, <1>3, <2>1, <2>3, <2>4, <2>5, <2>6
  <1>6. CASE ~next_unget
    <2>1. source' = Append(source, c)
      BY <1>2, <1>6 DEF Scanner!Get, EOF
    <2>2. source' \in Str /\ Len(source') = Len(source) + 1 /\ source'[Len(source) + 1] = c
      BY <1>1, <2>1, AppendedText
    <2>3. Scanner!Here = Len(source) + 1
      BY <1>6 DEF Scanner!Here
    <2>4. state = "start" => Reached = Len(source)
      BY <1>4, <1>6 DEF PutBack
    <2>5. Covers(tokens, source', Reached)
      BY <1>1, <2>1, CoversLonger
    <2> QED
      BY <1>1, <1>3, <2>1, <2>2, <2>3, <2>4, <2>5
  <1> QED
    BY <1>5, <1>6 DEF TextInv

LEMMA ScanSpace == ASSUME ScanInv, Scanner!SkipWhitespace PROVE ScanInv'
  <1>1. state = "start" /\ Scanner!Get("ws") /\ state' = state /\ tokens' = tokens
    BY DEF Scanner!SkipWhitespace
  <1>2. "ws" \in Scanner!Char
    BY DEF Scanner!Char
  <1>3. /\ source' \in Str /\ input' = input /\ next_unget' = FALSE
        /\ source'[Len(source')] = "ws" /\ Covers(tokens, source', Reached) /\ Reached + 1 = Len(source')
    BY <1>1, <1>2, GetGives DEF ScanInv
  <1>4. Covers(tokens', source', Len(source'))
    <2>1. Covers(tokens, source', Reached + 1)
      BY <1>3, CoversSpace
    <2> QED
      BY <1>1, <1>3, <2>1
  <1>5. Reached' = Len(source')
    BY <1>1, <1>3, StatesApart DEF Reached, PutBack, Number, String
  <1> QED
    BY <1>1, <1>3, <1>4, <1>5, StatesApart DEF ScanInv, TextInv, TokensInv, NumberInv, StringInv, PutBack, Number, String

\* One character of a text.
LEMMA OnePart ==
    ASSUME NEW s \in Str, NEW n \in Nat, 1 <= n, n <= Len(s)
    PROVE  SubSeq(s, n, n) = <<s[n]>> /\ <<s[n]>> \in Str
  <1>1. s[n] \in Scanner!Char
    BY LengthOfStr DEF Str
  <1> DEFINE c == s[n]
             v == SubSeq(s, n, n)
  <1>2. v \in Str /\ Len(v) = n - n + 1 /\ \A k \in 1 .. n - n + 1 : v[k] = s[n + k - 1]
    BY PartOf
  <1>3. Len(v) = 1 /\ v[1] = c
    BY <1>2
  <1> HIDE DEF c, v
  <1>4. <<c>> \in Str /\ Len(<<c>>) = 1 /\ <<c>>[1] = c
    BY <1>1 DEF Str, c
  <1>5. v = <<c>>
    BY <1>2, <1>3, <1>4, SameText
  <1> QED
    BY <1>4, <1>5 DEF v, c

Marks == {",", "true"}

LEMMA ScanOne ==
    ASSUME ScanInv, NEW c \in Marks, NEW type \in {"structural", "literal"}, Scanner!ScanOneCharacter(c, type)
    PROVE  ScanInv'
  <1> DEFINE t == [type |-> type, from |-> Scanner!Here, to |-> Scanner!Here, value |-> <<>>]
  <1>1. state = "start" /\ Scanner!Get(c) /\ state' = state /\ tokens' = Append(tokens, t)
    BY DEF Scanner!ScanOneCharacter
  <1>2. c \in Scanner!Char
    BY DEF Scanner!Char, Marks
  <1>3. /\ source' \in Str /\ input' = input /\ next_unget' = FALSE /\ Scanner!Here = Len(source') /\ Len(source') >= 1
        /\ source'[Len(source')] = c /\ Covers(tokens, source', Reached) /\ Reached + 1 = Len(source')
    BY <1>1, <1>2, GetGives DEF ScanInv
  <1>4. PICK n \in Nat : n = Len(source')
    BY <1>3, LengthOfStr
  <1>5. n >= 1 /\ source'[n] = c /\ SubSeq(source', n, n) = <<c>>
    <2>1. n >= 1 /\ source'[n] = c
      BY <1>3, <1>4
    <2>2. 1 <= n /\ n <= Len(source')
      BY <1>4, <2>1
    <2> QED
      BY <1>3, <2>1, <2>2, OnePart
  <1>6. t.type = type /\ t.from = n /\ t.to = n
    BY <1>3, <1>4
  <1> HIDE DEF t
  <1>7. GoodToken(t, source')
    <2>1. RightToken(t.type, t.value, <<c>>)
      BY <1>6, Zenon DEF RightToken, Marks
    <2>2. SubSeq(source', t.from, t.to) = <<c>>
      BY <1>5, <1>6
    <2>3. t.from \in Nat /\ t.to \in Nat /\ 1 <= t.from /\ t.from <= t.to /\ t.to <= Len(source')
      BY <1>4, <1>5, <1>6
    <2> QED
      BY <2>1, <2>2, <2>3, Zenon DEF GoodToken
  <1>8. Covers(tokens', source', n)
    <2>1. t.from = Reached + 1
      BY <1>3, <1>4, <1>6
    <2>2. Covers(Append(tokens, t), source', t.to)
      BY <1>3, <1>7, <2>1, CoversToken
    <2> QED
      BY <1>1, <1>6, <2>2
  <1>9. Reached' = n
    BY <1>1, <1>3, <1>4, StatesApart DEF Reached, PutBack, Number, String
  <1> QED
    BY <1>1, <1>3, <1>8, <1>9, StatesApart DEF ScanInv, TextInv, TokensInv, NumberInv, StringInv, PutBack, Number, String

\* The scanner has stopped.
LEMMA ScanStops ==
    ASSUME ScanInv, state \notin {"end_of_input", "parse_error"}, NEW c \in Scanner!Char \cup {EOF}, Scanner!Get(c),
           state' \in {"end_of_input", "parse_error"}, tokens' = tokens
    PROVE  ScanInv'
  <1>1. /\ source' \in Str /\ input' = input /\ next_unget' = FALSE /\ Covers(tokens, source', Reached)
    <2>1. CASE c \in Scanner!Char
      BY <2>1, GetGives DEF ScanInv
    <2>2. CASE c = EOF
      <3>1. source' = source /\ input' = input /\ next_unget' = FALSE
        <4>1. next_unget \/ EOF \notin input.chars
          BY InputChars, EOFApart DEF ScanInv, TextInv
        <4> QED
          BY <2>2, <4>1 DEF Scanner!Get, EOF
      <3> QED
        BY <3>1 DEF ScanInv, TextInv, TokensInv
    <2> QED
      BY <2>1, <2>2
  <1>2. Reached \in Nat
    BY DEF ScanInv, TokensInv, Covers
  <1> QED
    BY <1>1, <1>2, StatesApart DEF ScanInv, TextInv, TokensInv, NumberInv, StringInv, PutBack, Number, String

LEMMA ScanBeginsNumber ==
    ASSUME ScanInv, NEW c \in Scanner!Digit \cup {"-"}, Scanner!BeginNumber(c) PROVE ScanInv'
  <1>1. /\ state = "start" /\ Scanner!Get(c) /\ tokens' = tokens /\ from' = Scanner!Here /\ token_buffer' = <<c>>
        /\ state' = (IF c = "-" THEN "minus" ELSE IF c = "0" THEN "zero" ELSE "any1")
        /\ number_type' = (IF c = "-" THEN "integer" ELSE "unsigned")
    BY DEF Scanner!BeginNumber
  <1>2. c \in Scanner!Char
    BY DEF Scanner!Char
  <1>3. /\ source' \in Str /\ input' = input /\ next_unget' = FALSE /\ Scanner!Here = Len(source') /\ Len(source') >= 1
        /\ source'[Len(source')] = c /\ Covers(tokens, source', Reached) /\ Reached + 1 = Len(source')
    BY <1>1, <1>2, GetGives DEF ScanInv
  <1>4. state' \in Number
    BY <1>1 DEF Number, Scanner!NumberStates
  <1>5. state' \notin String /\ state' \notin {"start", "end_of_input", "parse_error"}
    BY <1>4, StatesApart
  <1>6. PICK n \in Nat : n = Len(source')
    BY <1>3, LengthOfStr
  <1>7. from' = n /\ 1 <= n /\ source'[n] = c /\ Reached \in Nat /\ Reached + 1 = n
    BY <1>1, <1>3, <1>6 DEF Covers
  <1>8. SubSeq(source', n, n) = <<c>>
    <2>1. n <= Len(source')
      BY <1>6
    <2> QED
      BY <1>3, <1>7, <2>1, OnePart
  <1>9. NumberInv'
    <2>1. NumberSoFar(state', token_buffer', number_type')
      BY <1>1, NumberBegins
    <2> QED
      BY <1>1, <1>6, <1>7, <1>8, <2>1 DEF NumberInv
  <1>10. Reached' = Reached
    BY <1>4, <1>7 DEF Reached
  <1>11. TokensInv'
    BY <1>1, <1>3, <1>5, <1>10 DEF TokensInv
  <1>12. TextInv'
    BY <1>3, <1>4 DEF TextInv, ScanInv, PutBack
  <1> QED
    BY <1>5, <1>9, <1>11, <1>12 DEF ScanInv, StringInv

LEMMA ScanBeginsString == ASSUME ScanInv, Scanner!BeginString PROVE ScanInv'
  <1>1. /\ state = "start" /\ Scanner!Get("q") /\ tokens' = tokens /\ from' = Scanner!Here /\ token_buffer' = <<>>
        /\ state' = "string"
    BY DEF Scanner!BeginString
  <1>2. "q" \in Scanner!Char
    BY DEF Scanner!Char
  <1>3. /\ source' \in Str /\ input' = input /\ next_unget' = FALSE /\ Scanner!Here = Len(source') /\ Len(source') >= 1
        /\ source'[Len(source')] = "q" /\ Covers(tokens, source', Reached) /\ Reached + 1 = Len(source')
    BY <1>1, <1>2, GetGives DEF ScanInv
  <1>4. state' \in String
    BY <1>1, StatesApart
  <1>5. state' \notin Number /\ state' \notin {"start", "end_of_input", "parse_error"}
    BY <1>4, StatesApart
  <1>6. PICK n \in Nat : n = Len(source')
    BY <1>3, LengthOfStr
  <1>7. from' = n /\ 1 <= n /\ source'[n] = "q" /\ Reached \in Nat /\ Reached + 1 = n
    BY <1>1, <1>3, <1>6 DEF Covers
  <1>8. SubSeq(source', n + 1, n) = <<>>
    <2>1. n + 1 \in Nat /\ 1 <= n + 1 /\ n + 1 <= n + 1 /\ n <= Len(source')
      BY <1>6
    <2> QED
      BY <1>3, <2>1, PartOf
  <1>9. StringInv'
    <2>1. Inside("string", <<>>, <<>>)
      <3>1. <<>> \in Str
        BY DEF Str
      <3> QED
        BY <3>1, ContentsOfNothing DEF Inside
    <2>2. from' \in Nat /\ 1 <= from' /\ from' <= Len(source') /\ source'[from'] = "q"
      BY <1>6, <1>7
    <2>3. SubSeq(source', from' + 1, Len(source')) = <<>>
      BY <1>6, <1>7, <1>8
    <2> QED
      BY <1>1, <2>1, <2>2, <2>3 DEF StringInv
  <1>10. Reached' = Reached
    BY <1>4, <1>7 DEF Reached
  <1>11. TokensInv'
    BY <1>1, <1>3, <1>5, <1>10 DEF TokensInv
  <1>12. TextInv'
    BY <1>3, <1>4 DEF TextInv, ScanInv, PutBack
  <1> QED
    BY <1>5, <1>9, <1>11, <1>12 DEF ScanInv, NumberInv

\* What has been read of a token, one character later.
LEMMA PartGrows ==
    ASSUME NEW s \in Str, NEW c \in Scanner!Char, NEW a \in Nat, 1 <= a, a <= Len(s) + 1
    PROVE  /\ SubSeq(Append(s, c), a, Len(s) + 1) = Append(SubSeq(s, a, Len(s)), c)
           /\ SubSeq(s, a, Len(s)) \in Str
  <1> DEFINE t == Append(s, c)
             n == Len(s)
             v == SubSeq(s, a, n)
             w == SubSeq(t, a, n + 1)
             x == Append(v, c)
  <1>1. t \in Str /\ Len(t) = n + 1 /\ (\A k \in 1 .. n : t[k] = s[k]) /\ t[n + 1] = c /\ n \in Nat
    BY AppendedText, LengthOfStr
  <1>2. v \in Str /\ Len(v) = n - a + 1 /\ \A k \in 1 .. n - a + 1 : v[k] = s[a + k - 1]
    <2>1. n \in Nat /\ n <= Len(s) /\ a <= n + 1
      BY <1>1
    <2> HIDE DEF n
    <2> QED
      BY <2>1, PartOf
  <1> HIDE DEF t, v
  <1>3. w \in Str /\ Len(w) = n + 1 - a + 1 /\ \A k \in 1 .. n + 1 - a + 1 : w[k] = t[a + k - 1]
    <2> DEFINE m == n + 1
    <2>1. m \in Nat /\ m <= Len(t) /\ a <= m + 1
      BY <1>1
    <2> HIDE DEF m, n
    <2>2. LET y == SubSeq(t, a, m) IN
          y \in Str /\ Len(y) = m - a + 1 /\ \A k \in 1 .. m - a + 1 : y[k] = t[a + k - 1]
      BY <1>1, <2>1, PartOf
    <2> QED
      BY <2>2 DEF m, n
  <1>4. /\ x \in Str /\ Len(x) = Len(v) + 1 /\ x[Len(v) + 1] = c /\ \A k \in 1 .. Len(v) : x[k] = v[k]
    BY <1>2, AppendedText
  <1> HIDE DEF w, x, n
  <1>5. Len(x) = Len(w)
    BY <1>1, <1>2, <1>3, <1>4
  <1>6. ASSUME NEW k \in 1 .. Len(x) PROVE x[k] = w[k]
    <2>1. k \in 1 .. n + 1 - a + 1 /\ (k = n - a + 2 \/ k \in 1 .. n - a + 1)
      BY <1>1, <1>2, <1>4
    <2>2. CASE k = n - a + 2
      <3>1. a + k - 1 = n + 1 /\ k = Len(v) + 1
        BY <1>1, <1>2, <2>2
      <3>2. w[k] = t[a + k - 1]
        BY <1>3, <2>1
      <3> QED
        BY <1>1, <1>4, <3>1, <3>2
    <2>3. CASE k \in 1 .. n - a + 1
      <3>1. a + k - 1 \in 1 .. n /\ k \in 1 .. Len(v)
        BY <1>1, <1>2, <2>3
      <3>2. x[k] = v[k] /\ v[k] = s[a + k - 1] /\ t[a + k - 1] = s[a + k - 1]
        BY <1>1, <1>2, <1>4, <2>3, <3>1
      <3>3. w[k] = t[a + k - 1]
        BY <1>3, <2>1
      <3> QED
        BY <3>2, <3>3
    <2> QED
      BY <2>1, <2>2, <2>3
  <1>7. x = w
    BY <1>3, <1>4, <1>5, <1>6, SameText
  <1> QED
    BY <1>2, <1>7 DEF x, w, v, t, n

\* In a token.
LEMMA InToken ==
    ASSUME ScanInv, state \in Number \cup String, NEW c \in Scanner!Char, Scanner!Get(c)
    PROVE  /\ source' = Append(source, c) /\ source' \in Str /\ input' = input /\ next_unget' = FALSE
           /\ Covers(tokens, source', from - 1) /\ Len(source') = Len(source) + 1 /\ Len(source) \in Nat
           /\ from \in Nat /\ 1 <= from /\ from <= Len(source)
           /\ SubSeq(source', from, Len(source')) = Append(SubSeq(source, from, Len(source)), c)
           /\ SubSeq(source', from + 1, Len(source')) = Append(SubSeq(source, from + 1, Len(source)), c)
           /\ source'[from] = source[from] /\ source'[Len(source')] = c
  <1>1. state \notin {"start", "end_of_input", "parse_error"} /\ Reached = from - 1
    BY StatesApart DEF Reached
  <1>2. /\ source' = Append(source, c) /\ source' \in Str /\ input' = input /\ next_unget' = FALSE
        /\ Covers(tokens, source', from - 1)
    BY <1>1, GetGives DEF ScanInv
  <1>3. source \in Str /\ Len(source) \in Nat
    BY LengthOfStr DEF ScanInv, TextInv
  <1>4. /\ Len(source') = Len(source) + 1 /\ source'[Len(source) + 1] = c
        /\ \A k \in 1 .. Len(source) : source'[k] = source[k]
    BY <1>2, <1>3, AppendedText
  <1>5. from \in Nat /\ 1 <= from /\ from <= Len(source)
    BY DEF ScanInv, NumberInv, StringInv
  <1>6. SubSeq(source', from, Len(source) + 1) = Append(SubSeq(source, from, Len(source)), c)
    BY <1>2, <1>3, <1>5, PartGrows
  <1>7. SubSeq(source', from + 1, Len(source) + 1) = Append(SubSeq(source, from + 1, Len(source)), c)
    <2>1. from + 1 \in Nat /\ 1 <= from + 1 /\ from + 1 <= Len(source) + 1
      BY <1>3, <1>5
    <2> QED
      BY <1>2, <1>3, <2>1, PartGrows
  <1>8. source'[from] = source[from] /\ source'[Len(source')] = c /\ Len(source') = Len(source) + 1
    BY <1>3, <1>4, <1>5
  <1>9. /\ SubSeq(source', from, Len(source')) = Append(SubSeq(source, from, Len(source)), c)
        /\ SubSeq(source', from + 1, Len(source')) = Append(SubSeq(source, from + 1, Len(source)), c)
    BY <1>6, <1>7, <1>8
  <1> QED
    BY <1>2, <1>3, <1>5, <1>8, <1>9

LEMMA ScanContinuesNumber ==
    ASSUME ScanInv, state \in Number, NEW c \in Scanner!Char, Scanner!NextNumber(state, c) \in Number, Scanner!Get(c),
           state' = Scanner!NextNumber(state, c), token_buffer' = Append(token_buffer, c),
           number_type' = (IF state' \in {"decimal1", "exponent"} THEN "float" ELSE number_type),
           from' = from, tokens' = tokens
    PROVE  ScanInv'
  <1>1. /\ source' = Append(source, c) /\ source' \in Str /\ input' = input /\ next_unget' = FALSE
        /\ Covers(tokens, source', from - 1) /\ Len(source') = Len(source) + 1 /\ Len(source) \in Nat
        /\ from \in Nat /\ 1 <= from /\ from <= Len(source)
        /\ SubSeq(source', from, Len(source')) = Append(SubSeq(source, from, Len(source)), c)
    BY InToken
  <1>2. state' \in Number /\ state' \notin String /\ state' \notin {"start", "end_of_input", "parse_error"}
    BY StatesApart
  <1>3. NumberSoFar(state, token_buffer, number_type) /\ token_buffer = SubSeq(source, from, Len(source))
    BY DEF ScanInv, NumberInv
  <1>4. NumberSoFar(state', token_buffer', number_type')
    BY <1>3, NumberContinues DEF Number
  <1>5. NumberInv'
    <2>1. from' \in Nat /\ 1 <= from' /\ from' <= Len(source')
      BY <1>1
    <2>2. token_buffer' = SubSeq(source', from', Len(source'))
      BY <1>1, <1>3
    <2> QED
      BY <1>4, <2>1, <2>2 DEF NumberInv
  <1>6. Reached' = from - 1
    BY <1>2 DEF Reached
  <1>7. TokensInv'
    BY <1>1, <1>2, <1>6 DEF TokensInv
  <1>8. TextInv'
    BY <1>1, <1>2 DEF TextInv, ScanInv, PutBack
  <1> QED
    BY <1>2, <1>5, <1>7, <1>8 DEF ScanInv, StringInv

LEMMA ScanEndsNumber ==
    ASSUME ScanInv, state \in Number, NEW c \in Scanner!Char \cup {EOF}, Scanner!NextNumber(state, c) = "done",
           Scanner!Peek(c), Scanner!Unget, state' = "start",
           LET n == Scanner!Number(number_type, token_buffer) IN Scanner!Token(n.type, Len(source), n.value)
    PROVE  ScanInv'
  <1> DEFINE n == Scanner!Number(number_type, token_buffer)
             t == [type |-> n.type, from |-> from, to |-> Len(source), value |-> n.value]
  <1>1. tokens' = Append(tokens, t)
    BY DEF Scanner!Token
  <1>2. source \in Str /\ Len(source) \in Nat /\ input \in Inputs
    BY LengthOfStr DEF ScanInv, TextInv
  <1>3. /\ from \in Nat /\ 1 <= from /\ from <= Len(source) /\ token_buffer = SubSeq(source, from, Len(source))
        /\ NumberSoFar(state, token_buffer, number_type)
    BY DEF ScanInv, NumberInv
  <1>4. RightToken(n.type, n.value, token_buffer)
    BY <1>3, NumberToken DEF Number
  <1> HIDE DEF n
  <1>5. t.type = n.type /\ t.value = n.value /\ t.from = from /\ t.to = Len(source)
    OBVIOUS
  <1> HIDE DEF t
  <1>6. GoodToken(t, source)
    <2>1. SubSeq(source, t.from, t.to) = token_buffer
      BY <1>3, <1>5
    <2>2. t.from \in Nat /\ t.to \in Nat /\ 1 <= t.from /\ t.from <= t.to /\ t.to <= Len(source)
      BY <1>2, <1>3, <1>5
    <2> QED
      BY <1>4, <1>5, <2>1, <2>2 DEF GoodToken
  <1>7. Covers(tokens', source, Len(source))
    <2>1. Reached = from - 1 /\ state \notin {"start", "end_of_input", "parse_error"}
      BY StatesApart DEF Reached
    <2>2. Covers(tokens, source, from - 1) /\ t.from = (from - 1) + 1
      BY <1>3, <1>5, <2>1 DEF ScanInv, TokensInv
    <2>3. Covers(Append(tokens, t), source, t.to)
      BY <1>2, <1>6, <2>2, CoversToken
    <2> QED
      BY <1>1, <1>5, <2>3
  <1>8. input' = input /\ current' = c /\ next_unget' = TRUE
    BY DEF Scanner!Peek, Scanner!Unget
  <1>9. state' \notin Number \cup String /\ state' \notin {"end_of_input", "parse_error"}
    BY StatesApart
  <1>10. CASE c \in Scanner!Char
    <2>1. c # EOF /\ source' = Append(source, c)
      BY <1>10, EOFApart DEF Scanner!Peek, EOF
    <2>2. source' \in Str /\ Len(source') = Len(source) + 1 /\ source'[Len(source) + 1] = c /\ source' # <<>>
      BY <1>2, <1>10, <2>1, AppendedText
    <2>3. Covers(tokens', source', Len(source))
      BY <1>2, <1>7, <1>10, <2>1, CoversLonger
    <2>4. PutBack' /\ Reached' = Len(source)
      BY <1>2, <1>8, <1>9, <2>1, <2>2 DEF PutBack, Reached
    <2>5. TextInv'
      BY <1>2, <1>8, <2>2 DEF TextInv
    <2> QED
      BY <1>9, <2>3, <2>4, <2>5 DEF ScanInv, TokensInv, NumberInv, StringInv
  <1>11. CASE c = EOF
    <2>1. source' = source
      BY <1>2, <1>11, InputChars, EOFApart DEF Scanner!Peek, EOF
    <2>2. ~PutBack' /\ Reached' = Len(source)
      BY <1>8, <1>9, <1>11, <2>1 DEF PutBack, Reached
    <2>3. TextInv'
      BY <1>2, <1>8, <2>1, <2>2 DEF TextInv
    <2> QED
      BY <1>7, <1>9, <2>1, <2>2, <2>3 DEF ScanInv, TokensInv, NumberInv, StringInv
  <1> QED
    BY <1>10, <1>11

LEMMA ScanOfNumber ==
    ASSUME ScanInv, NEW c \in Scanner!Char \cup {EOF}, Scanner!ScanNumber(c) PROVE ScanInv'
  <1>1. state \in Number /\ state \notin {"end_of_input", "parse_error"}
    BY StatesApart DEF Scanner!ScanNumber, Number
  <1> DEFINE next == Scanner!NextNumber(state, c)
  <1>2. CASE next = "error" /\ Scanner!Get(c) /\ Scanner!Fail
    <2>1. state' \in {"end_of_input", "parse_error"} /\ tokens' = tokens
      BY <1>2 DEF Scanner!Fail
    <2> QED
      BY <1>1, <1>2, <2>1, ScanStops
  <1>3. CASE /\ next \in Number /\ Scanner!Get(c) /\ state' = next
             /\ token_buffer' = Append(token_buffer, c)
             /\ number_type' = (IF next \in {"decimal1", "exponent"} THEN "float" ELSE number_type)
             /\ from' = from /\ tokens' = tokens
    <2>1. c # EOF
      BY <1>1, <1>3 DEF EOF, Scanner!EOF, Scanner!NextNumber, Scanner!Digit, Number, Scanner!NumberStates
    <2> QED
      BY <1>1, <1>3, <2>1, ScanContinuesNumber
  <1>4. CASE /\ next = "done" /\ Scanner!Peek(c) /\ Scanner!Unget /\ state' = "start"
             /\ LET n == Scanner!Number(number_type, token_buffer) IN Scanner!Token(n.type, Len(source), n.value)
    BY <1>1, <1>4, ScanEndsNumber
  <1> QED
    BY <1>2, <1>3, <1>4 DEF Scanner!ScanNumber, Number

-----------------------------------------------------------------------------
\* The steps of scan_string, on the contents of a string.
LEMMA InsideGrows ==
    ASSUME NEW st, NEW c, NEW b, Inside(st, c, b)
    PROVE  /\ \A x \in Scanner!Char \ Special : st = "string" => Inside("string", Append(c, x), Append(b, x))
           /\ st = "string" => Inside("escape", Append(c, "bs"), b)
           /\ \A x \in {"q", "bs", "n"} : st = "escape" => Inside("string", Append(c, x), Append(b, Short(x)))
           /\ st = "escape" => Inside("codepoint1", Append(c, "u"), b)
           /\ st = "codepoint1" => Inside("string", Append(c, "bmp"), Append(b, "U+bmp"))
           /\ st = "codepoint1" => Inside("backslash2", Append(c, "hi"), b)
           /\ st = "backslash2" => Inside("u2", Append(c, "bs"), b)
           /\ st = "u2" => Inside("codepoint2", Append(c, "u"), b)
           /\ st = "codepoint2" => Inside("string", Append(c, "lo"), Append(b, "U+astral"))
  <1>1. PICK s \in Str : /\ Readings(s) = {b}
                         /\ \/ st = "string" /\ c = s
                            \/ st = "escape" /\ c = Esc1(s)
                            \/ st = "codepoint1" /\ c = Esc2(s)
                            \/ st = "backslash2" /\ c = Esc3(s)
                            \/ st = "u2" /\ c = Esc4(s)
                            \/ st = "codepoint2" /\ c = Esc5(s)
    BY DEF Inside
  <1>2. Esc1(s) \in Str /\ Esc2(s) \in Str /\ Esc5(s) \in Str
    BY EscapeTexts
  <1>3. {"q", "bs", "n", "bmp", "lo"} \subseteq Scanner!Char
    BY DEF Scanner!Char
  <1>4. /\ \A x \in Scanner!Char : Append(s, x) \in Str /\ Append(Esc1(s), x) \in Str
        /\ Append(Esc2(s), "bmp") \in Str /\ Append(Esc5(s), "lo") \in Str
    BY <1>2, <1>3, AppendedText
  <1>5. /\ \A x \in Scanner!Char \ Special : Readings(Append(s, x)) = {Append(b, x)}
        /\ \A x \in {"q", "bs", "n"} : Readings(Append(Esc1(s), x)) = {Append(b, Short(x))}
        /\ Readings(Append(Esc2(s), "bmp")) = {Append(b, "U+bmp")}
        /\ Readings(Append(Esc5(s), "lo")) = {Append(b, "U+astral")}
    BY <1>1, PieceAdded
  <1>6. ASSUME NEW x \in Scanner!Char \ Special, st = "string" PROVE Inside("string", Append(c, x), Append(b, x))
    BY <1>1, <1>4, <1>5, <1>6 DEF Inside
  <1>7. st = "string" => Inside("escape", Append(c, "bs"), b)
    BY <1>1 DEF Inside, Esc1
  <1>8. ASSUME NEW x \in {"q", "bs", "n"}, st = "escape" PROVE Inside("string", Append(c, x), Append(b, Short(x)))
    BY <1>1, <1>3, <1>4, <1>5, <1>8 DEF Inside
  <1>9. st = "escape" => Inside("codepoint1", Append(c, "u"), b)
    BY <1>1 DEF Inside, Esc2
  <1>10. st = "codepoint1" => Inside("string", Append(c, "bmp"), Append(b, "U+bmp"))
    BY <1>1, <1>4, <1>5 DEF Inside
  <1>11. st = "codepoint1" => Inside("backslash2", Append(c, "hi"), b)
    BY <1>1 DEF Inside, Esc3
  <1>12. st = "backslash2" => Inside("u2", Append(c, "bs"), b)
    BY <1>1 DEF Inside, Esc4
  <1>13. st = "u2" => Inside("codepoint2", Append(c, "u"), b)
    BY <1>1 DEF Inside, Esc5
  <1>14. st = "codepoint2" => Inside("string", Append(c, "lo"), Append(b, "U+astral"))
    BY <1>1, <1>4, <1>5 DEF Inside
  <1> QED
    BY <1>6, <1>7, <1>8, <1>9, <1>10, <1>11, <1>12, <1>13, <1>14

LEMMA ScanContinuesString ==
    ASSUME ScanInv, state \in String, NEW c \in Scanner!Char, Scanner!Get(c), state' \in String,
           Inside(state', Append(SubSeq(source, from + 1, Len(source)), c), token_buffer'),
           from' = from, tokens' = tokens
    PROVE  ScanInv'
  <1>1. /\ source' \in Str /\ input' = input /\ next_unget' = FALSE
        /\ Covers(tokens, source', from - 1) /\ Len(source') = Len(source) + 1 /\ Len(source) \in Nat
        /\ from \in Nat /\ 1 <= from /\ from <= Len(source)
        /\ SubSeq(source', from + 1, Len(source')) = Append(SubSeq(source, from + 1, Len(source)), c)
        /\ source'[from] = source[from]
    BY InToken
  <1>2. state' \notin Number /\ state' \notin {"start", "end_of_input", "parse_error"}
    BY StatesApart
  <1>3. StringInv'
    <2>1. from' \in Nat /\ 1 <= from' /\ from' <= Len(source')
      BY <1>1
    <2>2. source'[from'] = "q" /\ Inside(state', SubSeq(source', from' + 1, Len(source')), token_buffer')
      BY <1>1 DEF ScanInv, StringInv
    <2> QED
      BY <2>1, <2>2 DEF StringInv
  <1>4. Reached' = from - 1
    BY DEF Reached
  <1>5. TokensInv'
    BY <1>1, <1>2, <1>4 DEF TokensInv
  <1>6. TextInv'
    BY <1>1, <1>2 DEF TextInv, ScanInv, PutBack
  <1> QED
    BY <1>2, <1>3, <1>5, <1>6 DEF ScanInv, NumberInv

LEMMA ScanEndsString ==
    ASSUME ScanInv, state = "string", Scanner!Get("q"), state' = "start",
           Scanner!Token("string", Len(source) + 1, token_buffer)
    PROVE  ScanInv'
  <1> DEFINE t == [type |-> "string", from |-> from, to |-> Len(source) + 1, value |-> token_buffer]
             n == Len(source)
             w == SubSeq(source', from, n + 1)
             c == SubSeq(source, from + 1, n)
  <1>1. tokens' = Append(tokens, t)
    BY DEF Scanner!Token
  <1>2. "q" \in Scanner!Char /\ state \in String
    BY StatesApart DEF Scanner!Char
  <1>3. /\ source' = Append(source, "q") /\ source' \in Str /\ input' = input /\ next_unget' = FALSE
        /\ Covers(tokens, source', from - 1) /\ Len(source') = n + 1 /\ n \in Nat
        /\ from \in Nat /\ 1 <= from /\ from <= n
        /\ source'[from] = source[from] /\ source'[Len(source')] = "q"
    BY <1>2, InToken
  <1>4. source \in Str /\ source[from] = "q" /\ Inside("string", c, token_buffer)
    BY <1>2 DEF ScanInv, TextInv, StringInv
  <1>5. t.type = "string" /\ t.from = from /\ t.to = n + 1 /\ t.value = token_buffer
    OBVIOUS
  <1>6. Readings(c) = {token_buffer}
    BY <1>4 DEF Inside
  <1> HIDE DEF t, n
  <1>7. /\ w \in Str /\ Len(w) = n + 1 - from + 1
        /\ \A k \in 1 .. n + 1 - from + 1 : w[k] = source'[from + k - 1]
    <2>1. PICK m \in Nat : m = n + 1
      BY <1>3
    <2>2. from <= m + 1 /\ m <= Len(source')
      BY <1>3, <2>1
    <2>3. /\ SubSeq(source', from, m) \in Str /\ Len(SubSeq(source', from, m)) = m - from + 1
          /\ \A k \in 1 .. m - from + 1 : SubSeq(source', from, m)[k] = source'[from + k - 1]
      BY <1>3, <2>2, PartOf, ZenonT(40)
    <2>4. w = SubSeq(source', from, m)
      BY <2>1
    <2>5. n + 1 - from + 1 = m - from + 1
      BY <1>3, <2>1
    <2> HIDE DEF w
    <2> QED
      BY <2>3, <2>4, <2>5
  <1>8. c \in Str /\ Len(c) = n - (from + 1) + 1 /\ \A k \in 1 .. n - (from + 1) + 1 : c[k] = source[(from + 1) + k - 1]
    <2>1. from + 1 \in Nat /\ 1 <= from + 1 /\ from + 1 <= n + 1 /\ n <= Len(source)
      BY <1>3 DEF n
    <2> QED
      BY <1>3, <1>4, <2>1, PartOf
  <1> HIDE DEF w, c
  <1>9. Len(w) \in Nat /\ Len(w) >= 2 /\ w[1] = "q" /\ w[Len(w)] = "q"
    <2>1. 1 \in 1 .. n + 1 - from + 1 /\ from + 1 - 1 = from /\ Len(w) \in 1 .. n + 1 - from + 1 /\ from + Len(w) - 1 = n + 1
      BY <1>3, <1>7
    <2>2. w[1] = source'[from + 1 - 1] /\ w[Len(w)] = source'[from + Len(w) - 1]
      BY <1>7, <2>1
    <2>3. w[1] = "q" /\ w[Len(w)] = "q"
      BY <1>3, <1>4, <2>1, <2>2
    <2> QED
      BY <1>3, <1>7, <2>3
  <1>10. SubSeq(w, 2, Len(w) - 1) = c
    <2> DEFINE m == Len(w) - 1
               x == SubSeq(w, 2, m)
    <2>1. m \in Nat /\ 2 <= m + 1 /\ m <= Len(w) /\ m - 2 + 1 = n - (from + 1) + 1 /\ m - 2 + 1 = n - from
      BY <1>3, <1>7, <1>9
    <2> HIDE DEF m
    <2>2. x \in Str /\ Len(x) = m - 2 + 1 /\ \A k \in 1 .. m - 2 + 1 : x[k] = w[2 + k - 1]
      BY <1>7, <2>1, PartOf
    <2> HIDE DEF x
    <2>3. ASSUME NEW k \in 1 .. n - from PROVE x[k] = c[k]
      <3>1. /\ 2 + k - 1 \in 1 .. n + 1 - from + 1 /\ from + (2 + k - 1) - 1 = (from + 1) + k - 1
            /\ (from + 1) + k - 1 \in 1 .. n /\ k \in 1 .. m - 2 + 1 /\ k \in 1 .. n - (from + 1) + 1
        BY <1>3, <2>1
      <3>2. x[k] = w[2 + k - 1] /\ w[2 + k - 1] = source'[from + (2 + k - 1) - 1] /\ c[k] = source[(from + 1) + k - 1]
        BY <1>7, <1>8, <2>2, <3>1
      <3>3. source'[(from + 1) + k - 1] = source[(from + 1) + k - 1]
        BY <1>2, <1>3, <1>4, <3>1, AppendedText DEF n
      <3> QED
        BY <3>1, <3>2, <3>3
    <2>4. Len(x) = n - from /\ Len(c) = n - from
      BY <1>8, <2>1, <2>2
    <2>5. x = c
      BY <1>8, <2>2, <2>3, <2>4, SameText
    <2> QED
      BY <2>5 DEF x, m
  <1>11. GoodToken(t, source')
    <2>1. Scanner!IsString(w)
      BY <1>6, <1>9, <1>10 DEF Scanner!IsString, Readings
    <2>2. RightToken(t.type, t.value, w)
      BY <1>5, <1>6, <1>10, <2>1 DEF RightToken
    <2>3. SubSeq(source', t.from, t.to) = w
      BY <1>5 DEF w
    <2>4. t.from \in Nat /\ t.to \in Nat /\ 1 <= t.from /\ t.from <= t.to /\ t.to <= Len(source')
      BY <1>3, <1>5
    <2> QED
      BY <2>2, <2>3, <2>4 DEF GoodToken
  <1>12. Covers(tokens', source', Len(source'))
    <2>1. t.from = (from - 1) + 1
      BY <1>3, <1>5
    <2>2. Covers(Append(tokens, t), source', t.to)
      BY <1>3, <1>11, <2>1, CoversToken
    <2> QED
      BY <1>1, <1>3, <1>5, <2>2
  <1>13. state' \notin Number \cup String /\ state' \notin {"end_of_input", "parse_error"} /\ Reached' = Len(source')
    BY <1>3, StatesApart DEF Reached, PutBack
  <1>14. TextInv'
    BY <1>3 DEF TextInv, ScanInv, PutBack
  <1> QED
    BY <1>12, <1>13, <1>14 DEF ScanInv, TokensInv, NumberInv, StringInv

LEMMA ScanOfString ==
    ASSUME ScanInv, NEW c \in Scanner!Char \cup {EOF}, Scanner!ScanString(c) PROVE ScanInv'
  <1>1. state \in String /\ state \notin {"end_of_input", "parse_error"} /\ Scanner!Get(c)
    BY StatesApart DEF Scanner!ScanString, String
  <1> DEFINE d == SubSeq(source, from + 1, Len(source))
  <1>2. Inside(state, d, token_buffer)
    BY <1>1 DEF ScanInv, StringInv
  <1>3. {"string", "escape", "codepoint1", "backslash2", "u2", "codepoint2"} = String
    BY DEF String, Scanner!StringStates
  <1> HIDE DEF d
  \* A character is added to the value, or only passed over.
  <1>4. ASSUME NEW x, NEW next \in String, c \in Scanner!Char, Inside(next, Append(d, c), Append(token_buffer, x)),
               Scanner!Add(x, next)
        PROVE  ScanInv'
    <2>1. state' = next /\ token_buffer' = Append(token_buffer, x) /\ from' = from /\ tokens' = tokens
      BY <1>4 DEF Scanner!Add
    <2>2. Inside(state', Append(SubSeq(source, from + 1, Len(source)), c), token_buffer')
      BY <1>4, <2>1 DEF d
    <2> QED
      BY <1>1, <1>4, <2>1, <2>2, ScanContinuesString
  <1>5. ASSUME NEW next \in String, c \in Scanner!Char, Inside(next, Append(d, c), token_buffer), Scanner!Skip(next)
        PROVE  ScanInv'
    <2>1. state' = next /\ token_buffer' = token_buffer /\ from' = from /\ tokens' = tokens
      BY <1>5 DEF Scanner!Skip
    <2>2. Inside(state', Append(SubSeq(source, from + 1, Len(source)), c), token_buffer')
      BY <1>5, <2>1 DEF d
    <2> QED
      BY <1>1, <1>5, <2>1, <2>2, ScanContinuesString
  <1>6. CASE Scanner!WrongInString(c) /\ Scanner!Fail
    <2>1. state' \in {"end_of_input", "parse_error"} /\ tokens' = tokens
      BY <1>6 DEF Scanner!Fail
    <2> QED
      BY <1>1, <2>1, ScanStops
  <1>7. CASE state = "string" /\ c = "q" /\ Scanner!Token("string", Len(source) + 1, token_buffer) /\ state' = "start"
    BY <1>1, <1>7, ScanEndsString
  <1>8. {"q", "bs", "n", "u", "bmp", "hi", "lo"} \subseteq Scanner!Char
    BY DEF Scanner!Char
  <1>9. CASE state = "string" /\ c \notin {"q", "bs", EOF, "ctl", "nul"} /\ Scanner!Add(c, "string")
    <2>1. c \in Scanner!Char \ Special
      BY <1>9 DEF Special
    <2> QED
      BY <1>2, <1>3, <1>4, <1>9, <2>1, InsideGrows
  <1>10. CASE state = "string" /\ c = "bs" /\ Scanner!Skip("escape")
    BY <1>2, <1>3, <1>5, <1>8, <1>10, InsideGrows
  <1>11. CASE state = "escape" /\ c \in Scanner!Escapes /\ Scanner!Add(Scanner!Replacement(c), "string")
    <2>1. c \in {"q", "bs", "n"} /\ Scanner!Replacement(c) = Short(c)
      BY <1>11 DEF Scanner!Escapes, Scanner!Replacement, Short
    <2>2. Inside("string", Append(d, c), Append(token_buffer, Short(c)))
      BY <1>2, <1>11, <2>1, InsideGrows
    <2>3. Scanner!Add(Short(c), "string")
      BY <1>11, <2>1
    <2> QED
      BY <1>3, <1>4, <1>8, <2>1, <2>2, <2>3
  <1>12. CASE state = "escape" /\ c = "u" /\ Scanner!Skip("codepoint1")
    BY <1>2, <1>3, <1>5, <1>8, <1>12, InsideGrows
  <1>13. CASE state = "codepoint1" /\ c = "bmp" /\ Scanner!Add("U+bmp", "string")
    BY <1>2, <1>3, <1>4, <1>8, <1>13, InsideGrows
  <1>14. CASE state = "codepoint1" /\ c = "hi" /\ Scanner!Skip("backslash2")
    BY <1>2, <1>3, <1>5, <1>8, <1>14, InsideGrows
  <1>15. CASE state = "backslash2" /\ c = "bs" /\ Scanner!Skip("u2")
    BY <1>2, <1>3, <1>5, <1>8, <1>15, InsideGrows
  <1>16. CASE state = "u2" /\ c = "u" /\ Scanner!Skip("codepoint2")
    BY <1>2, <1>3, <1>5, <1>8, <1>16, InsideGrows
  <1>17. CASE state = "codepoint2" /\ Scanner!Pair(c) /\ Scanner!Add("U+astral", "string")
    <2>1. c = "lo"
      BY <1>17 DEF Scanner!Pair
    <2> QED
      BY <1>2, <1>3, <1>4, <1>8, <1>17, <2>1, InsideGrows
  <1> QED
    BY <1>6, <1>7, <1>9, <1>10, <1>11, <1>12, <1>13, <1>14, <1>15, <1>16, <1>17, Zenon DEF Scanner!ScanString, EOF

LEMMA ScanNext == ASSUME ScanInv, Scanner!Next PROVE ScanInv'
  <1>1. input.chars \cup {EOF} \subseteq Scanner!Char \cup {EOF}
    BY InputChars DEF ScanInv, TextInv
  <1>2. CASE Scanner!SkipWhitespace
    BY <1>2, ScanSpace
  <1>3. CASE Scanner!ScanOneCharacter(",", "structural") \/ Scanner!ScanOneCharacter("true", "literal")
    BY <1>3, ScanOne, Zenon DEF Marks
  <1>4. CASE Scanner!BeginString
    BY <1>4, ScanBeginsString
  <1>5. ASSUME NEW c \in input.chars \cup {EOF}, Scanner!ScanEnd(c) PROVE ScanInv'
    <2>1. /\ state = "start" /\ Scanner!Get(c) /\ state' \in {"end_of_input", "parse_error"} /\ tokens' = tokens
      BY <1>5 DEF Scanner!ScanEnd
    <2> QED
      BY <1>1, <1>5, <2>1, StatesApart, ScanStops
  <1>6. ASSUME NEW c \in input.chars \cup {EOF}, Scanner!ScanWrong(c) PROVE ScanInv'
    <2>1. /\ state = "start" /\ Scanner!Get(c) /\ state' \in {"end_of_input", "parse_error"} /\ tokens' = tokens
      BY <1>6 DEF Scanner!ScanWrong, Scanner!Fail
    <2> QED
      BY <1>1, <1>6, <2>1, StatesApart, ScanStops
  <1>7. ASSUME NEW c \in input.chars \cup {EOF}, Scanner!BeginNumber(c) PROVE ScanInv'
    <2>1. c \in Scanner!Digit \cup {"-"}
      BY <1>7 DEF Scanner!BeginNumber
    <2> QED
      BY <1>7, <2>1, ScanBeginsNumber
  <1>8. ASSUME NEW c \in input.chars \cup {EOF}, Scanner!ScanNumber(c) PROVE ScanInv'
    BY <1>1, <1>8, ScanOfNumber
  <1>9. ASSUME NEW c \in input.chars \cup {EOF}, Scanner!ScanString(c) PROVE ScanInv'
    BY <1>1, <1>9, ScanOfString
  <1> QED
    BY <1>2, <1>3, <1>4, <1>5, <1>6, <1>7, <1>8, <1>9, Zenon DEF Scanner!Next, EOF

LEMMA ScanInvariant == AnswersSpec => []ScanInv
  <1>1. AnswersInit => ScanInv
    BY ScanInit DEF AnswersInit
  <1>2. ASSUME ScanInv, [AnswersNext]_<<vars, scanner, layer>> PROVE ScanInv'
    <2>1. CASE UNCHANGED scanner
      BY <1>2, <2>1 DEF scanner, ScanInv, TextInv, TokensInv, NumberInv, StringInv, Reached, PutBack
    <2>2. CASE Scanner!Next
      BY <1>2, <2>2, ScanNext
    <2> QED
      BY <1>2, <2>1, <2>2 DEF AnswersNext
  <1> QED
    BY <1>1, <1>2, PTL DEF AnswersSpec

\* What the scanner has made of a text, whatever the text: between tokens the tokens are
\* the text, each a lexeme of its kind with nothing but whitespace around them, the
\* character behind a number included; an integer has its value exactly when that fits,
\* a string has its escapes replaced as its only reading says.
THEOREM TokensExact == AnswersSpec => []TokensAreExact
  <1>1. ScanInv => TokensAreExact
    <2> SUFFICES ASSUME ScanInv PROVE TokensAreExact
      OBVIOUS
    <2>1. source \in Str /\ Len(source) \in Nat
      BY LengthOfStr DEF ScanInv, TextInv
    <2>2. PICK r : Covers(tokens, source, r)
      BY DEF ScanInv, TokensInv
    <2>3. PICK S : tokens \in Seq(S)
      BY <2>2 DEF Covers
    <2>4. DOMAIN tokens = 1 .. Len(tokens)
      BY <2>3
    <2>5. \A i \in DOMAIN tokens : GoodToken(tokens[i], source)
      BY <2>2, <2>4 DEF Covers
    <2>6. ASSUME NEW i \in DOMAIN tokens
          PROVE  RightToken(tokens[i].type, tokens[i].value, Scanner!Lexeme(tokens[i]))
      BY <2>5 DEF GoodToken, Scanner!Lexeme
    <2>7. ASSUME state = "start" PROVE Covers(tokens, source, Len(Scanner!Scanned))
      <3>1. Reached = IF PutBack THEN Len(source) - 1 ELSE Len(source)
        BY <2>7, StatesApart DEF Reached
      <3>2. Covers(tokens, source, Reached)
        BY <2>7 DEF ScanInv, TokensInv
      <3>3. CASE PutBack
        <4>1. source # <<>>
          BY <3>3 DEF ScanInv, TextInv
        <4>2. Len(source) >= 1
          BY <2>1, <4>1, TailPart
        <4> DEFINE m == Len(source) - 1
        <4>3. m \in Nat /\ m <= Len(source)
          BY <2>1, <4>2
        <4> HIDE DEF m
        <4>4. Len(SubSeq(source, 1, m)) = m
          BY <2>1, <4>3, Beginning
        <4>5. Scanner!Scanned = SubSeq(source, 1, m)
          BY <3>3 DEF Scanner!Scanned, Scanner!Front, PutBack, EOF, m
        <4>6. Reached = m
          BY <3>1, <3>3 DEF m
        <4> QED
          BY <3>2, <4>4, <4>5, <4>6
      <3>4. CASE ~PutBack
        <4>1. Scanner!Scanned = source
          BY <3>4 DEF Scanner!Scanned, PutBack, EOF
        <4> QED
          BY <3>1, <3>2, <3>4, <4>1
      <3> QED
        BY <3>3, <3>4
    <2>8. Scanner!TokensAreTheText
      <3> SUFFICES ASSUME state = "start"
                   PROVE  /\ \A i \in DOMAIN tokens :
                                LET s == Scanner!Lexeme(tokens[i]) IN
                                /\ tokens[i].type \in {"unsigned", "integer", "float"} => Scanner!IsNumber(s)
                                /\ tokens[i].type = "string" => Scanner!IsString(s)
                                /\ tokens[i].type \in {"structural", "literal"} => s \in {<<",">>, <<"true">>}
                          /\ \A p \in 1 .. Len(Scanner!Scanned) :
                                \/ Scanner!Scanned[p] = "ws"
                                \/ \E i \in DOMAIN tokens : p \in tokens[i].from .. tokens[i].to
                          /\ \A i \in 1 .. Len(tokens) - 1 : tokens[i].to < tokens[i + 1].from
        BY Zenon DEF Scanner!TokensAreTheText
      <3>1. Covers(tokens, source, Len(Scanner!Scanned))
        BY <2>7
      <3>2. \A p \in 1 .. Len(Scanner!Scanned) : Scanner!Scanned[p] = source[p]
        <4>1. CASE PutBack
          <5> DEFINE m == Len(source) - 1
          <5>1. Scanner!Scanned = SubSeq(source, 1, m)
            BY <4>1 DEF Scanner!Scanned, Scanner!Front, PutBack, EOF
          <5>2. source # <<>>
            BY <4>1 DEF ScanInv, TextInv
          <5>3. Len(source) >= 1
            BY <2>1, <5>2, TailPart
          <5>4. m \in Nat /\ m <= Len(source)
            BY <2>1, <5>3
          <5> HIDE DEF m
          <5>5. Len(SubSeq(source, 1, m)) = m /\ \A k \in 1 .. m : SubSeq(source, 1, m)[k] = source[k]
            BY <2>1, <5>4, Beginning
          <5> QED
            BY <5>1, <5>5
        <4>2. CASE ~PutBack
          BY <4>2 DEF Scanner!Scanned, PutBack, EOF
        <4> QED
          BY <4>1, <4>2
      <3>3. \A i \in 1 .. Len(tokens) - 1 : tokens[i].to < tokens[i + 1].from
        BY <3>1 DEF Covers
      <3>4. \A p \in 1 .. Len(Scanner!Scanned) :
               source[p] = "ws" \/ \E i \in DOMAIN tokens : p \in tokens[i].from .. tokens[i].to
        BY <2>4, <3>1 DEF Covers
      <3>5. \A i \in DOMAIN tokens :
               LET s == Scanner!Lexeme(tokens[i]) IN
               /\ tokens[i].type \in {"unsigned", "integer", "float"} => Scanner!IsNumber(s)
               /\ tokens[i].type = "string" => Scanner!IsString(s)
               /\ tokens[i].type \in {"structural", "literal"} => s \in {<<",">>, <<"true">>}
        BY <2>6, Zenon DEF RightToken
      <3> QED
        BY <3>2, <3>3, <3>4, <3>5, Zenon
    <2>9. Scanner!ValuesAreExact
      BY <2>6 DEF Scanner!ValuesAreExact, RightToken, Whole, ValueOf, Body, Readings
    <2> QED
      BY <2>8, <2>9 DEF TokensAreExact
  <1> QED
    BY <1>1, ScanInvariant, PTL

-----------------------------------------------------------------------------
(***************************************************************************)
(* What is refused is wrong.                                               *)
(***************************************************************************)

Lexical(s) == Scanner!Tokenisable[s]
From(s, k) == SubSeq(s, k, Len(s))
\* A text made of lexemes, by the first of them; f says what the rest is.
NoNumber(s, n) == n < Len(s) /\ Scanner!IsNumber(SubSeq(s, 1, n)) => s[n + 1] \notin Scanner!Digit \cup {".", "e"}
TokenRule(f, s) ==
    \/ s = <<>>
    \/ s[1] = "ws" /\ f[From(s, 2)]
    \/ \E n \in 1 .. Len(s) : Scanner!IsLexeme(SubSeq(s, 1, n)) /\ NoNumber(s, n) /\ f[From(s, n + 1)]

LEMMA FromText ==
    ASSUME NEW s \in Str, NEW k \in Nat, 1 <= k, k <= Len(s) + 1
    PROVE  /\ From(s, k) \in Str /\ Len(From(s, k)) = Len(s) - k + 1
           /\ \A i \in 1 .. Len(s) - k + 1 : From(s, k)[i] = s[k + i - 1]
           /\ From(s, k) = <<>> <=> k = Len(s) + 1
  <1> DEFINE n == Len(s)
  <1>1. n \in Nat /\ n <= n /\ n <= Len(s) /\ k <= n + 1
    BY LengthOfStr
  <1>2. From(s, k) = SubSeq(s, k, n)
    BY DEF From
  <1> HIDE DEF n
  <1>3. /\ SubSeq(s, k, n) \in Str /\ Len(SubSeq(s, k, n)) = n - k + 1
        /\ \A i \in 1 .. n - k + 1 : SubSeq(s, k, n)[i] = s[k + i - 1]
        /\ SubSeq(s, k, n) = <<>> <=> k = n + 1
    BY <1>1, PartOf
  <1> QED
    BY <1>2, <1>3 DEF n

LEMMA TokenisableUnfolds ==
    \A s \in Str : Lexical(s) <=> TokenRule(Scanner!Tokenisable, s)
  <1> DEFINE B == BOOLEAN
             d == [fs \in [Str -> B] \X Str |-> TokenRule(fs[1], fs[2])]
  <1>1. ASSUME NEW f \in [Str -> B], NEW s \in Str PROVE TokenRule(f, s) \in B
    BY DEF TokenRule
  <1>2. ASSUME NEW f \in [Str -> B], NEW g \in [Str -> B], NEW s \in Str,
               \A r \in Str : Len(r) < Len(s) => f[r] = g[r]
        PROVE  TokenRule(f, s) = TokenRule(g, s)
    <2>1. ASSUME NEW n \in 1 .. Len(s) PROVE f[From(s, n + 1)] = g[From(s, n + 1)]
      <3>1. n + 1 \in Nat /\ 1 <= n + 1 /\ n + 1 <= Len(s) + 1 /\ Len(s) - (n + 1) + 1 < Len(s) /\ Len(s) \in Nat
        BY LengthOfStr
      <3> DEFINE k == n + 1
      <3> HIDE DEF k
      <3>2. k \in Nat /\ 1 <= k /\ k <= Len(s) + 1 /\ Len(s) - k + 1 < Len(s)
        BY <3>1 DEF k
      <3>3. From(s, k) \in Str /\ Len(From(s, k)) < Len(s)
        BY <3>2, FromText
      <3>4. f[From(s, k)] = g[From(s, k)]
        BY <1>2, <3>3
      <3> QED
        BY <3>4 DEF k
    <2>2. s # <<>> => f[From(s, 2)] = g[From(s, 2)]
      <3>1. s # <<>> => 1 \in 1 .. Len(s)
        BY TailPart, LengthOfStr
      <3>2. 1 + 1 = 2
        OBVIOUS
      <3> QED
        BY <2>1, <3>1, <3>2
    <2>3. TokenRule(f, s) <=> TokenRule(g, s)
      BY <2>1, <2>2, Zenon DEF TokenRule
    <2>4. TokenRule(f, s) \in BOOLEAN /\ TokenRule(g, s) \in BOOLEAN
      BY DEF TokenRule
    <2> QED
      BY <2>3, <2>4
  <1>3. B # {}
    OBVIOUS
  <1>4. Rule(d, B)
    BY <1>1 DEF Rule
  <1>5. \A f \in [Str -> B], s \in Str : d[<<f, s>>] = TokenRule(f, s)
    OBVIOUS
  <1> HIDE DEF B
  <1>6. Narrow(d, B)
    <2> HIDE DEF d
    <2> QED
      BY <1>2, <1>5 DEF Narrow
  <1> HIDE DEF d
  <1>7. PICK f : Solves(f, d, B)
    BY <1>3, <1>4, <1>6, TextRecursion
  <1>8. f = [s \in Str |-> TokenRule(f, s)]
    BY <1>5, <1>7 DEF Solves
  <1>9. Scanner!Tokenisable = CHOOSE h : h = [s \in Str |-> TokenRule(h, s)]
    BY Zenon DEF Scanner!Tokenisable, Str, TokenRule, NoNumber, From
  <1> DEFINE K == Scanner!Tokenisable
             G(s) == TokenRule(K, s)
  <1>10. K = [s \in Str |-> TokenRule(K, s)]
    BY <1>8, <1>9
  <1>11. K = [s \in Str |-> G(s)]
    BY <1>10
  <1> HIDE DEF G, K
  <1>12. \A s \in Str : K[s] = G(s)
    BY <1>11
  <1> QED
    BY <1>12 DEF G, K, Lexical

-----------------------------------------------------------------------------
\* What a lexeme begins with.
LEMMA NumberShape ==
    ASSUME NEW v \in Str, v # <<>>, Scanner!IsNumber(v)
    PROVE  Shape(Body(v)) /\ Body(v) \in Str /\ v[1] \in Scanner!Digit \cup {"-"}
  <1>1. Tail(v) \in Str
    BY TailPart
  <1>2. ASSUME Shape(v) PROVE v[1] \in Scanner!Digit
    <2>1. PICK i \in Nat : IntTo(v, i)
      BY <1>2 DEF Shape, Mantissa
    <2>2. 1 \in 1 .. i
      BY <2>1 DEF IntTo
    <2> QED
      BY <2>1, <2>2 DEF IntTo, Digits
  <1>3. CASE Scanner!IsUnsigned(v)
    <2>1. Shape(v) /\ v[1] \in Scanner!Digit
      BY <1>2, <1>3, ShapeIs
    <2> QED
      BY <2>1, DigitsAre DEF Body
  <1>4. CASE v[1] = "-" /\ Scanner!IsUnsigned(Tail(v))
    BY <1>1, <1>4, ShapeIs DEF Body
  <1> QED
    BY <1>3, <1>4 DEF Scanner!IsNumber

LEMMA LexemeKind ==
    ASSUME NEW u \in Str, NEW n \in 1 .. Len(u), Scanner!IsLexeme(SubSeq(u, 1, n))
    PROVE  \/ u[1] \in Marks /\ n = 1
           \/ u[1] \in Scanner!Digit \cup {"-"} /\ Scanner!IsNumber(SubSeq(u, 1, n))
           \/ u[1] = "q" /\ Scanner!IsString(SubSeq(u, 1, n))
  <1>1. n \in Nat /\ n <= Len(u) /\ n >= 1 /\ 1 \in 1 .. n
    BY LengthOfStr
  <1> DEFINE v == SubSeq(u, 1, n)
  <1>2. v \in Str /\ Len(v) = n /\ v[1] = u[1] /\ v # <<>>
    <2>1. v \in Str /\ Len(v) = n /\ \A k \in 1 .. n : v[k] = u[k]
      BY <1>1, Beginning
    <2> QED
      BY <1>1, <2>1
  <1> HIDE DEF v
  <1>3. CASE v = <<",">> \/ v = <<"true">>
    <2>1. v[1] \in Marks /\ Len(v) = 1
      <3>1. CASE v = <<",">>
        BY <3>1 DEF Marks
      <3>2. CASE v = <<"true">>
        BY <3>2 DEF Marks
      <3> QED
        BY <1>3, <3>1, <3>2
    <2> QED
      BY <1>2, <2>1
  <1>4. CASE Scanner!IsNumber(v)
    BY <1>2, <1>4, NumberShape DEF v
  <1>5. CASE Scanner!IsString(v)
    BY <1>2, <1>5, Zenon DEF Scanner!IsString, v
  <1> QED
    BY <1>3, <1>4, <1>5, Zenon DEF Scanner!IsLexeme, v

\* The first lexeme of a text that is made of lexemes.
LEMMA FirstLexeme ==
    ASSUME NEW u \in Str, u # <<>>, Lexical(u)
    PROVE  /\ u[1] \in Marks \cup {"ws", "-", "q"} \cup Scanner!Digit
           /\ u[1] \in Marks \cup {"ws"} => Lexical(From(u, 2))
           /\ u[1] \in Scanner!Digit \cup {"-"} =>
                 \E n \in 1 .. Len(u) : Scanner!IsNumber(SubSeq(u, 1, n)) /\ NoNumber(u, n) /\ Lexical(From(u, n + 1))
           /\ u[1] = "q" =>
                 \E n \in 1 .. Len(u) : Scanner!IsString(SubSeq(u, 1, n)) /\ Lexical(From(u, n + 1))
  <1>1. \/ u[1] = "ws" /\ Lexical(From(u, 2))
        \/ \E n \in 1 .. Len(u) : Scanner!IsLexeme(SubSeq(u, 1, n)) /\ NoNumber(u, n) /\ Lexical(From(u, n + 1))
    BY TokenisableUnfolds DEF TokenRule, Lexical
  <1>2. /\ "ws" \notin Marks \cup Scanner!Digit \cup {"-", "q"} /\ "q" \notin Marks \cup Scanner!Digit \cup {"-"}
        /\ Marks \cap (Scanner!Digit \cup {"-"}) = {}
    BY DEF Marks, Scanner!Digit
  <1>3. CASE u[1] = "ws" /\ Lexical(From(u, 2))
    BY <1>2, <1>3
  <1>4. ASSUME NEW n \in 1 .. Len(u), Scanner!IsLexeme(SubSeq(u, 1, n)), NoNumber(u, n), Lexical(From(u, n + 1))
        PROVE  \/ u[1] \in Marks /\ Lexical(From(u, 2))
               \/ u[1] \in Scanner!Digit \cup {"-"} /\ Scanner!IsNumber(SubSeq(u, 1, n))
               \/ u[1] = "q" /\ Scanner!IsString(SubSeq(u, 1, n))
    <2>1. n = 1 => Lexical(From(u, 2))
      BY <1>4
    <2> QED
      BY <1>4, <2>1, LexemeKind
  <1> QED
    BY <1>1, <1>2, <1>3, <1>4, Zenon

-----------------------------------------------------------------------------
\* The positions of a number are its own.
LEMMA OneInt ==
    ASSUME NEW w, NEW n \in Nat, NEW i \in Nat, NEW j \in Nat, IntTo(w, i), IntTo(w, j),
           i = n \/ w[i + 1] \notin Scanner!Digit, j = n \/ w[j + 1] \notin Scanner!Digit, i <= n, j <= n
    PROVE  i = j
  <1>1. i < j => i + 1 \in 1 .. j /\ i # n
    OBVIOUS
  <1>2. j < i => j + 1 \in 1 .. i /\ j # n
    OBVIOUS
  <1>3. ~(i < j)
    BY <1>1 DEF IntTo, Digits
  <1>4. ~(j < i)
    BY <1>2 DEF IntTo, Digits
  <1> QED
    BY <1>3, <1>4

LEMMA AfterInt ==
    ASSUME NEW w, NEW i \in Nat, NEW j \in Nat, Mantissa(w, i, j), NEW n \in Nat, j <= n,
           j = n \/ w[j + 1] = "e"
    PROVE  i = n \/ w[i + 1] \in {".", "e"}
  BY DEF Mantissa, FracTo

LEMMA OneMantissa ==
    ASSUME NEW w, NEW n \in Nat, NEW i \in Nat, NEW j \in Nat, NEW k \in Nat, NEW l \in Nat,
           Mantissa(w, i, j), Mantissa(w, k, l), j <= n, l <= n,
           j = n \/ w[j + 1] = "e", l = n \/ w[l + 1] = "e"
    PROVE  i = k /\ j = l
  <1>1. (i = n \/ w[i + 1] \notin Scanner!Digit) /\ (k = n \/ w[k + 1] \notin Scanner!Digit)
    BY AfterInt, DigitsAre
  <1>2. i <= n /\ k <= n /\ IntTo(w, i) /\ IntTo(w, k)
    BY DEF Mantissa
  <1>3. i = k
    BY <1>1, <1>2, OneInt
  <1>4. FracTo(w, i, j) /\ FracTo(w, i, l)
    BY <1>3 DEF Mantissa
  <1>5. j < l => j = i
    <2> SUFFICES ASSUME j < l, j # i PROVE FALSE
      OBVIOUS
    <2>1. j + 1 \in i + 2 .. l /\ j # n
      BY <1>4 DEF FracTo
    <2>2. w[j + 1] \in Scanner!Digit
      BY <1>3, <1>4, <2>1 DEF FracTo, Digits, Mantissa
    <2> QED
      BY <2>1, <2>2, DigitsAre
  <1>6. l < j => l = i
    <2> SUFFICES ASSUME l < j, l # i PROVE FALSE
      OBVIOUS
    <2>1. l + 1 \in i + 2 .. j /\ l # n
      BY <1>4 DEF FracTo
    <2>2. w[l + 1] \in Scanner!Digit
      BY <1>3, <1>4, <2>1 DEF FracTo, Digits, Mantissa
    <2> QED
      BY <2>1, <2>2, DigitsAre
  <1>7. ~(j < l) /\ ~(l < j)
    BY <1>4, <1>5, <1>6 DEF FracTo
  <1> QED
    BY <1>3, <1>7

\* A number ends in a digit.
LEMMA ShapeEnds ==
    ASSUME NEW v \in Str, Shape(v)
    PROVE  Len(v) >= 1 /\ v[Len(v)] \in Scanner!Digit
  <1> DEFINE n == Len(v)
  <1>1. n \in Nat
    BY LengthOfStr
  <1> HIDE DEF n
  <1>2. PICK i \in Nat, j \in Nat : Mantissa(v, i, j) /\ j <= n /\ (n = j \/ ExpAt(v, j, n))
    BY DEF Shape, n
  <1>3. i >= 1 /\ i <= j /\ Digits(v, 1, i) /\ (j = i \/ (i + 2 <= j /\ Digits(v, i + 2, j)))
    BY <1>2 DEF Mantissa, IntTo, FracTo
  <1>4. CASE n = j
    BY <1>1, <1>2, <1>3, <1>4 DEF Digits, n
  <1>5. CASE ExpAt(v, j, n)
    <2>1. PICK m \in {1, 2} : j + m < n /\ Digits(v, j + m + 1, n)
      BY <1>5 DEF ExpAt
    <2>2. n \in j + m + 1 .. n /\ n >= 1
      BY <1>1, <2>1
    <2> QED
      BY <2>1, <2>2 DEF Digits, n
  <1> QED
    BY <1>2, <1>4, <1>5

\* What may stand in a number.
LEMMA NumberCharacters ==
    ASSUME NEW st, NEW u \in Str, NumAt(st, u), NEW k \in 1 .. Len(u)
    PROVE  \/ u[k] \in Scanner!Digit \cup {".", "e"}
           \/ u[k] \in {"+", "-"} /\ k > 1 /\ u[k - 1] = "e"
  <1> DEFINE n == Len(u)
  <1>1. n \in Nat
    BY LengthOfStr
  <1> HIDE DEF n
  <1>2. k \in 1 .. n /\ Len(u) = n
    BY DEF n
  <1>3. ASSUME NEW i \in Nat, NEW j \in Nat, Mantissa(u, i, j), k <= j
        PROVE  u[k] \in Scanner!Digit \cup {".", "e"}
    <2>1. k \in 1 .. i \/ k = i + 1 \/ k \in i + 2 .. j
      BY <1>2, <1>3
    <2>2. k > i => j # i
      BY <1>2, <1>3
    <2> QED
      BY <1>2, <1>3, <2>1, <2>2 DEF Mantissa, IntTo, FracTo, Digits
  <1>4. CASE st \in {"minus", "zero", "any1"}
    BY <1>1, <1>2, <1>4, DigitsAre DEF NumAt, Digits
  <1>5. CASE st = "decimal1"
    <2>1. PICK i \in Nat : IntTo(u, i) /\ n = i + 1 /\ u[i + 1] = "."
      BY <1>2, <1>5 DEF NumAt
    <2>2. k \in 1 .. i \/ k = i + 1
      BY <1>2, <2>1
    <2> QED
      BY <2>1, <2>2 DEF IntTo, Digits
  <1>6. CASE st = "decimal2"
    <2>1. PICK i \in Nat : IntTo(u, i) /\ i + 2 <= n /\ u[i + 1] = "." /\ Digits(u, i + 2, n)
      BY <1>2, <1>6 DEF NumAt
    <2>2. k \in 1 .. i \/ k = i + 1 \/ k \in i + 2 .. n
      BY <1>2, <2>1
    <2> QED
      BY <2>1, <2>2 DEF IntTo, Digits
  <1>7. CASE st = "exponent"
    <2>1. PICK i \in Nat, j \in Nat : Mantissa(u, i, j) /\ n = j + 1 /\ u[j + 1] = "e"
      BY <1>2, <1>7 DEF NumAt
    <2>2. k <= j \/ k = j + 1
      BY <1>2, <2>1
    <2> QED
      BY <1>3, <2>1, <2>2
  <1>8. CASE st = "sign"
    <2>1. PICK i \in Nat, j \in Nat :
             Mantissa(u, i, j) /\ n = j + 2 /\ u[j + 1] = "e" /\ u[j + 2] \in {"+", "-"}
      BY <1>2, <1>8 DEF NumAt
    <2>2. k <= j \/ k = j + 1 \/ (k = j + 2 /\ k - 1 = j + 1 /\ k > 1)
      BY <1>2, <2>1
    <2> QED
      BY <1>3, <2>1, <2>2
  <1>9. CASE st = "any2"
    <2>1. PICK i \in Nat, j \in Nat : Mantissa(u, i, j) /\ ExpAt(u, j, n)
      BY <1>2, <1>9 DEF NumAt
    <2>2. PICK m \in {1, 2} : (m = 2 => u[j + 2] \in {"+", "-"}) /\ j + m < n /\ Digits(u, j + m + 1, n)
      BY <2>1 DEF ExpAt
    <2>3. k <= j \/ k = j + 1 \/ (m = 2 /\ k = j + 2 /\ k - 1 = j + 1 /\ k > 1) \/ k \in j + m + 1 .. n
      BY <1>2, <2>2
    <2>4. u[j + 1] = "e"
      BY <2>1 DEF ExpAt
    <2> QED
      BY <1>3, <2>1, <2>2, <2>3, <2>4 DEF Digits
  <1> QED
    BY <1>4, <1>5, <1>6, <1>7, <1>8, <1>9 DEF NumAt

\* Behind a number that ends within another, the other one goes on.
LEMMA NumberInner ==
    ASSUME NEW st, NEW u \in Str, NumAt(st, u), NEW v \in Str, Begins(u, v), Len(v) < Len(u), Shape(v)
    PROVE  u[Len(v) + 1] \in Scanner!Digit \cup {".", "e"}
  <1>1. Len(v) \in Nat /\ Len(u) \in Nat /\ Len(v) >= 1 /\ v[Len(v)] \in Scanner!Digit
    BY ShapeEnds, LengthOfStr
  <1>2. u[Len(v)] \in Scanner!Digit
    BY <1>1 DEF Begins
  <1>3. Len(v) + 1 \in 1 .. Len(u) /\ Len(v) + 1 - 1 = Len(v)
    BY <1>1
  <1> QED
    BY <1>2, <1>3, NumberCharacters, DigitsAre

\* A state in which a number may not end has none behind it.
LEMMA NumberOpen ==
    ASSUME NEW st, NEW u \in Str, NumAt(st, u), Shape(u)
    PROVE  st \in {"zero", "any1", "decimal2", "any2"}
  <1>1. Len(u) \in Nat /\ Len(u) >= 1 /\ u[Len(u)] \in Scanner!Digit
    BY ShapeEnds, LengthOfStr
  <1> DEFINE n == Len(u)
  <1> HIDE DEF n
  <1>2. Len(u) = n /\ n >= 1 /\ u[n] \notin {".", "e", "+", "-"}
    BY <1>1, DigitsAre DEF n
  <1>3. st # "minus"
    BY <1>2 DEF NumAt
  <1>4. st # "decimal1" /\ st # "exponent" /\ st # "sign"
    BY <1>2 DEF NumAt
  <1> QED
    BY <1>3, <1>4 DEF NumAt

\* What a longer number goes on with is what scan_number goes on with.
LEMMA NumberGoesOn ==
    ASSUME NEW st \in Number, NEW u \in Str, NumAt(st, u), NEW w \in Str, Begins(w, u), Len(u) < Len(w), Shape(w)
    PROVE  Scanner!NextNumber(st, w[Len(u) + 1]) \in Number
  <1> DEFINE n == Len(u)
             z == Len(w)
             c == w[n + 1]
             Goes == Scanner!NextNumber(st, c) \in Number
  <1>1. n \in Nat /\ z \in Nat /\ n < z /\ n <= n
    BY LengthOfStr
  <1>2. PICK i \in Nat, j \in Nat : Mantissa(w, i, j) /\ j <= z /\ (z = j \/ ExpAt(w, j, z))
    BY DEF Shape
  <1>3. /\ \A a, b \in Nat : 1 <= a /\ b <= n => (Digits(u, a, b) <=> Digits(w, a, b))
        /\ \A a \in Nat : a <= n => (IntTo(u, a) <=> IntTo(w, a))
        /\ \A a, b \in Nat : b <= n => (Mantissa(u, a, b) <=> Mantissa(w, a, b))
        /\ \A k \in 1 .. n : w[k] = u[k]
    BY NumberLonger
  <1>4. ASSUME NEW s, s \in Number
        PROVE  /\ s \in {"minus", "any1", "decimal1", "decimal2", "exponent", "sign", "any2"} /\ c \in Scanner!Digit =>
                     Scanner!NextNumber(s, c) \in Number
               /\ s \in {"zero", "any1"} /\ c \in {".", "e"} => Scanner!NextNumber(s, c) \in Number
               /\ s = "decimal2" /\ c = "e" => Scanner!NextNumber(s, c) \in Number
               /\ s = "exponent" /\ c \in {"+", "-"} => Scanner!NextNumber(s, c) \in Number
    BY DigitsAre DEF Scanner!NextNumber, Number, Scanner!NumberStates
  <1> SUFFICES Goes
    OBVIOUS
  <1> HIDE DEF n, z, c
  <1>5. Len(u) = n /\ c = w[n + 1]
    BY DEF n, c
  <1>6. i >= 1 /\ i <= j /\ j <= z /\ Digits(w, 1, i) /\ (w[1] = "0" => i = 1)
        /\ (j = i \/ (i + 2 <= j /\ w[i + 1] = "." /\ Digits(w, i + 2, j)))
    BY <1>2 DEF Mantissa, IntTo, FracTo
  <1>7. j = z \/ w[j + 1] = "e"
    BY <1>2 DEF ExpAt
  <1>8. i = z \/ w[i + 1] \in {".", "e"}
    BY <1>1, <1>2, <1>7, AfterInt
  <1>9. CASE st = "minus"
    <2>1. n = 0
      BY <1>5, <1>9 DEF NumAt
    <2>2. 1 \in 1 .. i
      BY <1>6
    <2>3. c \in Scanner!Digit
      BY <1>5, <1>6, <2>1, <2>2 DEF Digits
    <2> QED
      BY <1>4, <1>9, <2>3
  <1>10. CASE st = "zero"
    <2>1. n = 1 /\ u[1] = "0"
      BY <1>5, <1>10 DEF NumAt
    <2>2. i = 1
      BY <1>3, <1>6, <2>1
    <2>3. c \in {".", "e"}
      BY <1>1, <1>5, <1>8, <2>1, <2>2
    <2> QED
      BY <1>4, <1>10, <2>3
  <1>11. CASE st = "any1"
    <2>1. n >= 1 /\ Digits(u, 1, n)
      BY <1>5, <1>11 DEF NumAt
    <2>2. Digits(w, 1, n)
      BY <1>1, <1>3, <2>1
    <2>3. ~(i < n)
      <3> SUFFICES ASSUME i < n PROVE FALSE
        OBVIOUS
      <3>1. i + 1 \in 1 .. n /\ i # z
        BY <1>1
      <3> QED
        BY <1>8, <2>2, <3>1, DigitsAre DEF Digits
    <2>4. CASE i = n
      BY <1>1, <1>4, <1>5, <1>8, <1>11, <2>4
    <2>5. CASE n < i
      <3>1. n + 1 \in 1 .. i
        BY <1>1, <2>5
      <3>2. c \in Scanner!Digit
        BY <1>5, <1>6, <3>1 DEF Digits
      <3> QED
        BY <1>4, <1>11, <3>2
    <2> QED
      BY <1>1, <2>3, <2>4, <2>5
  <1>12. ASSUME NEW k \in Nat, IntTo(u, k), k + 1 <= n, u[k + 1] = "."
         PROVE  i = k /\ i + 2 <= j /\ Digits(w, i + 2, j)
    <2>1. IntTo(w, k) /\ w[k + 1] = "."
      BY <1>1, <1>3, <1>12
    <2>2. k <= z /\ i <= z /\ IntTo(w, i)
      BY <1>1, <1>2, <1>6, <1>12 DEF Mantissa
    <2>3. i = k
      BY <1>1, <1>8, <2>1, <2>2, OneInt, DigitsAre
    <2>4. j # i
      BY <1>1, <1>7, <1>12, <2>1, <2>3
    <2> QED
      BY <1>6, <2>3, <2>4
  <1>13. CASE st = "decimal1"
    <2>1. PICK k \in Nat : IntTo(u, k) /\ n = k + 1 /\ u[k + 1] = "."
      BY <1>5, <1>13 DEF NumAt
    <2>2. i = k /\ i + 2 <= j /\ Digits(w, i + 2, j)
      BY <1>1, <1>12, <2>1
    <2>3. n + 1 \in i + 2 .. j
      BY <2>1, <2>2
    <2>4. c \in Scanner!Digit
      BY <1>5, <2>2, <2>3 DEF Digits
    <2> QED
      BY <1>4, <1>13, <2>4
  <1>14. CASE st = "decimal2"
    <2>1. PICK k \in Nat : IntTo(u, k) /\ k + 2 <= n /\ u[k + 1] = "." /\ Digits(u, k + 2, n)
      BY <1>5, <1>14 DEF NumAt
    <2>2. i = k /\ i + 2 <= j /\ Digits(w, i + 2, j)
      BY <1>1, <1>12, <2>1
    <2>3. Digits(w, i + 2, n)
      <3>1. i + 2 \in Nat /\ 1 <= i + 2
        OBVIOUS
      <3> QED
        BY <1>1, <1>3, <2>1, <2>2, <3>1
    <2>4. ~(j < n)
      <3> SUFFICES ASSUME j < n PROVE FALSE
        OBVIOUS
      <3>1. j + 1 \in i + 2 .. n /\ j # z
        BY <1>1, <2>2
      <3> QED
        BY <1>7, <2>3, <3>1, DigitsAre DEF Digits
    <2>5. CASE j = n
      BY <1>1, <1>4, <1>5, <1>7, <1>14, <2>5
    <2>6. CASE n < j
      <3>1. n + 1 \in i + 2 .. j
        BY <1>1, <2>1, <2>2, <2>6
      <3>2. c \in Scanner!Digit
        BY <1>5, <2>2, <3>1 DEF Digits
      <3> QED
        BY <1>4, <1>14, <3>2
    <2> QED
      BY <1>1, <2>4, <2>5, <2>6
  <1>15. ASSUME NEW k \in Nat, NEW l \in Nat, Mantissa(u, k, l), l + 1 <= n, u[l + 1] = "e"
         PROVE  l = j /\ ExpAt(w, j, z)
    <2>1. Mantissa(w, k, l) /\ w[l + 1] = "e"
      BY <1>1, <1>3, <1>15
    <2>2. l <= z
      BY <1>1, <1>15
    <2>3. l = j
      BY <1>1, <1>2, <1>7, <2>1, <2>2, OneMantissa
    <2> QED
      BY <1>1, <1>2, <1>15, <2>3
  <1>16. CASE st = "exponent"
    <2>1. PICK k \in Nat, l \in Nat : Mantissa(u, k, l) /\ n = l + 1 /\ u[l + 1] = "e"
      BY <1>5, <1>16 DEF NumAt
    <2>2. l = j /\ ExpAt(w, j, z)
      BY <1>1, <1>15, <2>1
    <2>3. PICK m \in {1, 2} : (m = 2 => w[j + 2] \in {"+", "-"}) /\ j + m < z /\ Digits(w, j + m + 1, z)
      BY <2>2 DEF ExpAt
    <2>4. CASE m = 1
      <3>1. n + 1 \in j + m + 1 .. z
        BY <1>1, <2>1, <2>2, <2>3, <2>4
      <3>2. c \in Scanner!Digit
        BY <1>5, <2>3, <3>1 DEF Digits
      <3> QED
        BY <1>4, <1>16, <3>2
    <2>5. CASE m = 2
      <3>1. n + 1 = j + 2
        BY <2>1, <2>2
      <3> QED
        BY <1>4, <1>5, <1>16, <2>3, <2>5, <3>1
    <2> QED
      BY <2>4, <2>5
  <1>17. CASE st = "sign"
    <2>1. PICK k \in Nat, l \in Nat : Mantissa(u, k, l) /\ n = l + 2 /\ u[l + 1] = "e" /\ u[l + 2] \in {"+", "-"}
      BY <1>5, <1>17 DEF NumAt
    <2>2. l = j /\ ExpAt(w, j, z)
      BY <1>1, <1>15, <2>1
    <2>3. PICK m \in {1, 2} : (m = 2 => w[j + 2] \in {"+", "-"}) /\ j + m < z /\ Digits(w, j + m + 1, z)
      BY <2>2 DEF ExpAt
    <2>4. w[j + 2] \in {"+", "-"}
      BY <1>1, <1>3, <2>1, <2>2
    <2>5. m = 2
      <3> SUFFICES ASSUME m = 1 PROVE FALSE
        OBVIOUS
      <3>1. j + 2 \in j + m + 1 .. z
        BY <1>1, <2>3
      <3> QED
        BY <2>3, <2>4, <3>1, DigitsAre DEF Digits
    <2>6. n + 1 \in j + m + 1 .. z
      BY <1>1, <2>1, <2>2, <2>3, <2>5
    <2>7. c \in Scanner!Digit
      BY <1>5, <2>3, <2>6 DEF Digits
    <2> QED
      BY <1>4, <1>17, <2>7
  <1>18. CASE st = "any2"
    <2>1. PICK k \in Nat, l \in Nat : Mantissa(u, k, l) /\ ExpAt(u, l, n)
      BY <1>5, <1>18 DEF NumAt
    <2>2. PICK p \in {1, 2} : (p = 2 => u[l + 2] \in {"+", "-"}) /\ l + p < n /\ Digits(u, l + p + 1, n)
      BY <2>1 DEF ExpAt
    <2>3. l + 1 <= n /\ u[l + 1] = "e"
      BY <1>1, <2>1, <2>2 DEF ExpAt
    <2>4. l = j /\ ExpAt(w, j, z)
      BY <1>15, <2>1, <2>3
    <2>5. PICK m \in {1, 2} : (m = 2 => w[j + 2] \in {"+", "-"}) /\ j + m < z /\ Digits(w, j + m + 1, z)
      BY <2>4 DEF ExpAt
    <2>6. n + 1 \in j + m + 1 .. z
      BY <1>1, <2>2, <2>4, <2>5
    <2>7. c \in Scanner!Digit
      BY <1>5, <2>5, <2>6 DEF Digits
    <2> QED
      BY <1>4, <1>18, <2>7
  <1> QED
    BY <1>9, <1>10, <1>11, <1>13, <1>14, <1>16, <1>17, <1>18 DEF Number, Scanner!NumberStates

LEMMA BodyBegins ==
    ASSUME NEW v \in Str, NEW w \in Str, v # <<>>, Begins(w, v)
    PROVE  /\ Body(v) \in Str /\ Body(w) \in Str /\ Begins(Body(w), Body(v))
           /\ Len(Body(w)) = Len(Body(v)) <=> Len(w) = Len(v)
           /\ Len(v) < Len(w) => Len(Body(v)) < Len(Body(w)) /\ Body(w)[Len(Body(v)) + 1] = w[Len(v) + 1]
  <1>1. Len(v) \in Nat /\ Len(w) \in Nat /\ Len(v) >= 1 /\ Len(v) <= Len(w) /\ \A k \in 1 .. Len(v) : w[k] = v[k]
    BY TailPart, LengthOfStr DEF Begins
  <1>2. w # <<>> /\ w[1] = v[1]
    BY <1>1
  <1>3. /\ Tail(v) \in Str /\ Len(Tail(v)) = Len(v) - 1 /\ \A k \in 1 .. Len(v) - 1 : Tail(v)[k] = v[k + 1]
        /\ Tail(w) \in Str /\ Len(Tail(w)) = Len(w) - 1 /\ \A k \in 1 .. Len(w) - 1 : Tail(w)[k] = w[k + 1]
    BY <1>2, TailPart
  <1>4. CASE v[1] = "-"
    <2>1. Body(v) = Tail(v) /\ Body(w) = Tail(w)
      BY <1>2, <1>4 DEF Body
    <2>2. ASSUME NEW k \in 1 .. Len(v) - 1 PROVE Tail(w)[k] = Tail(v)[k]
      <3>1. k + 1 \in 1 .. Len(v) /\ k \in 1 .. Len(w) - 1
        BY <1>1
      <3> QED
        BY <1>1, <1>3, <3>1
    <2>3. Begins(Tail(w), Tail(v))
      BY <1>1, <1>3, <2>2 DEF Begins
    <2>4. Len(v) < Len(w) => Tail(w)[Len(Tail(v)) + 1] = w[Len(v) + 1]
      <3> SUFFICES ASSUME Len(v) < Len(w) PROVE Tail(w)[Len(Tail(v)) + 1] = w[Len(v) + 1]
        OBVIOUS
      <3>1. Len(Tail(v)) + 1 = Len(v) /\ Len(v) \in 1 .. Len(w) - 1
        BY <1>1, <1>3
      <3>2. Tail(w)[Len(v)] = w[Len(v) + 1]
        BY <1>3, <3>1
      <3> QED
        BY <3>1, <3>2
    <2> QED
      BY <1>1, <1>3, <2>1, <2>3, <2>4
  <1>5. CASE v[1] # "-"
    <2>1. Body(v) = v /\ Body(w) = w
      BY <1>2, <1>5 DEF Body
    <2> QED
      BY <1>1, <2>1
  <1> QED
    BY <1>4, <1>5

\* Of the numbers that a text begins with, only what scan_number has when it goes on no
\* further can be the lexeme.
LEMMA NumberFirst ==
    ASSUME NEW st \in Number, NEW b, NEW type, NumberSoFar(st, b, type), NEW u \in Str, Begins(u, b),
           NEW n \in 1 .. Len(u), Scanner!IsNumber(SubSeq(u, 1, n)), NoNumber(u, n),
           Len(b) < Len(u) => Scanner!NextNumber(st, u[Len(b) + 1]) \notin Number
    PROVE  n = Len(b) /\ st \in {"zero", "any1", "decimal2", "any2"}
  <1>1. /\ b \in Str /\ b # <<>> /\ NumAt(st, Body(b)) /\ Len(u) \in Nat /\ Len(b) \in Nat
        /\ n \in Nat /\ n >= 1 /\ n <= Len(u) /\ Len(b) <= Len(u)
    BY LengthOfStr DEF NumberSoFar, Begins
  <1> DEFINE v == SubSeq(u, 1, n)
  <1>2. v \in Str /\ Len(v) = n /\ \A k \in 1 .. n : v[k] = u[k]
    BY <1>1, Beginning
  <1>3. Scanner!IsNumber(v)
    OBVIOUS
  <1> HIDE DEF v
  <1>4. v # <<>>
    BY <1>1, <1>2
  <1>5. Shape(Body(v)) /\ Body(v) \in Str
    BY <1>2, <1>3, <1>4, NumberShape
  <1>6. ~(Len(b) < n)
    <2> SUFFICES ASSUME Len(b) < n PROVE FALSE
      OBVIOUS
    <2>1. Begins(v, b)
      BY <1>1, <1>2 DEF Begins
    <2>2. /\ Body(b) \in Str /\ Begins(Body(v), Body(b)) /\ Len(Body(b)) < Len(Body(v))
          /\ Body(v)[Len(Body(b)) + 1] = v[Len(b) + 1]
      BY <1>1, <1>2, <2>1, BodyBegins
    <2>3. Scanner!NextNumber(st, v[Len(b) + 1]) \in Number
      <3>1. Scanner!NextNumber(st, Body(v)[Len(Body(b)) + 1]) \in Number
        BY <1>1, <1>5, <2>2, NumberGoesOn
      <3> QED
        BY <2>2, <3>1
    <2>4. Len(b) + 1 \in 1 .. n
      BY <1>1
    <2>5. v[Len(b) + 1] = u[Len(b) + 1]
      BY <1>2, <2>4
    <2> QED
      BY <1>1, <2>3, <2>5
  <1>7. ~(n < Len(b))
    <2> SUFFICES ASSUME n < Len(b) PROVE FALSE
      OBVIOUS
    <2>1. Begins(b, v)
      BY <1>1, <1>2 DEF Begins
    <2>2. /\ Body(b) \in Str /\ Begins(Body(b), Body(v)) /\ Len(Body(v)) < Len(Body(b))
          /\ Body(b)[Len(Body(v)) + 1] = b[n + 1]
      BY <1>1, <1>2, <1>4, <2>1, BodyBegins
    <2>3. b[n + 1] \in Scanner!Digit \cup {".", "e"}
      <3>1. Body(b)[Len(Body(v)) + 1] \in Scanner!Digit \cup {".", "e"}
        BY <1>1, <1>5, <2>2, NumberInner
      <3> QED
        BY <2>2, <3>1
    <2>4. b[n + 1] = u[n + 1]
      <3>1. n + 1 \in 1 .. Len(b)
        BY <1>1
      <3> QED
        BY <3>1 DEF Begins
    <2> QED
      BY <1>1, <2>3, <2>4 DEF NoNumber
  <1>8. n = Len(b)
    BY <1>1, <1>6, <1>7
  <1>9. v = b
    <2>1. \A k \in 1 .. n : v[k] = b[k]
      BY <1>2, <1>8 DEF Begins
    <2> QED
      BY <1>1, <1>2, <1>8, <2>1, SameText
  <1>10. Body(b) \in Str /\ Shape(Body(b))
    BY <1>5, <1>9
  <1> QED
    BY <1>1, <1>8, <1>10, NumberOpen

-----------------------------------------------------------------------------
\* The contents of a string that is not closed yet.
LEMMA BeginsFurther ==
    ASSUME NEW s \in Str, NEW t \in Str, NEW w \in Str, Begins(w, t), Begins(t, s) PROVE Begins(w, s)
  <1>1. Len(s) \in Nat /\ Len(t) \in Nat /\ Len(w) \in Nat
    BY LengthOfStr
  <1> QED
    BY <1>1 DEF Begins

LEMMA BeginsAppended ==
    ASSUME NEW s \in Str, NEW x \in Scanner!Char PROVE Append(s, x) \in Str /\ Begins(Append(s, x), s)
  BY AppendedText, LengthOfStr DEF Begins

\* What has been read of a string can still be completed.
LEMMA InsideOpen ==
    ASSUME NEW st, NEW c, NEW b, Inside(st, c, b)
    PROVE  c \in Str /\ ~Blocked(c)
  <1>1. PICK s \in Str : /\ Readings(s) = {b}
                         /\ \/ st = "string" /\ c = s
                            \/ st = "escape" /\ c = Esc1(s)
                            \/ st = "codepoint1" /\ c = Esc2(s)
                            \/ st = "backslash2" /\ c = Esc3(s)
                            \/ st = "u2" /\ c = Esc4(s)
                            \/ st = "codepoint2" /\ c = Esc5(s)
    BY DEF Inside
  <1>2. {"n", "bs", "u", "hi", "bmp", "lo"} \subseteq Scanner!Char
    BY DEF Scanner!Char
  <1>3. Esc1(s) \in Str /\ Esc2(s) \in Str /\ Esc3(s) \in Str /\ Esc4(s) \in Str /\ Esc5(s) \in Str
    BY EscapeTexts
  <1>4. /\ Complete(s) /\ Complete(Append(Esc1(s), "n")) /\ Complete(Append(Esc2(s), "bmp"))
        /\ Complete(Append(Esc5(s), "lo"))
    <2>1. Readings(s) = {b} /\ "n" \in {"q", "bs", "n"}
      BY <1>1
    <2>2. /\ \A x \in {"q", "bs", "n"} : Readings(Append(Esc1(s), x)) = {Append(b, Short(x))}
          /\ Readings(Append(Esc2(s), "bmp")) = {Append(b, "U+bmp")}
          /\ Readings(Append(Esc5(s), "lo")) = {Append(b, "U+astral")}
      BY ONLY <2>1, PieceAdded, s \in Str
    <2>3. Readings(Append(Esc1(s), "n")) = {Append(b, Short("n"))}
      BY <2>1, <2>2
    <2> QED
      BY <2>1, <2>2, <2>3 DEF Complete
  <1>5. c \in Str
    BY <1>1, <1>3
  <1>6. \A t \in Str : Begins(t, c) /\ Complete(t) => ~Blocked(c)
    BY DEF Blocked
  <1>7. Begins(s, s)
    BY LengthOfStr DEF Begins
  <1>8. Append(Esc1(s), "n") \in Str /\ Begins(Append(Esc1(s), "n"), Esc1(s))
    BY <1>2, <1>3, BeginsAppended
  <1>9. Append(Esc2(s), "bmp") \in Str /\ Begins(Append(Esc2(s), "bmp"), Esc2(s))
    BY <1>2, <1>3, BeginsAppended
  <1>10. Append(Esc5(s), "lo") \in Str /\ Begins(Append(Esc5(s), "lo"), Esc5(s))
    BY <1>2, <1>3, BeginsAppended
  <1>11. Begins(Esc5(s), Esc4(s))
    BY <1>2, <1>3, BeginsAppended DEF Esc5
  <1>12. Begins(Esc4(s), Esc3(s))
    BY <1>2, <1>3, BeginsAppended DEF Esc4
  <1>13. Begins(Append(Esc5(s), "lo"), Esc4(s))
    BY <1>3, <1>10, <1>11, BeginsFurther
  <1>14. Begins(Append(Esc5(s), "lo"), Esc3(s))
    BY <1>3, <1>10, <1>12, <1>13, BeginsFurther
  <1> QED
    BY <1>1, <1>4, <1>5, <1>6, <1>7, <1>8, <1>9, <1>10, <1>13, <1>14

\* Only the quote that scan_string takes for its end closes a string.
LEMMA StringFirst ==
    ASSUME NEW st, NEW d, NEW b, Inside(st, d, b), NEW u \in Str, Len(d) < Len(u), u[1] = "q",
           \A k \in 1 .. Len(d) : u[k + 1] = d[k],
           NEW n \in 1 .. Len(u), Scanner!IsString(SubSeq(u, 1, n)),
           Len(d) + 1 < Len(u) =>
                (st = "string" /\ u[Len(d) + 2] = "q") \/ WrongNext(st, u[Len(d) + 2])
    PROVE  st = "string" /\ n = Len(d) + 2 /\ u[n] = "q"
  <1>1. d \in Str /\ ~Blocked(d)
    BY InsideOpen
  <1>2. Len(u) \in Nat /\ Len(d) \in Nat /\ n \in Nat /\ n >= 1 /\ n <= Len(u)
    BY <1>1, LengthOfStr
  <1> DEFINE v == SubSeq(u, 1, n)
             m == SubSeq(v, 2, n - 1)
  <1>3. v \in Str /\ Len(v) = n /\ \A k \in 1 .. n : v[k] = u[k]
    BY <1>2, Beginning
  <1>4. Scanner!IsString(v)
    OBVIOUS
  <1> HIDE DEF v
  <1>5. n >= 2 /\ v[n] = "q" /\ Complete(m)
    BY <1>3, <1>4 DEF Scanner!IsString, Complete, Readings
  <1>6. m \in Str /\ Len(m) = n - 2 /\ \A k \in 1 .. n - 2 : m[k] = u[k + 1]
    <2>1. 2 \in Nat /\ n - 1 \in Nat /\ 1 <= 2 /\ 2 <= n - 1 + 1 /\ n - 1 <= Len(v)
      BY <1>2, <1>3, <1>5
    <2> DEFINE e == n - 1
    <2>2. e \in Nat /\ 2 <= e + 1 /\ e <= Len(v) /\ e - 2 + 1 = n - 2
      BY <1>2, <2>1
    <2> HIDE DEF e
    <2>3. /\ SubSeq(v, 2, e) \in Str /\ Len(SubSeq(v, 2, e)) = e - 2 + 1
          /\ \A k \in 1 .. e - 2 + 1 : SubSeq(v, 2, e)[k] = v[2 + k - 1]
      BY <1>3, <2>2, PartOf
    <2>4. m = SubSeq(v, 2, e)
      BY DEF e
    <2>5. ASSUME NEW k \in 1 .. n - 2 PROVE m[k] = u[k + 1]
      <3>1. 2 + k - 1 = k + 1 /\ k + 1 \in 1 .. n
        BY <1>2
      <3>2. SubSeq(v, 2, e)[k] = v[2 + k - 1]
        BY <2>2, <2>3
      <3> QED
        BY <1>3, <2>4, <3>1, <3>2
    <2> QED
      BY <2>2, <2>3, <2>4, <2>5
  <1>7. u[n] = "q"
    BY <1>2, <1>3, <1>5
  <1> HIDE DEF m
  <1>8. "q" \in Scanner!Char
    BY DEF Scanner!Char
  <1>9. ~(n - 2 < Len(d))
    <2> SUFFICES ASSUME n - 2 < Len(d) PROVE FALSE
      OBVIOUS
    <2>1. Blocked(Append(m, "q"))
      BY <1>5, <1>6, ClosedBlocked
    <2>2. /\ Append(m, "q") \in Str /\ Len(Append(m, "q")) = n - 1 /\ Append(m, "q")[n - 1] = "q"
          /\ \A k \in 1 .. n - 2 : Append(m, "q")[k] = m[k]
      <3>1. n - 2 + 1 = n - 1
        BY <1>2
      <3> QED
        BY <1>6, <1>8, <3>1, AppendedText
    <2>3. n - 1 \in 1 .. Len(d)
      BY <1>2, <1>5
    <2>4. d[n - 1] = "q"
      <3>1. u[n - 1 + 1] = d[n - 1]
        BY <2>3
      <3>2. n - 1 + 1 = n
        BY <1>2
      <3> QED
        BY <1>7, <3>1, <3>2
    <2>5. ASSUME NEW k \in 1 .. n - 1 PROVE d[k] = Append(m, "q")[k]
      <3>1. k = n - 1 \/ k \in 1 .. n - 2
        BY <1>2
      <3>2. k \in 1 .. Len(d)
        BY <1>2, <2>3
      <3> QED
        BY <1>6, <2>2, <2>4, <3>1, <3>2
    <2>6. Begins(d, Append(m, "q"))
      BY <1>2, <2>2, <2>3, <2>5 DEF Begins
    <2>7. \A t \in Str : Begins(t, d) => Begins(t, Append(m, "q"))
      BY <1>1, <2>2, <2>6, BeginsFurther
    <2> QED
      BY <1>1, <2>1, <2>7 DEF Blocked
  <1>10. ~(Len(d) < n - 2)
    <2> SUFFICES ASSUME Len(d) < n - 2 PROVE FALSE
      OBVIOUS
    <2> DEFINE x == u[Len(d) + 2]
    <2>1. Len(d) + 2 \in 1 .. Len(u) /\ Len(d) + 1 < Len(u) /\ Len(d) + 1 \in 1 .. n - 2 /\ Len(d) + 1 + 1 = Len(d) + 2
      BY <1>2
    <2>2. x \in Scanner!Char /\ m[Len(d) + 1] = x
      <3>1. x \in Scanner!Char
        BY <2>1 DEF Str
      <3> QED
        BY <1>6, <2>1, <3>1
    <2>3. (st = "string" /\ x = "q") \/ WrongNext(st, x)
      BY <2>1
    <2> HIDE DEF x
    <2>4. /\ Append(d, x) \in Str /\ Len(Append(d, x)) = Len(d) + 1 /\ Append(d, x)[Len(d) + 1] = x
          /\ \A k \in 1 .. Len(d) : Append(d, x)[k] = d[k]
      BY <1>1, <2>2, AppendedText
    <2>5. ASSUME NEW k \in 1 .. Len(d) + 1 PROVE m[k] = Append(d, x)[k]
      <3>1. k = Len(d) + 1 \/ k \in 1 .. Len(d)
        BY <1>2
      <3>2. k \in 1 .. n - 2
        BY <1>2, <2>1
      <3> QED
        BY <1>6, <2>2, <2>4, <3>1, <3>2
    <2>6. Begins(m, Append(d, x))
      BY <1>2, <1>6, <2>1, <2>4, <2>5 DEF Begins
    <2>7. Blocked(Append(d, x))
      <3>1. CASE WrongNext(st, x)
        BY <2>2, <3>1, WrongBlocked
      <3>2. CASE st = "string" /\ x = "q"
        <4>1. Complete(d)
          BY <3>2 DEF Inside, Complete
        <4> QED
          BY <1>1, <3>2, <4>1, ClosedBlocked
      <3> QED
        BY <2>3, <3>1, <3>2
    <2> QED
      BY <1>5, <1>6, <2>6, <2>7 DEF Blocked
  <1>11. n - 2 = Len(d)
    BY <1>2, <1>9, <1>10
  <1>12. m = d
    <2>1. ASSUME NEW k \in 1 .. n - 2 PROVE m[k] = d[k]
      BY <1>6, <1>11
    <2> QED
      BY <1>1, <1>6, <1>11, <2>1, SameText
  <1>13. st = "string"
    <2>1. PICK s \in Str : /\ Readings(s) = {b}
                           /\ \/ st = "string"
                              \/ d \in {Esc1(s), Esc2(s), Esc3(s), Esc4(s), Esc5(s)}
      BY DEF Inside
    <2>2. Complete(s)
      BY <2>1 DEF Complete
    <2>3. ~Complete(Esc1(s)) /\ ~Complete(Esc2(s)) /\ ~Complete(Esc3(s)) /\ ~Complete(Esc4(s)) /\ ~Complete(Esc5(s))
      BY <2>2, EscapeIncomplete
    <2> QED
      BY <1>5, <1>12, <2>1, <2>3
  <1> QED
    BY <1>2, <1>7, <1>11, <1>13

-----------------------------------------------------------------------------
\* The rest of the rest of a text.
LEMMA FromFrom ==
    ASSUME NEW w \in Str, NEW k \in Nat, NEW j \in Nat, 1 <= k, 1 <= j, k + j <= Len(w) + 2
    PROVE  From(From(w, k), j) = From(w, k + j - 1)
  <1>1. Len(w) \in Nat
    BY LengthOfStr
  <1> DEFINE u == From(w, k)
             h == k + j - 1
             v == From(u, j)
  <1>2. k <= Len(w) + 1 /\ h \in Nat /\ 1 <= h /\ h <= Len(w) + 1
    BY <1>1
  <1>3. /\ u \in Str /\ Len(u) = Len(w) - k + 1
        /\ \A i \in 1 .. Len(w) - k + 1 : u[i] = w[k + i - 1]
    BY <1>2, FromText
  <1> HIDE DEF u
  <1>4. j <= Len(u) + 1
    BY <1>1, <1>3
  <1>5. /\ v \in Str /\ Len(v) = Len(u) - j + 1
        /\ \A i \in 1 .. Len(u) - j + 1 : v[i] = u[j + i - 1]
    BY <1>3, <1>4, FromText
  <1>6. h = k + j - 1
    OBVIOUS
  <1> HIDE DEF v, h
  <1>7. /\ From(w, h) \in Str /\ Len(From(w, h)) = Len(w) - h + 1
        /\ \A i \in 1 .. Len(w) - h + 1 : From(w, h)[i] = w[h + i - 1]
    BY <1>2, FromText
  <1>8. Len(v) = Len(From(w, h))
    BY <1>1, <1>3, <1>5, <1>6, <1>7
  <1>9. ASSUME NEW i \in 1 .. Len(v) PROVE v[i] = From(w, h)[i]
    <2>1. i \in 1 .. Len(u) - j + 1 /\ i \in 1 .. Len(w) - h + 1
      BY <1>5, <1>7, <1>8
    <2>2. j + i - 1 \in 1 .. Len(w) - k + 1 /\ k + (j + i - 1) - 1 = h + i - 1
      BY <1>1, <1>3, <1>6, <2>1
    <2>3. v[i] = u[j + i - 1]
      BY <1>5, <2>1
    <2>4. u[j + i - 1] = w[k + (j + i - 1) - 1]
      BY <1>3, <2>2
    <2>5. From(w, h)[i] = w[h + i - 1]
      BY <1>7, <2>1
    <2> QED
      BY <2>2, <2>3, <2>4, <2>5
  <1>10. v = From(w, h)
    BY <1>5, <1>7, <1>8, <1>9, SameText
  <1> QED
    BY <1>10 DEF u, v, h

\* A text that begins with s, from position a on.
LEMMA FromPart ==
    ASSUME NEW s \in Str, NEW w \in Str, Begins(w, s), NEW a \in Nat, 1 <= a, a <= Len(s)
    PROVE  /\ From(w, a) \in Str /\ From(w, a) # <<>> /\ From(w, a)[1] = s[a]
           /\ SubSeq(s, a, Len(s)) \in Str /\ Len(SubSeq(s, a, Len(s))) = Len(s) - a + 1
           /\ Begins(From(w, a), SubSeq(s, a, Len(s)))
           /\ Len(From(w, a)) = Len(w) - a + 1
           /\ \A k \in 1 .. Len(w) - a + 1 : From(w, a)[k] = w[a + k - 1]
  <1>1. Len(s) \in Nat /\ Len(w) \in Nat /\ Len(s) <= Len(w) /\ \A k \in 1 .. Len(s) : w[k] = s[k]
    BY LengthOfStr DEF Begins
  <1> DEFINE u == From(w, a)
             v == From(s, a)
  <1>2. a <= Len(w) + 1 /\ a <= Len(s) + 1
    BY <1>1
  <1>3. /\ u \in Str /\ Len(u) = Len(w) - a + 1
        /\ \A k \in 1 .. Len(w) - a + 1 : u[k] = w[a + k - 1]
    BY <1>2, FromText
  <1>4. /\ v \in Str /\ Len(v) = Len(s) - a + 1
        /\ \A k \in 1 .. Len(s) - a + 1 : v[k] = s[a + k - 1]
    BY <1>2, FromText
  <1>5. v = SubSeq(s, a, Len(s))
    BY DEF From
  <1> HIDE DEF u, v
  <1>6. ASSUME NEW k \in 1 .. Len(s) - a + 1 PROVE u[k] = v[k]
    <2>1. a + k - 1 \in 1 .. Len(s) /\ k \in 1 .. Len(w) - a + 1
      BY <1>1
    <2>2. u[k] = w[a + k - 1] /\ v[k] = s[a + k - 1]
      BY <1>3, <1>4, <2>1
    <2> QED
      BY <1>1, <2>1, <2>2
  <1>7. Begins(u, v)
    BY <1>1, <1>3, <1>4, <1>6 DEF Begins
  <1>8. u # <<>> /\ u[1] = s[a]
    <2>1. 1 \in 1 .. Len(w) - a + 1 /\ a \in 1 .. Len(s) /\ a + 1 - 1 = a
      BY <1>1
    <2>2. u[1] = w[a + 1 - 1]
      BY <1>3, <2>1
    <2>3. Len(u) # 0
      BY <1>1, <1>3
    <2> QED
      BY <1>1, <2>1, <2>2, <2>3
  <1> QED
    BY <1>3, <1>4, <1>5, <1>7, <1>8 DEF u

-----------------------------------------------------------------------------
\* w is a text that the input can still be: what is given of it is s, all of it when e.
CanBe(w, s, e) == w \in Str /\ Begins(w, s) /\ (e => w = s)

\* Of every text that the input can still be: when it is made of lexemes, so is what
\* follows the tokens; and no such text is left when the scanner has refused.
RestInv ==
    /\ state \in {"start"} \cup Number \cup String =>
          \A w : CanBe(w, source, ended) /\ Lexical(w) => Lexical(From(w, Reached + 1))
    /\ state = "parse_error" => \A w : CanBe(w, source, ended) => ~Lexical(w)

\* A step leaves no more texts than there were.
LEMMA CanBeStill ==
    ASSUME TextInv, NEW c \in Scanner!Char \cup {EOF}, Scanner!Get(c) \/ Scanner!Peek(c)
    PROVE  \A w : CanBe(w, source', ended') => CanBe(w, source, ended)
  <1>1. source \in Str /\ input.chars \subseteq Scanner!Char
    BY InputChars DEF TextInv
  <1>2. \/ source' = source /\ (ended => ended')
        \/ c # EOF /\ source' = Append(source, c) /\ ~ended
    <2>1. c \in input.chars => c # EOF
      BY <1>1, EOFApart
    <2>2. CASE Scanner!Get(c)
      BY <2>1, <2>2, Zenon DEF Scanner!Get
    <2>3. CASE Scanner!Peek(c)
      BY <2>1, <2>3 DEF Scanner!Peek
    <2> QED
      BY <2>2, <2>3
  <1>3. ASSUME NEW w, CanBe(w, source', ended') PROVE CanBe(w, source, ended)
    <2>1. CASE source' = source /\ (ended => ended')
      BY <1>3, <2>1 DEF CanBe
    <2>2. CASE c # EOF /\ source' = Append(source, c) /\ ~ended
      <3>1. c \in Scanner!Char
        BY <2>2
      <3>2. Append(source, c) \in Str /\ Begins(Append(source, c), source)
        BY <1>1, <3>1, BeginsAppended
      <3>3. w \in Str /\ Begins(w, Append(source, c))
        BY <1>3, <2>2 DEF CanBe
      <3>4. Begins(w, source)
        BY <1>1, <3>2, <3>3, BeginsFurther
      <3> QED
        BY <2>2, <3>3, <3>4 DEF CanBe
    <2> QED
      BY <1>2, <2>1, <2>2
  <1> QED
    BY <1>3

LEMMA RestInit == Scanner!Init => RestInv
  <1> SUFFICES ASSUME Scanner!Init PROVE RestInv
    OBVIOUS
  <1>1. source = <<>> /\ ended = FALSE /\ state = "start" /\ next_unget = FALSE
    BY DEF Scanner!Init
  <1>2. Reached = 0
    BY <1>1, StatesApart DEF Reached, PutBack
  <1>3. ASSUME NEW w, w \in Str PROVE From(w, 0 + 1) = w
    <2>1. 0 + 1 = 1 /\ Len(w) \in Nat
      BY <1>3, LengthOfStr
    <2>2. /\ From(w, 1) \in Str /\ Len(From(w, 1)) = Len(w) - 1 + 1
          /\ \A i \in 1 .. Len(w) - 1 + 1 : From(w, 1)[i] = w[1 + i - 1]
      <3>1. 1 \in Nat /\ 1 <= 1 /\ 1 <= Len(w) + 1
        BY <2>1
      <3> QED
        BY <1>3, <3>1, FromText
    <2>3. Len(From(w, 1)) = Len(w)
      BY <2>1, <2>2
    <2>4. ASSUME NEW i \in 1 .. Len(w) PROVE From(w, 1)[i] = w[i]
      <3>1. i \in 1 .. Len(w) - 1 + 1 /\ 1 + i - 1 = i
        BY <2>1
      <3>2. From(w, 1)[i] = w[1 + i - 1]
        BY <2>2, <3>1
      <3> QED
        BY <3>1, <3>2
    <2>5. From(w, 1) = w
      BY <1>3, <2>2, <2>3, <2>4, SameText
    <2> QED
      BY <2>1, <2>5
  <1>4. state # "parse_error"
    BY <1>1
  <1> QED
    BY <1>2, <1>3, <1>4 DEF RestInv, CanBe

-----------------------------------------------------------------------------
\* The steps.  Within a token, the tokens end where they ended.
LEMMA RestStays ==
    ASSUME TextInv, RestInv, NEW c \in Scanner!Char \cup {EOF}, Scanner!Get(c) \/ Scanner!Peek(c),
           state \in {"start"} \cup Number \cup String, state' \in Number \cup String, Reached' = Reached
    PROVE  RestInv'
  <1>1. \A w : CanBe(w, source', ended') => CanBe(w, source, ended)
    BY CanBeStill
  <1>2. \A w : CanBe(w, source, ended) /\ Lexical(w) => Lexical(From(w, Reached + 1))
    BY DEF RestInv
  <1>3. state' # "parse_error"
    BY StatesApart
  <1> QED
    BY <1>1, <1>2, <1>3 DEF RestInv

LEMMA RestBegins ==
    ASSUME ScanInv, RestInv, state = "start", NEW c \in Scanner!Char, Scanner!Get(c), from' = Scanner!Here,
           state' \in Number \cup String
    PROVE  RestInv'
  <1>1. Scanner!Here = Len(source') /\ Reached + 1 = Len(source')
    BY GetGives, StatesApart DEF ScanInv
  <1>2. Reached' = Len(source') - 1
    BY <1>1 DEF Reached
  <1>3. Reached \in Nat
    BY StatesApart DEF ScanInv, TokensInv, Covers
  <1>4. Reached' = Reached
    BY <1>1, <1>2, <1>3
  <1> QED
    BY <1>4, RestStays DEF ScanInv

\* In a token.
LEMMA RestGrows ==
    ASSUME ScanInv, RestInv, state \in Number \cup String, NEW c \in Scanner!Char, Scanner!Get(c), from' = from,
           state' \in Number \cup String
    PROVE  RestInv'
  <1>1. Reached' = Reached
    BY DEF Reached
  <1> QED
    BY <1>1, RestStays DEF ScanInv

\* The text from the next character on, when that is the first of a token.
LEMMA NextBegins ==
    ASSUME ScanInv, RestInv, state = "start", NEW c \in Scanner!Char, Scanner!Get(c),
           NEW w, CanBe(w, source', ended'), Lexical(w)
    PROVE  /\ Reached \in Nat /\ Len(source') = Reached + 1 /\ w \in Str /\ Reached + 1 <= Len(w)
           /\ From(w, Reached + 1) \in Str /\ From(w, Reached + 1) # <<>> /\ From(w, Reached + 1)[1] = c
           /\ Lexical(From(w, Reached + 1))
  <1>1. /\ source' \in Str /\ source'[Len(source')] = c /\ Len(source') >= 1 /\ Reached + 1 = Len(source')
    BY GetGives, StatesApart DEF ScanInv
  <1>2. Reached \in Nat
    BY StatesApart DEF ScanInv, TokensInv, Covers
  <1>3. w \in Str /\ Begins(w, source') /\ CanBe(w, source, ended)
    BY CanBeStill DEF ScanInv, CanBe
  <1>4. Lexical(From(w, Reached + 1))
    BY <1>3 DEF RestInv
  <1> DEFINE s == source'
             a == Reached + 1
  <1>5. s \in Str /\ Begins(w, s) /\ a \in Nat /\ 1 <= a /\ a <= Len(s) /\ s[a] = c
    BY <1>1, <1>2, <1>3
  <1> HIDE DEF s, a
  <1>6. From(w, a) \in Str /\ From(w, a) # <<>> /\ From(w, a)[1] = c
    BY <1>3, <1>5, FromPart
  <1>7. Reached + 1 <= Len(w)
    BY <1>1, <1>3 DEF Begins
  <1> QED
    BY <1>1, <1>2, <1>3, <1>4, <1>6, <1>7 DEF a

LEMMA RestPassesOne ==
    ASSUME ScanInv, RestInv, state = "start", NEW c \in Marks \cup {"ws"}, Scanner!Get(c), state' = state
    PROVE  RestInv'
  <1>1. c \in Scanner!Char
    BY DEF Marks, Scanner!Char
  <1>2. next_unget' = FALSE
    BY DEF Scanner!Get
  <1>3. state' = "start" /\ Reached' = Len(source')
    BY <1>2, StatesApart DEF Reached, PutBack
  <1>4. ASSUME NEW w, CanBe(w, source', ended'), Lexical(w) PROVE Lexical(From(w, Reached' + 1))
    <2>1. /\ Reached \in Nat /\ Len(source') = Reached + 1 /\ w \in Str /\ Reached + 1 <= Len(w)
          /\ From(w, Reached + 1) \in Str /\ From(w, Reached + 1) # <<>> /\ From(w, Reached + 1)[1] = c
          /\ Lexical(From(w, Reached + 1))
      BY <1>1, <1>4, NextBegins
    <2>2. Lexical(From(From(w, Reached + 1), 2))
      BY <2>1, FirstLexeme
    <2>3. PICK k \in Nat : k = Reached + 1
      BY <2>1
    <2>4. 1 <= k /\ k + 2 <= Len(w) + 2 /\ k + 2 - 1 = Reached' + 1
      BY <1>3, <2>1, <2>3, LengthOfStr
    <2>5. From(From(w, k), 2) = From(w, k + 2 - 1)
      BY <2>1, <2>4, FromFrom
    <2> QED
      BY <2>2, <2>3, <2>4, <2>5
  <1> QED
    BY <1>3, <1>4, StatesApart DEF RestInv

LEMMA RestScanWrong ==
    ASSUME ScanInv, RestInv, NEW c, Scanner!ScanWrong(c) PROVE RestInv'
  <1>1. /\ c \in Scanner!Char /\ c \notin Marks \cup {"ws", "-", "q"} \cup Scanner!Digit
        /\ state = "start" /\ Scanner!Get(c) /\ state' = "parse_error"
    BY DEF Scanner!ScanWrong, Scanner!Fail, Marks
  <1>2. ASSUME NEW w, CanBe(w, source', ended'), Lexical(w) PROVE FALSE
    <2>1. /\ From(w, Reached + 1) \in Str /\ From(w, Reached + 1) # <<>> /\ From(w, Reached + 1)[1] = c
          /\ Lexical(From(w, Reached + 1))
      BY <1>1, <1>2, NextBegins
    <2> QED
      BY <1>1, <2>1, FirstLexeme
  <1> QED
    BY <1>1, <1>2, StatesApart DEF RestInv

-----------------------------------------------------------------------------
LEMMA NumberStart ==
    ASSUME NEW st \in Number, NEW b, NEW type, NumberSoFar(st, b, type)
    PROVE  b[1] \in Scanner!Digit \cup {"-"}
  <1> SUFFICES ASSUME b[1] # "-" PROVE b[1] \in Scanner!Digit
    OBVIOUS
  <1>1. b \in Str /\ b # <<>> /\ NumAt(st, b) /\ Len(b) >= 1
    BY TailPart DEF NumberSoFar, Body
  <1>2. \A i \in Nat : IntTo(b, i) => b[1] \in Scanner!Digit
    <2> SUFFICES ASSUME NEW i \in Nat, IntTo(b, i) PROVE b[1] \in Scanner!Digit
      OBVIOUS
    <2>1. 1 \in 1 .. i
      BY DEF IntTo
    <2> QED
      BY <2>1 DEF IntTo, Digits
  <1>3. \A i, j : Mantissa(b, i, j) => IntTo(b, i)
    BY DEF Mantissa
  <1>4. st # "minus"
    BY <1>1 DEF NumAt
  <1>5. CASE st = "zero"
    BY <1>1, <1>5, DigitsAre DEF NumAt
  <1>6. CASE st = "any1"
    <2>1. Digits(b, 1, Len(b)) /\ Len(b) \in Nat
      BY <1>1, <1>6, LengthOfStr DEF NumAt
    <2>2. 1 \in 1 .. Len(b)
      BY <1>1, <2>1
    <2> QED
      BY <2>1, <2>2 DEF Digits
  <1>7. CASE st \in {"decimal1", "decimal2"}
    BY <1>1, <1>2, <1>7 DEF NumAt
  <1>8. CASE st \in {"exponent", "sign", "any2"}
    BY <1>1, <1>2, <1>3, <1>8 DEF NumAt
  <1> QED
    BY <1>4, <1>5, <1>6, <1>7, <1>8 DEF Number, Scanner!NumberStates

\* A text of lexemes that goes on, behind the number that is being read, with what does
\* not continue it.
LEMMA NumberIsFirst ==
    ASSUME ScanInv, RestInv, state \in Number, NEW w, CanBe(w, source, ended), Lexical(w),
           Len(source) < Len(w) => Scanner!NextNumber(state, w[Len(source) + 1]) \notin Number
    PROVE  state \in {"zero", "any1", "decimal2", "any2"} /\ Lexical(From(w, Len(source) + 1))
  <1> DEFINE L == Len(source)
             a == from
             u == From(w, a)
             b == SubSeq(source, a, L)
  <1>1. /\ source \in Str /\ L \in Nat /\ a \in Nat /\ 1 <= a /\ a <= L
        /\ NumberSoFar(state, b, number_type) /\ w \in Str /\ Begins(w, source) /\ L <= Len(w) /\ Len(w) \in Nat
    BY LengthOfStr DEF ScanInv, TextInv, NumberInv, CanBe, Begins
  <1>2. Lexical(u)
    <2>1. Reached + 1 = a
      BY <1>1 DEF Reached
    <2>2. Lexical(From(w, Reached + 1))
      BY DEF RestInv
    <2> QED
      BY <2>1, <2>2
  <1>3. /\ u \in Str /\ u # <<>> /\ u[1] = source[a]
        /\ b \in Str /\ Len(b) = L - a + 1 /\ Begins(u, b) /\ Len(u) = Len(w) - a + 1
        /\ \A k \in 1 .. Len(w) - a + 1 : u[k] = w[a + k - 1]
    BY <1>1, FromPart
  <1> HIDE DEF L, a, u, b
  <1>4. u[1] \in Scanner!Digit \cup {"-"}
    <2>1. b[1] \in Scanner!Digit \cup {"-"}
      BY <1>1, NumberStart
    <2>2. 1 \in 1 .. Len(b)
      BY <1>1, <1>3
    <2> QED
      BY <1>3, <2>1, <2>2 DEF Begins
  <1>5. PICK n \in 1 .. Len(u) : Scanner!IsNumber(SubSeq(u, 1, n)) /\ NoNumber(u, n) /\ Lexical(From(u, n + 1))
    BY <1>2, <1>3, <1>4, FirstLexeme
  <1>6. Len(b) < Len(u) => Scanner!NextNumber(state, u[Len(b) + 1]) \notin Number
    <2> SUFFICES ASSUME Len(b) < Len(u) PROVE Scanner!NextNumber(state, u[Len(b) + 1]) \notin Number
      OBVIOUS
    <2>1. L < Len(w) /\ Len(b) + 1 \in 1 .. Len(w) - a + 1 /\ a + (Len(b) + 1) - 1 = L + 1
      BY <1>1, <1>3
    <2>2. u[Len(b) + 1] = w[L + 1]
      BY <1>3, <2>1
    <2>3. Scanner!NextNumber(state, w[L + 1]) \notin Number
      BY <2>1 DEF L
    <2> QED
      BY <2>2, <2>3
  <1>7. n = Len(b) /\ state \in {"zero", "any1", "decimal2", "any2"}
    BY <1>1, <1>3, <1>5, <1>6, NumberFirst
  <1>8. From(u, n + 1) = From(w, L + 1)
    <2>1. PICK j \in Nat : j = n + 1
      BY <1>5
    <2>2. 1 <= j /\ a + j <= Len(w) + 2 /\ a + j - 1 = L + 1
      BY <1>1, <1>3, <1>7, <2>1
    <2>3. From(From(w, a), j) = From(w, a + j - 1)
      BY <1>1, <2>2, FromFrom
    <2> QED
      BY <2>1, <2>2, <2>3 DEF u
  <1> QED
    BY <1>5, <1>7, <1>8 DEF L

\* A text of lexemes that goes on, behind the contents of a string that have been read, as
\* scan_string does not.
LEMMA StringIsFirst ==
    ASSUME ScanInv, RestInv, state \in String, NEW w, CanBe(w, source, ended), Lexical(w),
           Len(source) < Len(w) =>
               (state = "string" /\ w[Len(source) + 1] = "q") \/ WrongNext(state, w[Len(source) + 1])
    PROVE  /\ state = "string" /\ Len(source) < Len(w) /\ w[Len(source) + 1] = "q"
           /\ Lexical(From(w, Len(source) + 2))
  <1> DEFINE L == Len(source)
             a == from
             u == From(w, a)
             d == SubSeq(source, a + 1, L)
  <1>1. /\ source \in Str /\ L \in Nat /\ a \in Nat /\ 1 <= a /\ a <= L /\ source[a] = "q"
        /\ Inside(state, d, token_buffer) /\ w \in Str /\ Begins(w, source) /\ L <= Len(w) /\ Len(w) \in Nat
    BY LengthOfStr DEF ScanInv, TextInv, StringInv, CanBe, Begins
  <1>2. Lexical(u)
    <2>1. Reached + 1 = a
      BY <1>1 DEF Reached
    <2>2. Lexical(From(w, Reached + 1))
      BY DEF RestInv
    <2> QED
      BY <2>1, <2>2
  <1>3. /\ u \in Str /\ u # <<>> /\ u[1] = source[a] /\ Len(u) = Len(w) - a + 1
        /\ \A k \in 1 .. Len(w) - a + 1 : u[k] = w[a + k - 1]
    BY <1>1, FromPart
  <1>4. Len(d) = L - a /\ \A k \in 1 .. L - a : d[k] = source[a + k]
    <2>1. PICK e \in Nat : e = a + 1
      BY <1>1
    <2>2. 1 <= e /\ e <= L + 1 /\ L <= Len(source) /\ L - e + 1 = L - a
      BY <1>1, <2>1
    <2>3. /\ Len(SubSeq(source, e, L)) = L - e + 1
          /\ \A k \in 1 .. L - e + 1 : SubSeq(source, e, L)[k] = source[e + k - 1]
      BY <1>1, <2>2, PartOf
    <2>4. ASSUME NEW k \in 1 .. L - a PROVE e + k - 1 = a + k
      BY <1>1, <2>1
    <2> QED
      BY <2>1, <2>2, <2>3, <2>4
  <1> HIDE DEF L, a, u, d
  <1>5. PICK n \in 1 .. Len(u) : Scanner!IsString(SubSeq(u, 1, n)) /\ Lexical(From(u, n + 1))
    BY <1>1, <1>2, <1>3, FirstLexeme
  <1>6. \A k \in 1 .. Len(d) : u[k + 1] = d[k]
    <2> SUFFICES ASSUME NEW k \in 1 .. L - a PROVE u[k + 1] = d[k]
      BY <1>4
    <2>1. k + 1 \in 1 .. Len(w) - a + 1 /\ a + (k + 1) - 1 = a + k /\ a + k \in 1 .. L
      BY <1>1
    <2>2. u[k + 1] = w[a + k]
      BY <1>3, <2>1
    <2>3. w[a + k] = source[a + k]
      BY <1>1, <2>1 DEF Begins, L
    <2> QED
      BY <1>4, <2>2, <2>3
  <1>7. Len(d) + 1 < Len(u) => L < Len(w) /\ u[Len(d) + 2] = w[L + 1]
    <2> SUFFICES ASSUME Len(d) + 1 < Len(u) PROVE L < Len(w) /\ u[Len(d) + 2] = w[L + 1]
      OBVIOUS
    <2>1. L < Len(w) /\ Len(d) + 2 \in 1 .. Len(w) - a + 1 /\ a + (Len(d) + 2) - 1 = L + 1
      BY <1>1, <1>3, <1>4
    <2> QED
      BY <1>3, <2>1
  <1>8. L < Len(w) => (state = "string" /\ w[L + 1] = "q") \/ WrongNext(state, w[L + 1])
    BY DEF L
  <1>9. Len(d) < Len(u)
    BY <1>1, <1>3, <1>4
  <1>10. state = "string" /\ n = Len(d) + 2 /\ u[n] = "q"
    <2>1. Len(d) + 1 < Len(u) => (state = "string" /\ u[Len(d) + 2] = "q") \/ WrongNext(state, u[Len(d) + 2])
      BY <1>7, <1>8
    <2>2. u[1] = "q" /\ Scanner!IsString(SubSeq(u, 1, n))
      BY <1>1, <1>3, <1>5
    <2>3. Inside(state, d, token_buffer) /\ u \in Str
      BY <1>1, <1>3
    <2> QED
      BY ONLY <1>6, <1>9, <2>1, <2>2, <2>3, n \in 1 .. Len(u), StringFirst
  <1>11. L < Len(w) /\ w[L + 1] = "q"
    BY <1>1, <1>3, <1>4, <1>5, <1>7, <1>10
  <1>12. From(u, n + 1) = From(w, L + 2)
    <2>1. PICK j \in Nat : j = n + 1
      BY <1>5
    <2>2. 1 <= j /\ a + j <= Len(w) + 2 /\ a + j - 1 = L + 2
      BY <1>1, <1>3, <1>4, <1>5, <1>10, <2>1
    <2>3. From(From(w, a), j) = From(w, a + j - 1)
      BY <1>1, <2>2, FromFrom
    <2> QED
      BY <2>1, <2>2, <2>3 DEF u
  <1> QED
    BY <1>5, <1>10, <1>11, <1>12 DEF L

\* The text that the input can be behind the next character, in a token.
LEMMA NextInToken ==
    ASSUME ScanInv, state \in Number \cup String, NEW c \in Scanner!Char \cup {EOF},
           Scanner!Get(c) \/ Scanner!Peek(c), NEW w, CanBe(w, source', ended')
    PROVE  /\ CanBe(w, source, ended) /\ Len(source) \in Nat /\ Len(w) \in Nat
           /\ \/ c = EOF /\ source' = source /\ w = source
              \/ /\ c # EOF /\ c \in Scanner!Char /\ source' = Append(source, c)
                 /\ Len(source') = Len(source) + 1 /\ Len(source) < Len(w) /\ w[Len(source) + 1] = c
  <1>1. TextInv /\ source \in Str /\ input.chars \subseteq Scanner!Char /\ ~next_unget
    BY InputChars, StatesApart DEF ScanInv, TextInv
  <1>2. CanBe(w, source, ended) /\ w \in Str /\ Len(source) \in Nat /\ Len(w) \in Nat
    BY <1>1, CanBeStill, LengthOfStr DEF CanBe
  <1>3. \/ c = EOF /\ source' = source /\ ended'
        \/ c \in input.chars /\ source' = Append(source, c)
    <2>1. CASE Scanner!Get(c)
      BY <1>1, <2>1, Zenon DEF Scanner!Get, EOF
    <2>2. CASE Scanner!Peek(c)
      BY <2>2 DEF Scanner!Peek, EOF
    <2> QED
      BY <2>1, <2>2
  <1>4. CASE c = EOF /\ source' = source /\ ended'
    BY <1>2, <1>4 DEF CanBe
  <1>5. CASE c \in input.chars /\ source' = Append(source, c)
    <2>1. c \in Scanner!Char /\ c # EOF
      BY <1>1, <1>5, EOFApart
    <2>2. Len(Append(source, c)) = Len(source) + 1 /\ Append(source, c)[Len(source) + 1] = c
      BY <1>1, <2>1, AppendedText
    <2>3. Begins(w, Append(source, c))
      BY <1>5 DEF CanBe
    <2>4. Len(source) + 1 <= Len(w) /\ Len(source) + 1 \in 1 .. Len(Append(source, c))
      BY <1>2, <2>2, <2>3 DEF Begins
    <2>5. Len(source) < Len(w) /\ w[Len(source) + 1] = c
      BY <1>2, <2>2, <2>3, <2>4 DEF Begins
    <2> QED
      BY <1>2, <1>5, <2>1, <2>2, <2>5
  <1> QED
    BY <1>3, <1>4, <1>5

LEMMA RestOfNumber ==
    ASSUME ScanInv, RestInv, NEW c \in Scanner!Char \cup {EOF}, Scanner!ScanNumber(c) PROVE RestInv'
  <1> DEFINE next == Scanner!NextNumber(state, c)
  <1>1. state \in Number
    BY DEF Scanner!ScanNumber, Number
  <1>2. \/ next = "error" /\ Scanner!Get(c) /\ state' = "parse_error"
        \/ next \in Number /\ Scanner!Get(c) /\ state' = next /\ from' = from
        \/ next = "done" /\ Scanner!Peek(c) /\ state' = "start" /\ next_unget' = TRUE
    BY DEF Scanner!ScanNumber, Scanner!Fail, Scanner!Unget, Number
  <1>3. /\ next = "error" => state \in {"minus", "decimal1", "exponent", "sign"}
        /\ next \in {"error", "done"} => next \notin Number
    BY <1>1 DEF Scanner!NextNumber, Number, Scanner!NumberStates
  <1>4. next \in Number => c \in Scanner!Char
    <2>1. EOF \notin Scanner!Digit \cup {".", "e", "+", "-"}
      BY DEF EOF, Scanner!EOF, Scanner!Digit
    <2>2. next \in Number => c \in Scanner!Digit \cup {".", "e", "+", "-"}
      BY <1>1, DigitsAre DEF Scanner!NextNumber, Number, Scanner!NumberStates
    <2> QED
      BY <2>1, <2>2
  <1>5. ASSUME Scanner!Get(c) \/ Scanner!Peek(c), next \in {"error", "done"}, NEW w, CanBe(w, source', ended'), Lexical(w)
        PROVE  /\ next # "error" /\ Lexical(From(w, Len(source) + 1)) /\ Len(source) \in Nat
               /\ c = EOF => source' = source
               /\ c # EOF => Len(source') = Len(source) + 1
    <2>1. /\ CanBe(w, source, ended) /\ Len(source) \in Nat /\ Len(w) \in Nat
          /\ \/ c = EOF /\ source' = source /\ w = source
             \/ /\ c # EOF /\ Len(source') = Len(source) + 1
                /\ Len(source) < Len(w) /\ w[Len(source) + 1] = c
      BY <1>1, <1>5, NextInToken
    <2>2. Len(source) < Len(w) => Scanner!NextNumber(state, w[Len(source) + 1]) \notin Number
      BY <1>3, <1>5, <2>1
    <2>3. state \in {"zero", "any1", "decimal2", "any2"} /\ Lexical(From(w, Len(source) + 1))
      BY <1>1, <1>5, <2>1, <2>2, NumberIsFirst
    <2> QED
      BY <1>3, <2>1, <2>3
  <1> HIDE DEF next
  <1>6. CASE next = "error" /\ Scanner!Get(c) /\ state' = "parse_error"
    BY <1>5, <1>6, StatesApart DEF RestInv
  <1>7. CASE next \in Number /\ Scanner!Get(c) /\ state' = next /\ from' = from
    BY <1>1, <1>4, <1>7, RestGrows
  <1>8. CASE next = "done" /\ Scanner!Peek(c) /\ state' = "start" /\ next_unget' = TRUE
    <2>1. current' = c
      BY <1>8 DEF Scanner!Peek
    <2>2. Reached' = IF c # EOF THEN Len(source') - 1 ELSE Len(source')
      BY <1>8, <2>1, StatesApart DEF Reached, PutBack, EOF
    <2>3. ASSUME NEW w, CanBe(w, source', ended'), Lexical(w) PROVE Lexical(From(w, Reached' + 1))
      <3>1. /\ Lexical(From(w, Len(source) + 1)) /\ Len(source) \in Nat
            /\ c = EOF => source' = source
            /\ c # EOF => Len(source') = Len(source) + 1
        BY <1>5, <1>8, <2>3
      <3>2. Reached' = Len(source)
        BY <2>2, <3>1
      <3> QED
        BY <3>1, <3>2
    <2> QED
      BY <1>8, <2>3, StatesApart DEF RestInv
  <1> QED
    BY <1>2, <1>6, <1>7, <1>8 DEF next

LEMMA RestOfString ==
    ASSUME ScanInv, RestInv, NEW c \in Scanner!Char \cup {EOF}, Scanner!ScanString(c) PROVE RestInv'
  <1>1. state \in String /\ Scanner!Get(c) /\ c \in Scanner!Char \cup {EOF} /\ EOF = "eof" /\ next_unget' = FALSE
    BY DEF Scanner!ScanString, String, EOF, Scanner!EOF, Scanner!Get
  <1>2. \/ state = "string" /\ c = "q" /\ state' = "start"
        \/ c # EOF /\ state' \in String /\ from' = from
        \/ Scanner!WrongInString(c) /\ state' = "parse_error"
    <2>1. /\ \A x, next : Scanner!Add(x, next) => state' = next /\ from' = from
          /\ \A next : Scanner!Skip(next) => state' = next /\ from' = from
          /\ Scanner!Fail => state' = "parse_error"
      BY DEF Scanner!Add, Scanner!Skip, Scanner!Fail
    <2>2. {"string", "escape", "codepoint1", "backslash2", "u2", "codepoint2"} = String
      BY DEF String, Scanner!StringStates
    <2>3. EOF \notin Scanner!Escapes \cup {"q", "bs", "u", "bmp", "hi", "lo"}
      BY <1>1 DEF Scanner!Escapes
    <2>4. \/ state = "string" /\ c = "q" /\ state' = "start"
          \/ c # EOF /\ \E next \in String : (\E x : Scanner!Add(x, next)) \/ Scanner!Skip(next)
          \/ Scanner!WrongInString(c) /\ Scanner!Fail
      BY <2>2, <2>3, Zenon DEF Scanner!ScanString, Scanner!Pair, EOF
    <2> QED
      BY <2>1, <2>4, Zenon
  <1>3. CASE state = "string" /\ c = "q" /\ state' = "start"
    <2>1. Reached' = Len(source')
      BY <1>1, <1>3, StatesApart DEF Reached, PutBack
    <2>2. ASSUME NEW w, CanBe(w, source', ended'), Lexical(w) PROVE Lexical(From(w, Reached' + 1))
      <3>1. /\ CanBe(w, source, ended) /\ Len(source) \in Nat /\ Len(w) \in Nat
            /\ Len(source') = Len(source) + 1 /\ Len(source) < Len(w) /\ w[Len(source) + 1] = c
        BY <1>1, <1>3, <2>2, NextInToken
      <3>2. Lexical(From(w, Len(source) + 2))
        BY <1>1, <1>3, <2>2, <3>1, StringIsFirst
      <3>3. Reached' + 1 = Len(source) + 2
        BY <2>1, <3>1
      <3> QED
        BY <3>2, <3>3
    <2> QED
      BY <1>3, <2>2, StatesApart DEF RestInv
  <1>4. CASE c # EOF /\ state' \in String /\ from' = from
    BY <1>1, <1>4, RestGrows
  <1>5. CASE Scanner!WrongInString(c) /\ state' = "parse_error"
    <2>1. c \in Scanner!Char => WrongNext(state, c)
      BY <1>1, <1>5, EOFApart
         DEF Scanner!WrongInString, WrongNext, Scanner!Escapes, Scanner!Pair, String, Scanner!StringStates, Scanner!EOF, Scanner!Char, Scanner!Digit
    <2>2. ~WrongNext("string", "q")
      BY DEF WrongNext
    <2>3. ASSUME NEW w, CanBe(w, source', ended'), Lexical(w) PROVE FALSE
      <3>1. /\ CanBe(w, source, ended) /\ Len(source) \in Nat /\ Len(w) \in Nat
            /\ \/ c = EOF /\ w = source
               \/ /\ c \in Scanner!Char /\ Len(source) < Len(w) /\ w[Len(source) + 1] = c
        BY <1>1, <2>3, NextInToken
      <3>2. Len(source) < Len(w) => WrongNext(state, w[Len(source) + 1])
        BY <2>1, <3>1
      <3>3. state = "string" /\ Len(source) < Len(w) /\ w[Len(source) + 1] = "q"
        BY <1>1, <2>3, <3>1, <3>2, StringIsFirst
      <3> QED
        BY <2>2, <3>2, <3>3
    <2> QED
      BY <1>5, <2>3, StatesApart DEF RestInv
  <1> QED
    BY <1>2, <1>3, <1>4, <1>5

-----------------------------------------------------------------------------
LEMMA RestNext == ASSUME ScanInv, RestInv, Scanner!Next PROVE RestInv'
  <1>1. input.chars \cup {EOF} \subseteq Scanner!Char \cup {EOF}
    BY InputChars DEF ScanInv, TextInv
  <1>2. CASE Scanner!SkipWhitespace
    BY <1>2, RestPassesOne DEF Scanner!SkipWhitespace
  <1>3. CASE Scanner!ScanOneCharacter(",", "structural") \/ Scanner!ScanOneCharacter("true", "literal")
    <2>1. PICK c \in Marks : state = "start" /\ Scanner!Get(c) /\ state' = state
      BY <1>3, Zenon DEF Marks, Scanner!ScanOneCharacter
    <2> QED
      BY <2>1, RestPassesOne
  <1>4. CASE Scanner!BeginString
    <2>1. "q" \in Scanner!Char
      BY DEF Scanner!Char
    <2>2. state = "start" /\ Scanner!Get("q") /\ from' = Scanner!Here /\ state' \in Number \cup String
      BY <1>4, StatesApart DEF Scanner!BeginString
    <2> QED
      BY <2>1, <2>2, RestBegins
  <1>5. ASSUME NEW c \in input.chars \cup {EOF}, Scanner!ScanEnd(c) PROVE RestInv'
    <2>1. state' = "end_of_input"
      BY <1>5 DEF Scanner!ScanEnd
    <2> QED
      BY <2>1, StatesApart DEF RestInv
  <1>6. ASSUME NEW c \in input.chars \cup {EOF}, Scanner!ScanWrong(c) PROVE RestInv'
    BY <1>6, RestScanWrong
  <1>7. ASSUME NEW c \in input.chars \cup {EOF}, Scanner!BeginNumber(c) PROVE RestInv'
    <2>1. c \in Scanner!Char /\ state = "start" /\ Scanner!Get(c) /\ from' = Scanner!Here
      BY <1>7 DEF Scanner!BeginNumber, Scanner!Char
    <2>2. state' \in Number \cup String
      BY <1>7 DEF Scanner!BeginNumber, Number, Scanner!NumberStates
    <2> QED
      BY <2>1, <2>2, RestBegins
  <1>8. ASSUME NEW c \in input.chars \cup {EOF}, Scanner!ScanNumber(c) PROVE RestInv'
    BY <1>1, <1>8, RestOfNumber
  <1>9. ASSUME NEW c \in input.chars \cup {EOF}, Scanner!ScanString(c) PROVE RestInv'
    BY <1>1, <1>9, RestOfString
  <1> QED
    BY <1>2, <1>3, <1>4, <1>5, <1>6, <1>7, <1>8, <1>9, Zenon DEF Scanner!Next, EOF

\* Every text that the input can be is made of lexemes only if what follows the tokens
\* is; when the scanner has refused, none is.
LEMMA RestInvariant == AnswersSpec => []RestInv
  <1>1. AnswersInit => RestInv
    BY RestInit DEF AnswersInit
  <1>2. ASSUME ScanInv, RestInv, [AnswersNext]_<<vars, scanner, layer>> PROVE RestInv'
    <2>1. CASE UNCHANGED scanner
      BY <1>2, <2>1 DEF scanner, RestInv, Reached, PutBack
    <2>2. CASE Scanner!Next
      BY <1>2, <2>2, RestNext
    <2> QED
      BY <1>2, <2>1, <2>2 DEF AnswersNext
  <1> QED
    BY <1>1, <1>2, ScanInvariant, PTL DEF AnswersSpec

\* What the scanner refuses: only what no text that begins with it can make good, a text
\* of any length in any of the alphabets, whatever could follow.
THEOREM RefusalIsRight == AnswersSpec => []RefusesOnlyWrongTokens
  <1>1. ScanInv /\ RestInv => RefusesOnlyWrongTokens
    <2> SUFFICES ASSUME ScanInv, RestInv PROVE RefusesOnlyWrongTokens
      OBVIOUS
    <2>1. source \in Str /\ Len(source) \in Nat
      BY LengthOfStr DEF ScanInv, TextInv
    <2>2. ASSUME NEW more \in (IF ended THEN {<<>>} ELSE {m \in Scanner!Completions : Scanner!ToSet(m) \subseteq input.chars})
          PROVE  CanBe(source \o more, source, ended)
      <3>1. more \in Str /\ (ended => more = <<>>)
        <4>1. {"1", "q", "n", "bmp", "bs", "u", "lo"} \subseteq Scanner!Char
          BY DEF Scanner!Char, Scanner!Digit
        <4>2. Scanner!Completions \subseteq Str /\ <<>> \in Str
          <5> DEFINE C == Scanner!Char
          <5>1. Str = Seq(C) /\ {"1", "q", "n", "bmp", "bs", "u", "lo"} \subseteq C
            BY <4>1 DEF Str
          <5> HIDE DEF C
          <5> QED
            BY <5>1 DEF Scanner!Completions
        <4> QED
          BY <4>2
      <3>2. /\ source \o more \in Str /\ Len(source \o more) = Len(source) + Len(more)
            /\ \A k \in 1 .. Len(source) : (source \o more)[k] = source[k]
        BY <2>1, <3>1 DEF Str
      <3>3. Len(more) \in Nat
        BY <3>1, LengthOfStr
      <3>4. Begins(source \o more, source)
        BY <2>1, <3>2, <3>3 DEF Begins
      <3>5. ended => source \o more = source
        <4> SUFFICES ASSUME ended PROVE source \o <<>> = source
          BY <3>1
        <4> QED
          BY <2>1 DEF Str
      <3> QED
        BY <3>2, <3>4, <3>5 DEF CanBe
    <2>3. ASSUME state = "parse_error",
                 NEW more \in (IF ended THEN {<<>>} ELSE {m \in Scanner!Completions : Scanner!ToSet(m) \subseteq input.chars})
          PROVE  ~Scanner!Tokenisable[source \o more]
      BY <2>2, <2>3 DEF RestInv, Lexical
    <2> QED
      BY <2>3, Zenon DEF RefusesOnlyWrongTokens, Scanner!RefusesOnlyWrongText
  <1> QED
    BY <1>1, ScanInvariant, RestInvariant, PTL
==============================================================================
