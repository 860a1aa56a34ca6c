------------------------------- MODULE MCConsole -------------------------------
EXTENDS Console

\* The options, a word that is no number, a number with more behind it, and
\* decimals: an int takes only the "1" of "1.5", a double takes ".5" twice out
\* of ".5.5".
MCTyped == {"1", "2", "3", "4", "5", "6", "7", "8", "x", "1x", "1.5", ".5.5"}
MCWords == MCTyped \cup {".5"}
Option1to8 == {"1", "2", "3", "4", "5", "6", "7", "8"}
MCAsDouble == [w \in MCWords \ {"x"} |->
    CASE w = "1x" -> "x" [] w = ".5.5" -> ".5" [] OTHER -> "none"]
MCAsInt == [w \in Option1to8 \cup {"1x", "1.5"} |->
    CASE w = "1x" -> "x" [] w = "1.5" -> ".5" [] OTHER -> "none"]
MCIntOf == [w \in DOMAIN MCAsInt |->
    CASE w = "2" -> 2 [] w \in {"1", "1x", "1.5"} -> 1 [] OTHER -> MaxSymbols + 1]
=============================================================================
