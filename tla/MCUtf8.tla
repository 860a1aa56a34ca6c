------------------------------- MODULE MCUtf8 -------------------------------
EXTENDS Utf8

\* The ends of every row of the table, and a byte within.
Ends == {0, 127, 128, 143, 144, 159, 160, 175, 191, 192, 193, 194, 223, 224, 225, 236, 237, 238, 239,
         240, 241, 243, 244, 245, 247, 248, 255}
=============================================================================
