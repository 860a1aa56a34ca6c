--------------------------- MODULE MCFrameReader ---------------------------
EXTENDS FrameReader

Sent == INSTANCE ServerFrames
FragmentedText == Sent!FragmentedText
=============================================================================
