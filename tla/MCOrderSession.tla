--------------------------- MODULE MCOrderSession ---------------------------
EXTENDS OrderSessionRefinement, TLC

Symmetry == Permutations(OrderIds)
=============================================================================
