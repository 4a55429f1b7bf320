--------------------------- MODULE MCWebsetItems ---------------------------
EXTENDS WebsetItems, TLC

ItemSymmetry == Permutations(Items)
=============================================================================
