------------------------------ MODULE MCStorage ------------------------------
EXTENDS Storage, TLC

CONSTANTS A, B, C

MCPlayer == {A, B, C}
\* A save takes the players in any order, so that they are interchangeable.
MCSymmetry == Permutations(MCPlayer)
=============================================================================
