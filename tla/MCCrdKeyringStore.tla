-------------------------- MODULE MCCrdKeyringStore --------------------------
EXTENDS CrdKeyringStore, TLC

CONSTANTS w1, w2, w3, w4, w5

MCWriters == {w1, w2, w3, w4, w5}

MCSymmetry == Permutations(MCWriters)

=============================================================================
