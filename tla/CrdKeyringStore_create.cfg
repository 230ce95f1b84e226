\* Two Puts on a ref that has no keyring yet, with a healthy API server.
CONSTANTS
  Writers <- MCWriters
  w1 = w1
  w2 = w2
  w3 = w3
  w4 = w4
  w5 = w5
  MaxTries = 4
  StoreMayFail = FALSE
  NoKeyring = NoKeyring
SPECIFICATION Spec
SYMMETRY MCSymmetry
INVARIANT PutSucceedsOnHealthyStore
\* Every Put returns once; the callers then idle.
CHECK_DEADLOCK FALSE
