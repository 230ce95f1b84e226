\* Five concurrent Puts on one ref; two attempts per retry.OnError.
CONSTANTS
  Writers <- MCWriters
  w1 = w1
  w2 = w2
  w3 = w3
  w4 = w4
  w5 = w5
  MaxTries = 2
  StoreMayFail = TRUE
  NoKeyring = NoKeyring
SPECIFICATION Spec
INVARIANT TypeOK
PROPERTY ImplementsKeyringRegister
\* Every Put returns once; the callers then idle.
CHECK_DEADLOCK FALSE
