\* Concurrent UpdateToken calls against GC, deletion and expiry: the
\* resourceVersion check keeps every increment.
CONSTANTS
  t1 = t1
  t2 = t2
  u1 = u1
  u2 = u2
  u3 = u3
  NilToken = NilToken
  Tokens <- MCTokens
  Updaters <- MCUpdaters
  MaxTries = 2
SPECIFICATION Spec
SYMMETRY MCSymmetry
INVARIANT TypeOK
INVARIANT NoLostUpdate
