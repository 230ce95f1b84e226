\* Two CreateCluster calls with one cluster id, against the spec's
\* exactly-one tie-break.
CONSTANTS
  w1 = w1
  w2 = w2
  w3 = w3
  u1 = u1
  u2 = u2
  i1 = i1
  n1 = n1
  n2 = n2
  NoUser = NoUser
  Writers <- MCWriters
  Updaters <- MCUpdaters
  Ids <- MCIds
  Names <- MCNames
  MaxVersion = 3
  StoreMayFail = TRUE
SPECIFICATION Spec
INVARIANT OneClusterPerId
\* The model stops once every call has returned and the generated names
\* are used up: the store then serves reads only.
CHECK_DEADLOCK FALSE
