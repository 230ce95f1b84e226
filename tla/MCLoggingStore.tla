---------------------------- MODULE MCLoggingStore ----------------------------
(* Instantiates LoggingStore for TLC: three Puts colliding on one user    *)
(* name, two UpdateCluster calls, one cluster id, two generated names.  *)
EXTENDS LoggingStore, TLC

CONSTANTS w1, w2, w3, u1, u2, i1, n1, n2

MCWriters == {w1, w2, w3}
MCUpdaters == {u1, u2}
MCIds == {i1}
MCNames == {n1, n2}
=============================================================================
