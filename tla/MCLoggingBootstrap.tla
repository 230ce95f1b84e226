-------------------------- MODULE MCLoggingBootstrap --------------------------
(* Instantiates LoggingBootstrap for TLC: two client ids, two requests.   *)
EXTENDS LoggingBootstrap, TLC

CONSTANTS c1, c2

MCClientIDs == {c1, c2}
=============================================================================
