----------------------------- MODULE MCRuleSync -----------------------------
(* Instantiates RuleSync for TLC; the bounds are given in the cfg files.   *)
EXTENDS RuleSync, TLC
=============================================================================
