--------------------------- MODULE MCBootstrapAuth ---------------------------
(* Instantiates BootstrapAuth for TLC: two agents sharing one token, as    *)
(* several agents are enrolled with the same bootstrap token.              *)
EXTENDS BootstrapAuth, TLC

CONSTANTS a1, a2, t1

MCAgents == {a1, a2}
MCTokens == {t1}
MCAgentToken == [a \in MCAgents |-> t1]

MCSymmetry == Permutations(MCAgents)
=============================================================================
