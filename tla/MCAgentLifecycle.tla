--------------------------- MODULE MCAgentLifecycle ---------------------------
(* Instantiates AgentLifecycle for TLC: a test that starts two agents.     *)
EXTENDS AgentLifecycle, TLC

CONSTANTS g1, g2

MCAgents == {g1, g2}

MCSymmetry == Permutations(MCAgents)
=============================================================================
