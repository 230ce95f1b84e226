------------------------------ MODULE MCWaitCtx ------------------------------
(* Instantiates WaitCtx for TLC: three background tasks.                  *)
EXTENDS WaitCtx, TLC

CONSTANTS k1, k2, k3

MCTasks == {k1, k2, k3}

MCSymmetry == Permutations(MCTasks)
=============================================================================
