----------------------------- MODULE MCTokenStore -----------------------------
(* Instantiates TokenStore for TLC: two tokens and three concurrent       *)
(* IncrementUsageCount callers, enough for a stale clone to be written    *)
(* after two newer updates.                                                *)
EXTENDS TokenStore, TLC

CONSTANTS t1, t2, u1, u2, u3

MCTokens == {t1, t2}
MCUpdaters == {u1, u2, u3}

MCSymmetry == Permutations(MCTokens) \cup Permutations(MCUpdaters)
=============================================================================
