----------------------------- MODULE MCScittCache -----------------------------
(* Four keys and room for two entries, so that the third insertion evicts.    *)
EXTENDS ScittCache, TLC

KeySymmetry == Permutations(AgentID)
=============================================================================
