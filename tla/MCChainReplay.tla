----------------------------- MODULE MCChainReplay -----------------------------
(* Small instances of ChainReplay. *)
EXTENDS ChainReplay, TLC

ReplaySymmetry == Permutations(EventId) \cup Permutations(Body)
==============================================================================
