------------------------------ MODULE MCPipCache ------------------------------
(* Small instances of PipCache. *)
EXTENDS PipCache, TLC

CallSymmetry == Permutations(Call)
Symmetry == Permutations(Call) \cup Permutations(Key)
==============================================================================
