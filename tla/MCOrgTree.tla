------------------------------- MODULE MCOrgTree -------------------------------
(* Small instances of OrgTree. *)
EXTENDS OrgTree, TLC

\* Requests, the ids of units and the labels of paths are interchangeable: nothing
\* orders them.
OrgSymmetry == Permutations(Request) \cup Permutations(Id) \cup Permutations(Segment)
==============================================================================
