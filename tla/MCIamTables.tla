----------------------------- MODULE MCIamTables -----------------------------
(* Small instances of IamTables. *)
EXTENDS IamTables, TLC

CONSTANTS manager, engineer, sam, seededManager, seededEngineer, seededGrant

Root == <<"acme">>
Finance == <<"acme", "finance">>
MCScope == {Root, Finance}

\* Two roles and a grant of one of them, as seed.ts writes them.
MCSeed ==
  [i \in Id |->
     CASE i = seededManager  -> NewRole(manager, {})
       [] i = seededEngineer -> NewRole(engineer, {})
       [] i = seededGrant    -> NewGrant(sam, seededEngineer, Root, Never)
       [] OTHER              -> NoRow]

\* Grants at the root and below it, one for a time, and one of a role there is not.
MCGrant ==
  {[user |-> sam, role |-> seededManager, scope |-> Root, until |-> 1],
   [user |-> sam, role |-> seededManager, scope |-> Finance, until |-> Never],
   [user |-> sam, role |-> seededEngineer, scope |-> Finance, until |-> Never],
   [user |-> sam, role |-> Unknown, scope |-> Root, until |-> Never]}

\* Requests are interchangeable.
IamSymmetry == Permutations(Request) \cup Permutations(Id \ {seededManager, seededEngineer, seededGrant})
==============================================================================
