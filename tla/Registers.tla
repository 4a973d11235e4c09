------------------------------- MODULE Registers -------------------------------
(***************************************************************************)
(* What optimistic locking promises: each row is an atomic register.  It is *)
(* inserted once, and every later write applies one change of its aggregate *)
(* to the value it replaces, so no acknowledged change is lost.             *)
(***************************************************************************)
EXTENDS Aggregates

CONSTANTS
  Id,
  NoRow,
  NewRow,   \* the rows an insert can write
  Seed      \* the rows there are to begin with

VARIABLE rows

Init == rows = Seed

Insert(i) ==
  /\ rows[i] = NoRow
  /\ \E row \in NewRow : rows' = [rows EXCEPT ![i] = row]

Edit(i) ==
  /\ rows[i] # NoRow
  /\ \E row \in Edits(rows[i]) : rows' = [rows EXCEPT ![i] = row]

Next == \E i \in Id : Insert(i) \/ Edit(i)

Spec == Init /\ [][Next]_rows
==============================================================================
