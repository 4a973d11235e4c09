------------------------------ MODULE AuditChain ------------------------------
(***************************************************************************)
(* What the audit log promises, with no database in sight: one chain of    *)
(* events that grows at its end, one event at a time, and never holds the  *)
(* same event id twice.                                                    *)
(***************************************************************************)
EXTENDS Sequences

CONSTANT Event       \* records with a field id

VARIABLE chain

Init == chain = << >>

Record(e) ==
  /\ \A i \in DOMAIN chain : chain[i].id # e.id
  /\ chain' = Append(chain, e)

Next == \E e \in Event : Record(e)

Spec == Init /\ [][Next]_chain
==============================================================================
