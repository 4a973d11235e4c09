------------------------------ MODULE MCAuditLog ------------------------------
(* Small instances of AuditLog: the values its configurations give. *)
EXTENDS AuditLog, TLC

MCEventId == ClientId \cup Post

\* Posts are interchangeable: nothing in the log depends on which is which.
PostSymmetry == Permutations(Post)
==============================================================================
