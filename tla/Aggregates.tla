------------------------------ MODULE Aggregates ------------------------------
(***************************************************************************)
(* The aggregates of authz-admin whose rows have a version: roles, role     *)
(* assignments ("grants"), tenants and the permissions of the catalog.      *)
(* What one of them does to itself is the set of its next states, empty     *)
(* when it throws.                                                         *)
(***************************************************************************)
EXTENDS Integers

CONSTANTS
  Item,     \* permission keys
  Never     \* the validity of a grant without an end

\* A new aggregate.  A grant's key says who holds which role where; catalog entries
\* and tenants have nothing but their key to tell apart.
Created(table, key, items, until) ==
  [table |-> table, key |-> key, items |-> items, active |-> TRUE, until |-> until, version |-> 1]

NewRole(key, items) == Created("role", key, items, Never)
NewGrant(user, role, scope, until) ==
  Created("grant", [user |-> user, role |-> role, scope |-> scope], {}, until)
NewTenant(slug) == Created("tenant", slug, {}, Never)
NewPermission(item) == Created("permission", item, {}, Never)

\* touch
Touched(row) == [row EXCEPT !.version = @ + 1]

AddPermission(row, item) ==
  {[Touched(row) EXCEPT !.items = @ \cup {item}] : i \in {item} \ row.items}

RemovePermission(row, item) ==
  {[Touched(row) EXCEPT !.items = @ \ {item}] : i \in {item} \cap row.items}

\* What is no longer active cannot end; or could, once more.
EndedAgain(row) == {[Touched(row) EXCEPT !.active = FALSE]}
Ended(row) == {[Touched(row) EXCEPT !.active = FALSE] : a \in {row.active} \ {FALSE}}
Revoke(row) == Ended(row)
Suspend(row) == Ended(row)

\* Every change its use cases make of an aggregate.
Edits(row) ==
  CASE row.table = "role"   -> UNION {AddPermission(row, i) \cup RemovePermission(row, i) : i \in Item}
    [] row.table = "grant"  -> Revoke(row)
    [] row.table = "tenant" -> Suspend(row)
    [] OTHER                -> {}
==============================================================================
