---------------------------- MODULE IamTablesProofs ----------------------------
(***************************************************************************)
(* Proofs about IamTables: keys stay unique and rows are atomic registers,   *)
(* for any tables, seed, number of requests and bounds.                      *)
(***************************************************************************)
EXTENDS IamTables, FiniteSetTheorems, TLAPS

-----------------------------------------------------------------------------
(* The inductive invariant *)

Saved(r) == req[r].phase = "saved"
Draft(r) == req[r].row
Target(r) == req[r].id

\* What may be ended has not been: it is at its first version.
EndedOnce(row) == row.table \in {"grant", "tenant"} => (row.active <=> row.version = 1)

\* A draft inserts a row under an id that is nobody else's, or is one edit of the row at
\* its id, unless that row has changed since.
DraftOK(r) ==
  /\ EndedOnce(Draft(r))
  /\ Draft(r).version = 1 =>
       /\ rows[Target(r)] = NoRow
       /\ Draft(r).active
       /\ \A q \in Request \ {r} : Busy(q) => Target(q) # Target(r)
  /\ Draft(r).version > 1 =>
       /\ rows[Target(r)] # NoRow
       /\ HasKey(rows[Target(r)], Draft(r))
       /\ Draft(r).version <= rows[Target(r)].version + 1
       /\ Draft(r).version = rows[Target(r)].version + 1 => Draft(r) \in Edits(rows[Target(r)])

\* What is written and not yet committed won its compare-and-set and passed the unique
\* index, and keeps row and key to itself.
SavedOK(r) ==
  /\ CasWins(Target(r), Draft(r))
  /\ IndexAccepts(Target(r), Draft(r))
  /\ \A q \in Request \ {r} : Saved(q) =>
       /\ Target(q) # Target(r)
       /\ HasKey(Draft(q), Draft(r)) => Draft(r).table \notin UniqueKeyed

Sent == [phase: {"saving", "saved"}, id: Id, row: Row]

IInv ==
  /\ TypeOK
  /\ req \in [Request -> {Idle} \cup Sent]
  /\ KeysAreUnique
  /\ \A i \in Live : EndedOnce(rows[i])
  /\ \A r \in Request : Busy(r) => DraftOK(r)
  /\ \A r \in Request : Saved(r) => SavedOK(r)

-----------------------------------------------------------------------------
(* Rows *)

LEMMA RowFields ==
  ASSUME NEW row \in Row
  PROVE  /\ row.version \in Nat \ {0}
         /\ row.version <= MaxVersion
         /\ row.table \in {"role", "grant", "tenant", "permission"}
         /\ row.active \in BOOLEAN
         /\ row # NoRow
  <1> USE IamTablesAssumption
  <1>1. CASE row \in RoleRow
    <2>1. row.active \in Unending
      BY <1>1 DEF RoleRow
    <2>2. row.active \in BOOLEAN
      BY <2>1 DEF Unending
    <2>3. QED
      BY <1>1, <2>2 DEF RoleRow
  <1>2. CASE row \in GrantRow
    BY <1>2 DEF GrantRow
  <1>3. CASE row \in TenantRow
    BY <1>3 DEF TenantRow
  <1>4. CASE row \in PermissionRow
    <2>1. row.active \in Unending
      BY <1>4 DEF PermissionRow
    <2>2. row.active \in BOOLEAN
      BY <2>1 DEF Unending
    <2>3. QED
      BY <1>4, <2>2 DEF PermissionRow
  <1>5. row # NoRow
    OBVIOUS
  <1>6. QED
    BY <1>1, <1>2, <1>3, <1>4, <1>5 DEF Row

\* Which rows of each table an insert can write.
LEMMA NewRowsAreRows ==
  /\ \A key \in RoleKey, items \in SUBSET Item : NewRole(key, items) \in NewRow
  /\ \A item \in Item : NewPermission(item) \in NewRow
  /\ \A slug \in Slug : NewTenant(slug) \in NewRow
  /\ \A g \in Grant : NewGrant(g.user, g.role, g.scope, g.until) \in NewRow
  <1> USE IamTablesAssumption DEF Created, Row, Unending
  <1>1. \A key \in RoleKey, items \in SUBSET Item : NewRole(key, items) \in NewRow
    BY DEF NewRole, NewRow, RoleRow
  <1>2. \A item \in Item : NewPermission(item) \in NewRow
    BY DEF NewPermission, NewRow, PermissionRow
  <1>3. \A slug \in Slug : NewTenant(slug) \in NewRow
    BY DEF NewTenant, NewRow, TenantRow
  <1>4. \A g \in Grant : NewGrant(g.user, g.role, g.scope, g.until) \in NewRow
    BY DEF NewGrant, NewRow, GrantRow
  <1>5. QED
    BY <1>1, <1>2, <1>3, <1>4

\* An edit of a row is a row of the same key, one version on, and ends it at most once.
LEMMA EditsAreRows ==
  ASSUME NEW row \in Row, row.version < MaxVersion, EndedOnce(row), NEW new \in Edits(row)
  PROVE  /\ new \in Row
         /\ HasKey(new, row)
         /\ new.version = row.version + 1
         /\ EndedOnce(new)
  <1> USE IamTablesAssumption
  <1> DEFINE t == Touched(row)
  <1>1. CASE row.table = "role"
    <2>1. row \in RoleRow
      BY <1>1 DEF Row, RoleRow, GrantRow, TenantRow, PermissionRow
    <2>2. PICK item \in Item : new \in AddPermission(row, item) \cup RemovePermission(row, item)
      BY <1>1 DEF Edits
    <2>3. \/ new = [t EXCEPT !.items = @ \cup {item}]
          \/ new = [t EXCEPT !.items = @ \ {item}]
      BY <2>2 DEF AddPermission, RemovePermission, t
    <2>4. /\ t \in RoleRow
          /\ t.table = row.table /\ t.key = row.key /\ t.version = row.version + 1
      BY <2>1 DEF RoleRow, Touched
    <2> HIDE DEF t
    <2>5. /\ new \in RoleRow
          /\ new.table = row.table /\ new.key = row.key /\ new.version = row.version + 1
      BY <2>3, <2>4 DEF RoleRow
    <2>6. QED
      BY <1>1, <2>5 DEF Row, HasKey, EndedOnce
  <1>2. CASE row.table = "grant"
    <2>1. row \in GrantRow
      BY <1>2 DEF Row, RoleRow, GrantRow, TenantRow, PermissionRow
    <2>2. PICK a \in {row.active} \ {FALSE} : new = [t EXCEPT !.active = FALSE]
      BY <1>2 DEF Edits, Revoke, Ended, t
    <2>3. row.active = TRUE
      BY <2>1, <2>2 DEF GrantRow
    <2>4. row.version = 1
      BY <1>2, <2>3 DEF EndedOnce
    <2>5. /\ t \in GrantRow
          /\ t.table = row.table /\ t.key = row.key /\ t.version = 2
      BY <2>1, <2>4 DEF GrantRow, Touched
    <2> HIDE DEF t
    <2>6. new \in GrantRow /\ new.active = FALSE
      BY <2>2, <2>5 DEF GrantRow
    <2>7. new.table = row.table /\ new.key = row.key /\ new.version = 2
      BY <2>2, <2>5 DEF GrantRow
    <2>8. QED
      BY <2>4, <2>6, <2>7 DEF Row, HasKey, EndedOnce
  <1>3. CASE row.table = "tenant"
    <2>1. row \in TenantRow
      BY <1>3 DEF Row, RoleRow, GrantRow, TenantRow, PermissionRow
    <2>2. PICK a \in {row.active} \ {FALSE} : new = [t EXCEPT !.active = FALSE]
      BY <1>3 DEF Edits, Suspend, Ended, t
    <2>3. row.active = TRUE
      BY <2>1, <2>2 DEF TenantRow
    <2>4. row.version = 1
      BY <1>3, <2>3 DEF EndedOnce
    <2>5. /\ t \in TenantRow
          /\ t.table = row.table /\ t.key = row.key /\ t.version = 2
      BY <2>1, <2>4 DEF TenantRow, Touched
    <2> HIDE DEF t
    <2>6. new \in TenantRow /\ new.active = FALSE
      BY <2>2, <2>5 DEF TenantRow
    <2>7. new.table = row.table /\ new.key = row.key /\ new.version = 2
      BY <2>2, <2>5 DEF TenantRow
    <2>8. QED
      BY <2>4, <2>6, <2>7 DEF Row, HasKey, EndedOnce
  <1>4. CASE row.table = "permission"
    BY <1>4 DEF Edits
  <1>5. QED
    BY <1>1, <1>2, <1>3, <1>4, RowFields
-----------------------------------------------------------------------------
(* What a use case drafts *)

\* A new row under a fresh id, or an edit of the row that is there.
Drafted(i, row) ==
  \/ IsFresh(i) /\ row \in NewRow
  \/ Exists(i) /\ rows[i].version < MaxVersion /\ row \in Edits(rows[i])

Requested(r) ==
  \/ RoleController(r)
  \/ RoleAssignmentController(r)
  \/ TenantController(r)
  \/ PermissionController(r)

LEMMA RequestsDraft ==
  ASSUME NEW r \in Request, Requested(r), IInv
  PROVE  \E i \in Id, row \in Row : Drafts(r, i, row) /\ Drafted(i, row)
  <1>1. ASSUME NEW i \in Id, NEW new \in NewRow, Creates(r, i, new)
        PROVE  \E j \in Id, row \in Row : Drafts(r, j, row) /\ Drafted(j, row)
    BY <1>1 DEF Creates, Drafted, NewRow
  <1>2. ASSUME NEW i \in Live, rows[i].version < MaxVersion,
               NEW row \in Edits(rows[i]), Drafts(r, i, row)
        PROVE  \E j \in Id, new \in Row : Drafts(r, j, new) /\ Drafted(j, new)
    <2>1. rows[i] \in Row /\ EndedOnce(rows[i]) /\ i \in Id
      BY DEF IInv, TypeOK, Live, Exists
    <2>2. row \in Row
      BY <1>2, <2>1, EditsAreRows
    <2>3. QED
      BY <1>2, <2>1, <2>2 DEF Drafted, Live
  <1>3. CASE RoleController(r)
    <2>1. ASSUME NEW i \in Id, NEW key \in RoleKey, NEW items \in SUBSET Item,
                 CreateRole(r, i, key, items)
          PROVE  \E j \in Id, row \in Row : Drafts(r, j, row) /\ Drafted(j, row)
      BY <2>1, <1>1, NewRowsAreRows DEF CreateRole
    <2>2. ASSUME NEW i \in Live, NEW item \in Item, NEW ifMatch \in IfMatch,
                 AddPermissionToRole(r, i, item, ifMatch)
          PROVE  \E j \in Id, row \in Row : Drafts(r, j, row) /\ Drafted(j, row)
      <3>1. PICK row \in AddPermission(rows[i], item) : Drafts(r, i, row)
        BY <2>2 DEF AddPermissionToRole
      <3>2. rows[i].table = "role" /\ rows[i].version < MaxVersion
        BY <2>2 DEF AddPermissionToRole, Loads
      <3>3. row \in Edits(rows[i])
        BY <3>1, <3>2 DEF Edits
      <3>4. QED
        BY <1>2, <3>1, <3>2, <3>3
    <2>3. ASSUME NEW i \in Live, NEW item \in Item, NEW ifMatch \in IfMatch,
                 RemovePermissionFromRole(r, i, item, ifMatch)
          PROVE  \E j \in Id, row \in Row : Drafts(r, j, row) /\ Drafted(j, row)
      <3>1. PICK row \in RemovePermission(rows[i], item) : Drafts(r, i, row)
        BY <2>3 DEF RemovePermissionFromRole
      <3>2. rows[i].table = "role" /\ rows[i].version < MaxVersion
        BY <2>3 DEF RemovePermissionFromRole, Loads
      <3>3. row \in Edits(rows[i])
        BY <3>1, <3>2 DEF Edits
      <3>4. QED
        BY <1>2, <3>1, <3>2, <3>3
    <2>4. QED
      BY <1>3, <2>1, <2>2, <2>3 DEF RoleController
  <1>4. CASE RoleAssignmentController(r)
    <2>1. ASSUME NEW i \in Id, NEW g \in Grant, AssignRole(r, i, g)
          PROVE  \E j \in Id, row \in Row : Drafts(r, j, row) /\ Drafted(j, row)
      BY <2>1, <1>1, NewRowsAreRows DEF AssignRole
    <2>2. ASSUME NEW i \in Live, NEW ifMatch \in IfMatch, RevokeRole(r, i, ifMatch)
          PROVE  \E j \in Id, row \in Row : Drafts(r, j, row) /\ Drafted(j, row)
      <3>1. PICK row \in Revoke(rows[i]) : Drafts(r, i, row)
        BY <2>2 DEF RevokeRole
      <3>2. rows[i].table = "grant" /\ rows[i].version < MaxVersion
        BY <2>2 DEF RevokeRole, Loads
      <3>3. row \in Edits(rows[i])
        BY <3>1, <3>2 DEF Edits
      <3>4. QED
        BY <1>2, <3>1, <3>2, <3>3
    <2>3. QED
      BY <1>4, <2>1, <2>2 DEF RoleAssignmentController
  <1>5. CASE TenantController(r)
    <2>1. ASSUME NEW i \in Id, NEW slug \in Slug, CreateTenant(r, i, slug)
          PROVE  \E j \in Id, row \in Row : Drafts(r, j, row) /\ Drafted(j, row)
      BY <2>1, <1>1, NewRowsAreRows DEF CreateTenant
    <2>2. ASSUME NEW i \in Live, NEW ifMatch \in IfMatch, SuspendTenant(r, i, ifMatch)
          PROVE  \E j \in Id, row \in Row : Drafts(r, j, row) /\ Drafted(j, row)
      <3>1. PICK row \in Suspend(rows[i]) : Drafts(r, i, row)
        BY <2>2 DEF SuspendTenant
      <3>2. rows[i].table = "tenant" /\ rows[i].version < MaxVersion
        BY <2>2 DEF SuspendTenant, Loads
      <3>3. row \in Edits(rows[i])
        BY <3>1, <3>2 DEF Edits
      <3>4. QED
        BY <1>2, <3>1, <3>2, <3>3
    <2>3. QED
      BY <1>5, <2>1, <2>2 DEF TenantController
  <1>6. CASE PermissionController(r)
    BY <1>1, <1>6, NewRowsAreRows DEF PermissionController, CreatePermission
  <1>7. QED
    BY <1>3, <1>4, <1>5, <1>6 DEF Requested
-----------------------------------------------------------------------------
(* Every step keeps the invariant *)

LEMMA InitIInv == Init => IInv
  <1> SUFFICES ASSUME Init
               PROVE  IInv
    OBVIOUS
  <1>1. \A r \in Request : req[r] = Idle /\ ~ Busy(r) /\ ~ Saved(r)
    BY DEF Init, Busy, Saved, Idle
  <1>2. rows \in [Id -> Row \cup {NoRow}] /\ now \in 0 .. MaxNow
    BY IamTablesAssumption DEF Init
  <1>3. req \in [Request -> {Idle} \cup Sent]
    BY DEF Init
  <1>4. KeysAreUnique
    BY SeedAssumption DEF Init, KeysAreUnique, HasKey, Live, Exists
  <1>5. \A i \in Live : EndedOnce(rows[i])
    BY SeedAssumption DEF Init, EndedOnce, Live, Exists
  <1>6. QED
    BY <1>1, <1>2, <1>3, <1>4, <1>5 DEF IInv, TypeOK

LEMMA DraftStep ==
  ASSUME IInv, NEW r \in Request, NEW i \in Id, NEW row \in Row,
         Drafts(r, i, row), Drafted(i, row)
  PROVE  IInv'
  <1> DEFINE new == [phase |-> "saving", id |-> i, row |-> row]
  <1>1. /\ req' = [req EXCEPT ![r] = new] /\ rows' = rows /\ now' = now
        /\ ~ Busy(r)
    BY DEF Drafts
  <1>2. new \in Sent
    BY DEF Sent
  <1>3. req' \in [Request -> {Idle} \cup Sent]
    BY <1>1, <1>2 DEF IInv
  <1>4. req'[r] = new /\ \A q \in Request \ {r} : req'[q] = req[q]
    BY <1>1 DEF IInv
  <1> HIDE DEF new
  <1>5. TypeOK' /\ KeysAreUnique' /\ \A j \in Live' : EndedOnce(rows[j])'
    <2>1. \A q \in Request : req'[q] = Idle \/ req'[q] \in Sent
      BY <1>3
    <2>2. QED
      BY <1>1, <2>1 DEF IInv, TypeOK, KeysAreUnique, Live, Exists, Sent, HasKey, EndedOnce
  <1>6. /\ EndedOnce(row)
        /\ row.version = 1 =>
             rows[i] = NoRow /\ row.active /\ \A q \in Request : Busy(q) => Target(q) # i
        /\ row.version > 1 =>
             /\ rows[i] # NoRow
             /\ HasKey(rows[i], row)
             /\ row.version = rows[i].version + 1
             /\ row \in Edits(rows[i])
    <2>1. CASE IsFresh(i) /\ row \in NewRow
      BY <2>1 DEF IsFresh, NewRow, EndedOnce, Exists, Target
    <2>2. CASE Exists(i) /\ rows[i].version < MaxVersion /\ row \in Edits(rows[i])
      <3>1. rows[i] \in Row /\ EndedOnce(rows[i]) /\ rows[i] # NoRow
        BY <2>2 DEF IInv, TypeOK, Live, Exists
      <3>2. rows[i].version \in Nat \ {0}
        BY <3>1, RowFields
      <3>3. HasKey(row, rows[i]) /\ row.version = rows[i].version + 1 /\ EndedOnce(row)
        BY <2>2, <3>1, EditsAreRows
      <3>4. QED
        BY <2>2, <3>1, <3>2, <3>3 DEF HasKey
    <2>3. QED
      BY <2>1, <2>2 DEF Drafted
  <1>7. row.version \in Nat \ {0}
    BY RowFields
  <1>8. ASSUME NEW q \in Request, Busy(q)'
        PROVE  DraftOK(q)'
    <2>1. CASE q = r
      <3>1. Draft(q)' = row /\ Target(q)' = i
        BY <1>4, <2>1 DEF Draft, Target, new
      <3>2. \A p \in Request \ {q} : Busy(p)' => Busy(p) /\ Target(p)' = Target(p)
        BY <1>4, <2>1 DEF Busy, Target
      <3>3. row.version > 1 => row.version <= rows[i].version + 1
        BY <1>6, <1>7
      <3>4. QED
        BY <1>1, <1>6, <3>1, <3>2, <3>3 DEF DraftOK
    <2>2. CASE q # r
      <3>1. Busy(q) /\ Draft(q)' = Draft(q) /\ Target(q)' = Target(q)
        BY <1>4, <1>8, <2>2 DEF Busy, Draft, Target
      <3>2. DraftOK(q)
        BY <3>1 DEF IInv
      <3>3. ASSUME Draft(q).version = 1, NEW p \in Request \ {q}, Busy(p)'
            PROVE  Target(p)' # Target(q)
        <4>1. CASE p = r
          <5>1. Target(p)' = i
            BY <1>4, <4>1 DEF Target, new
          <5>2. rows[Target(q)] = NoRow
            BY <3>2, <3>3 DEF DraftOK
          <5>3. QED
            BY <1>6, <1>7, <3>1, <5>1, <5>2
        <4>2. CASE p # r
          BY <1>4, <3>2, <3>3, <4>2 DEF DraftOK, Busy, Target
        <4>3. QED
          BY <4>1, <4>2
      <3>4. QED
        BY <1>1, <3>1, <3>2, <3>3 DEF DraftOK
    <2>3. QED
      BY <2>1, <2>2
  <1>9. ASSUME NEW q \in Request, Saved(q)'
        PROVE  SavedOK(q)'
    <2>1. q # r
      BY <1>4, <1>9 DEF Saved, new
    <2>2. Saved(q) /\ Draft(q)' = Draft(q) /\ Target(q)' = Target(q)
      BY <1>4, <1>9, <2>1 DEF Saved, Draft, Target
    <2>3. SavedOK(q)
      BY <2>2 DEF IInv
    <2>4. \A p \in Request : Saved(p)' =>
            Saved(p) /\ Draft(p)' = Draft(p) /\ Target(p)' = Target(p)
      BY <1>4 DEF Saved, Draft, Target, new
    <2>5. CasWins(Target(q), Draft(q))' /\ IndexAccepts(Target(q), Draft(q))'
      BY <1>1, <2>2, <2>3 DEF SavedOK, CasWins, IndexAccepts, Live, Exists, HasKey
    <2>6. QED
      BY <2>2, <2>3, <2>4, <2>5 DEF SavedOK
  <1>10. QED
    BY <1>3, <1>5, <1>8, <1>9 DEF IInv

LEMMA SaveStep ==
  ASSUME IInv, NEW r \in Request, Save(r)
  PROVE  IInv'
  <1>1. /\ rows' = rows /\ now' = now
        /\ req' = [req EXCEPT ![r].phase = "saved"]
        /\ req[r] \in Sent
    BY DEF Save, IInv, Idle
  <1>2. /\ req'[r] \in Sent /\ req'[r].phase = "saved"
        /\ req'[r].id = req[r].id /\ req'[r].row = req[r].row
        /\ \A q \in Request \ {r} : req'[q] = req[q]
        /\ req' \in [Request -> {Idle} \cup Sent]
    BY <1>1 DEF IInv, Sent
  <1>3. /\ \A q \in Request : Target(q)' = Target(q) /\ Draft(q)' = Draft(q)
        /\ \A q \in Request : Busy(q)' <=> Busy(q)
        /\ \A q \in Request \ {r} : Saved(q)' <=> Saved(q)
    BY <1>1, <1>2 DEF Target, Draft, Busy, Saved, Sent
  <1>4. TypeOK' /\ KeysAreUnique' /\ \A j \in Live' : EndedOnce(rows[j])'
    <2>1. \A q \in Request : req'[q] = Idle \/ req'[q] \in Sent
      BY <1>2
    <2>2. QED
      BY <1>1, <2>1 DEF IInv, TypeOK, KeysAreUnique, Live, Exists, Sent, HasKey, EndedOnce
  <1>5. ASSUME NEW q \in Request, Busy(q)'
        PROVE  DraftOK(q)'
    <2>1. DraftOK(q)
      BY <1>3, <1>5 DEF IInv
    <2>2. QED
      BY <1>1, <1>3, <2>1 DEF DraftOK
  <1>6. /\ CasWins(Target(r), Draft(r)) /\ IndexAccepts(Target(r), Draft(r))
        /\ \A q \in Request \ {r} : Saved(q) =>
             /\ Target(q) # Target(r)
             /\ HasKey(Draft(q), Draft(r)) => Draft(r).table \notin UniqueKeyed
    BY DEF Save, IsLocked, Saved, Target, Draft
  <1>7. ASSUME NEW q \in Request, Saved(q)'
        PROVE  SavedOK(q)'
    <2>1. CasWins(Target(q), Draft(q)) /\ IndexAccepts(Target(q), Draft(q))
      BY <1>3, <1>6, <1>7 DEF IInv, SavedOK
    <2>2. ASSUME NEW p \in Request \ {q}, Saved(p)'
          PROVE  /\ Target(p) # Target(q)
                 /\ HasKey(Draft(p), Draft(q)) => Draft(q).table \notin UniqueKeyed
      <3>1. CASE q = r
        BY <1>3, <1>6, <2>2, <3>1
      <3>2. CASE p = r
        BY <1>3, <1>6, <1>7, <3>2 DEF HasKey
      <3>3. CASE q # r /\ p # r
        BY <1>3, <1>7, <2>2, <3>3 DEF IInv, SavedOK
      <3>4. QED
        BY <3>1, <3>2, <3>3
    <2>3. CasWins(Target(q), Draft(q))' /\ IndexAccepts(Target(q), Draft(q))'
      BY <1>1, <1>3, <2>1 DEF CasWins, IndexAccepts, Live, Exists, HasKey
    <2>4. QED
      BY <1>3, <2>2, <2>3 DEF SavedOK
  <1>8. QED
    BY <1>2, <1>4, <1>5, <1>7 DEF IInv

\* A transaction that ends without a commit.
LEMMA RollbackStep ==
  ASSUME IInv, NEW r \in Request, req' = [req EXCEPT ![r] = Idle], UNCHANGED <<rows, now>>
  PROVE  IInv'
  <1>1. /\ req' \in [Request -> {Idle} \cup Sent]
        /\ req'[r] = Idle
        /\ \A q \in Request \ {r} : req'[q] = req[q]
    BY DEF IInv
  <1>2. \A q \in Request :
          /\ Busy(q)' => q # r /\ Busy(q) /\ Target(q)' = Target(q) /\ Draft(q)' = Draft(q)
          /\ Saved(q)' => q # r /\ Saved(q) /\ Target(q)' = Target(q) /\ Draft(q)' = Draft(q)
    BY <1>1 DEF Busy, Saved, Idle, Target, Draft
  <1>3. TypeOK' /\ KeysAreUnique' /\ \A j \in Live' : EndedOnce(rows[j])'
    <2>1. \A q \in Request : req'[q] = Idle \/ req'[q] \in Sent
      BY <1>1
    <2>2. QED
      BY <2>1 DEF IInv, TypeOK, KeysAreUnique, Live, Exists, Sent, HasKey, EndedOnce
  <1>4. ASSUME NEW q \in Request, Busy(q)'
        PROVE  DraftOK(q)'
    <2>1. DraftOK(q)
      BY <1>2, <1>4 DEF IInv
    <2>2. QED
      BY <1>2, <1>4, <2>1 DEF DraftOK
  <1>5. ASSUME NEW q \in Request, Saved(q)'
        PROVE  SavedOK(q)'
    <2>1. SavedOK(q)
      BY <1>2, <1>5 DEF IInv
    <2>2. CasWins(Target(q), Draft(q))' /\ IndexAccepts(Target(q), Draft(q))'
      BY <1>2, <1>5, <2>1 DEF SavedOK, CasWins, IndexAccepts, Live, Exists, HasKey
    <2>3. QED
      BY <1>2, <1>5, <2>1, <2>2 DEF SavedOK
  <1>6. QED
    BY <1>1, <1>3, <1>4, <1>5 DEF IInv

\* What a commit writes: a row where there was none, or the next version of the row there.
LEMMA CommittedRow ==
  ASSUME IInv, NEW r \in Request, Commit(r)
  PROVE  /\ Saved(r) /\ DraftOK(r) /\ SavedOK(r)
         /\ Target(r) \in Id /\ Draft(r) \in Row
         /\ rows' \in [Id -> Row \cup {NoRow}]
         /\ rows'[Target(r)] = Draft(r)
         /\ \A i \in Id \ {Target(r)} : rows'[i] = rows[i]
         /\ \/ rows[Target(r)] = NoRow /\ Draft(r) \in NewRow
            \/ /\ rows[Target(r)] # NoRow
               /\ Draft(r) \in Edits(rows[Target(r)])
               /\ Draft(r).version = rows[Target(r)].version + 1
               /\ HasKey(rows[Target(r)], Draft(r))
  <1>1. Saved(r) /\ req[r] \in Sent
    BY DEF Commit, Saved, IInv, Idle
  <1>2. Target(r) \in Id /\ Draft(r) \in Row /\ DraftOK(r) /\ SavedOK(r)
    BY <1>1 DEF Sent, Target, Draft, IInv, Saved, Busy
  <1>3. /\ rows' \in [Id -> Row \cup {NoRow}]
        /\ rows'[Target(r)] = Draft(r)
        /\ \A i \in Id \ {Target(r)} : rows'[i] = rows[i]
    BY <1>2 DEF Commit, Target, Draft, IInv, TypeOK
  <1>4. Draft(r).version \in Nat \ {0}
    BY <1>2, RowFields
  <1>5. CASE Draft(r).version = 1
    BY <1>1, <1>2, <1>3, <1>5 DEF DraftOK, NewRow
  <1>6. CASE Draft(r).version > 1
    <2>1. rows[Target(r)] \in Row /\ rows[Target(r)] # NoRow
      BY <1>2, <1>6 DEF DraftOK, IInv, TypeOK
    <2>2. rows[Target(r)].version = Draft(r).version - 1
      BY <1>2, <1>6 DEF SavedOK, CasWins
    <2>3. Draft(r).version = rows[Target(r)].version + 1
      BY <1>4, <2>1, <2>2, RowFields
    <2>4. QED
      BY <1>1, <1>2, <1>3, <1>6, <2>1, <2>3 DEF DraftOK
  <1>7. QED
    BY <1>4, <1>5, <1>6

LEMMA CommitStep ==
  ASSUME IInv, NEW r \in Request, Commit(r)
  PROVE  IInv'
  <1> DEFINE t == Target(r)
             d == Draft(r)
  <1>1. /\ Saved(r) /\ Busy(r) /\ DraftOK(r) /\ SavedOK(r)
        /\ t \in Id /\ d \in Row
        /\ rows' \in [Id -> Row \cup {NoRow}]
        /\ rows'[t] = d
        /\ \A i \in Id \ {t} : rows'[i] = rows[i]
        /\ \/ rows[t] = NoRow /\ d \in NewRow
           \/ /\ rows[t] # NoRow
              /\ d \in Edits(rows[t])
              /\ d.version = rows[t].version + 1
              /\ HasKey(rows[t], d)
    BY CommittedRow DEF Saved, Busy
  <1>2. /\ req' \in [Request -> {Idle} \cup Sent]
        /\ req'[r] = Idle
        /\ \A q \in Request \ {r} : req'[q] = req[q]
        /\ now' = now
    BY DEF IInv, Commit
  <1>3. \A q \in Request :
          /\ Busy(q)' => q # r /\ Busy(q) /\ Target(q)' = Target(q) /\ Draft(q)' = Draft(q)
          /\ Saved(q)' => q # r /\ Saved(q) /\ Target(q)' = Target(q) /\ Draft(q)' = Draft(q)
    BY <1>2 DEF Busy, Saved, Idle, Target, Draft
  <1> HIDE DEF t, d
  <1>4. d # NoRow /\ d.version \in Nat \ {0}
    BY <1>1, RowFields
  <1>5. TypeOK'
    <2>1. \A q \in Request : req'[q] = Idle \/ req'[q] \in Sent
      BY <1>2
    <2>2. QED
      BY <1>1, <1>2, <2>1 DEF IInv, TypeOK, Sent
  <1>6. \A j \in Live \ {t} : d.table \in UniqueKeyed => ~ HasKey(rows[j], d)
    BY <1>1 DEF SavedOK, IndexAccepts, t, d
  <1>7. KeysAreUnique'
    <2> SUFFICES ASSUME NEW i \in Live', NEW j \in Live', rows'[i].table \in UniqueKeyed,
                        HasKey(rows'[i], rows'[j])
                 PROVE  i = j
      BY DEF KeysAreUnique, HasKey
    <2>1. CASE i = t /\ j # t
      BY <1>1, <1>6, <2>1 DEF Live, Exists, HasKey
    <2>2. CASE i # t /\ j = t
      BY <1>1, <1>6, <2>2 DEF Live, Exists, HasKey
    <2>3. CASE i # t /\ j # t
      BY <1>1, <2>3 DEF IInv, KeysAreUnique, Live, Exists, HasKey
    <2>4. QED
      BY <2>1, <2>2, <2>3
  <1>8. ASSUME NEW j \in Live'
        PROVE  EndedOnce(rows[j])'
    <2>1. CASE j = t
      BY <1>1, <2>1 DEF DraftOK, EndedOnce, d
    <2>2. CASE j # t
      BY <1>1, <2>2 DEF IInv, Live, Exists, EndedOnce
    <2>3. QED
      BY <2>1, <2>2
  <1>9. ASSUME NEW q \in Request, Busy(q)'
        PROVE  DraftOK(q)'
    <2>1. q # r /\ Busy(q) /\ Target(q)' = Target(q) /\ Draft(q)' = Draft(q) /\ DraftOK(q)
      BY <1>3, <1>9 DEF IInv
    <2>2. Draft(q) \in Row /\ Target(q) \in Id
      BY <2>1 DEF IInv, Busy, Idle, Sent, Draft, Target
    <2>3. Draft(q).version \in Nat \ {0}
      BY <2>2, RowFields
    <2>4. CASE Target(q) # t
      <3>1. rows'[Target(q)] = rows[Target(q)]
        BY <1>1, <2>2, <2>4
      <3>2. QED
        BY <1>3, <2>1, <3>1 DEF DraftOK
    <2>5. CASE Target(q) = t
      <3>1. Draft(q).version # 1
        BY <1>1, <2>1, <2>5 DEF DraftOK, t
      <3>2. /\ rows[t] # NoRow
            /\ HasKey(rows[t], Draft(q))
            /\ Draft(q).version <= rows[t].version + 1
        BY <2>1, <2>3, <2>5, <3>1 DEF DraftOK
      <3>3. d.version = rows[t].version + 1 /\ HasKey(d, Draft(q))
        BY <1>1, <3>2 DEF HasKey
      <3>4. rows[t].version \in Nat
        BY <1>1, <3>2, RowFields DEF IInv, TypeOK
      <3>5. Draft(q).version <= d.version + 1 /\ Draft(q).version # d.version + 1
        BY <2>3, <3>2, <3>3, <3>4
      <3>6. EndedOnce(Draft(q))
        BY <2>1 DEF DraftOK
      <3>7. QED
        BY <1>1, <1>4, <2>1, <2>5, <3>1, <3>3, <3>5, <3>6 DEF DraftOK
    <2>6. QED
      BY <2>4, <2>5
  <1>10. ASSUME NEW q \in Request, Saved(q)'
         PROVE  SavedOK(q)'
    <2>1. q # r /\ Saved(q) /\ Target(q)' = Target(q) /\ Draft(q)' = Draft(q) /\ SavedOK(q)
      BY <1>3, <1>10 DEF IInv
    <2>2. Target(q) # t /\ (HasKey(d, Draft(q)) => Draft(q).table \notin UniqueKeyed)
      BY <1>1, <2>1 DEF SavedOK, t, d
    <2>3. Target(q) \in Id
      BY <2>1 DEF IInv, Saved, Idle, Sent, Target
    <2>4. CasWins(Target(q), Draft(q))'
      BY <1>1, <2>1, <2>2, <2>3 DEF SavedOK, CasWins
    <2>5. IndexAccepts(Target(q), Draft(q))'
      <3>1. ASSUME Draft(q).table \in UniqueKeyed, NEW j \in Live', HasKey(rows'[j], Draft(q))
            PROVE  j = Target(q)
        <4>1. j # t
          BY <1>1, <2>2, <3>1
        <4>2. j \in Live /\ rows'[j] = rows[j]
          BY <1>1, <3>1, <4>1 DEF Live, Exists
        <4>3. QED
          BY <2>1, <3>1, <4>2 DEF SavedOK, IndexAccepts
      <3>2. QED
        BY <2>1, <3>1 DEF IndexAccepts, HasKey
    <2>6. QED
      BY <1>3, <2>1, <2>4, <2>5 DEF SavedOK
  <1>11. QED
    BY <1>2, <1>5, <1>7, <1>8, <1>9, <1>10 DEF IInv

LEMMA TickStep ==
  ASSUME IInv, UNCHANGED <<rows, req>>, now' \in 0 .. MaxNow
  PROVE  IInv'
  BY DEF IInv, TypeOK, KeysAreUnique, DraftOK, SavedOK, CasWins, IndexAccepts, Live, Exists,
         HasKey, EndedOnce, Busy, Saved, Draft, Target

LEMMA StepIInv == IInv /\ [Next]_vars => IInv'
  <1> SUFFICES ASSUME IInv, [Next]_vars
               PROVE  IInv'
    OBVIOUS
  <1>1. ASSUME NEW r \in Request, Requested(r)
        PROVE  IInv'
    BY <1>1, RequestsDraft, DraftStep
  <1>2. ASSUME NEW r \in Request, Save(r)
        PROVE  IInv'
    BY <1>2, SaveStep
  <1>3. ASSUME NEW r \in Request, Refuse(r) \/ Abort(r)
        PROVE  IInv'
    BY <1>3, RollbackStep DEF Refuse, Abort
  <1>4. ASSUME NEW r \in Request, Commit(r)
        PROVE  IInv'
    BY <1>4, CommitStep
  <1>5. CASE Tick
    <2>1. now' \in 0 .. MaxNow
      BY <1>5, IamTablesAssumption DEF Tick, IInv, TypeOK
    <2>2. QED
      BY <1>5, <2>1, TickStep DEF Tick
  <1>6. CASE UNCHANGED vars
    <2>1. now' \in 0 .. MaxNow
      BY <1>6 DEF vars, IInv, TypeOK
    <2>2. QED
      BY <1>6, <2>1, TickStep DEF vars
  <1>7. QED
    BY <1>1, <1>2, <1>3, <1>4, <1>5, <1>6 DEF Next, Requested

-----------------------------------------------------------------------------
(* Theorems *)

\* What the requests of save(), commit and rollback keep true together.
THEOREM InductiveInvariant == Spec => []IInv
  BY InitIInv, StepIInv, PTL DEF Spec

\* Every row has the shape of its table, whatever requests write.
THEOREM TypeCorrect == Spec => []TypeOK
  <1>1. IInv => TypeOK
    BY DEF IInv
  <1>2. QED
    BY <1>1, InductiveInvariant, PTL

\* No two roles, permissions or tenants have one key: the check before a creation races,
\* and the unique indexes make up for it.
THEOREM KeysStayUnique == Spec => []KeysAreUnique
  <1>1. IInv => KeysAreUnique
    BY DEF IInv
  <1>2. QED
    BY <1>1, InductiveInvariant, PTL

-----------------------------------------------------------------------------
(* The refinement of Registers *)

LEMMA RegisterEdits == \A row : Register!Edits(row) = Edits(row)
  BY DEF Edits, Register!Edits, AddPermission, Register!AddPermission, RemovePermission,
         Register!RemovePermission, Revoke, Register!Revoke, Suspend, Register!Suspend,
         Ended, Register!Ended, Touched, Register!Touched

\* A commit inserts a row or applies one change of its aggregate to the row there is.
LEMMA CommitWritesRegister ==
  ASSUME IInv, NEW r \in Request, Commit(r)
  PROVE  Register!Next
  <1>1. /\ Target(r) \in Id
        /\ rows' = [rows EXCEPT ![Target(r)] = Draft(r)]
        /\ \/ rows[Target(r)] = NoRow /\ Draft(r) \in NewRow
           \/ rows[Target(r)] # NoRow /\ Draft(r) \in Edits(rows[Target(r)])
    BY CommittedRow DEF Commit, Target, Draft
  <1>2. CASE rows[Target(r)] = NoRow /\ Draft(r) \in NewRow
    <2>1. Register!Insert(Target(r))
      BY <1>1, <1>2 DEF Register!Insert
    <2>2. QED
      BY <1>1, <2>1 DEF Register!Next
  <1>3. CASE rows[Target(r)] # NoRow /\ Draft(r) \in Edits(rows[Target(r)])
    <2>1. Draft(r) \in Register!Edits(rows[Target(r)])
      BY <1>3, RegisterEdits
    <2>2. Register!Edit(Target(r))
      BY <1>1, <1>3, <2>1 DEF Register!Edit
    <2>3. QED
      BY <1>1, <2>2 DEF Register!Next
  <1>4. QED
    BY <1>1, <1>2, <1>3

LEMMA StepWritesRegister == IInv /\ [Next]_vars => [Register!Next]_rows
  <1> SUFFICES ASSUME IInv, [Next]_vars
               PROVE  Register!Next \/ UNCHANGED rows
    OBVIOUS
  <1>1. ASSUME NEW r \in Request, Requested(r)
        PROVE  UNCHANGED rows
    BY <1>1, RequestsDraft DEF Drafts
  <1>2. ASSUME NEW r \in Request, Commit(r)
        PROVE  Register!Next
    BY <1>2, CommitWritesRegister
  <1>3. QED
    BY <1>1, <1>2 DEF Next, Requested, Save, Refuse, Abort, Tick, vars

\* Optimistic locking makes each row an atomic register: every commit applies one change
\* to the value it replaces, so none is lost, made twice or made of a stale copy.
THEOREM RowsAreRegisters == Spec => ImplementsRegisters
  <1>1. Init => Register!Init
    BY DEF Init, Register!Init
  <1>2. QED
    BY <1>1, StepWritesRegister, InductiveInvariant, PTL DEF Spec, ImplementsRegisters, Register!Spec

-----------------------------------------------------------------------------
(* Loops over a list, one entry after another *)

LEMMA NatMin ==
  ASSUME NEW T \in SUBSET Nat, T # {}
  PROVE  \E x \in T : \A y \in T : x <= y
  <1> DEFINE R == OpToRel(<, Nat)
  <1>1. IsWellFoundedOn(R, Nat)
    BY NatLessThanWellFounded
  <1>2. \A x, y \in Nat : y < x => <<y, x>> \in R
    BY DEF OpToRel
  <1> HIDE DEF R
  <1>3. PICK x \in T : \A y \in T : ~ (<<y, x>> \in R)
    BY <1>1, WFMin, Zenon
  <1>4. ASSUME NEW y \in T
        PROVE  ~ (y < x)
    BY <1>2, <1>3
  <1>5. QED
    BY <1>4

\* What holds before the first entry, and of each if of the one before, holds of all.
LEMMA UpTo ==
  ASSUME NEW N \in Nat, NEW S, 0 \in S, \A n \in 1 .. N : n - 1 \in S => n \in S
  PROVE  \A n \in 0 .. N : n \in S
  <1> DEFINE T == (0 .. N) \ S
  <1>1. CASE T = {}
    BY <1>1
  <1>2. CASE T # {}
    <2>1. T \in SUBSET Nat
      OBVIOUS
    <2> HIDE DEF T
    <2>2. PICK x \in T : \A y \in T : x <= y
      BY <1>2, <2>1, NatMin
    <2> USE DEF T
    <2>3. x \in 1 .. N /\ x - 1 \in 0 .. N /\ x - 1 \notin T
      BY <2>2
    <2>4. QED
      BY <2>2, <2>3
  <1>3. QED
    BY <1>1, <1>2

\* A loop that makes a T of a T and the next entry comes to its end.
IsLoop(f, N, start, step) ==
  f = [n \in 0 .. N |-> IF n = 0 THEN start ELSE step[n][f[n - 1]]]

LEMMA LoopEnds ==
  ASSUME NEW N \in Nat, NEW T, NEW start \in T, NEW step,
         \A n \in 1 .. N, x \in T : step[n][x] \in T
  PROVE  \E f \in [0 .. N -> T] : IsLoop(f, N, start, step)
  <1> DEFINE Runs(n, f) == f[0] = start /\ \A k \in 1 .. n : f[k] = step[k][f[k - 1]]
             S == {n \in 0 .. N : \E f \in [0 .. n -> T] : Runs(n, f)}
  <1>1. 0 \in S
    <2> DEFINE f == [k \in 0 .. 0 |-> start]
    <2>1. f \in [0 .. 0 -> T] /\ Runs(0, f)
      OBVIOUS
    <2> HIDE DEF f
    <2>2. QED
      BY <2>1
  <1>2. ASSUME NEW n \in 1 .. N, n - 1 \in S
        PROVE  n \in S
    <2>1. PICK f \in [0 .. n - 1 -> T] : Runs(n - 1, f)
      BY <1>2
    <2> DEFINE g == [k \in 0 .. n |-> IF k = n THEN step[n][f[n - 1]] ELSE f[k]]
    <2>2. n - 1 \in 0 .. n - 1 /\ n \in 0 .. N /\ 0 \in 0 .. n - 1
      OBVIOUS
    <2>3. step[n][f[n - 1]] \in T
      BY <2>1, <2>2
    <2>4. g \in [0 .. n -> T]
      BY <2>1, <2>3
    <2>5. g[0] = start
      BY <2>1, <2>2
    <2>6. ASSUME NEW k \in 1 .. n
          PROVE  g[k] = step[k][g[k - 1]]
      <3>1. CASE k = n
        BY <3>1, <2>2
      <3>2. CASE k # n
        <4>1. k \in 1 .. n - 1 /\ k \in 0 .. n /\ k - 1 \in 0 .. n /\ k - 1 # n
          BY <3>2
        <4>2. g[k] = f[k] /\ g[k - 1] = f[k - 1]
          BY <3>2, <4>1
        <4>3. QED
          BY <2>1, <4>1, <4>2
      <3>3. QED
        BY <3>1, <3>2
    <2> HIDE DEF g
    <2>7. Runs(n, g)
      BY <2>5, <2>6
    <2>8. QED
      BY <2>2, <2>4, <2>7
  <1> HIDE DEF S
  <1>3. N \in S
    BY <1>1, <1>2, UpTo
  <1> USE DEF S
  <1>4. PICK f \in [0 .. N -> T] : Runs(N, f)
    BY <1>3
  <1>5. ASSUME NEW n \in 0 .. N
        PROVE  f[n] = IF n = 0 THEN start ELSE step[n][f[n - 1]]
    BY <1>4
  <1> DEFINE g == [n \in 0 .. N |-> IF n = 0 THEN start ELSE step[n][f[n - 1]]]
  <1>6. f = g
    BY <1>4, <1>5
  <1>7. QED
    BY <1>6 DEF IsLoop

-----------------------------------------------------------------------------
(* dedupeMostSpecificFirst *)

\* The first n grants as bestDepthByRole notes them: each role once, at its deepest grant.
Depth(grants, chain, m) == DepthOf(chain, grants[m].scope)
Keys(grants) == {grants[m].key : m \in DOMAIN grants}
Entry(grants) == [key: Keys(grants), depth: Nat]

Notes(best, grants, chain, n) ==
  /\ \A i, j \in DOMAIN best : best[i].key = best[j].key => i = j
  /\ \A m \in 1 .. n : \E i \in DOMAIN best : best[i].key = grants[m].key
  /\ \A i \in DOMAIN best : \E m \in 1 .. n :
       best[i].key = grants[m].key /\ best[i].depth = Depth(grants, chain, m)
  /\ \A i \in DOMAIN best, m \in 1 .. n :
       best[i].key = grants[m].key => Depth(grants, chain, m) <= best[i].depth

LEMMA DepthIsNat ==
  ASSUME NEW chain, NEW scope, DOMAIN chain \in SUBSET Nat
  PROVE  DepthOf(chain, scope) \in Nat
  BY DEF DepthOf

LEMMA NotedStep ==
  ASSUME NEW grants, NEW L \in Nat, DOMAIN grants = 1 .. L, NEW n \in 1 .. L,
         NEW chain, DOMAIN chain \in SUBSET Nat, NEW best \in Seq(Entry(grants))
  PROVE  LET new == Noted(best, grants[n], chain)
         IN  /\ new \in Seq(Entry(grants))
             /\ Notes(best, grants, chain, n - 1) => Notes(new, grants, chain, n)
  <1> DEFINE g == grants[n]
             d == Depth(grants, chain, n)
             new == Noted(best, g, chain)
  <1>1. d \in Nat /\ g.key \in Keys(grants) /\ n \in DOMAIN grants
    BY DepthIsNat DEF Depth, Keys
  <1>2. \A i \in DOMAIN best : best[i] \in Entry(grants)
    OBVIOUS
  <1>3. \A m \in 1 .. L : Depth(grants, chain, m) \in Nat
    BY DepthIsNat DEF Depth
  <1>4. CASE \E i \in DOMAIN best : best[i].key = g.key
    <2> DEFINE e(i) == IF best[i].key = g.key /\ d > best[i].depth
                       THEN [best[i] EXCEPT !.depth = d] ELSE best[i]
    <2>1. new = [i \in DOMAIN best |-> e(i)]
      BY <1>4 DEF Noted, Depth
    <2>2. \A i \in DOMAIN best : e(i) \in Entry(grants)
      BY <1>1, <1>2 DEF Entry
    <2>3. \A i \in DOMAIN best :
            /\ e(i).key = best[i].key
            /\ e(i).depth = IF best[i].key = g.key /\ d > best[i].depth THEN d ELSE best[i].depth
      BY <1>2 DEF Entry
    <2> HIDE DEF e
    <2>4. new \in Seq(Entry(grants))
      BY <2>1, <2>2
    <2>5. DOMAIN new = DOMAIN best /\ \A i \in DOMAIN best : new[i] = e(i)
      BY <2>1
    <2>6. \A i \in DOMAIN best :
            /\ new[i].key = best[i].key
            /\ new[i].depth = IF best[i].key = g.key /\ d > best[i].depth THEN d ELSE best[i].depth
      BY <2>3, <2>5
    <2> HIDE DEF new, d, g
    <2>7. ASSUME Notes(best, grants, chain, n - 1)
          PROVE  Notes(new, grants, chain, n)
      <3>1. \A i, j \in DOMAIN new : new[i].key = new[j].key => i = j
        BY <2>5, <2>6, <2>7 DEF Notes
      <3>2. ASSUME NEW m \in 1 .. n
            PROVE  \E i \in DOMAIN new : new[i].key = grants[m].key
        <4>1. CASE m = n
          BY <1>4, <4>1, <2>5, <2>6 DEF g
        <4>2. CASE m # n
          <5>1. m \in 1 .. n - 1
            BY <4>2
          <5>2. QED
            BY <2>5, <2>6, <2>7, <5>1 DEF Notes
        <4>3. QED
          BY <4>1, <4>2
      <3>3. ASSUME NEW i \in DOMAIN new
            PROVE  \E m \in 1 .. n :
                     new[i].key = grants[m].key /\ new[i].depth = Depth(grants, chain, m)
        <4>1. CASE best[i].key = g.key /\ d > best[i].depth
          BY <2>5, <2>6, <4>1 DEF g, d
        <4>2. CASE ~ (best[i].key = g.key /\ d > best[i].depth)
          <5>1. PICK m \in 1 .. n - 1 :
                  best[i].key = grants[m].key /\ best[i].depth = Depth(grants, chain, m)
            BY <2>5, <2>7 DEF Notes
          <5>2. m \in 1 .. n /\ new[i].key = best[i].key /\ new[i].depth = best[i].depth
            BY <2>5, <2>6, <4>2
          <5>3. QED
            BY <5>1, <5>2
        <4>3. QED
          BY <4>1, <4>2
      <3>4. ASSUME NEW i \in DOMAIN new, NEW m \in 1 .. n, new[i].key = grants[m].key
            PROVE  Depth(grants, chain, m) <= new[i].depth
        <4>1. best[i].depth \in Nat /\ best[i].depth <= new[i].depth /\ new[i].depth \in Nat
          BY <1>1, <1>2, <2>5, <2>6 DEF Entry, d
        <4>2. CASE m = n
          BY <1>1, <3>4, <4>1, <4>2, <2>5, <2>6 DEF g, d
        <4>3. CASE m # n
          <5>1. m \in 1 .. n - 1 /\ m \in 1 .. L
            BY <4>3
          <5>2. Depth(grants, chain, m) <= best[i].depth
            BY <2>5, <2>6, <2>7, <3>4, <5>1 DEF Notes
          <5>3. QED
            BY <1>3, <4>1, <5>1, <5>2
        <4>4. QED
          BY <4>2, <4>3
      <3>5. QED
        BY <3>1, <3>2, <3>3, <3>4 DEF Notes
    <2>8. QED
      BY <2>4, <2>7 DEF new, g
  <1>5. CASE ~ \E i \in DOMAIN best : best[i].key = g.key
    <2> DEFINE e == [key |-> g.key, depth |-> d]
    <2>1. new = Append(best, e)
      BY <1>5 DEF Noted, Depth
    <2>2. e \in Entry(grants) /\ e.key = g.key /\ e.depth = d
      BY <1>1 DEF Entry
    <2> HIDE DEF e
    <2>3. new \in Seq(Entry(grants)) /\ Len(best) \in Nat
      BY <2>1, <2>2
    <2>4. DOMAIN best = 1 .. Len(best) /\ DOMAIN new = 1 .. Len(best) + 1
      BY <2>1, <2>2
    <2>5. new[Len(best) + 1] = e /\ \A i \in DOMAIN best : new[i] = best[i]
      BY <2>1, <2>2
    <2> HIDE DEF new, d, g
    <2>6. ASSUME Notes(best, grants, chain, n - 1)
          PROVE  Notes(new, grants, chain, n)
      <3>0. \A i \in DOMAIN new : i \in DOMAIN best \/ i = Len(best) + 1
        BY <2>3, <2>4
      <3>1. \A i, j \in DOMAIN new : new[i].key = new[j].key => i = j
        BY <1>5, <2>2, <2>5, <2>6, <3>0 DEF Notes
      <3>2. ASSUME NEW m \in 1 .. n
            PROVE  \E i \in DOMAIN new : new[i].key = grants[m].key
        <4>1. CASE m = n
          BY <4>1, <2>2, <2>3, <2>4, <2>5 DEF g
        <4>2. CASE m # n
          <5>1. m \in 1 .. n - 1
            BY <4>2
          <5>2. PICK i \in DOMAIN best : best[i].key = grants[m].key
            BY <2>6, <5>1 DEF Notes
          <5>3. i \in DOMAIN new
            BY <2>3, <2>4
          <5>4. QED
            BY <2>5, <5>2, <5>3
        <4>3. QED
          BY <4>1, <4>2
      <3>3. ASSUME NEW i \in DOMAIN new
            PROVE  \E m \in 1 .. n :
                     new[i].key = grants[m].key /\ new[i].depth = Depth(grants, chain, m)
        <4>1. CASE i = Len(best) + 1
          <5>1. n \in 1 .. n
            OBVIOUS
          <5>2. QED
            BY <2>2, <2>5, <4>1, <5>1 DEF g, d
        <4>2. CASE i \in DOMAIN best
          <5>1. PICK m \in 1 .. n - 1 :
                  best[i].key = grants[m].key /\ best[i].depth = Depth(grants, chain, m)
            BY <2>6, <4>2 DEF Notes
          <5>2. m \in 1 .. n
            OBVIOUS
          <5>3. QED
            BY <2>5, <4>2, <5>1, <5>2
        <4>3. QED
          BY <3>0, <4>1, <4>2
      <3>4. ASSUME NEW i \in DOMAIN new, NEW m \in 1 .. n, new[i].key = grants[m].key
            PROVE  Depth(grants, chain, m) <= new[i].depth
        <4>1. CASE m = n
          <5>1. i = Len(best) + 1
            BY <1>5, <2>5, <3>0, <3>4, <4>1 DEF g
          <5>2. QED
            BY <1>1, <2>2, <2>5, <4>1, <5>1 DEF d
        <4>2. CASE m # n
          <5>1. m \in 1 .. n - 1
            BY <4>2
          <5>2. PICK j \in DOMAIN best : best[j].key = grants[m].key
            BY <2>6, <5>1 DEF Notes
          <5>3. i \in DOMAIN best
            BY <1>5, <2>2, <2>5, <3>0, <3>4, <5>2
          <5>4. QED
            BY <2>5, <2>6, <3>4, <5>1, <5>3 DEF Notes
        <4>3. QED
          BY <4>1, <4>2
      <3>5. QED
        BY <3>1, <3>2, <3>3, <3>4 DEF Notes
    <2>7. QED
      BY <2>3, <2>6 DEF new, g
  <1>6. QED
    BY <1>4, <1>5

\* The loop notes all the grants.
LEMMA BestNotesAll ==
  ASSUME NEW grants, NEW L \in Nat, DOMAIN grants = 1 .. L, Len(grants) = L,
         NEW chain, DOMAIN chain \in SUBSET Nat
  PROVE  /\ Best(grants, chain) \in Seq(Entry(grants))
         /\ Notes(Best(grants, chain), grants, chain, L)
  <1> DEFINE T == Seq(Entry(grants))
             step == [n \in 1 .. L |-> [b \in T |-> Noted(b, grants[n], chain)]]
  <1>1. << >> \in T
    OBVIOUS
  <1>2. \A n \in 1 .. L, b \in T :
          /\ Noted(b, grants[n], chain) \in T
          /\ Notes(b, grants, chain, n - 1) => Notes(Noted(b, grants[n], chain), grants, chain, n)
    BY NotedStep
  <1> HIDE DEF T
  <1>3. \A n \in 1 .. L, b \in T : step[n][b] = Noted(b, grants[n], chain)
    OBVIOUS
  <1> HIDE DEF step
  <1>4. PICK f \in [0 .. L -> T] : IsLoop(f, L, << >>, step)
    <2>1. \A n \in 1 .. L, x \in T : step[n][x] \in T
      BY <1>2, <1>3
    <2>2. QED
      BY <1>1, <2>1, LoopEnds
  <1>5. f = [n \in 0 .. L |-> IF n = 0 THEN << >> ELSE Noted(f[n - 1], grants[n], chain)]
    <2>1. \A n \in 0 .. L : n # 0 => step[n][f[n - 1]] = Noted(f[n - 1], grants[n], chain)
      BY <1>3, <1>4
    <2>2. QED
      BY <1>4, <2>1 DEF IsLoop
  <1> DEFINE after == CHOOSE a :
               a = [n \in 0 .. L |-> IF n = 0 THEN << >> ELSE Noted(a[n - 1], grants[n], chain)]
  <1>6. after = [n \in 0 .. L |-> IF n = 0 THEN << >> ELSE Noted(after[n - 1], grants[n], chain)]
    BY <1>5
  <1>7. Best(grants, chain) = after[L]
    BY DEF Best
  <1> HIDE DEF after
  <1> DEFINE S == {n \in 0 .. L : after[n] \in T /\ Notes(after[n], grants, chain, n)}
  <1>8. 0 \in S
    BY <1>1, <1>6 DEF Notes
  <1>9. ASSUME NEW n \in 1 .. L, n - 1 \in S
        PROVE  n \in S
    BY <1>2, <1>6, <1>9
  <1> HIDE DEF S
  <1>10. L \in S
    BY <1>8, <1>9, UpTo
  <1>11. QED
    BY <1>7, <1>10 DEF S, T

\* Sorting puts every entry in a place of its own, deeper ones first.
LEMMA SortedPlaces ==
  ASSUME NEW Key, NEW best \in Seq([key: Key, depth: Nat])
  PROVE  \E at \in [DOMAIN best -> DOMAIN best] :
           /\ \A i \in DOMAIN best : \E n \in DOMAIN best : at[n] = i
           /\ Sorted(best) = [n \in DOMAIN best |-> best[at[n]].key]
           /\ \A m, n \in DOMAIN best : m < n =>
                at[m] # at[n] /\ best[at[m]].depth >= best[at[n]].depth
  <1> DEFINE D == DOMAIN best
             L == Len(best)
             Earlier(i) == {j \in D : Before(best, j, i)}
             p == [i \in D |-> Place(best, i)]
             at == [n \in D |-> CHOOSE i \in D : Place(best, i) = n]
  <1>1. /\ L \in Nat /\ D = 1 .. L /\ D \in SUBSET Nat
        /\ \A i \in D : best[i].depth \in Nat
    <2> DEFINE Noting == [key: Key, depth: Nat]
    <2>0. best \in Seq(Noting)
      OBVIOUS
    <2> HIDE DEF Noting
    <2>1. \A i \in D : best[i] \in Noting
      BY <2>0
    <2>2. \A i \in D : best[i].depth \in Nat
      BY <2>1 DEF Noting
    <2>3. L \in Nat /\ D = 1 .. L
      OBVIOUS
    <2>4. QED
      BY <2>2, <2>3
  <1>2. IsFiniteSet(D) /\ Cardinality(D) = L
    <2>1. 1 \in Int /\ L \in Int
      BY <1>1
    <2>2. IsFiniteSet(1 .. L) /\ Cardinality(1 .. L) = L
      BY <1>1, <2>1, FS_Interval
    <2>3. QED
      BY <1>1, <2>2
  <1> HIDE DEF D, L
  <1>3. /\ \A i \in D : ~ Before(best, i, i)
        /\ \A i, j \in D : i # j => Before(best, i, j) \/ Before(best, j, i)
        /\ \A i, j, k \in D : Before(best, i, j) /\ Before(best, j, k) => Before(best, i, k)
    <2> DEFINE d(i) == best[i].depth
    <2>1. \A i, j : Before(best, i, j) <=> (d(i) > d(j) \/ (d(i) = d(j) /\ i < j))
      BY DEF Before
    <2>2. \A i \in D : i \in Nat /\ d(i) \in Nat
      BY <1>1
    <2> HIDE DEF d
    <2>3. \A i \in D : ~ Before(best, i, i)
      BY <2>1, <2>2
    <2>4. \A i, j \in D : i # j => Before(best, i, j) \/ Before(best, j, i)
      BY <2>1, <2>2
    <2>5. \A i, j, k \in D : Before(best, i, j) /\ Before(best, j, k) => Before(best, i, k)
      BY <2>1, <2>2
    <2>6. QED
      BY <2>3, <2>4, <2>5
  <1>4. \A i \in D : /\ IsFiniteSet(Earlier(i)) /\ Cardinality(Earlier(i)) \in Nat
                     /\ Place(best, i) = 1 + Cardinality(Earlier(i))
    <2>1. ASSUME NEW i \in D
          PROVE  IsFiniteSet(Earlier(i)) /\ Cardinality(Earlier(i)) \in Nat
      <3>1. Earlier(i) \in SUBSET D
        OBVIOUS
      <3> HIDE DEF Earlier
      <3>2. IsFiniteSet(Earlier(i))
        BY <1>2, <3>1, FS_Subset
      <3>3. QED
        BY <3>2, FS_CardinalityType
    <2>2. QED
      BY <2>1 DEF Place, D
  \* What is before another has fewer before it.
  <1>5. ASSUME NEW i \in D, NEW S \in SUBSET D, IsFiniteSet(S), Earlier(i) \subseteq S, i \in S
        PROVE  Place(best, i) <= Cardinality(S)
    <2>1. i \notin Earlier(i)
      BY <1>3
    <2>2. /\ IsFiniteSet(Earlier(i) \cup {i})
          /\ Cardinality(Earlier(i) \cup {i}) = Cardinality(Earlier(i)) + 1
      BY <1>4, <2>1, FS_AddElement
    <2>3. Earlier(i) \cup {i} \in SUBSET S
      BY <1>5
    <2> HIDE DEF Earlier
    <2>4. Cardinality(Earlier(i) \cup {i}) <= Cardinality(S)
      BY <1>5, <2>3, FS_Subset
    <2>5. QED
      BY <1>4, <2>2, <2>4
  <1>6. \A i \in D : Place(best, i) \in D
    <2>1. ASSUME NEW i \in D
          PROVE  Place(best, i) \in D
      <3>1. Place(best, i) <= L
        <4>1. Earlier(i) \subseteq D /\ D \in SUBSET D
          OBVIOUS
        <4>2. QED
          BY <1>2, <1>5, <4>1
      <3>2. Place(best, i) \in Nat /\ Place(best, i) >= 1
        <4> HIDE DEF Earlier
        <4>1. QED
          BY <1>4
      <3>3. QED
        BY <1>1, <3>1, <3>2
    <2>2. QED
      BY <2>1
  <1>7. ASSUME NEW i \in D, NEW j \in D, Before(best, i, j)
        PROVE  Place(best, i) < Place(best, j)
    <2>1. Earlier(i) \subseteq Earlier(j) /\ i \in Earlier(j) /\ Earlier(j) \in SUBSET D
      BY <1>3, <1>7
    <2>2. Place(best, i) <= Cardinality(Earlier(j))
      BY <1>4, <1>5, <2>1
    <2>3. Place(best, j) = 1 + Cardinality(Earlier(j)) /\ Cardinality(Earlier(j)) \in Nat
      BY <1>4
    <2>4. Place(best, i) \in Nat
      BY <1>1, <1>6
    <2> HIDE DEF Earlier
    <2>5. QED
      BY <2>2, <2>3, <2>4
  <1>8. p \in [D -> D] /\ \A i, j \in D : p[i] = p[j] => i = j
    <2>1. ASSUME NEW i \in D, NEW j \in D, i # j
          PROVE  Place(best, i) # Place(best, j)
      <3>1. Before(best, i, j) \/ Before(best, j, i)
        BY <1>3, <2>1
      <3>2. Place(best, i) < Place(best, j) \/ Place(best, j) < Place(best, i)
        BY <1>7, <3>1
      <3>3. Place(best, i) \in Nat /\ Place(best, j) \in Nat
        BY <1>1, <1>6
      <3>4. QED
        BY <3>2, <3>3
    <2>2. QED
      BY <1>6, <2>1
  <1>9. \A n \in D : \E i \in D : p[i] = n
    <2> HIDE DEF p
    <2>1. p \in Injection(D, D)
      BY <1>8 DEF Injection, IsInjective
    <2>2. p \in Surjection(D, D)
      BY <1>2, <2>1, FS_Injection
    <2>3. QED
      BY <2>2 DEF Surjection
  <1>10. \A n \in D : at[n] \in D /\ p[at[n]] = n
    <2>1. ASSUME NEW n \in D
          PROVE  at[n] \in D /\ p[at[n]] = n
      <3>1. \E i \in D : Place(best, i) = n
        BY <1>9
      <3>2. QED
        BY <3>1
    <2>2. QED
      BY <2>1
  <1>11. Sorted(best) = [n \in D |-> best[at[n]].key]
    BY DEF Sorted, D
  <1>12. \A i \in D : p[i] = Place(best, i)
    OBVIOUS
  <1>13. at \in [D -> D]
    BY <1>10
  <1> HIDE DEF at, p
  <1>14. \A i \in D : \E n \in D : at[n] = i
    BY <1>6, <1>8, <1>10, <1>12
  <1>15. ASSUME NEW m \in D, NEW n \in D, m < n
         PROVE  at[m] # at[n] /\ best[at[m]].depth >= best[at[n]].depth
    <2>1. at[m] # at[n] /\ at[m] \in D /\ at[n] \in D
      BY <1>1, <1>10, <1>15
    <2>2. ~ Before(best, at[n], at[m])
      BY <1>1, <1>7, <1>10, <1>12, <1>15, <2>1
    <2>3. QED
      BY <1>1, <2>1, <2>2 DEF Before
  <1>16. QED
    BY <1>11, <1>13, <1>14, <1>15 DEF D

-----------------------------------------------------------------------------
(* deriveDepartment *)

\* The loop ends with a grant than which none is deeper.
LEMMA DeepestIs ==
  ASSUME NEW grants, NEW L \in Nat, L >= 1, DOMAIN grants = 1 .. L, Len(grants) = L,
         NEW chain, DOMAIN chain \in SUBSET Nat
  PROVE  \E m \in 1 .. L :
           /\ Deepest(grants, chain) = grants[m]
           /\ \A k \in 1 .. L : Depth(grants, chain, k) <= Depth(grants, chain, m)
  <1> DEFINE T == {grants[m] : m \in 1 .. L}
             step == [n \in 1 .. L |-> [x \in T |-> Deeper(x, grants[n], chain)]]
  <1>1. grants[1] \in T
    OBVIOUS
  <1>2. \A n \in 1 .. L, x \in T : Deeper(x, grants[n], chain) \in T
    BY DEF Deeper
  <1>3. \A n \in 1 .. L, x \in T : step[n][x] = Deeper(x, grants[n], chain)
    OBVIOUS
  <1> HIDE DEF step, T
  <1>4. PICK f \in [0 .. L -> T] : IsLoop(f, L, grants[1], step)
    <2>1. \A n \in 1 .. L, x \in T : step[n][x] \in T
      BY <1>2, <1>3
    <2>2. QED
      BY <1>1, <2>1, LoopEnds
  <1>5. f = [n \in 0 .. L |-> IF n = 0 THEN grants[1] ELSE Deeper(f[n - 1], grants[n], chain)]
    <2>1. \A n \in 0 .. L : n # 0 => step[n][f[n - 1]] = Deeper(f[n - 1], grants[n], chain)
      BY <1>3, <1>4
    <2>2. QED
      BY <1>4, <2>1 DEF IsLoop
  <1> DEFINE after == CHOOSE a :
               a = [n \in 0 .. L |-> IF n = 0 THEN grants[1] ELSE Deeper(a[n - 1], grants[n], chain)]
  <1>6. after = [n \in 0 .. L |-> IF n = 0 THEN grants[1] ELSE Deeper(after[n - 1], grants[n], chain)]
    BY <1>5
  <1>7. Deepest(grants, chain) = after[L]
    BY DEF Deepest
  <1> HIDE DEF after
  <1> DEFINE S == {n \in 0 .. L : \E m \in 1 .. L :
                     /\ after[n] = grants[m]
                     /\ \A k \in 1 .. n : Depth(grants, chain, k) <= Depth(grants, chain, m)}
  <1>8. 0 \in S
    BY <1>6
  <1>9. ASSUME NEW n \in 1 .. L, n - 1 \in S
        PROVE  n \in S
    <2>1. PICK m \in 1 .. L :
            /\ after[n - 1] = grants[m]
            /\ \A k \in 1 .. n - 1 : Depth(grants, chain, k) <= Depth(grants, chain, m)
      BY <1>9
    <2>2. after[n] = IF Depth(grants, chain, n) > Depth(grants, chain, m)
                     THEN grants[n] ELSE grants[m]
      BY <1>6, <2>1 DEF Deeper, Depth
    <2>3. \A k \in 1 .. L : Depth(grants, chain, k) \in Nat
      BY DepthIsNat DEF Depth
    <2>4. \A k \in 1 .. n : k \in 1 .. n - 1 \/ k = n
      OBVIOUS
    <2>5. \A k \in 1 .. n : k \in 1 .. L
      OBVIOUS
    <2>6. CASE Depth(grants, chain, n) > Depth(grants, chain, m)
      BY <2>1, <2>2, <2>3, <2>4, <2>5, <2>6
    <2>7. CASE ~ (Depth(grants, chain, n) > Depth(grants, chain, m))
      BY <2>1, <2>2, <2>3, <2>4, <2>5, <2>7
    <2>8. QED
      BY <2>6, <2>7
  <1> HIDE DEF S
  <1>10. L \in S
    BY <1>8, <1>9, UpTo
  <1>11. QED
    BY <1>7, <1>10 DEF S

-----------------------------------------------------------------------------
(* What a principal resolves to *)

LEMMA ChainOf ==
  ASSUME NEW scope \in Seq(STRING), NEW n \in 1 .. Len(scope)
  PROVE  /\ DOMAIN Chain(scope) = 1 .. Len(scope)
         /\ Chain(scope)[n] = SubSeq(scope, 1, n)
         /\ Len(SubSeq(scope, 1, n)) = n
         /\ n >= 2 => SubSeq(scope, 1, n)[2] = scope[2]
         /\ DepthOf(Chain(scope), SubSeq(scope, 1, n)) = n
  <1>1. \A k \in 1 .. Len(scope) : Len(SubSeq(scope, 1, k)) = k
    OBVIOUS
  <1>2. n >= 2 => SubSeq(scope, 1, n)[2] = scope[2]
    OBVIOUS
  <1>3. /\ DOMAIN Chain(scope) = 1 .. Len(scope)
        /\ \A k \in 1 .. Len(scope) : Chain(scope)[k] = SubSeq(scope, 1, k)
    BY DEF Chain
  <1>4. \A k \in 1 .. Len(scope) : Chain(scope)[k] = SubSeq(scope, 1, n) => k = n
    BY <1>1, <1>3
  <1>5. DepthOf(Chain(scope), SubSeq(scope, 1, n)) = n
    BY <1>3, <1>4 DEF DepthOf
  <1>6. QED
    BY <1>1, <1>2, <1>3, <1>5

\* The query finds the grants that count, and their scopes are on the chain.
LEMMA ActiveAreCounting ==
  ASSUME TypeOK, NEW user \in User, NEW scope \in Scope
  PROVE  /\ ActiveGrants(user, Chain(scope)) = {i \in Live : Counts(i, user, scope)}
         /\ \A i \in Live : Counts(i, user, scope) =>
              \E d \in 1 .. Len(scope) : rows[i].key.scope = SubSeq(scope, 1, d)
  <1>1. scope \in Seq(STRING) /\ scope # << >>
    BY IamTablesAssumption
  <1>2. \A d \in 1 .. Len(scope) :
          DOMAIN Chain(scope) = 1 .. Len(scope) /\ Chain(scope)[d] = SubSeq(scope, 1, d)
    BY <1>1, ChainOf
  <1>3. 1 \in 1 .. Len(scope)
    BY <1>1
  <1>4. DOMAIN Chain(scope) = 1 .. Len(scope)
    BY <1>2, <1>3
  <1>5. ASSUME NEW i \in Live, rows[i].table = "grant"
        PROVE  (rows[i].until = Never \/ now < rows[i].until) <=> IsCurrent(rows[i])
    <2>1. rows[i] \in Row
      BY DEF TypeOK, Live, Exists
    <2>2. rows[i] \in GrantRow
      BY <1>5, <2>1 DEF Row, RoleRow, GrantRow, TenantRow, PermissionRow
    <2>3. rows[i].until \in {Never} \cup 1 .. MaxNow
      BY <2>2 DEF GrantRow
    <2>4. now \in Nat /\ MaxNow \in Nat
      BY IamTablesAssumption DEF TypeOK
    <2>5. rows[i].until # Never => (now < rows[i].until <=> rows[i].until > now)
      BY <2>3, <2>4
    <2>6. QED
      BY <2>5 DEF IsCurrent
  <1>6. ASSUME NEW i \in Live
        PROVE  (\E n \in DOMAIN Chain(scope) : Chain(scope)[n] = rows[i].key.scope)
                 <=> IsAncestorOrSelf(rows[i].key.scope, scope)
    BY <1>2, <1>4 DEF IsAncestorOrSelf
  <1>7. \A i \in Live : i \in ActiveGrants(user, Chain(scope)) <=> Counts(i, user, scope)
    BY <1>5, <1>6 DEF ActiveGrants, Counts, IsEffective
  <1>8. ActiveGrants(user, Chain(scope)) \subseteq Live
    BY DEF ActiveGrants
  <1>9. QED
    BY <1>7, <1>8 DEF Counts, IsAncestorOrSelf

\* What ResolvesExactly compares with.
Counting(user, scope) == {i \in Live : Counts(i, user, scope)}
KeyOf(i) == rows[rows[i].key.role].key
LenOf(i) == Len(rows[i].key.scope)
DepthOfRole(counting, scope, k) ==
  CHOOSE d \in 1 .. Len(scope) :
    /\ \E i \in counting : KeyOf(i) = k /\ LenOf(i) = d
    /\ \A i \in counting : KeyOf(i) = k => LenOf(i) <= d
DeepestOf(counting) == {i \in counting : \A j \in counting : LenOf(j) <= LenOf(i)}

IsExact(roles, department, user, scope) ==
  LET counting == Counting(user, scope)
  IN  /\ {roles[n] : n \in DOMAIN roles} = {KeyOf(i) : i \in counting}
      /\ \A m, n \in DOMAIN roles : m < n =>
           /\ roles[m] # roles[n]
           /\ DepthOfRole(counting, scope, roles[m]) >= DepthOfRole(counting, scope, roles[n])
      /\ department \in
           IF DeepestOf(counting) = {} THEN {NoDepartment}
           ELSE {IF LenOf(i) = 1 THEN NoDepartment ELSE scope[2] : i \in DeepestOf(counting)}

LEMMA ResolvesRight ==
  ASSUME TypeOK, NEW user \in User, NEW scope \in Scope,
         NEW order \in Orders(ActiveGrants(user, Chain(scope)))
  PROVE  LET grants == [n \in DOMAIN order |-> Projected(order[n])]
         IN  IsExact(EffectiveRoles(grants, Chain(scope)), Department(grants, Chain(scope)), user, scope)
  <1> DEFINE counting == Counting(user, scope)
             chain == Chain(scope)
             L == Cardinality(counting)
             grants == [n \in DOMAIN order |-> Projected(order[n])]
             best == Best(grants, chain)
             roles == EffectiveRoles(grants, chain)
  <1>1. scope \in Seq(STRING) /\ scope # << >> /\ Len(scope) \in Nat /\ 1 \in 1 .. Len(scope)
    BY IamTablesAssumption
  <1>2. DOMAIN chain = 1 .. Len(scope) /\ DOMAIN chain \in SUBSET Nat
    <2>1. DOMAIN chain = 1 .. Len(scope)
      BY <1>1, ChainOf
    <2>2. QED
      BY <2>1
  <1>3. ActiveGrants(user, chain) = counting
    BY ActiveAreCounting DEF Counting
  <1>4. L \in Nat
    <2>1. counting \in SUBSET Id
      BY DEF Counting, Live
    <2> HIDE DEF counting
    <2>2. IsFiniteSet(counting)
      BY <2>1, IamTablesAssumption, FS_Subset
    <2>3. QED
      BY <2>2, FS_CardinalityType
  <1>5. order \in Bijection(1 .. L, counting)
    BY <1>3 DEF Orders
  <1> HIDE DEF L
  <1>6. /\ DOMAIN order = 1 .. L
        /\ \A m \in 1 .. L : order[m] \in counting
        /\ \A i \in counting : \E m \in 1 .. L : order[m] = i
    BY <1>5 DEF Bijection, Injection, Surjection
  <1>7. \A i \in counting : \E d \in 1 .. Len(scope) :
          rows[i].key.scope = SubSeq(scope, 1, d)
    BY ActiveAreCounting DEF Counting
  <1>8. ASSUME NEW i \in counting
        PROVE  /\ LenOf(i) \in 1 .. Len(scope)
               /\ DepthOf(chain, rows[i].key.scope) = LenOf(i)
               /\ LenOf(i) >= 2 => rows[i].key.scope[2] = scope[2]
    <2>1. PICK d \in 1 .. Len(scope) : rows[i].key.scope = SubSeq(scope, 1, d)
      BY <1>7
    <2>2. Len(rows[i].key.scope) = d /\ DepthOf(chain, rows[i].key.scope) = d
          /\ (d >= 2 => rows[i].key.scope[2] = scope[2])
      BY <1>1, <2>1, ChainOf
    <2>3. QED
      BY <2>2 DEF LenOf
  <1> HIDE DEF counting, chain
  <1>9. /\ DOMAIN grants = 1 .. L
        /\ \A m \in 1 .. L : grants[m].key = KeyOf(order[m])
                              /\ grants[m].scope = rows[order[m]].key.scope
    BY <1>6 DEF Projected, KeyOf
  <1>10. Len(grants) = L
    <2> DEFINE S == {Projected(i) : i \in counting}
    <2>1. grants \in [1 .. L -> S]
      BY <1>6
    <2> HIDE DEF grants, S
    <2>2. grants \in Seq(S)
      BY <1>4, <2>1
    <2>3. QED
      BY <1>4, <2>1, <2>2
  <1> HIDE DEF grants
  <1>11. \A m \in 1 .. L : Depth(grants, chain, m) = LenOf(order[m])
    BY <1>6, <1>8, <1>9 DEF Depth
  <1>12. best \in Seq([key: Keys(grants), depth: Nat]) /\ Notes(best, grants, chain, L)
    BY <1>2, <1>4, <1>9, <1>10, BestNotesAll DEF Entry
  <1>13. PICK at \in [DOMAIN best -> DOMAIN best] :
           /\ \A i \in DOMAIN best : \E n \in DOMAIN best : at[n] = i
           /\ Sorted(best) = [n \in DOMAIN best |-> best[at[n]].key]
           /\ \A m, n \in DOMAIN best : m < n =>
                at[m] # at[n] /\ best[at[m]].depth >= best[at[n]].depth
    BY <1>12, SortedPlaces
  <1>14. roles = Sorted(best)
    BY DEF EffectiveRoles
  <1> HIDE DEF best, roles
  <1>15. DOMAIN roles = DOMAIN best /\ \A n \in DOMAIN best : roles[n] = best[at[n]].key
    BY <1>13, <1>14
  \* The keys noted are those of the grants that count, each at its greatest depth.
  <1>16. \A i \in counting : \E b \in DOMAIN best : best[b].key = KeyOf(i)
    <2>1. ASSUME NEW i \in counting
          PROVE  \E b \in DOMAIN best : best[b].key = KeyOf(i)
      <3>1. PICK m \in 1 .. L : order[m] = i
        BY <1>6
      <3>2. PICK b \in DOMAIN best : best[b].key = grants[m].key
        BY <1>12 DEF Notes
      <3>3. QED
        BY <1>9, <3>1, <3>2
    <2>2. QED
      BY <2>1
  <1>17. ASSUME NEW b \in DOMAIN best
         PROVE  /\ \E i \in counting : KeyOf(i) = best[b].key /\ LenOf(i) = best[b].depth
                /\ \A i \in counting : KeyOf(i) = best[b].key => LenOf(i) <= best[b].depth
    <2>1. PICK m \in 1 .. L : best[b].key = grants[m].key
                              /\ best[b].depth = Depth(grants, chain, m)
      BY <1>12 DEF Notes
    <2>2. ASSUME NEW i \in counting, KeyOf(i) = best[b].key
          PROVE  LenOf(i) <= best[b].depth
      <3>1. PICK k \in 1 .. L : order[k] = i
        BY <1>6
      <3>2. Depth(grants, chain, k) <= best[b].depth
        BY <1>9, <1>12, <2>2, <3>1 DEF Notes
      <3>3. QED
        BY <1>11, <3>1, <3>2
    <2>3. QED
      BY <1>6, <1>9, <1>11, <2>1, <2>2
  <1>18. ASSUME NEW b \in DOMAIN best
         PROVE  DepthOfRole(counting, scope, best[b].key) = best[b].depth
    <2> DEFINE k == best[b].key
               Is(d) == /\ \E i \in counting : KeyOf(i) = k /\ LenOf(i) = d
                        /\ \A i \in counting : KeyOf(i) = k => LenOf(i) <= d
    <2>1. Is(best[b].depth)
      BY <1>17
    <2>2. best[b].depth \in 1 .. Len(scope)
      BY <1>8, <2>1
    <2>3. \A d, e \in 1 .. Len(scope) : Is(d) /\ Is(e) => d = e
      <3>1. \A d, e \in 1 .. Len(scope) : Is(d) /\ Is(e) => d <= e
        OBVIOUS
      <3> HIDE DEF Is
      <3>2. QED
        BY <1>1, <3>1
    <2>4. DepthOfRole(counting, scope, k) = CHOOSE d \in 1 .. Len(scope) : Is(d)
      BY DEF DepthOfRole
    <2> HIDE DEF Is
    <2>5. QED
      BY <2>1, <2>2, <2>3, <2>4
  <1>19. {roles[n] : n \in DOMAIN roles} = {KeyOf(i) : i \in counting}
    <2>1. ASSUME NEW n \in DOMAIN roles
          PROVE  \E i \in counting : roles[n] = KeyOf(i)
      BY <1>13, <1>15, <1>17
    <2>2. ASSUME NEW i \in counting
          PROVE  \E n \in DOMAIN roles : roles[n] = KeyOf(i)
      BY <1>13, <1>15, <1>16
    <2>3. QED
      BY <2>1, <2>2
  <1>20. ASSUME NEW m \in DOMAIN roles, NEW n \in DOMAIN roles, m < n
         PROVE  /\ roles[m] # roles[n]
                /\ DepthOfRole(counting, scope, roles[m]) >= DepthOfRole(counting, scope, roles[n])
    <2>1. at[m] # at[n] /\ best[at[m]].depth >= best[at[n]].depth
          /\ at[m] \in DOMAIN best /\ at[n] \in DOMAIN best
      BY <1>13, <1>15, <1>20
    <2>2. best[at[m]].key # best[at[n]].key
      BY <1>12, <2>1 DEF Notes
    <2>3. QED
      BY <1>15, <1>18, <2>1, <2>2
  <1>21. Department(grants, chain) \in
           IF DeepestOf(counting) = {} THEN {NoDepartment}
           ELSE {IF LenOf(i) = 1 THEN NoDepartment ELSE scope[2] : i \in DeepestOf(counting)}
    <2>1. CASE L = 0
      <3>1. grants = << >>
        BY <1>4, <1>9, <1>10, <2>1
      <3>2. counting = {}
        BY <1>6, <2>1
      <3>3. QED
        BY <3>1, <3>2 DEF Department, DeepestOf
    <2>2. CASE L # 0
      <3>1. PICK m \in 1 .. L :
              /\ Deepest(grants, chain) = grants[m]
              /\ \A k \in 1 .. L : Depth(grants, chain, k) <= Depth(grants, chain, m)
        <4>1. L >= 1
          BY <1>4, <2>2
        <4>2. QED
          BY <1>2, <1>4, <1>9, <1>10, <4>1, DeepestIs
      <3>2. order[m] \in counting /\ \A j \in counting : LenOf(j) <= LenOf(order[m])
        BY <1>6, <1>11, <3>1
      <3>3. order[m] \in DeepestOf(counting)
        BY <3>2 DEF DeepestOf
      <3>4. grants # << >>
        BY <1>4, <1>10, <2>2
      <3>5. Department(grants, chain) = IF LenOf(order[m]) = 1 THEN NoDepartment ELSE scope[2]
        <4>1. /\ Deepest(grants, chain).scope = rows[order[m]].key.scope
              /\ Len(rows[order[m]].key.scope) = LenOf(order[m])
          BY <1>9, <3>1 DEF LenOf
        <4>2. /\ LenOf(order[m]) \in 1 .. Len(scope)
              /\ LenOf(order[m]) >= 2 => rows[order[m]].key.scope[2] = scope[2]
          BY <1>8, <3>2
        <4>3. LenOf(order[m]) = 1 <=> ~ (LenOf(order[m]) >= 2)
          BY <1>1, <4>2
        <4>4. QED
          BY <3>4, <4>1, <4>2, <4>3 DEF Department
      <3>6. QED
        BY <3>3, <3>5
    <2>3. QED
      BY <2>1, <2>2
  <1>22. QED
    BY <1>19, <1>20, <1>21 DEF IsExact, counting, chain, grants, roles

\* Whatever requests have done to the tables, whoever is resolved where, and in whatever
\* order the query lists its rows, the principal is what the grants that count make it.
THEOREM PrincipalsResolveExactly == Spec => []ResolvesExactly
  <1>1. TypeOK => ResolvesExactly
    <2> SUFFICES ASSUME TypeOK, NEW user \in User, NEW scope \in Scope,
                        NEW principal \in ResolvePrincipal(user, scope)
                 PROVE  IsExact(principal.roles, principal.department, user, scope)
      BY DEF ResolvesExactly, IsExact, Counting, KeyOf, LenOf, DepthOfRole, DeepestOf
    <2>1. PICK order \in Orders(ActiveGrants(user, Chain(scope))) :
            LET grants == [n \in DOMAIN order |-> Projected(order[n])]
            IN  principal = [roles |-> EffectiveRoles(grants, Chain(scope)),
                             department |-> Department(grants, Chain(scope))]
      BY DEF ResolvePrincipal
    <2> DEFINE grants == [n \in DOMAIN order |-> Projected(order[n])]
    <2>2. /\ principal.roles = EffectiveRoles(grants, Chain(scope))
          /\ principal.department = Department(grants, Chain(scope))
      BY <2>1
    <2>3. QED
      BY <2>2, ResolvesRight
  <1>2. QED
    BY <1>1, TypeCorrect, PTL
=============================================================================
