------------------------------- MODULE IamTables -------------------------------
(***************************************************************************)
(* The IAM tables of authz-admin: roles with their permissions, role        *)
(* assignments, tenants and the permission catalog, and the principal's     *)
(* effective roles read from them.  A request is one READ COMMITTED         *)
(* transaction: it reads, changes its aggregate in memory, writes one row,  *)
(* keeps that row and its unique key locked, and commits.  One tenant.      *)
(***************************************************************************)
EXTENDS Aggregates, Sequences, FiniteSets, Functions

CONSTANTS
  Request,
  Id,
  NoRow,
  Seed,         \* the rows of seed.ts
  RoleKey,
  Slug,
  Grant,        \* [user, role, scope, until]: the assignments that are asked for
  Scope,        \* the scopes principals are resolved at
  User,
  Unknown,      \* a role id that no role has: assignments do not check theirs
  NoDepartment,
  MaxVersion,   \* bound on the changes of a row
  MaxNow        \* bound on the clock

\* The rows of the four tables.  Only a role changes more than once; roles and
\* permissions do not end.
Unending == {TRUE}
RoleRow == [table: {"role"}, key: RoleKey, items: SUBSET Item, active: Unending,
            until: {Never}, version: 1 .. MaxVersion]
GrantRow == [table: {"grant"}, key: [user: User, role: Id \cup {Unknown}, scope: Scope], items: {{}},
             active: BOOLEAN, until: {Never} \cup 1 .. MaxNow, version: 1 .. 2]
TenantRow == [table: {"tenant"}, key: Slug, items: {{}}, active: BOOLEAN, until: {Never},
              version: 1 .. 2]
PermissionRow == [table: {"permission"}, key: Item, items: {{}}, active: Unending,
                  until: {Never}, version: {1}]
Row == RoleRow \cup GrantRow \cup TenantRow \cup PermissionRow

\* The tables with a unique index on the key.
UniqueKeyed == {"role", "permission", "tenant"}

ASSUME IamTablesAssumption ==
  /\ NoRow \notin Row
  /\ Seed \in [Id -> Row \cup {NoRow}]
  /\ Grant \subseteq [user: User, role: Id \cup {Unknown}, scope: Scope,
                      until: {Never} \cup 1 .. MaxNow]
  /\ Never \notin Nat
  /\ MaxVersion \in Nat /\ MaxVersion >= 2
  /\ MaxNow \in Nat
  /\ IsFiniteSet(Id)
  /\ \A s \in Scope : s \in Seq(STRING) /\ s # << >>

\* The seed inserts new rows, and through the unique indexes.
ASSUME SeedAssumption ==
  \A i, j \in Id : Seed[i] # NoRow /\ Seed[j] # NoRow =>
    /\ Seed[i].version = 1 /\ Seed[i].active
    /\ Seed[i].table = Seed[j].table /\ Seed[i].key = Seed[j].key
         /\ Seed[i].table \in UniqueKeyed => i = j

VARIABLES
  rows,   \* the committed rows of all four tables
  req,    \* what each request has in memory, and whether it is written
  now     \* the clock

vars == <<rows, req, now>>

INSTANCE ScopeChain

Exists(i) == rows[i] # NoRow
Live == {i \in Id : Exists(i)}

Idle == [phase |-> "idle"]
Busy(r) == req[r].phase # "idle"

Init ==
  /\ rows = Seed
  /\ req = [r \in Request |-> Idle]
  /\ now = 0

-----------------------------------------------------------------------------
(* The use cases, up to save() *)

Drafts(r, i, row) ==
  /\ ~ Busy(r)
  /\ req' = [req EXCEPT ![r] = [phase |-> "saving", id |-> i, row |-> row]]
  /\ UNCHANGED <<rows, now>>

\* findByKey, findBySlug: a committed row has the key.
HasKey(row, new) == row.table = new.table /\ row.key = new.key
IsTaken(new) == \E i \in Live : HasKey(rows[i], new)

\* findActiveAssignment: an active one, expired or not.
IsGranted(new) == \E i \in Live : HasKey(rows[i], new) /\ rows[i].active

\* A new aggregate's id is a random UUID: that of no row and of no other request.
IsFresh(i) == ~ Exists(i) /\ \A q \in Request : Busy(q) => req[q].id # i

Creates(r, i, new) == IsFresh(i) /\ Drafts(r, i, new)

CreateRole(r, i, key, items) ==
  /\ ~ IsTaken(NewRole(key, items))
  /\ Creates(r, i, NewRole(key, items))

CreatePermission(r, i, item) ==
  /\ ~ IsTaken(NewPermission(item))
  /\ Creates(r, i, NewPermission(item))

CreateTenant(r, i, slug) ==
  /\ ~ IsTaken(NewTenant(slug))
  /\ Creates(r, i, NewTenant(slug))

AssignRole(r, i, g) ==
  LET new == NewGrant(g.user, g.role, g.scope, g.until)
  IN  /\ ~ IsGranted(new)
      /\ g.until # Never => g.until > now
      /\ Creates(r, i, new)

\* findById and the guard on If-Match; what the aggregate then makes of itself.
Loads(i, table, ifMatch) ==
  /\ Exists(i)
  /\ rows[i].table = table
  /\ ifMatch \in {0, rows[i].version}
  /\ rows[i].version < MaxVersion

AddPermissionToRole(r, i, item, ifMatch) ==
  /\ Loads(i, "role", ifMatch)
  /\ \E row \in AddPermission(rows[i], item) : Drafts(r, i, row)

RemovePermissionFromRole(r, i, item, ifMatch) ==
  /\ Loads(i, "role", ifMatch)
  /\ \E row \in RemovePermission(rows[i], item) : Drafts(r, i, row)

RevokeRole(r, i, ifMatch) ==
  /\ Loads(i, "grant", ifMatch)
  /\ \E row \in Revoke(rows[i]) : Drafts(r, i, row)

SuspendTenant(r, i, ifMatch) ==
  /\ Loads(i, "tenant", ifMatch)
  /\ \E row \in Suspend(rows[i]) : Drafts(r, i, row)

-----------------------------------------------------------------------------
(* save() and the end of the transaction *)

\* guardOptimisticLock: the row is still the one before the aggregate's; no guard.
AnyRow(i, new) == TRUE
CasWins(i, new) == new.version > 1 => rows[i].version = new.version - 1

IndexAccepts(i, new) ==
  new.table \in UniqueKeyed => \A j \in Live : HasKey(rows[j], new) => j = i

\* Another transaction has written the row, or the same unique key: PostgreSQL waits.
IsLocked(r) ==
  \E q \in Request \ {r} :
    /\ req[q].phase = "saved"
    /\ \/ req[q].id = req[r].id
       \/ HasKey(req[q].row, req[r].row) /\ req[r].row.table \in UniqueKeyed

Save(r) ==
  /\ req[r].phase = "saving"
  /\ ~ IsLocked(r)
  /\ CasWins(req[r].id, req[r].row)
  /\ IndexAccepts(req[r].id, req[r].row)
  /\ req' = [req EXCEPT ![r].phase = "saved"]
  /\ UNCHANGED <<rows, now>>

\* A compare-and-set that matches no row, and a unique key that is there.
Refuse(r) ==
  /\ req[r].phase = "saving"
  /\ ~ IsLocked(r)
  /\ ~ (CasWins(req[r].id, req[r].row) /\ IndexAccepts(req[r].id, req[r].row))
  /\ req' = [req EXCEPT ![r] = Idle]
  /\ UNCHANGED <<rows, now>>

\* The events are dispatched, to a logger, and the interceptor commits.
Commit(r) ==
  /\ req[r].phase = "saved"
  /\ rows' = [rows EXCEPT ![req[r].id] = req[r].row]
  /\ req' = [req EXCEPT ![r] = Idle]
  /\ UNCHANGED now

\* The connection or the process fails: the transaction is rolled back.
Abort(r) ==
  /\ Busy(r)
  /\ req' = [req EXCEPT ![r] = Idle]
  /\ UNCHANGED <<rows, now>>

Tick ==
  /\ now < MaxNow
  /\ now' = now + 1
  /\ UNCHANGED <<rows, req>>

-----------------------------------------------------------------------------
(* What each controller is asked for; the callers its guards turn away change nothing. *)

\* parseEtag: a version, or 0 for a header that is absent or holds no number.
IfMatch == 0 .. MaxVersion

RoleController(r) ==
  \/ \E i \in Id, key \in RoleKey, items \in SUBSET Item : CreateRole(r, i, key, items)
  \/ \E i \in Live, item \in Item, ifMatch \in IfMatch :
       \/ AddPermissionToRole(r, i, item, ifMatch)
       \/ RemovePermissionFromRole(r, i, item, ifMatch)

RoleAssignmentController(r) ==
  \/ \E i \in Id, g \in Grant : AssignRole(r, i, g)
  \/ \E i \in Live, ifMatch \in IfMatch : RevokeRole(r, i, ifMatch)

TenantController(r) ==
  \/ \E i \in Id, slug \in Slug : CreateTenant(r, i, slug)
  \/ \E i \in Live, ifMatch \in IfMatch : SuspendTenant(r, i, ifMatch)

PermissionController(r) == \E i \in Id, item \in Item : CreatePermission(r, i, item)

Next ==
  \/ \E r \in Request :
       \/ RoleController(r)
       \/ RoleAssignmentController(r)
       \/ TenantController(r)
       \/ PermissionController(r)
       \/ Save(r)
       \/ Refuse(r)
       \/ Commit(r)
       \/ Abort(r)
  \/ Tick

Spec == Init /\ [][Next]_vars

-----------------------------------------------------------------------------
(* typeorm-principal.projection.ts *)

IsCurrent(row) == row.until = Never \/ row.until > now
IsActive(row) == row.active
IsEffective(row) == row.active /\ IsCurrent(row)

\* findActiveGrants: the rows of the inner join with roles, in no order.
HasRole(i) == rows[i].key.role \in Live /\ rows[rows[i].key.role].table = "role"
ActiveGrants(user, chain) ==
  {i \in Live :
     /\ rows[i].table = "grant"
     /\ rows[i].key.user = user
     /\ \E n \in DOMAIN chain : chain[n] = rows[i].key.scope
     /\ IsEffective(rows[i])
     /\ HasRole(i)}

Orders(S) == Bijection(1 .. Cardinality(S), S)
Projected(i) == [key |-> rows[rows[i].key.role].key, scope |-> rows[i].key.scope]

\* ResolvePrincipalUseCase: the answers there may be, one for each order of those rows.
ResolvePrincipal(user, scope) ==
  {LET chain == Chain(scope)
       grants == [n \in DOMAIN order |-> Projected(order[n])]
   IN  [roles |-> EffectiveRoles(grants, chain), department |-> Department(grants, chain)] :
     order \in Orders(ActiveGrants(user, Chain(scope)))}

-----------------------------------------------------------------------------
(* Properties *)

TypeOK ==
  /\ rows \in [Id -> Row \cup {NoRow}]
  /\ \A r \in Request :
       \/ req[r] = Idle
       \/ req[r] \in [phase: {"saving", "saved"}, id: Id, row: Row]
  /\ now \in 0 .. MaxNow

\* However creations race, no two roles, permissions or tenants have one key.
KeysAreUnique ==
  \A i, j \in Live : rows[i].table \in UniqueKeyed /\ HasKey(rows[i], rows[j]) => i = j

\* No acknowledged change is lost or made twice, although requests work on copies:
\* two revocations of a grant cannot both succeed, nor can one undo an added permission.
NewRow == {row \in Row : row.version = 1 /\ row.active}
Register == INSTANCE Registers
ImplementsRegisters == Register!Spec

\* Where a grant counts, and the grants that count for a user at a scope.
IsAncestorOrSelf(s, t) == \E n \in 1 .. Len(t) : s = SubSeq(t, 1, n)
Counts(i, user, scope) ==
  /\ rows[i].table = "grant" /\ rows[i].key.user = user
  /\ IsAncestorOrSelf(rows[i].key.scope, scope)
  /\ rows[i].active /\ (rows[i].until = Never \/ now < rows[i].until)
  /\ HasRole(i)

\* Whatever requests have done to the tables, and in whatever order the join lists
\* its rows, a principal has exactly the roles granted at the scope or above it and
\* neither revoked nor expired, each once, those of deeper grants first, and the
\* department of the deepest one.
ResolvesExactly ==
  \A user \in User, scope \in Scope :
    LET counting == {i \in Live : Counts(i, user, scope)}
        key(i) == rows[rows[i].key.role].key
        depth(k) == CHOOSE d \in 1 .. Len(scope) :
                      /\ \E i \in counting : key(i) = k /\ Len(rows[i].key.scope) = d
                      /\ \A i \in counting : key(i) = k => Len(rows[i].key.scope) <= d
        deepest == {i \in counting : \A j \in counting :
                      Len(rows[j].key.scope) <= Len(rows[i].key.scope)}
    IN  \A principal \in ResolvePrincipal(user, scope) :
          LET roles == principal.roles
          IN  /\ {roles[n] : n \in DOMAIN roles} = {key(i) : i \in counting}
              /\ \A m, n \in DOMAIN roles : m < n =>
                   roles[m] # roles[n] /\ depth(roles[m]) >= depth(roles[n])
              /\ principal.department \in
                   IF deepest = {} THEN {NoDepartment}
                   ELSE {IF Len(rows[i].key.scope) = 1 THEN NoDepartment ELSE scope[2] : i \in deepest}

-----------------------------------------------------------------------------
(* Claims of comments *)

\* "Enforces uniqueness of the active (user, role, scope) triple"
\* (assign-role.use-case.ts).
ActiveGrantsAreUnique ==
  \A i, j \in Live : rows[i].table = "grant" /\ HasKey(rows[i], rows[j])
                      /\ rows[i].active /\ rows[j].active => i = j
==============================================================================
