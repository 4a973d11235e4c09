------------------------------- MODULE OrgTree -------------------------------
(***************************************************************************)
(* The org-unit module of authz-admin: requests that create and move the   *)
(* units of one tenant's tree.  A request is one READ COMMITTED transaction *)
(* of PostgreSQL, so each of its reads sees the rows committed by then.     *)
(* The rows it writes stay locked until it commits: its compare-and-sets,   *)
(* its write and its commit are one step here, Save.                       *)
(***************************************************************************)
EXTENDS Integers, Sequences

CONSTANTS
  Request,
  Id,
  NoId,        \* the parent of a root
  NoUnit,      \* the row of an id that has none
  Segment,     \* the labels of a path
  MaxDepth,    \* OrgPath.MAX_DEPTH
  MaxMoves     \* bound on the moves that are asked for

Path == Seq(Segment)
Unit == [parent: Id \cup {NoId}, path: Path, version: Nat]

ASSUME OrgTreeAssumption ==
  /\ NoId \notin Id /\ NoUnit \notin Unit
  /\ MaxDepth \in Nat \ {0}
  /\ MaxMoves \in Nat

VARIABLES
  rows,   \* the committed rows of the table org_units
  req,    \* what each request has been asked for, and has in memory
  calm,   \* history: no move has overlapped another request so far
  moves   \* history: how many moves have been asked for

vars == <<rows, req, calm, moves>>

Exists(i) == rows[i] # NoUnit
Live == {i \in Id : Exists(i)}

AnyVersion == 0   \* a move without If-Match

\* phase is the await a request is at; base the path of the parent it loaded (of
\* none, for a root); draft the aggregates that saveMany is to write.
Idle == [phase |-> "idle", move |-> FALSE, id |-> NoId, parent |-> NoId,
         ifMatch |-> AnyVersion, base |-> << >>, segments |-> << >>, draft |-> << >>]
Busy(r) == req[r].phase # "idle"

Init ==
  /\ rows = [i \in Id |-> NoUnit]
  /\ req = [r \in Request |-> Idle]
  /\ calm = TRUE
  /\ moves = 0

-----------------------------------------------------------------------------
(* org-path.vo.ts, org-unit.entity.ts *)

\* isAncestorOf: the path itself or one below it; and without the path itself.
IsProperAncestor(p, q) == Len(p) < Len(q) /\ SubSeq(q, 1, Len(p)) = p
IsAncestorOf(p, q) == p = q \/ IsProperAncestor(p, q)

\* fromString, moveTo and rebasePath throw on a path that is too deep.
AnyDepth(p) == TRUE
FitsDepth(p) == Len(p) <= MaxDepth

Leaf(p) == SubSeq(p, Len(p), Len(p))

\* rebasePath: the old ancestor prefix is replaced by the new one.
Rebased(p, old, new) == new \o SubSeq(p, Len(old) + 1, Len(p))

\* touch
Touched(unit, path) == [unit EXCEPT !.path = path, !.version = @ + 1]

-----------------------------------------------------------------------------
(* A request reaches a use case *)

Start(r, request) ==
  /\ ~ Busy(r)
  /\ req' = [req EXCEPT ![r] = request]
  /\ calm' = (calm /\ \A q \in Request \ {r} : Busy(q) => ~ request.move /\ ~ req[q].move)
  /\ moves' = moves + (IF request.move THEN 1 ELSE 0)
  /\ UNCHANGED rows

\* A new aggregate's id is a random UUID: that of no row and of no other request.
IsFresh(i) == ~ Exists(i) /\ \A q \in Request : req[q].id # i

CreateRoot(r, i, label) ==
  /\ IsFresh(i)
  /\ Start(r, [Idle EXCEPT !.phase = "checkFree", !.id = i,
                 !.draft = [j \in {i} |-> [parent |-> NoId, path |-> <<label>>, version |-> 1]]])

CreateChild(r, i, parent, label) ==
  /\ IsFresh(i)
  /\ Start(r, [Idle EXCEPT !.phase = "loadParent", !.id = i, !.parent = parent,
                 !.segments = <<label>>])

Move(r, i, parent, ifMatch) ==
  /\ moves < MaxMoves
  /\ Start(r, [Idle EXCEPT !.phase = "loadNode", !.move = TRUE, !.id = i, !.parent = parent,
                 !.ifMatch = ifMatch])

-----------------------------------------------------------------------------
(* The awaits of the use cases *)

\* The guard on If-Match.
Matches(expected, version) == expected \in {AnyVersion, version}

\* findById of the unit to move, and the guard on If-Match.
LoadNode(r) ==
  LET q == req[r]
  IN  /\ q.phase = "loadNode"
      /\ Exists(q.id)
      /\ Matches(q.ifMatch, rows[q.id].version)
      /\ req' = [req EXCEPT
           ![r].phase = IF q.parent = NoId THEN "findDescendants" ELSE "loadParent",
           ![r].segments = Leaf(rows[q.id].path),
           ![r].draft = [j \in {q.id} |-> rows[j]]]
      /\ UNCHANGED <<rows, calm, moves>>

\* findById of the parent of a new unit; createChild.
LoadParentOfNew(r) ==
  LET q == req[r]
      path == rows[q.parent].path \o q.segments
  IN  /\ q.phase = "loadParent" /\ ~ q.move
      /\ Exists(q.parent)
      /\ FitsDepth(path)
      /\ req' = [req EXCEPT
           ![r].phase = "checkFree",
           ![r].segments = << >>,
           ![r].draft = [j \in {q.id} |-> [parent |-> q.parent, path |-> path, version |-> 1]]]
      /\ UNCHANGED <<rows, calm, moves>>

\* findById of the new parent of the unit to move, and the cycle guard.
LoadNewParent(r) ==
  LET q == req[r]
  IN  /\ q.phase = "loadParent" /\ q.move
      /\ Exists(q.parent)
      /\ ~ IsAncestorOf(q.draft[q.id].path, rows[q.parent].path)
      /\ req' = [req EXCEPT ![r].phase = "findDescendants", ![r].base = rows[q.parent].path]
      /\ UNCHANGED <<rows, calm, moves>>

\* The rows whose path has the prefix "path.".
DescendantsOf(path) == {i \in Live : IsProperAncestor(path, rows[i].path)}

\* findDescendants, moveTo, and the rebasePath of every descendant found.
FindDescendants(r) ==
  LET q == req[r]
      old == q.draft[q.id]
      new == q.base \o q.segments
      moved == [Touched(old, new) EXCEPT !.parent = q.parent]
      draft == [i \in {q.id} \cup DescendantsOf(old.path) |->
                  IF i = q.id THEN moved
                  ELSE Touched(rows[i], Rebased(rows[i].path, old.path, new))]
  IN  /\ q.phase = "findDescendants"
      /\ \A i \in DOMAIN draft : FitsDepth(draft[i].path)
      /\ req' = [req EXCEPT
           ![r].phase = "checkFree", ![r].base = << >>, ![r].segments = << >>,
           ![r].draft = draft]
      /\ UNCHANGED <<rows, calm, moves>>

\* findByPath of the new path.
CheckFree(r) ==
  LET q == req[r]
  IN  /\ q.phase = "checkFree"
      /\ \A i \in Live : rows[i].path = q.draft[q.id].path => i = q.id
      /\ req' = [req EXCEPT ![r].phase = "save"]
      /\ UNCHANGED <<rows, calm, moves>>

\* guardOptimisticLock: the row is still the one before the aggregate's; no guard.
AnyRow(i, unit) == TRUE
CasWins(i, unit) == unit.version = 1 \/ (Exists(i) /\ rows[i].version = unit.version - 1)

\* The table with the aggregates of a request written over it.
Written(draft) == [i \in Id |-> IF i \in DOMAIN draft THEN draft[i] ELSE rows[i]]

\* The unique index on the path; and a table without it.
NoIndex(table) == TRUE
IndexAccepts(table) ==
  \A i, j \in Id :
    table[i] # NoUnit /\ table[j] # NoUnit /\ table[i].path = table[j].path => i = j

\* save or saveMany, and COMMIT.
Save(r) ==
  LET draft == req[r].draft
  IN  /\ req[r].phase = "save"
      /\ \A i \in DOMAIN draft : CasWins(i, draft[i])
      /\ IndexAccepts(Written(draft))
      /\ rows' = Written(draft)
      /\ req' = [req EXCEPT ![r] = Idle]
      /\ UNCHANGED <<calm, moves>>

\* A guard, a compare-and-set, the index or the connection fails: the transaction
\* is rolled back.
Fail(r) ==
  /\ Busy(r)
  /\ req' = [req EXCEPT ![r] = Idle]
  /\ UNCHANGED <<rows, calm, moves>>

\* Clients name units that exist, and versions they just read: other requests end
\* at their first await.
OrgUnitController(r) ==
  \/ \E i \in Id, label \in Segment : CreateRoot(r, i, label)
  \/ \E i \in Id, parent \in Live, label \in Segment : CreateChild(r, i, parent, label)
  \/ \E i \in Live, parent \in Live \cup {NoId} :
       \E ifMatch \in {AnyVersion, rows[i].version} : Move(r, i, parent, ifMatch)

Next ==
  \E r \in Request :
    \/ OrgUnitController(r)
    \/ LoadNode(r)
    \/ LoadParentOfNew(r)
    \/ LoadNewParent(r)
    \/ FindDescendants(r)
    \/ CheckFree(r)
    \/ Save(r)
    \/ Fail(r)

Spec == Init /\ [][Next]_vars

-----------------------------------------------------------------------------
(* Properties *)

Phase == {"idle", "loadNode", "loadParent", "findDescendants", "checkFree", "save"}

Within(path) == Len(path) \in 1 .. MaxDepth

\* Every path fits the depth: those of the table, those of the aggregates a request has
\* in memory, the deepest unit of a subtree it moves included, and that of the parent
\* it loaded.
TypeOK ==
  /\ \A i \in Id : Exists(i) => rows[i] \in Unit /\ Within(rows[i].path)
  /\ \A r \in Request :
       /\ req[r].phase \in Phase
       /\ req[r].base # << >> => Within(req[r].base)
       /\ \A i \in DOMAIN req[r].draft :
            i \in Id /\ req[r].draft[i] \in Unit /\ Within(req[r].draft[i].path)
  /\ calm \in BOOLEAN
  /\ moves \in 0 .. MaxMoves

\* No two units have one path, however creates and moves race for it.
OneUnitPerPath == \A i, j \in Live : rows[i].path = rows[j].path => i = j

\* A unit hangs below its parent's path, by its own last segment.
HangsBelowParent(i) ==
  LET unit == rows[i]
  IN  IF unit.parent = NoId THEN Len(unit.path) = 1
      ELSE Exists(unit.parent) /\ unit.path = rows[unit.parent].path \o Leaf(unit.path)

\* Unless a move has overlapped another request, the materialized paths are those
\* of the parents, over any sequence of creates, also racing ones, and moves.
PathsFollowParents == calm => \A i \in Live : HangsBelowParent(i)

\* No update is lost: each write of a unit starts from the row it replaces.
WritesCount ==
  [][\A i \in Id : Exists(i) /\ rows'[i] # rows[i] => rows'[i].version = rows[i].version + 1]_vars

-----------------------------------------------------------------------------
(* Claims of comments *)

\* "no cycles: the new parent cannot be the node itself or a descendant"
\* (move-org-unit.use-case.ts): some unit of every set has its parent outside it.
NoCycles == \A S \in (SUBSET Live) \ {{}} : \E i \in S : rows[i].parent \notin S
==============================================================================
