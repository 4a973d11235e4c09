----------------------------- MODULE OrgTreeProofs -----------------------------
(***************************************************************************)
(* Proofs about OrgTree: paths stay unique and within the depth, no update   *)
(* is lost, and the materialized paths are those of the parents as long as  *)
(* no move overlaps another request, for any number of units and requests.  *)
(***************************************************************************)
EXTENDS OrgTree, SequenceTheorems, TLAPS

-----------------------------------------------------------------------------
(* The inductive invariant *)

FittingUnit == {unit \in Unit : Within(unit.path)}
Draft == UNION {[units -> FittingUnit] : units \in SUBSET Id}
Base == {path \in Path : path # << >> => Within(path)}
Asked == [phase: Phase, move: BOOLEAN, id: Id \cup {NoId}, parent: Id \cup {NoId},
          ifMatch: Nat, base: Base, segments: Path, draft: Draft]

RowsOK ==
  /\ rows = [i \in Id |-> rows[i]]
  /\ \A i \in Id : Exists(i) =>
       /\ rows[i] \in Unit /\ Len(rows[i].path) \in 1 .. MaxDepth /\ rows[i].version # 0
       /\ calm => HangsBelowParent(i)
  /\ OneUnitPerPath

\* A unit that is about to hang below its parent.
WillHang(unit) ==
  IF unit.parent = NoId THEN Len(unit.path) = 1
  ELSE /\ Exists(unit.parent)
       /\ calm => unit.path = rows[unit.parent].path \o Leaf(unit.path)

\* A request that creates a unit.
CreateOK(r) ==
  LET q == req[r]
  IN  /\ q.phase \in {"loadParent", "checkFree", "save"}
      /\ q.id \in Id /\ ~ Exists(q.id)
      /\ q.phase = "loadParent" => q.parent \in Live /\ Len(q.segments) = 1
      /\ q.phase \in {"checkFree", "save"} =>
           /\ DOMAIN q.draft = {q.id}
           /\ q.draft[q.id].version = 1 /\ Len(q.draft[q.id].path) \in 1 .. MaxDepth
           /\ WillHang(q.draft[q.id])

\* The subtree of a unit, as it is moved to where its new path says.
IsSubtreeMoved(q) ==
  LET old == rows[q.id].path
      new == q.draft[q.id].path
  IN  /\ DOMAIN q.draft = {q.id} \cup DescendantsOf(old)
      /\ q.draft[q.id].parent = q.parent
      /\ IF q.parent = NoId THEN Len(new) = 1
         ELSE new = rows[q.parent].path \o Leaf(old) /\ ~ IsAncestorOf(old, rows[q.parent].path)
      /\ \A i \in DescendantsOf(old) :
           /\ q.draft[i].parent = rows[i].parent
           /\ q.draft[i].path = Rebased(rows[i].path, old, new)

\* A request that moves one.  What it has read is still so while it has been alone.
MoveOK(r) ==
  LET q == req[r]
  IN  /\ q.id \in Live /\ q.parent \in Live \cup {NoId}
      /\ q.phase \in {"loadNode", "loadParent"} => q.base = << >>
      /\ q.phase = "loadParent" => q.parent # NoId
      /\ q.phase \in {"loadParent", "findDescendants"} =>
           /\ q.id \in DOMAIN q.draft /\ q.draft[q.id].version # 0 /\ Len(q.segments) = 1
           /\ calm => q.draft[q.id] = rows[q.id] /\ q.segments = Leaf(rows[q.id].path)
      /\ q.phase = "findDescendants" =>
           IF q.parent = NoId THEN q.base = << >>
           ELSE calm => q.base = rows[q.parent].path /\ ~ IsAncestorOf(rows[q.id].path, q.base)
      /\ q.phase \in {"checkFree", "save"} =>
           /\ DOMAIN q.draft \subseteq Live
           /\ \A i \in DOMAIN q.draft :
                q.draft[i].version >= 2 /\ Len(q.draft[i].path) \in 1 .. MaxDepth
           /\ calm => IsSubtreeMoved(q)

RequestOK(r) == Busy(r) => IF req[r].move THEN MoveOK(r) ELSE CreateOK(r)

\* No two requests create a unit of the same id.
IdsOK == \A r, s \in Request : r # s /\ Busy(r) /\ ~ req[r].move => req[s].id # req[r].id

\* While all is calm, a move is the only request.
MovesAlone == calm => \A r, s \in Request : r # s /\ Busy(r) /\ req[r].move => ~ Busy(s)

IInv ==
  /\ req \in [Request -> Asked]
  /\ calm \in BOOLEAN /\ moves \in 0 .. MaxMoves
  /\ RowsOK
  /\ \A r \in Request : RequestOK(r)
  /\ IdsOK
  /\ MovesAlone

-----------------------------------------------------------------------------
(* Paths *)

WellFounded == INSTANCE WellFoundedInduction

LEMMA LeafOfPath ==
  ASSUME NEW p \in Path, p # << >>
  PROVE  Leaf(p) \in Path /\ Len(Leaf(p)) = 1 /\ Leaf(p)[1] = p[Len(p)]
  BY DEF Path, Leaf

LEMMA ChildElements ==
  ASSUME NEW p \in Path, NEW s \in Path, Len(s) = 1
  PROVE  /\ p \o s \in Path /\ Len(p \o s) = Len(p) + 1
         /\ \A n \in 1 .. Len(p) : (p \o s)[n] = p[n]
         /\ (p \o s)[Len(p) + 1] = s[1]
  <1>1. /\ p \o s \in Seq(Segment) /\ Len(p \o s) = Len(p) + Len(s) /\ Len(p) \in Nat
        /\ \A n \in 1 .. Len(p) + Len(s) :
             (p \o s)[n] = IF n <= Len(p) THEN p[n] ELSE s[n - Len(p)]
    <2>1. p \in Seq(Segment) /\ s \in Seq(Segment)
      BY DEF Path
    <2>2. QED
      BY <2>1, ConcatProperties, LenProperties
  <1>2. \A n \in 1 .. Len(p) : n \in 1 .. Len(p) + Len(s) /\ n <= Len(p)
    BY <1>1
  <1>3. Len(p) + 1 \in 1 .. Len(p) + Len(s) /\ ~ (Len(p) + 1 <= Len(p)) /\ Len(p) + 1 - Len(p) = 1
    BY <1>1
  <1>4. QED
    BY <1>1, <1>2, <1>3 DEF Path

LEMMA LeafOfChild ==
  ASSUME NEW p \in Path, NEW s \in Path, Len(s) = 1
  PROVE  p \o s \in Path /\ Len(p \o s) = Len(p) + 1 /\ Leaf(p \o s) = s
  <1>1. p \o s \in Path /\ Len(p \o s) = Len(p) + 1 /\ (p \o s)[Len(p) + 1] = s[1]
    BY ChildElements
  <1>2. Leaf(p \o s) \in Path /\ Len(Leaf(p \o s)) = 1 /\ Leaf(p \o s)[1] = s[1]
    <2>1. p \o s # << >> /\ Len(p) \in Nat
      BY <1>1 DEF Path
    <2>2. QED
      BY <1>1, <2>1, LeafOfPath
  <1>3. Leaf(p \o s) = s
    BY <1>2, SeqEqual DEF Path
  <1>4. QED
    BY <1>1, <1>3

\* What Rebased puts together, label by label.
IsRebased(q, p, old, new) ==
  /\ q \in Path
  /\ Len(q) = Len(new) + (Len(p) - Len(old))
  /\ \A n \in 1 .. Len(new) : q[n] = new[n]
  /\ \A n \in Len(new) + 1 .. Len(new) + (Len(p) - Len(old)) : q[n] = p[n - Len(new) + Len(old)]

LEMMA RebasedPath ==
  ASSUME NEW p \in Path, NEW old \in Path, NEW new \in Path, Len(old) <= Len(p)
  PROVE  IsRebased(Rebased(p, old, new), p, old, new)
  <1> DEFINE rest == SubSeq(p, Len(old) + 1, Len(p))
  <1>1. /\ rest \in Seq(Segment) /\ Len(rest) = Len(p) - Len(old)
        /\ \A n \in 1 .. Len(p) - Len(old) : rest[n] = p[n + Len(old)]
    BY DEF Path
  <1> HIDE DEF rest
  <1>2. Rebased(p, old, new) = new \o rest
    BY DEF Rebased, rest
  <1>3. /\ new \o rest \in Seq(Segment) /\ Len(new \o rest) = Len(new) + Len(rest)
        /\ \A n \in 1 .. Len(new) : (new \o rest)[n] = new[n]
        /\ \A n \in Len(new) + 1 .. Len(new) + Len(rest) : (new \o rest)[n] = rest[n - Len(new)]
    <2>1. /\ new \o rest \in Seq(Segment) /\ Len(new \o rest) = Len(new) + Len(rest)
          /\ Len(new) \in Nat /\ Len(rest) \in Nat
          /\ \A n \in 1 .. Len(new) + Len(rest) :
               (new \o rest)[n] = IF n <= Len(new) THEN new[n] ELSE rest[n - Len(new)]
      <3>1. new \in Seq(Segment) /\ rest \in Seq(Segment)
        BY <1>1 DEF Path
      <3>2. QED
        BY <3>1, ConcatProperties, LenProperties
    <2>2. QED
      BY <2>1
  <1>4. ASSUME NEW n \in Len(new) + 1 .. Len(new) + (Len(p) - Len(old))
        PROVE  (new \o rest)[n] = p[n - Len(new) + Len(old)]
    <2>1. n - Len(new) \in 1 .. Len(p) - Len(old)
      BY <1>1 DEF Path
    <2>2. QED
      BY <1>1, <1>3, <2>1
  <1>5. QED
    BY <1>1, <1>2, <1>3, <1>4 DEF Path, IsRebased

LEMMA AncestorElements ==
  ASSUME NEW p \in Path, NEW q \in Path, Len(p) <= Len(q)
  PROVE  SubSeq(q, 1, Len(p)) = p <=> \A n \in 1 .. Len(p) : q[n] = p[n]
  <1>1. /\ SubSeq(q, 1, Len(p)) \in Seq(Segment) /\ Len(SubSeq(q, 1, Len(p))) = Len(p)
        /\ \A n \in 1 .. Len(p) : SubSeq(q, 1, Len(p))[n] = q[n]
    BY DEF Path
  <1>2. QED
    BY <1>1 DEF Path

\* What is below the parent is below the unit too, as is what the parent is below.
LEMMA ParentAbove ==
  ASSUME NEW old \in Path, NEW parent \in Path, NEW label \in Path, Len(label) = 1
  PROVE  /\ IsAncestorOf(old, parent) => IsProperAncestor(old, parent \o label)
         /\ IsProperAncestor(old, parent \o label) => IsAncestorOf(old, parent)
  <1> DEFINE child == parent \o label
  <1>1. /\ child \in Path /\ Len(child) = Len(parent) + 1
        /\ \A n \in 1 .. Len(parent) : child[n] = parent[n]
    BY ChildElements
  <1> HIDE DEF child
  <1>2. Len(old) \in Nat /\ Len(parent) \in Nat
    BY DEF Path
  <1>3. ASSUME Len(old) <= Len(parent)
        PROVE  SubSeq(child, 1, Len(old)) = old <=> SubSeq(parent, 1, Len(old)) = old
    <2>1. \A n \in 1 .. Len(old) : child[n] = parent[n]
      BY <1>1, <1>2, <1>3
    <2>2. Len(old) <= Len(child)
      BY <1>1, <1>2, <1>3
    <2>3. QED
      BY <1>1, <1>3, <2>1, <2>2, AncestorElements
  <1>4. Len(old) = Len(parent) => (SubSeq(parent, 1, Len(old)) = old <=> old = parent)
    <2>1. SubSeq(parent, 1, Len(parent)) = parent
      BY DEF Path
    <2>2. QED
      BY <2>1
  <1>5. ASSUME IsAncestorOf(old, parent)
        PROVE  IsProperAncestor(old, child)
    BY <1>1, <1>2, <1>3, <1>4, <1>5 DEF IsAncestorOf, IsProperAncestor
  <1>6. ASSUME IsProperAncestor(old, child)
        PROVE  IsAncestorOf(old, parent)
    <2>1. Len(old) <= Len(parent) /\ SubSeq(child, 1, Len(old)) = old
      BY <1>1, <1>2, <1>6 DEF IsProperAncestor
    <2>2. SubSeq(parent, 1, Len(old)) = old
      BY <1>3, <2>1
    <2>3. QED
      BY <1>2, <1>4, <2>1, <2>2 DEF IsAncestorOf, IsProperAncestor
  <1>7. QED
    BY <1>5, <1>6 DEF child

\* A rebased child hangs below its rebased parent, by the label it had.
ComesAlong(child, parent, label, old, new) ==
  Rebased(child, old, new) = Rebased(parent, old, new) \o label

LEMMA RebasedChild ==
  ASSUME NEW old \in Path, NEW new \in Path, NEW parent \in Path, NEW label \in Path,
         NEW child \in Path, child = parent \o label, Len(label) = 1, Len(old) <= Len(parent)
  PROVE  ComesAlong(child, parent, label, old, new)
  <1> DEFINE below == Rebased(parent, old, new)
             moved == Rebased(child, old, new)
             k == Len(parent) - Len(old)
  <1>1. /\ child \in Path /\ Len(child) = Len(parent) + 1
        /\ \A n \in 1 .. Len(parent) : child[n] = parent[n]
        /\ child[Len(parent) + 1] = label[1]
    BY ChildElements
  <1>2. Len(old) \in Nat /\ Len(parent) \in Nat /\ Len(new) \in Nat /\ k \in Nat
    BY DEF Path
  <1>3. /\ below \in Path /\ Len(below) = Len(new) + k
        /\ \A n \in 1 .. Len(new) : below[n] = new[n]
        /\ \A n \in Len(new) + 1 .. Len(new) + k : below[n] = parent[n - Len(new) + Len(old)]
    <2>1. IsRebased(below, parent, old, new)
      BY RebasedPath
    <2> HIDE DEF below
    <2>2. QED
      BY <2>1 DEF IsRebased
  <1>4. Len(child) - Len(old) = k + 1 /\ Len(old) <= Len(child)
    BY <1>1, <1>2
  <1>5. /\ moved \in Path /\ Len(moved) = Len(new) + (k + 1)
        /\ \A n \in 1 .. Len(new) : moved[n] = new[n]
        /\ \A n \in Len(new) + 1 .. Len(new) + (k + 1) : moved[n] = child[n - Len(new) + Len(old)]
    <2> HIDE DEF k
    <2>1. /\ moved \in Path /\ Len(moved) = Len(new) + (Len(child) - Len(old))
          /\ \A n \in 1 .. Len(new) : moved[n] = new[n]
          /\ \A n \in Len(new) + 1 .. Len(new) + (Len(child) - Len(old)) :
               moved[n] = child[n - Len(new) + Len(old)]
      <3>1. IsRebased(moved, child, old, new)
        BY <1>4, RebasedPath
      <3> HIDE DEF moved
      <3>2. QED
        BY <3>1 DEF IsRebased
    <2> HIDE DEF moved
    <2>2. QED
      BY <1>4, <2>1
  <1> HIDE DEF below, moved
  <1>6. /\ below \o label \in Path /\ Len(below \o label) = Len(new) + k + 1
        /\ \A n \in 1 .. Len(new) + k : (below \o label)[n] = below[n]
        /\ (below \o label)[Len(new) + k + 1] = label[1]
    <2>1. /\ below \o label \in Path /\ Len(below \o label) = Len(below) + 1
          /\ \A n \in 1 .. Len(below) : (below \o label)[n] = below[n]
          /\ (below \o label)[Len(below) + 1] = label[1]
      BY <1>3, ChildElements
    <2>2. QED
      BY <1>3, <2>1
  <1> HIDE DEF k
  <1>7. ASSUME NEW n \in 1 .. Len(new) + k + 1
        PROVE  moved[n] = (below \o label)[n]
    <2>1. CASE n \in 1 .. Len(new)
      BY <1>2, <1>3, <1>5, <1>6, <2>1
    <2>2. CASE n \in Len(new) + 1 .. Len(new) + k
      <3>1. n - Len(new) + Len(old) \in 1 .. Len(parent)
        BY <1>2, <2>2 DEF k
      <3>2. n \in Len(new) + 1 .. Len(new) + (k + 1) /\ n \in 1 .. Len(new) + k
        BY <1>2, <2>2
      <3>3. moved[n] = child[n - Len(new) + Len(old)] /\ (below \o label)[n] = below[n]
        BY <1>5, <1>6, <3>2
      <3>4. QED
        BY <1>1, <1>3, <2>2, <3>1, <3>3
    <2>3. CASE n = Len(new) + k + 1
      <3>1. n - Len(new) + Len(old) = Len(parent) + 1 /\ n \in Len(new) + 1 .. Len(new) + (k + 1)
        BY <1>2, <2>3 DEF k
      <3>2. moved[n] = child[Len(parent) + 1]
        BY <1>5, <3>1
      <3>3. QED
        BY <1>1, <1>6, <2>3, <3>2
    <2>4. n \in 1 .. Len(new) \/ n \in Len(new) + 1 .. Len(new) + k \/ n = Len(new) + k + 1
      BY <1>2
    <2>5. QED
      BY <2>1, <2>2, <2>3, <2>4
  <1>8. moved = below \o label
    <2>1. Len(moved) = Len(below \o label) /\ \A n \in 1 .. Len(moved) : moved[n] = (below \o label)[n]
      BY <1>2, <1>5, <1>6, <1>7
    <2>2. QED
      BY <1>5, <1>6, <2>1, SeqEqual DEF Path
  <1>9. QED
    BY <1>8 DEF moved, below, ComesAlong

LEMMA RebasedItself ==
  ASSUME NEW p \in Path, NEW new \in Path
  PROVE  Rebased(p, p, new) = new
  <1>1. /\ Rebased(p, p, new) \in Path /\ Len(Rebased(p, p, new)) = Len(new)
        /\ \A n \in 1 .. Len(new) : Rebased(p, p, new)[n] = new[n]
    <2>1. Len(p) \in Nat /\ Len(p) <= Len(p) /\ Len(p) - Len(p) = 0 /\ Len(new) + 0 = Len(new)
      BY DEF Path
    <2>2. IsRebased(Rebased(p, p, new), p, p, new)
      BY <2>1, RebasedPath
    <2>3. QED
      BY <2>1, <2>2 DEF IsRebased
  <1>2. QED
    BY <1>1 DEF Path

-----------------------------------------------------------------------------
(* Requests *)

LEMMA UnitFields ==
  ASSUME NEW unit \in Unit
  PROVE  unit.parent \in Id \cup {NoId} /\ unit.path \in Path /\ unit.version \in Nat /\ unit # NoUnit
  BY OrgTreeAssumption DEF Unit

LEMMA DraftUnits ==
  /\ \A draft \in Draft : DOMAIN draft \subseteq Id /\ \A i \in DOMAIN draft : draft[i] \in FittingUnit
  /\ \A units \in SUBSET Id : [units -> FittingUnit] \subseteq Draft
  /\ << >> \in Draft
  BY DEF Draft

LEMMA Bases == << >> \in Base /\ Base \subseteq Path
  BY DEF Base, Path

\* The fields of a request, so far as they are of a type.
LEMMA RequestFields ==
  ASSUME IInv, NEW r \in Request
  PROVE  /\ req[r] \in Asked /\ RequestOK(r)
         /\ req[r].id \in Id \cup {NoId} /\ req[r].parent \in Id \cup {NoId}
         /\ req[r].base \in Base /\ req[r].base \in Path
         /\ req[r].segments \in Path /\ req[r].draft \in Draft
         /\ \A i \in DOMAIN req[r].draft :
              i \in Id /\ req[r].draft[i] \in Unit /\ Within(req[r].draft[i].path)
  <1>1. req[r] \in Asked /\ RequestOK(r)
    BY DEF IInv
  <1>2. \A i \in DOMAIN req[r].draft : i \in Id /\ req[r].draft[i] \in FittingUnit
    BY <1>1, DraftUnits DEF Asked
  <1>3. QED
    BY <1>1, <1>2, Bases DEF Asked, FittingUnit

\* A request is not disturbed while the rows stay as they are.
LEMMA Undisturbed ==
  ASSUME IInv, NEW s \in Request, req'[s] = req[s], rows' = rows, calm' => calm
  PROVE  RequestOK(s)'
  <1>1. RequestOK(s) /\ (Busy(s)' <=> Busy(s))
    BY DEF IInv, Busy
  <1>2. MoveOK(s) => MoveOK(s)'
    BY DEF MoveOK, IsSubtreeMoved, DescendantsOf, Live, Exists
  <1>3. CreateOK(s) => CreateOK(s)'
    BY DEF CreateOK, WillHang, Live, Exists
  <1>4. QED
    BY <1>1, <1>2, <1>3 DEF RequestOK

\* A busy request goes on, or ends.
LEMMA LocalStep ==
  ASSUME IInv, NEW r \in Request, Busy(r), UNCHANGED <<rows, calm, moves>>,
         req' \in [Request -> Asked], \A s \in Request \ {r} : req'[s] = req[s],
         RequestOK(r)',
         \/ ~ Busy(r)' /\ req'[r].id = NoId
         \/ req'[r].id = req[r].id /\ req'[r].move = req[r].move
  PROVE  IInv'
  <1>1. RowsOK'
    BY DEF IInv, RowsOK, OneUnitPerPath, Live, Exists, HangsBelowParent
  <1>2. \A s \in Request : RequestOK(s)'
    BY Undisturbed
  <1>3. IdsOK'
    <2> SUFFICES ASSUME NEW a \in Request, NEW s \in Request, a # s, Busy(a)', ~ req'[a].move
                 PROVE  req'[s].id # req'[a].id
      BY DEF IdsOK
    <2>1. Busy(a) /\ ~ req[a].move /\ req'[a].id = req[a].id
      BY DEF Busy
    <2>2. req[s].id # req[a].id
      BY <2>1 DEF IInv, IdsOK
    <2>3. req[a].id \in Id
      BY <2>1 DEF IInv, RequestOK, CreateOK
    <2>4. QED
      BY <2>1, <2>2, <2>3, OrgTreeAssumption
  <1>4. MovesAlone'
    BY DEF IInv, MovesAlone, Busy
  <1>5. QED
    BY <1>1, <1>2, <1>3, <1>4 DEF IInv

LEMMA FailStep ==
  ASSUME IInv, NEW r \in Request, Fail(r)
  PROVE  IInv'
  <1>1. Idle \in Asked /\ Idle.phase = "idle" /\ Idle.id = NoId
    BY DraftUnits, Bases DEF Idle, Asked, Phase, AnyVersion, Path
  <1>2. /\ req' \in [Request -> Asked] /\ req'[r] = Idle
        /\ \A s \in Request \ {r} : req'[s] = req[s]
        /\ Busy(r) /\ UNCHANGED <<rows, calm, moves>>
    BY <1>1 DEF Fail, IInv
  <1>3. ~ Busy(r)'
    BY <1>1, <1>2 DEF Busy
  <1>4. QED
    BY <1>1, <1>2, <1>3, LocalStep DEF RequestOK

LEMMA LoadNodeStep ==
  ASSUME IInv, NEW r \in Request, LoadNode(r)
  PROVE  IInv'
  <1> DEFINE q == req[r]
             unit == rows[q.id]
             phase == IF q.parent = NoId THEN "findDescendants" ELSE "loadParent"
             draft == [j \in {q.id} |-> rows[j]]
  <1>1. q \in Asked /\ q.phase = "loadNode" /\ q.move /\ Busy(r) /\ MoveOK(r)
    BY RequestFields DEF LoadNode, RequestOK, CreateOK, Busy
  <1>2. q.id \in Id /\ Exists(q.id)
    BY <1>1 DEF MoveOK, Live
  <1>3. /\ unit \in Unit /\ Within(unit.path)
        /\ unit.path \in Path /\ unit.path # << >> /\ unit.version # 0
    BY <1>2, UnitFields DEF IInv, RowsOK, Within
  <1>4. Leaf(unit.path) \in Path /\ Len(Leaf(unit.path)) = 1
    BY <1>3, LeafOfPath
  <1>5. draft \in [{q.id} -> FittingUnit] /\ DOMAIN draft = {q.id} /\ draft[q.id] = unit
    BY <1>3 DEF FittingUnit
  <1>6. draft \in Draft
    BY <1>2, <1>5, DraftUnits
  <1>7. phase \in Phase /\ phase \in {"findDescendants", "loadParent"}
    BY DEF Phase
  <1> HIDE DEF draft, phase
  <1>8. /\ req' = [req EXCEPT ![r].phase = phase, ![r].segments = Leaf(unit.path), ![r].draft = draft]
        /\ UNCHANGED <<rows, calm, moves>>
    BY DEF LoadNode, draft, phase
  <1>9. /\ req' \in [Request -> Asked] /\ \A s \in Request \ {r} : req'[s] = req[s]
        /\ req'[r].phase = phase /\ req'[r].move = q.move /\ req'[r].id = q.id
        /\ req'[r].parent = q.parent /\ req'[r].base = q.base
        /\ req'[r].segments = Leaf(unit.path) /\ req'[r].draft = draft
    BY <1>1, <1>4, <1>6, <1>7, <1>8 DEF IInv, Asked
  <1>10. MoveOK(r)'
    <2>1. q.base = << >> /\ (phase = "loadParent" => q.parent # NoId)
          /\ (phase = "findDescendants" => q.parent = NoId)
      BY <1>1 DEF MoveOK, phase
    <2>2. q.id \in Live' /\ q.parent \in (Live \cup {NoId})'
      BY <1>1, <1>8 DEF MoveOK, Live, Exists
    <2>3. QED
      BY <1>3, <1>4, <1>5, <1>7, <1>8, <1>9, <2>1, <2>2 DEF MoveOK
  <1>11. QED
    BY <1>1, <1>8, <1>9, <1>10, LocalStep DEF RequestOK

LEMMA LoadParentOfNewStep ==
  ASSUME IInv, NEW r \in Request, LoadParentOfNew(r)
  PROVE  IInv'
  <1> DEFINE q == req[r]
             path == rows[q.parent].path \o q.segments
             unit == [parent |-> q.parent, path |-> path, version |-> 1]
             draft == [j \in {q.id} |-> unit]
  <1>1. q \in Asked /\ q.phase = "loadParent" /\ ~ q.move /\ Busy(r) /\ CreateOK(r)
    BY RequestFields DEF LoadParentOfNew, RequestOK, Busy
  <1>2. /\ q.id \in Id /\ ~ Exists(q.id) /\ q.parent \in Id /\ Exists(q.parent)
        /\ q.segments \in Path /\ Len(q.segments) = 1
    BY <1>1, RequestFields DEF CreateOK, Live
  <1>3. rows[q.parent].path \in Path /\ Len(rows[q.parent].path) \in 1 .. MaxDepth
    BY <1>2, UnitFields DEF IInv, RowsOK
  <1>4. path \in Path /\ Len(path) = Len(rows[q.parent].path) + 1 /\ Leaf(path) = q.segments
    BY <1>2, <1>3, LeafOfChild
  <1>5. Len(path) \in 1 .. MaxDepth
    BY <1>3, <1>4, OrgTreeAssumption DEF LoadParentOfNew, FitsDepth
  <1> HIDE DEF path
  <1>6. unit \in Unit /\ unit.parent = q.parent /\ unit.path = path /\ unit.version = 1
    BY <1>2, <1>4 DEF Unit
  <1> HIDE DEF unit
  <1>7. draft \in [{q.id} -> FittingUnit] /\ DOMAIN draft = {q.id} /\ draft[q.id] = unit
    BY <1>5, <1>6 DEF FittingUnit, Within
  <1>8. draft \in Draft
    BY <1>2, <1>7, DraftUnits
  <1> HIDE DEF draft
  <1>9. /\ req' = [req EXCEPT ![r].phase = "checkFree", ![r].segments = << >>, ![r].draft = draft]
        /\ UNCHANGED <<rows, calm, moves>>
    BY DEF LoadParentOfNew, draft, unit, path
  <1>10. << >> \in Path
    BY DEF Path
  <1>11. /\ req' \in [Request -> Asked] /\ \A s \in Request \ {r} : req'[s] = req[s]
         /\ req'[r].phase = "checkFree" /\ req'[r].move = q.move /\ req'[r].id = q.id
         /\ req'[r].draft = draft
    BY <1>1, <1>8, <1>9, <1>10 DEF IInv, Asked, Phase
  <1>12. WillHang(unit)
    <2>1. q.parent # NoId
      BY <1>2, OrgTreeAssumption
    <2>2. path = rows[q.parent].path \o Leaf(path)
      BY <1>4 DEF path
    <2>3. QED
      BY <1>2, <1>6, <2>1, <2>2 DEF WillHang
  <1>13. CreateOK(r)'
    BY <1>2, <1>5, <1>6, <1>7, <1>9, <1>11, <1>12 DEF CreateOK, WillHang, Exists
  <1>14. QED
    BY <1>1, <1>9, <1>11, <1>13, LocalStep DEF RequestOK

LEMMA LoadNewParentStep ==
  ASSUME IInv, NEW r \in Request, LoadNewParent(r)
  PROVE  IInv'
  <1> DEFINE q == req[r]
             base == rows[q.parent].path
  <1>1. q \in Asked /\ q.phase = "loadParent" /\ q.move /\ Busy(r) /\ MoveOK(r)
    BY RequestFields DEF LoadNewParent, RequestOK, Busy
  <1>2. /\ q.id \in Live /\ q.parent \in Live /\ q.parent # NoId
        /\ q.id \in DOMAIN q.draft /\ q.draft[q.id].version # 0 /\ Len(q.segments) = 1
        /\ calm => q.draft[q.id] = rows[q.id] /\ q.segments = Leaf(rows[q.id].path)
    BY <1>1 DEF MoveOK
  <1>3. base \in Base
    BY <1>2, UnitFields DEF IInv, RowsOK, Live, Base, Within
  <1>4. ~ IsAncestorOf(q.draft[q.id].path, base)
        /\ req' = [req EXCEPT ![r].phase = "findDescendants", ![r].base = base]
        /\ UNCHANGED <<rows, calm, moves>>
    BY DEF LoadNewParent
  <1> HIDE DEF base
  <1>5. /\ req' \in [Request -> Asked] /\ \A s \in Request \ {r} : req'[s] = req[s]
        /\ req'[r].phase = "findDescendants" /\ req'[r].move = q.move /\ req'[r].id = q.id
        /\ req'[r].parent = q.parent /\ req'[r].base = base
        /\ req'[r].segments = q.segments /\ req'[r].draft = q.draft
    BY <1>1, <1>3, <1>4 DEF IInv, Asked, Phase
  <1>6. q.id \in Live' /\ q.parent \in Live'
    BY <1>2, <1>4 DEF Live, Exists
  <1>7. MoveOK(r)'
    BY <1>2, <1>4, <1>5, <1>6 DEF MoveOK, base
  <1>8. QED
    BY <1>1, <1>4, <1>5, <1>7, LocalStep DEF RequestOK

LEMMA CheckFreeStep ==
  ASSUME IInv, NEW r \in Request, CheckFree(r)
  PROVE  IInv'
  <1> DEFINE q == req[r]
  <1>1. q \in Asked /\ q.phase = "checkFree" /\ Busy(r) /\ RequestOK(r)
    BY RequestFields DEF CheckFree, Busy
  <1>2. req' = [req EXCEPT ![r].phase = "save"] /\ UNCHANGED <<rows, calm, moves>>
    BY DEF CheckFree
  <1>3. /\ req' \in [Request -> Asked] /\ \A s \in Request \ {r} : req'[s] = req[s]
        /\ req'[r].phase = "save" /\ req'[r].move = q.move /\ req'[r].id = q.id
        /\ req'[r].parent = q.parent /\ req'[r].draft = q.draft
    BY <1>1, <1>2 DEF IInv, Asked, Phase
  <1>4. CASE q.move
    <2>1. MoveOK(r)
      BY <1>1, <1>4 DEF RequestOK
    <2>2. /\ q.id \in Live' /\ q.parent \in (Live \cup {NoId})' /\ DOMAIN q.draft \subseteq Live'
          /\ \A i \in DOMAIN q.draft : q.draft[i].version >= 2 /\ Len(q.draft[i].path) \in 1 .. MaxDepth
      BY <1>1, <1>2, <2>1 DEF MoveOK, Live, Exists
    <2>3. calm' => IsSubtreeMoved(req[r])'
      BY <1>1, <1>2, <1>3, <2>1 DEF MoveOK, IsSubtreeMoved, DescendantsOf, Live, Exists
    <2>4. MoveOK(r)'
      BY <1>3, <2>2, <2>3 DEF MoveOK
    <2>5. QED
      BY <1>1, <1>2, <1>3, <1>4, <2>4, LocalStep DEF RequestOK
  <1>5. CASE ~ q.move
    <2>1. CreateOK(r)
      BY <1>1, <1>5 DEF RequestOK
    <2>2. CreateOK(r)'
      BY <1>1, <1>2, <1>3, <2>1 DEF CreateOK, WillHang, Exists
    <2>3. QED
      BY <1>1, <1>2, <1>3, <1>5, <2>2, LocalStep DEF RequestOK
  <1>6. QED
    BY <1>4, <1>5

\* A unit as FindDescendants drafts it.
LEMMA TouchedUnit ==
  ASSUME NEW unit \in Unit, unit.version # 0, NEW path \in Path
  PROVE  /\ Touched(unit, path) \in Unit /\ Touched(unit, path).path = path
         /\ Touched(unit, path).parent = unit.parent /\ Touched(unit, path).version >= 2
         /\ \A parent \in Id \cup {NoId} :
              LET moved == [Touched(unit, path) EXCEPT !.parent = parent]
              IN  moved \in Unit /\ moved.path = path /\ moved.parent = parent /\ moved.version >= 2
  <1>1. unit.version + 1 \in Nat /\ unit.version + 1 >= 2
    BY DEF Unit
  <1>2. QED
    BY <1>1 DEF Unit, Touched

LEMMA FindDescendantsStep ==
  ASSUME IInv, NEW r \in Request, FindDescendants(r)
  PROVE  IInv'
  <1> DEFINE q == req[r]
             old == q.draft[q.id]
             new == q.base \o q.segments
             moved == [Touched(old, new) EXCEPT !.parent = q.parent]
             below == DescendantsOf(old.path)
             rebased(i) == Touched(rows[i], Rebased(rows[i].path, old.path, new))
             draft == [i \in {q.id} \cup below |-> IF i = q.id THEN moved ELSE rebased(i)]
  <1>1. q \in Asked /\ q.phase = "findDescendants" /\ q.move /\ Busy(r) /\ MoveOK(r)
    BY RequestFields DEF FindDescendants, RequestOK, CreateOK, Busy
  <1>2. /\ q.id \in Live /\ q.id \in Id /\ q.parent \in Live \cup {NoId} /\ q.parent \in Id \cup {NoId}
        /\ q.id \in DOMAIN q.draft /\ old.version # 0 /\ Len(q.segments) = 1
        /\ calm => old = rows[q.id] /\ q.segments = Leaf(rows[q.id].path)
        /\ IF q.parent = NoId THEN q.base = << >>
           ELSE calm => q.base = rows[q.parent].path /\ ~ IsAncestorOf(rows[q.id].path, q.base)
    BY <1>1 DEF MoveOK, Live
  <1>3. old \in Unit /\ old.path \in Path /\ q.base \in Path /\ q.segments \in Path
    BY <1>2, RequestFields, UnitFields
  <1>4. new \in Path /\ Len(new) = Len(q.base) + 1 /\ Len(q.base) \in Nat
    <2>1. new \in Path /\ Len(new) = Len(q.base) + 1
      BY <1>2, <1>3, ChildElements
    <2>2. Len(q.base) \in Nat
      BY <1>3 DEF Path
    <2>3. QED
      BY <2>1, <2>2
  <1> HIDE DEF new
  <1>5. moved \in Unit /\ moved.path = new /\ moved.parent = q.parent /\ moved.version >= 2
    BY <1>2, <1>3, <1>4, TouchedUnit
  <1>6. ASSUME NEW i \in below
        PROVE  /\ i \in Live /\ rows[i] \in Unit
               /\ Rebased(rows[i].path, old.path, new) \in Path
               /\ Len(Rebased(rows[i].path, old.path, new)) >= 1
               /\ rebased(i) \in Unit /\ rebased(i).version >= 2
               /\ rebased(i).path = Rebased(rows[i].path, old.path, new)
               /\ rebased(i).parent = rows[i].parent
    <2>1. i \in Live /\ IsProperAncestor(old.path, rows[i].path)
      BY DEF DescendantsOf
    <2>2. rows[i] \in Unit /\ rows[i].path \in Path /\ rows[i].version # 0
      BY <2>1, UnitFields DEF IInv, RowsOK, Live
    <2>3. Len(old.path) <= Len(rows[i].path) /\ Len(old.path) \in Nat /\ Len(rows[i].path) \in Nat
      BY <1>3, <2>1, <2>2 DEF IsProperAncestor, Path
    <2>4. IsRebased(Rebased(rows[i].path, old.path, new), rows[i].path, old.path, new)
      BY <1>3, <1>4, <2>2, <2>3, RebasedPath
    <2>5. Rebased(rows[i].path, old.path, new) \in Path
          /\ Len(Rebased(rows[i].path, old.path, new)) >= 1
      <3> DEFINE path == Rebased(rows[i].path, old.path, new)
                 a == Len(old.path)
                 b == Len(rows[i].path)
                 c == Len(new)
      <3>1. path \in Path /\ Len(path) = c + (b - a)
        BY <2>4 DEF IsRebased
      <3>2. a <= b /\ a \in Nat /\ b \in Nat /\ c \in Nat /\ c >= 1
        BY <1>4, <2>3
      <3> HIDE DEF path, a, b, c
      <3>3. Len(path) >= 1
        BY <3>1, <3>2
      <3>4. QED
        BY <3>1, <3>3 DEF path
    <2>6. QED
      BY <2>1, <2>2, <2>5, TouchedUnit
  <1> HIDE DEF moved, rebased, below
  <1>7. /\ DOMAIN draft = {q.id} \cup below /\ draft[q.id] = moved
        /\ \A i \in below : i # q.id => draft[i] = rebased(i)
        /\ \A i \in DOMAIN draft : draft[i] \in Unit
    BY <1>5, <1>6
  <1>8. {q.id} \cup below \subseteq Live /\ {q.id} \cup below \in SUBSET Id
    BY <1>2, <1>6 DEF Live
  <1>9. draft = [i \in DOMAIN draft |-> draft[i]]
    BY <1>7
  <1> HIDE DEF draft
  <1>10. /\ \A i \in DOMAIN draft : FitsDepth(draft[i].path)
         /\ req' = [req EXCEPT ![r].phase = "checkFree", ![r].base = << >>, ![r].segments = << >>,
                               ![r].draft = draft]
         /\ UNCHANGED <<rows, calm, moves>>
    BY DEF FindDescendants, draft, moved, rebased, below, new
  <1>11. ASSUME NEW i \in DOMAIN draft
         PROVE  draft[i].version >= 2 /\ Len(draft[i].path) \in 1 .. MaxDepth
    <2>1. Len(draft[i].path) <= MaxDepth
      BY <1>10 DEF FitsDepth
    <2>2. CASE i = q.id
      BY <1>4, <1>5, <1>7, <2>1, <2>2, OrgTreeAssumption
    <2>3. CASE i # q.id
      <3>1. i \in below /\ draft[i] = rebased(i)
        BY <1>7, <2>3
      <3>2. draft[i].version >= 2 /\ Len(draft[i].path) >= 1 /\ draft[i].path \in Path
        BY <1>6, <3>1
      <3>3. QED
        BY <2>1, <3>2, OrgTreeAssumption DEF Path
    <2>4. QED
      BY <2>2, <2>3
  <1>12. draft \in Draft
    <2>1. \A i \in DOMAIN draft : draft[i] \in FittingUnit
      BY <1>7, <1>11 DEF FittingUnit, Within
    <2>2. draft \in [DOMAIN draft -> FittingUnit]
      BY <1>9, <2>1
    <2>3. QED
      BY <1>7, <1>8, <2>2, DraftUnits
  <1>13. /\ req' \in [Request -> Asked] /\ \A s \in Request \ {r} : req'[s] = req[s]
         /\ req'[r].phase = "checkFree" /\ req'[r].move = q.move /\ req'[r].id = q.id
         /\ req'[r].parent = q.parent /\ req'[r].draft = draft
    <2>1. << >> \in Path /\ << >> \in Base
      BY Bases DEF Path
    <2>2. QED
      BY <1>1, <1>10, <1>12, <2>1 DEF IInv, Asked, Phase
  <1>14. ASSUME calm
         PROVE  /\ DOMAIN draft = {q.id} \cup DescendantsOf(rows[q.id].path)
                /\ draft[q.id].parent = q.parent
                /\ IF q.parent = NoId THEN Len(draft[q.id].path) = 1
                   ELSE /\ draft[q.id].path = rows[q.parent].path \o Leaf(rows[q.id].path)
                        /\ ~ IsAncestorOf(rows[q.id].path, rows[q.parent].path)
                /\ \A i \in DescendantsOf(rows[q.id].path) :
                     /\ draft[i].parent = rows[i].parent
                     /\ draft[i].path = Rebased(rows[i].path, rows[q.id].path, draft[q.id].path)
    <2>1. old = rows[q.id] /\ below = DescendantsOf(rows[q.id].path)
      BY <1>2, <1>14 DEF below
    <2>2. q.id \notin below
      BY <1>3, <2>1 DEF DescendantsOf, IsProperAncestor, Path
    <2>3. ASSUME NEW i \in below
          PROVE  /\ draft[i].parent = rows[i].parent
                 /\ draft[i].path = Rebased(rows[i].path, rows[q.id].path, draft[q.id].path)
      BY <1>5, <1>6, <1>7, <2>1, <2>2, <2>3
    <2>4. CASE q.parent = NoId
      <3>1. Len(draft[q.id].path) = 1
        <4>1. q.base = << >> /\ Len(<< >>) = 0
          BY <1>2, <2>4
        <4>2. Len(new) = 1
          BY <1>4, <4>1
        <4>3. QED
          BY <1>5, <1>7, <4>2
      <3>2. QED
        BY <1>5, <1>7, <2>1, <2>3, <2>4, <3>1
    <2>5. CASE q.parent # NoId
      <3>1. new = rows[q.parent].path \o Leaf(rows[q.id].path)
        BY <1>2, <1>14, <2>5 DEF new
      <3>2. QED
        BY <1>2, <1>5, <1>7, <1>14, <2>1, <2>3, <2>5, <3>1
    <2>6. QED
      BY <2>4, <2>5
  <1>15. MoveOK(r)'
    <2>1. q.id \in Live' /\ q.parent \in (Live \cup {NoId})' /\ DOMAIN draft \subseteq Live'
      BY <1>2, <1>7, <1>8, <1>10 DEF Live, Exists
    <2>2. calm' => IsSubtreeMoved(req[r])'
      BY <1>10, <1>13, <1>14 DEF IsSubtreeMoved, DescendantsOf, Live, Exists
    <2>3. QED
      BY <1>13, <1>11, <2>1, <2>2 DEF MoveOK
  <1>16. QED
    BY <1>1, <1>10, <1>13, <1>15, LocalStep DEF RequestOK

-----------------------------------------------------------------------------
(* A request reaches a use case *)

LEMMA StartStep ==
  ASSUME IInv, NEW r \in Request, NEW request \in Asked, Start(r, request),
         request.phase # "idle", moves' \in 0 .. MaxMoves, RequestOK(r)',
         IF request.move THEN request.id \in Live ELSE IsFresh(request.id)
  PROVE  IInv'
  <1>1. /\ ~ Busy(r) /\ UNCHANGED rows /\ req' \in [Request -> Asked] /\ req'[r] = request
        /\ \A s \in Request \ {r} : req'[s] = req[s]
        /\ calm' = (calm /\ \A q \in Request \ {r} : Busy(q) => ~ request.move /\ ~ req[q].move)
    BY DEF Start, IInv
  <1>2. calm' \in BOOLEAN /\ (calm' => calm)
        /\ (calm' => \A q \in Request \ {r} : Busy(q) => ~ request.move /\ ~ req[q].move)
    <2> DEFINE quiet == \A q \in Request \ {r} : Busy(q) => ~ request.move /\ ~ req[q].move
    <2>1. calm' = (calm /\ quiet)
      BY <1>1
    <2>2. calm \in BOOLEAN
      BY DEF IInv
    <2> HIDE DEF quiet
    <2>3. calm' \in BOOLEAN /\ (calm' => calm) /\ (calm' => quiet)
      BY <2>1, <2>2
    <2>4. QED
      BY <2>3 DEF quiet
  <1>3. RowsOK'
    BY <1>1, <1>2 DEF IInv, RowsOK, OneUnitPerPath, Live, Exists, HangsBelowParent
  <1>4. ASSUME NEW s \in Request
        PROVE  RequestOK(s)'
    <2>1. CASE s # r
      BY <1>1, <1>2, <2>1, Undisturbed
    <2>2. QED
      BY <2>1
  <1>5. IdsOK'
    <2> SUFFICES ASSUME NEW a \in Request, NEW s \in Request, a # s, Busy(a)', ~ req'[a].move
                 PROVE  req'[s].id # req'[a].id
      BY DEF IdsOK
    <2>1. CASE a = r
      <3>1. \A q \in Request : req[q].id # request.id
        BY <1>1, <2>1 DEF IsFresh
      <3>2. QED
        BY <1>1, <2>1, <3>1
    <2>2. CASE a # r
      <3>1. Busy(a) /\ req'[a] = req[a] /\ ~ req[a].move
        BY <1>1, <2>2 DEF Busy
      <3>2. CASE s # r
        BY <1>1, <3>1, <3>2 DEF IInv, IdsOK
      <3>3. CASE s = r
        <4>1. ~ Exists(req[a].id)
          BY <3>1 DEF IInv, RequestOK, CreateOK
        <4>2. request.id # req[a].id
          BY <4>1 DEF IsFresh, Live
        <4>3. QED
          BY <1>1, <3>1, <3>3, <4>2
      <3>4. QED
        BY <3>2, <3>3
    <2>3. QED
      BY <2>1, <2>2
  <1>6. MovesAlone'
    <2> SUFFICES ASSUME calm', NEW a \in Request, NEW s \in Request, a # s, Busy(a)', req'[a].move
                 PROVE  ~ Busy(s)'
      BY DEF MovesAlone
    <2>1. CASE a = r
      BY <1>1, <1>2, <2>1 DEF Busy
    <2>2. CASE a # r
      <3>1. Busy(a) /\ req[a].move
        BY <1>1, <2>2 DEF Busy
      <3>2. s # r
        BY <1>2, <2>2, <3>1
      <3>3. QED
        BY <1>1, <1>2, <2>2, <3>1, <3>2 DEF IInv, MovesAlone, Busy
    <2>3. QED
      BY <2>1, <2>2
  <1>7. QED
    BY <1>1, <1>2, <1>3, <1>4, <1>5, <1>6 DEF IInv

LEMMA IdleFields ==
  /\ Idle \in Asked /\ Idle.phase = "idle" /\ ~ Idle.move /\ Idle.id = NoId
  /\ Idle.base = << >> /\ Idle.parent = NoId /\ Idle.segments = << >>
  BY DraftUnits, Bases DEF Idle, Asked, Phase, AnyVersion, Path

LEMMA CreateRootStep ==
  ASSUME IInv, NEW r \in Request, NEW i \in Id, NEW label \in Segment, CreateRoot(r, i, label)
  PROVE  IInv'
  <1> DEFINE unit == [parent |-> NoId, path |-> <<label>>, version |-> 1]
             draft == [j \in {i} |-> unit]
             request == [Idle EXCEPT !.phase = "checkFree", !.id = i, !.draft = draft]
  <1>1. <<label>> \in Path /\ Len(<<label>>) = 1
    BY DEF Path
  <1>2. unit \in Unit /\ unit.parent = NoId /\ Len(unit.path) = 1 /\ unit.version = 1
    BY <1>1 DEF Unit
  <1> HIDE DEF unit
  <1>3. draft \in [{i} -> FittingUnit] /\ DOMAIN draft = {i} /\ draft[i] = unit
    <2>1. Len(unit.path) \in 1 .. MaxDepth
      BY <1>2, OrgTreeAssumption
    <2>2. unit \in FittingUnit
      BY <1>2, <2>1 DEF FittingUnit, Within
    <2>3. QED
      BY <2>2
  <1>4. draft \in Draft
    BY <1>3, DraftUnits
  <1> HIDE DEF draft
  <1>5. /\ request \in Asked /\ request.phase = "checkFree" /\ request.id = i
        /\ request.draft = draft /\ ~ request.move
    BY <1>4, IdleFields DEF Asked, Phase
  <1>6. Start(r, request) /\ IsFresh(i)
    BY DEF CreateRoot, request, draft, unit
  <1> HIDE DEF request
  <1>7. req'[r] = request /\ rows' = rows /\ moves' \in 0 .. MaxMoves
    BY <1>5, <1>6 DEF Start, IInv
  <1>8. CreateOK(r)'
    <2>1. ~ Exists(i)' /\ Len(unit.path) \in 1 .. MaxDepth /\ WillHang(unit)'
      BY <1>2, <1>6, <1>7, OrgTreeAssumption DEF IsFresh, Exists, WillHang
    <2>2. QED
      BY <1>2, <1>3, <1>5, <1>7, <2>1 DEF CreateOK
  <1>9. QED
    BY <1>5, <1>6, <1>7, <1>8, StartStep DEF RequestOK

LEMMA CreateChildStep ==
  ASSUME IInv, NEW r \in Request, NEW i \in Id, NEW parent \in Live, NEW label \in Segment,
         CreateChild(r, i, parent, label)
  PROVE  IInv'
  <1> DEFINE request == [Idle EXCEPT !.phase = "loadParent", !.id = i, !.parent = parent,
                                     !.segments = <<label>>]
  <1>1. <<label>> \in Path /\ Len(<<label>>) = 1 /\ parent \in Id
    BY DEF Path, Live
  <1>2. /\ request \in Asked /\ request.phase = "loadParent" /\ request.id = i
        /\ request.parent = parent /\ request.segments = <<label>> /\ ~ request.move
    BY <1>1, IdleFields DEF Asked, Phase
  <1>3. Start(r, request) /\ IsFresh(i)
    BY DEF CreateChild
  <1> HIDE DEF request
  <1>4. req'[r] = request /\ rows' = rows /\ moves' \in 0 .. MaxMoves
    BY <1>2, <1>3 DEF Start, IInv
  <1>5. CreateOK(r)'
    BY <1>1, <1>2, <1>3, <1>4 DEF CreateOK, IsFresh, Live, Exists
  <1>6. QED
    BY <1>2, <1>3, <1>4, <1>5, StartStep DEF RequestOK

LEMMA MoveStep ==
  ASSUME IInv, NEW r \in Request, NEW i \in Live, NEW parent \in Live \cup {NoId},
         NEW ifMatch \in {AnyVersion, rows[i].version}, Move(r, i, parent, ifMatch)
  PROVE  IInv'
  <1> DEFINE request == [Idle EXCEPT !.phase = "loadNode", !.move = TRUE, !.id = i,
                                     !.parent = parent, !.ifMatch = ifMatch]
  <1>1. i \in Id /\ parent \in Id \cup {NoId} /\ ifMatch \in Nat
    BY UnitFields DEF Live, IInv, RowsOK, AnyVersion
  <1>2. /\ request \in Asked /\ request.phase = "loadNode" /\ request.id = i
        /\ request.parent = parent /\ request.base = << >> /\ request.move
    BY <1>1, IdleFields DEF Asked, Phase
  <1>3. Start(r, request) /\ moves < MaxMoves
    BY DEF Move
  <1> HIDE DEF request
  <1>4. req'[r] = request /\ rows' = rows /\ moves' \in 0 .. MaxMoves
    BY <1>2, <1>3, OrgTreeAssumption DEF Start, IInv
  <1>5. MoveOK(r)'
    BY <1>1, <1>2, <1>4 DEF MoveOK, Live, Exists
  <1>6. QED
    BY <1>2, <1>3, <1>4, <1>5, StartStep DEF RequestOK

-----------------------------------------------------------------------------
(* A request saves *)

\* The table it leaves: what it drafted, and of everything else the rows there were.
LEMMA SavedRows ==
  ASSUME IInv, NEW r \in Request, Save(r)
  PROVE  /\ req[r].phase = "save" /\ Busy(r) /\ RequestOK(r)
         /\ UNCHANGED <<calm, moves>>
         /\ req' \in [Request -> Asked] /\ ~ Busy(r)' /\ req'[r].id = NoId
         /\ \A s \in Request \ {r} : req'[s] = req[s]
         /\ rows' = [i \in Id |-> rows'[i]]
         /\ \A i \in DOMAIN req[r].draft :
              /\ i \in Id /\ rows'[i] = req[r].draft[i] /\ rows'[i] \in Unit /\ Exists(i)'
              /\ Len(rows'[i].path) \in 1 .. MaxDepth /\ rows'[i].version # 0
         /\ \A i \in Id : i \notin DOMAIN req[r].draft => rows'[i] = rows[i]
         /\ OneUnitPerPath'
         /\ \A i \in Id : Exists(i) => Exists(i)'
         /\ ~ req[r].move => req[r].id \in Id /\ ~ Exists(req[r].id) /\ DOMAIN req[r].draft = {req[r].id}
         /\ req[r].move => DOMAIN req[r].draft \subseteq Live
  <1> DEFINE q == req[r]
  <1>1. q.phase = "save" /\ Busy(r) /\ RequestOK(r)
    BY RequestFields DEF Save, Busy
  <1>2. UNCHANGED <<calm, moves>> /\ req' = [req EXCEPT ![r] = Idle] /\ rows' = Written(q.draft)
        /\ IndexAccepts(Written(q.draft))
    BY DEF Save
  <1>3. /\ req' \in [Request -> Asked] /\ req'[r] = Idle
        /\ \A s \in Request \ {r} : req'[s] = req[s]
    BY <1>2, IdleFields DEF IInv
  <1>4. ~ Busy(r)' /\ req'[r].id = NoId
    BY <1>3, IdleFields DEF Busy
  <1>5. \A i \in DOMAIN q.draft : i \in Id /\ q.draft[i] \in Unit
    BY RequestFields
  <1>6. \A i \in DOMAIN q.draft :
          Len(q.draft[i].path) \in 1 .. MaxDepth /\ q.draft[i].version # 0
    <2>1. CASE q.move
      <3>1. \A i \in DOMAIN q.draft :
              q.draft[i].version >= 2 /\ Len(q.draft[i].path) \in 1 .. MaxDepth
        BY <1>1, <2>1 DEF RequestOK, MoveOK
      <3>2. \A n \in Nat : n >= 2 => n # 0
        OBVIOUS
      <3>3. QED
        BY <1>5, <3>1, <3>2, UnitFields
    <2>2. CASE ~ q.move
      BY <1>1, <2>2 DEF RequestOK, CreateOK
    <2>3. QED
      BY <2>1, <2>2
  <1>7. /\ rows' = [i \in Id |-> rows'[i]]
        /\ \A i \in Id : rows'[i] = IF i \in DOMAIN q.draft THEN q.draft[i] ELSE rows[i]
    BY <1>2 DEF Written
  <1>8. \A i \in DOMAIN q.draft : rows'[i] = q.draft[i] /\ Exists(i)'
    BY <1>5, <1>7, UnitFields DEF Exists
  <1>9. OneUnitPerPath'
    BY <1>2 DEF IndexAccepts, OneUnitPerPath, Live, Exists
  <1>10. ~ q.move => q.id \in Id /\ ~ Exists(q.id) /\ DOMAIN q.draft = {q.id}
    BY <1>1 DEF RequestOK, CreateOK
  <1>11. q.move => DOMAIN q.draft \subseteq Live
    BY <1>1 DEF RequestOK, MoveOK
  <1>12. \A i \in Id : i \notin DOMAIN q.draft => rows'[i] = rows[i]
    BY <1>7
  <1>13. \A i \in Id : Exists(i) => Exists(i)'
    BY <1>8, <1>12 DEF Exists
  <1>14. QED
    BY <1>1, <1>2, <1>3, <1>4, <1>5, <1>6, <1>7, <1>8, <1>9, <1>10, <1>11, <1>12, <1>13

LEMMA LiveUnit ==
  ASSUME IInv, calm, NEW i \in Live
  PROVE  /\ i \in Id /\ rows[i] \in Unit /\ rows[i].path \in Path /\ Len(rows[i].path) \in Nat \ {0}
         /\ HangsBelowParent(i)
         /\ Leaf(rows[i].path) \in Path /\ Len(Leaf(rows[i].path)) = 1
         /\ rows[i].parent \in Id \cup {NoId}
  <1>1. i \in Id /\ rows[i] \in Unit /\ Len(rows[i].path) \in 1 .. MaxDepth /\ HangsBelowParent(i)
    BY DEF Live, IInv, RowsOK
  <1>2. rows[i].path \in Path /\ rows[i].parent \in Id \cup {NoId}
    BY <1>1, UnitFields
  <1>3. Len(rows[i].path) \in Nat \ {0} /\ rows[i].path # << >>
    BY <1>1, OrgTreeAssumption
  <1>4. QED
    BY <1>1, <1>2, <1>3, LeafOfPath

\* The new unit hangs below its parent, and nothing else moves.
LEMMA CreatedHangs ==
  ASSUME IInv, calm, NEW r \in Request, Save(r), ~ req[r].move, NEW i \in Id, Exists(i)'
  PROVE  HangsBelowParent(i)'
  <1> DEFINE q == req[r]
  <1>1. /\ DOMAIN q.draft = {q.id} /\ q.id \in Id /\ ~ Exists(q.id)
        /\ rows'[q.id] = q.draft[q.id]
        /\ \A j \in Id \ {q.id} : rows'[j] = rows[j]
    BY SavedRows
  <1>2. WillHang(q.draft[q.id])
    BY SavedRows DEF RequestOK, CreateOK
  <1>3. q.draft[q.id].parent \in Id \cup {NoId}
    BY <1>1, RequestFields, UnitFields
  <1>4. CASE i = q.id
    <2>1. q.draft[q.id].parent # NoId => q.draft[q.id].parent # q.id
      BY <1>1, <1>2 DEF WillHang
    <2>2. QED
      BY <1>1, <1>2, <1>3, <1>4, <2>1 DEF WillHang, HangsBelowParent, Exists
  <1>5. CASE i # q.id
    <2>1. i \in Live /\ rows'[i] = rows[i]
      BY <1>1, <1>5 DEF Live, Exists
    <2>2. HangsBelowParent(i) /\ rows[i].parent \in Id \cup {NoId}
      BY <2>1, LiveUnit
    <2>3. QED
      BY <1>1, <2>1, <2>2 DEF HangsBelowParent, Exists
  <1>6. QED
    BY <1>4, <1>5

\* How a unit comes to hang below a parent that is there after the step.
LEMMA HangsAfter ==
  ASSUME NEW i, NEW p, NEW label, p # NoId, rows'[i].parent = p, rows'[p] # NoUnit,
         rows'[i].path = rows'[p].path \o label, Leaf(rows'[p].path \o label) = label
  PROVE  HangsBelowParent(i)'
  BY DEF HangsBelowParent, Exists

\* The moved unit hangs below its new parent, and its subtree comes along.
LEMMA MovedHangs ==
  ASSUME IInv, calm, NEW r \in Request, Save(r), req[r].move, NEW i \in Id, Exists(i)'
  PROVE  HangsBelowParent(i)'
  <1> DEFINE q == req[r]
             old == rows[q.id].path
             new == q.draft[q.id].path
             below == DescendantsOf(old)
  <1>0. PICK parent, target : parent = rows[i].parent /\ target = q.parent
    OBVIOUS
  <1>1. q.id \in Live /\ IsSubtreeMoved(q) /\ DOMAIN q.draft \subseteq Live
        /\ q.parent \in Live \cup {NoId}
    BY SavedRows DEF RequestOK, MoveOK
  <1>2. /\ DOMAIN q.draft = {q.id} \cup below /\ q.draft[q.id].parent = q.parent
        /\ IF q.parent = NoId THEN Len(new) = 1
           ELSE new = rows[q.parent].path \o Leaf(old) /\ ~ IsAncestorOf(old, rows[q.parent].path)
        /\ \A j \in below : q.draft[j].parent = rows[j].parent
                            /\ q.draft[j].path = Rebased(rows[j].path, old, new)
    BY <1>1 DEF IsSubtreeMoved
  <1>3. /\ \A j \in {q.id} \cup below : rows'[j] = q.draft[j] /\ rows'[j] \in Unit
        /\ \A j \in Id : j \notin {q.id} \cup below => rows'[j] = rows[j]
        /\ \A j \in Live : Exists(j)'
    BY <1>2, SavedRows DEF Live
  <1>4. old \in Path /\ Len(old) \in Nat \ {0} /\ Leaf(old) \in Path /\ Len(Leaf(old)) = 1
    BY <1>1, LiveUnit
  <1>5. new \in Path
    BY <1>2, <1>3, UnitFields
  <1>6. i \in Live
    <2>1. i \in {q.id} \cup below => i \in Live
      BY <1>1, <1>2
    <2>2. i \notin {q.id} \cup below => i \in Live
      BY <1>3 DEF Live, Exists
    <2>3. QED
      BY <2>1, <2>2
  <1>7. /\ rows[i].path \in Path /\ Len(rows[i].path) \in Nat \ {0} /\ HangsBelowParent(i)
        /\ Leaf(rows[i].path) \in Path /\ Len(Leaf(rows[i].path)) = 1
        /\ parent \in Id \cup {NoId}
    BY <1>0, <1>6, LiveUnit
  <1>8. ASSUME parent # NoId
        PROVE  /\ parent \in Live /\ rows[parent].path \in Path
               /\ rows[i].path = rows[parent].path \o Leaf(rows[i].path)
               /\ IsAncestorOf(old, rows[parent].path) <=> IsProperAncestor(old, rows[i].path)
    <2>1. parent \in Live /\ rows[i].path = rows[parent].path \o Leaf(rows[i].path)
      BY <1>0, <1>7, <1>8 DEF HangsBelowParent, Live
    <2>2. rows[parent].path \in Path
      BY <2>1, LiveUnit
    <2>3. /\ IsAncestorOf(old, rows[parent].path) =>
               IsProperAncestor(old, rows[parent].path \o Leaf(rows[i].path))
          /\ IsProperAncestor(old, rows[parent].path \o Leaf(rows[i].path)) =>
               IsAncestorOf(old, rows[parent].path)
      BY <1>4, <1>7, <2>2, ParentAbove
    <2>4. QED
      BY <2>1, <2>2, <2>3
  <1>9. q.id \notin below
    BY <1>4 DEF DescendantsOf, IsProperAncestor
  <1>10. CASE i = q.id
    <2>1. rows'[i].parent = target /\ rows'[i].path = new
      BY <1>0, <1>2, <1>3, <1>10
    <2>2. CASE target = NoId
      BY <1>0, <1>2, <2>1, <2>2 DEF HangsBelowParent
    <2>3. CASE target # NoId
      <3>1. target \in Live /\ target \in Id /\ rows[target].path \in Path
        BY <1>0, <1>1, <2>3, LiveUnit
      <3>2. new = rows[target].path \o Leaf(old) /\ ~ IsAncestorOf(old, rows[target].path)
        BY <1>0, <1>2, <2>3
      <3>3. target \notin {q.id} \cup below
        BY <3>2 DEF IsAncestorOf, DescendantsOf
      <3>4. rows'[target] = rows[target]
        BY <1>3, <3>1, <3>3
      <3>5. rows'[target] # NoUnit
        BY <3>1, <3>4 DEF Live, Exists
      <3>6. Leaf(rows[target].path \o Leaf(old)) = Leaf(old)
        BY <1>4, <3>1, LeafOfChild
      <3>7. QED
        BY <2>1, <2>3, <3>2, <3>4, <3>5, <3>6, HangsAfter
    <2>4. QED
      BY <2>2, <2>3
  <1>11. CASE i \in below
    <2>1. /\ rows'[i].parent = parent /\ rows'[i].path = Rebased(rows[i].path, old, new)
          /\ IsProperAncestor(old, rows[i].path)
      BY <1>0, <1>2, <1>3, <1>11 DEF DescendantsOf
    <2>2. parent # NoId
      <3>1. Len(old) < Len(rows[i].path)
        BY <2>1 DEF IsProperAncestor
      <3>2. Len(rows[i].path) # 1
        <4>1. \A a, b \in Nat \ {0} : a < b => b # 1
          OBVIOUS
        <4>2. Len(old) \in Nat \ {0} /\ Len(rows[i].path) \in Nat \ {0}
          BY <1>4, <1>7
        <4> HIDE DEF old
        <4>3. QED
          BY <3>1, <4>1, <4>2
      <3>3. QED
        BY <1>0, <1>7, <3>2 DEF HangsBelowParent
    <2>3. IsAncestorOf(old, rows[parent].path) /\ parent \in Live /\ rows[parent].path \in Path
      BY <1>8, <2>1, <2>2
    <2>4. rows'[parent].path = Rebased(rows[parent].path, old, new) /\ rows'[parent].path \in Path
      <3>1. CASE rows[parent].path = old
        <4>1. parent = q.id
          BY <1>1, <2>3, <3>1 DEF IInv, RowsOK, OneUnitPerPath
        <4>2. Rebased(old, old, new) = new
          BY <1>4, <1>5, RebasedItself
        <4>3. QED
          BY <1>3, <1>5, <3>1, <4>1, <4>2
      <3>2. CASE rows[parent].path # old
        <4>1. parent \in below
          BY <2>3, <3>2 DEF IsAncestorOf, DescendantsOf
        <4>2. QED
          BY <1>2, <1>3, <4>1, UnitFields
      <3>3. QED
        BY <3>1, <3>2
    <2>5. Len(old) <= Len(rows[parent].path)
      <3>1. Len(rows[parent].path) \in Nat
        BY <2>3 DEF Path
      <3>2. Len(old) = Len(rows[parent].path) \/ Len(old) < Len(rows[parent].path)
        BY <2>3 DEF IsAncestorOf, IsProperAncestor
      <3>3. QED
        BY <1>4, <3>1, <3>2
    <2>6. PICK label \in Path : label = Leaf(rows[i].path) /\ Len(label) = 1
      BY <1>7
    <2>7. rows'[i].path = rows'[parent].path \o label
      <3>1. rows[i].path = rows[parent].path \o label
        BY <1>8, <2>2, <2>6
      <3>2. Rebased(rows[i].path, old, new) = Rebased(rows[parent].path, old, new) \o label
        <4>1. /\ rows[i].path \in Path /\ rows[parent].path \in Path /\ old \in Path /\ new \in Path
          BY <1>4, <1>5, <1>7, <2>3
        <4> HIDE DEF old, new
        <4>2. PICK p \in Path, c \in Path, o \in Path, n \in Path :
                p = rows[parent].path /\ c = rows[i].path /\ o = old /\ n = new
          BY <4>1
        <4>3. c = p \o label /\ Len(o) <= Len(p) /\ Len(label) = 1
          BY <2>5, <2>6, <3>1, <4>2
        <4>4. ComesAlong(c, p, label, o, n)
          BY <4>3, RebasedChild
        <4>5. QED
          BY <4>2, <4>4 DEF ComesAlong
      <3>3. QED
        BY <2>1, <2>4, <3>2
    <2>8. Leaf(rows'[parent].path \o label) = label
      BY <2>4, <2>6, LeafOfChild
    <2>9. rows'[parent] # NoUnit
      BY <1>3, <2>3 DEF Exists
    <2>10. QED
      BY <2>1, <2>2, <2>7, <2>8, <2>9, HangsAfter
  <1>12. CASE i \notin {q.id} \cup below
    <2>1. rows'[i] = rows[i] /\ ~ IsProperAncestor(old, rows[i].path)
      BY <1>3, <1>6, <1>12 DEF DescendantsOf
    <2>2. CASE parent = NoId
      BY <1>0, <1>7, <2>1, <2>2 DEF HangsBelowParent
    <2>3. CASE parent # NoId
      <3>1. parent \in Live /\ parent \in Id /\ ~ IsAncestorOf(old, rows[parent].path)
        BY <1>7, <1>8, <2>1, <2>3
      <3>2. parent \notin {q.id} \cup below
        BY <3>1 DEF IsAncestorOf, DescendantsOf
      <3>3. rows'[parent] = rows[parent] /\ rows'[parent] # NoUnit
        BY <1>3, <3>1, <3>2 DEF Live, Exists
      <3>4. QED
        BY <1>0, <1>7, <2>1, <2>3, <3>3 DEF HangsBelowParent, Exists
    <2>4. QED
      BY <2>2, <2>3
  <1>13. QED
    BY <1>10, <1>11, <1>12


\* A unit that is about to hang below its parent still is, once others are saved.
LEMMA StillWillHang ==
  ASSUME IInv, NEW r \in Request, Save(r), NEW unit \in Unit, WillHang(unit),
         calm => ~ req[r].move
  PROVE  WillHang(unit)'
  <1>1. unit.parent \in Id \cup {NoId}
    BY UnitFields
  <1>2. CASE unit.parent = NoId
    BY <1>2 DEF WillHang
  <1>3. CASE unit.parent # NoId
    <2>1. unit.parent \in Id /\ Exists(unit.parent)
      BY <1>1, <1>3 DEF WillHang
    <2>2. PICK p \in Id : p = unit.parent
      BY <2>1
    <2>3. Exists(p) /\ Exists(p)'
      BY <2>1, <2>2, SavedRows
    <2>4. calm => rows'[p] = rows[p]
      BY <2>3, SavedRows
    <2>5. calm' = calm
      BY SavedRows
    <2>6. QED
      BY <1>3, <2>2, <2>3, <2>4, <2>5 DEF WillHang, Exists
  <1>4. QED
    BY <1>2, <1>3

\* Saving does not disturb the other requests.
LEMMA SavedOthers ==
  ASSUME IInv, NEW r \in Request, Save(r), NEW s \in Request, s # r
  PROVE  RequestOK(s)'
  <1>1. /\ req'[s] = req[s] /\ calm' = calm /\ Busy(r) /\ RequestOK(s)
        /\ \A i \in Id : Exists(i) => Exists(i)'
    BY SavedRows DEF IInv
  <1>2. SUFFICES ASSUME Busy(s)
                 PROVE  IF req[s].move THEN MoveOK(s)' ELSE CreateOK(s)'
    BY <1>1 DEF RequestOK, Busy
  <1>3. CASE req[s].move
    <2>1. ~ calm
      BY <1>1, <1>2, <1>3 DEF IInv, MovesAlone
    <2>2. MoveOK(s)
      BY <1>1, <1>2, <1>3 DEF RequestOK
    <2>3. Live \subseteq Live'
      BY <1>1 DEF Live
    <2>4. MoveOK(s)'
      BY <1>1, <2>1, <2>2, <2>3 DEF MoveOK
    <2>5. QED
      BY <1>3, <2>4
  <1>4. CASE ~ req[s].move
    <2>1. CreateOK(s)
      BY <1>1, <1>2, <1>4 DEF RequestOK
    <2>2. PICK i \in Id : i = req[s].id
      BY <2>1 DEF CreateOK
    <2>3. ~ Exists(i)
      BY <2>1, <2>2 DEF CreateOK
    <2>4. i \notin DOMAIN req[r].draft
      <3>1. CASE req[r].move
        BY <2>3, <3>1, SavedRows DEF Live
      <3>2. CASE ~ req[r].move
        BY <1>1, <2>2, <3>2, SavedRows DEF IInv, IdsOK
      <3>3. QED
        BY <3>1, <3>2
    <2>5. ~ Exists(i)'
      BY <2>3, <2>4, SavedRows DEF Exists
    <2>6. calm => ~ req[r].move
      BY <1>1, <1>2 DEF IInv, MovesAlone
    <2>7. Live \subseteq Live'
      BY <1>1 DEF Live
    <2>8. req[s].phase \in {"checkFree", "save"} => WillHang(req[s].draft[i])'
      <3>1. SUFFICES ASSUME req[s].phase \in {"checkFree", "save"}
                     PROVE  WillHang(req[s].draft[i])'
        OBVIOUS
      <3>2. PICK unit \in Unit : unit = req[s].draft[i]
        BY <2>1, <2>2, <3>1, RequestFields DEF CreateOK
      <3>3. WillHang(unit)
        BY <2>1, <2>2, <3>1, <3>2 DEF CreateOK
      <3>4. WillHang(unit)'
        BY <2>6, <3>3, StillWillHang
      <3>5. unit = req'[s].draft[i]
        BY <1>1, <3>2
      <3>6. QED
        BY <3>4, <3>5
    <2>9. CreateOK(s)'
      BY <1>1, <2>1, <2>2, <2>5, <2>7, <2>8 DEF CreateOK
    <2>10. QED
      BY <1>4, <2>9
  <1>5. QED
    BY <1>3, <1>4

LEMMA SaveStep ==
  ASSUME IInv, NEW r \in Request, Save(r)
  PROVE  IInv'
  <1>1. RowsOK'
    <2>1. OneUnitPerPath' /\ rows' = [i \in Id |-> rows'[i]] /\ calm' = calm
      BY SavedRows
    <2>2. ASSUME NEW i \in Id, Exists(i)'
          PROVE  /\ rows'[i] \in Unit /\ Len(rows'[i].path) \in 1 .. MaxDepth
                 /\ rows'[i].version # 0
      <3>1. CASE i \in DOMAIN req[r].draft
        BY <3>1, SavedRows
      <3>2. CASE i \notin DOMAIN req[r].draft
        BY <2>2, <3>2, SavedRows DEF IInv, RowsOK, Exists
      <3>3. QED
        BY <3>1, <3>2
    <2>3. ASSUME NEW i \in Id, Exists(i)', calm'
          PROVE  HangsBelowParent(i)'
      BY <2>1, <2>3, CreatedHangs, MovedHangs
    <2>4. QED
      BY <2>1, <2>2, <2>3 DEF RowsOK
  <1>2. /\ req' \in [Request -> Asked] /\ ~ Busy(r)' /\ req'[r].id = NoId
        /\ \A s \in Request \ {r} : req'[s] = req[s]
        /\ UNCHANGED <<calm, moves>>
    BY SavedRows
  <1>3. \A s \in Request : RequestOK(s)'
    <2>1. RequestOK(r)'
      BY <1>2 DEF RequestOK
    <2>2. QED
      BY <2>1, SavedOthers
  <1>4. \A s \in Request : Busy(s)' => s # r
    BY <1>2
  <1>5. IdsOK'
    <2> SUFFICES ASSUME NEW a \in Request, NEW s \in Request, a # s, Busy(a)', ~ req'[a].move
                 PROVE  req'[s].id # req'[a].id
      BY DEF IdsOK
    <2>1. a # r /\ req'[a] = req[a] /\ Busy(a) /\ ~ req[a].move
      BY <1>2, <1>4 DEF Busy
    <2>2. CASE s = r
      <3>1. req[a].id \in Id
        BY <2>1 DEF IInv, RequestOK, CreateOK
      <3>2. QED
        BY <1>2, <2>1, <2>2, <3>1, OrgTreeAssumption
    <2>3. CASE s # r
      BY <1>2, <2>1, <2>3 DEF IInv, IdsOK
    <2>4. QED
      BY <2>2, <2>3
  <1>6. MovesAlone'
    <2> SUFFICES ASSUME calm', NEW a \in Request, NEW s \in Request, a # s, Busy(a)', req'[a].move
                 PROVE  ~ Busy(s)'
      BY DEF MovesAlone
    <2>1. a # r /\ req'[a] = req[a] /\ Busy(a) /\ req[a].move /\ calm
      BY <1>2, <1>4 DEF Busy
    <2>2. CASE s = r
      BY <1>2, <2>2
    <2>3. CASE s # r
      BY <1>2, <2>1, <2>3 DEF IInv, MovesAlone, Busy
    <2>4. QED
      BY <2>2, <2>3
  <1>7. QED
    BY <1>1, <1>2, <1>3, <1>5, <1>6 DEF IInv


-----------------------------------------------------------------------------
(* The invariant, and what follows from it *)

LEMMA InitIInv == Init => IInv
  <1> SUFFICES ASSUME Init
               PROVE  IInv
    OBVIOUS
  <1>1. req \in [Request -> Asked] /\ \A r \in Request : ~ Busy(r)
    BY IdleFields DEF Init, Busy
  <1>2. \A i \in Id : ~ Exists(i)
    BY DEF Init, Exists
  <1>3. RowsOK
    BY <1>2 DEF Init, RowsOK, OneUnitPerPath, Live
  <1>4. QED
    BY <1>1, <1>3, OrgTreeAssumption DEF Init, IInv, RequestOK, IdsOK, MovesAlone

LEMMA StutterIInv ==
  ASSUME IInv, UNCHANGED vars
  PROVE  IInv'
  <1>1. RowsOK'
    BY DEF IInv, vars, RowsOK, OneUnitPerPath, Live, Exists, HangsBelowParent
  <1>2. \A s \in Request : RequestOK(s)'
    BY Undisturbed DEF vars
  <1>3. IdsOK' /\ MovesAlone'
    BY DEF IInv, vars, IdsOK, MovesAlone, Busy
  <1>4. QED
    BY <1>1, <1>2, <1>3 DEF IInv, vars

LEMMA StepIInv == IInv /\ [Next]_vars => IInv'
  <1> SUFFICES ASSUME IInv, [Next]_vars
               PROVE  IInv'
    OBVIOUS
  <1>1. CASE UNCHANGED vars
    BY <1>1, StutterIInv
  <1>2. ASSUME NEW r \in Request, OrgUnitController(r)
        PROVE  IInv'
    <2>1. ASSUME NEW i \in Id, NEW label \in Segment, CreateRoot(r, i, label)
          PROVE  IInv'
      BY <2>1, CreateRootStep
    <2>2. ASSUME NEW i \in Id, NEW parent \in Live, NEW label \in Segment,
                 CreateChild(r, i, parent, label)
          PROVE  IInv'
      BY <2>2, CreateChildStep
    <2>3. ASSUME NEW i \in Live, NEW parent \in Live \cup {NoId},
                 NEW ifMatch \in {AnyVersion, rows[i].version}, Move(r, i, parent, ifMatch)
          PROVE  IInv'
      BY <2>3, MoveStep
    <2>4. QED
      BY <1>2, <2>1, <2>2, <2>3 DEF OrgUnitController
  <1>3. QED
    BY <1>1, <1>2, LoadNodeStep, LoadParentOfNewStep, LoadNewParentStep, FindDescendantsStep,
       CheckFreeStep, SaveStep, FailStep DEF Next

\* What the table and the requests hold in every reachable state: every unit of the
\* table has a path within the depth, paths are unique and, while no move has
\* overlapped another request, those of the parents; every request holds in memory
\* what will still be true of the rows it read when it saves.
THEOREM InductiveInvariant == Spec => []IInv
  BY InitIInv, StepIInv, PTL DEF Spec

\* Every path fits the depth at every await of a create or a move: those of the table,
\* those of the aggregates in memory, a moved subtree's deepest included, and that of
\* the parent a request has loaded.
THEOREM TypeCorrect == Spec => []TypeOK
  <1>1. IInv => TypeOK
    <2> SUFFICES ASSUME IInv
                 PROVE  TypeOK
      OBVIOUS
    <2>1. ASSUME NEW r \in Request
          PROVE  /\ req[r].phase \in Phase
                 /\ req[r].base # << >> => Within(req[r].base)
                 /\ \A i \in DOMAIN req[r].draft :
                      i \in Id /\ req[r].draft[i] \in Unit /\ Within(req[r].draft[i].path)
      BY RequestFields DEF Asked, Base
    <2>2. QED
      BY <2>1 DEF IInv, RowsOK, TypeOK, Within
  <1>2. QED
    BY <1>1, InductiveInvariant, PTL

\* However creates and moves race for a path, no two units get it: the check of
\* findByPath is made before the lock is taken, the unique index after.
THEOREM PathsStayUnique == Spec => []OneUnitPerPath
  <1>1. IInv => OneUnitPerPath
    BY DEF IInv, RowsOK
  <1>2. QED
    BY <1>1, InductiveInvariant, PTL

\* The rebase of a subtree keeps every unit below its parent, whatever creates race
\* with each other, as long as no move overlaps another request.
THEOREM TreeMatchesPaths == Spec => []PathsFollowParents
  <1>1. IInv => PathsFollowParents
    BY DEF IInv, RowsOK, PathsFollowParents, Live
  <1>2. QED
    BY <1>1, InductiveInvariant, PTL

\* Every set of naturals that is not empty has a least element.
LEMMA NatMin ==
  ASSUME NEW T \in SUBSET Nat, T # {}
  PROVE  \E x \in T : \A y \in T : x <= y
  <1> DEFINE R == WellFounded!OpToRel(<, Nat)
  <1>1. WellFounded!IsWellFoundedOn(R, Nat)
    BY WellFounded!NatLessThanWellFounded
  <1>2. \A x, y \in Nat : y < x => <<y, x>> \in R
    BY DEF WellFounded!OpToRel
  <1> HIDE DEF R
  <1>3. PICK x \in T : \A y \in T : ~ (<<y, x>> \in R)
    BY <1>1, WellFounded!WFMin, Zenon
  <1>4. ASSUME NEW y \in T
        PROVE  ~ (y < x)
    BY <1>2, <1>3
  <1>5. QED
    BY <1>4

\* Of the units of a cycle the one with the shortest path would hang below another, whose
\* path is shorter still.
LEMMA PathsFollowedHaveNoCycle ==
  ASSUME IInv, calm
  PROVE  NoCycles
  <1> SUFFICES ASSUME NEW S \in SUBSET Live, S # {}
               PROVE  \E i \in S : rows[i].parent \notin S
    BY DEF NoCycles
  <1> DEFINE length(i) == Len(rows[i].path)
             T == {length(i) : i \in S}
  <1>1. ASSUME NEW i \in S
        PROVE  /\ i \in Id /\ Exists(i) /\ HangsBelowParent(i)
               /\ rows[i].path \in Path /\ length(i) \in Nat \ {0}
    <2>1. i \in Id /\ Exists(i)
      BY DEF Live
    <2>2. rows[i] \in Unit /\ length(i) \in 1 .. MaxDepth /\ HangsBelowParent(i)
      BY <2>1 DEF IInv, RowsOK
    <2>3. QED
      BY <2>1, <2>2, UnitFields, OrgTreeAssumption
  <1>2. T \in SUBSET Nat /\ T # {}
    BY <1>1
  <1> HIDE DEF T
  <1>3. PICK n \in T : \A m \in T : n <= m
    BY <1>2, NatMin
  <1>4. PICK i \in S : n = length(i)
    BY DEF T
  <1>5. ASSUME rows[i].parent \in S
        PROVE  FALSE
    <2> DEFINE p == rows[i].parent
    <2>1. p # NoId
      BY <1>1, <1>5, OrgTreeAssumption
    <2>2. rows[i].path = rows[p].path \o Leaf(rows[i].path)
      BY <1>1, <2>1 DEF HangsBelowParent
    <2>3. rows[i].path # << >>
      BY <1>1
    <2>4. Leaf(rows[i].path) \in Path /\ Len(Leaf(rows[i].path)) = 1
      BY <1>1, <2>3, LeafOfPath
    <2>5. length(i) = length(p) + 1
      <3>1. rows[p].path \in Path
        BY <1>1, <1>5
      <3>2. Len(rows[p].path \o Leaf(rows[i].path)) = Len(rows[p].path) + 1
        BY <3>1, <2>4, ChildElements
      <3>3. QED
        BY <3>2, <2>2
    <2>6. n <= length(p)
      BY <1>3, <1>5 DEF T
    <2>7. QED
      BY <1>1, <1>4, <1>5, <2>5, <2>6
  <1>6. QED
    BY <1>5

\* Moves that overlap no other request leave no unit below itself ("no cycles",
\* move-org-unit.use-case.ts): with two that overlap the claim is false.
THEOREM CalmTreesHaveNoCycles == Spec => [](calm => NoCycles)
  <1>1. IInv => (calm => NoCycles)
    BY PathsFollowedHaveNoCycle
  <1>2. QED
    BY <1>1, InductiveInvariant, PTL

LEMMA SaveCounts ==
  ASSUME IInv, NEW r \in Request, Save(r), NEW i \in Id, Exists(i), rows'[i] # rows[i]
  PROVE  rows'[i].version = rows[i].version + 1
  <1> DEFINE draft == req[r].draft
  <1>1. i \in DOMAIN draft /\ rows'[i] = draft[i]
    BY SavedRows
  <1>2. req[r].move
    BY <1>1, SavedRows
  <1>3. MoveOK(r) /\ req[r].phase = "save"
    BY <1>2, SavedRows DEF RequestOK
  <1>4. draft[i].version >= 2 /\ draft[i].version \in Nat
    BY <1>1, <1>3, RequestFields, UnitFields DEF MoveOK
  <1>5. draft[i].version # 1 /\ draft[i].version \in Nat
    BY <1>4
  <1>6. CasWins(i, draft[i])
    BY <1>1 DEF Save
  <1>7. rows[i].version = draft[i].version - 1
    BY <1>5, <1>6 DEF CasWins
  <1>8. QED
    BY <1>1, <1>5, <1>7

\* No update is lost: a save writes an existing unit only over the version it was
\* drafted from.
THEOREM NoLostUpdate == Spec => WritesCount
  <1> DEFINE Counts == \A i \in Id :
        Exists(i) /\ rows'[i] # rows[i] => rows'[i].version = rows[i].version + 1
  <1>1. IInv /\ [Next]_vars => [Counts]_vars
    <2> SUFFICES ASSUME IInv, Next, NEW i \in Id, Exists(i), rows'[i] # rows[i]
                 PROVE  rows'[i].version = rows[i].version + 1
      OBVIOUS
    <2>1. PICK r \in Request : Save(r)
      BY DEF Next, OrgUnitController, CreateRoot, CreateChild, Move, Start, LoadNode,
             LoadParentOfNew, LoadNewParent, FindDescendants, CheckFree, Fail
    <2>2. QED
      BY <2>1, SaveCounts
  <1>2. QED
    BY <1>1, InductiveInvariant, PTL DEF Spec, WritesCount
=============================================================================
