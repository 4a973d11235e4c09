---------------------------- MODULE ExpenseApiProofs ----------------------------
(***************************************************************************)
(* Proofs about ExpenseApi: an expense is approved once, on roles that were  *)
(* current and with its decision posted, tenants stay apart, and a listing   *)
(* read to its end misses only ties, for any users, expenses, scopes,       *)
(* policies and number of requests; and what WebClient shows is genuine.    *)
(***************************************************************************)
EXTENDS ExpenseApi, WebClient, FiniteSetTheorems, TLAPS

-----------------------------------------------------------------------------
(* The inductive invariant *)

\* An approval at each of its awaits, and when it is answered.
Resolving == [phase: {"resolving"}, user: User, expense: Expense, since: SUBSET SUBSET Role]
Deciding == [phase: {"checking", "handling"}, user: User, expense: Expense,
             since: SUBSET SUBSET Role, roles: SUBSET Role]
Saving == [phase: {"saving"}, user: User, expense: Expense, since: SUBSET SUBSET Role,
           roles: SUBSET Role, row: {Approved(Created)}]
Done == [phase: {"done"}, user: User, expense: Expense, status: {200, 403, 404, 409, 500},
         took: BOOLEAN]

IsListing(q) ==
  /\ q.phase = "listing"
  /\ q = [f \in {"phase", "user", "todo", "next", "resolved", "shown", "seen"} |-> q[f]]

HasShape(q) ==
  \/ q = Idle
  \/ q \in Resolving \cup Deciding \cup Saving \cup Done
  \/ IsListing(q)
  \/ q.phase \in {"listed", "unlisted"}

\* The roles the user has now are among those since the request, and the ones it goes by.
OnPresentRoles(q) ==
  /\ q.phase = "resolving" => grants[q.user] \in q.since
  /\ q.phase \in {"checking", "handling", "saving"} => q.roles \in q.since

\* The posts behind what a request has done, shown or refused, or may still do.
IsAudited(r, q) ==
  /\ q.phase \in {"handling", "saving"} => Post(r, q.expense, "approve", "ALLOW") \in emitted
  /\ q.phase = "done" =>
       /\ q.took => Post(r, q.expense, "approve", "ALLOW") \in emitted
       /\ q.status = 403 => Post(r, q.expense, "approve", "DENY") \in emitted
  /\ q.phase = "listing" => \A e \in q.shown : Post(r, e, "read", "ALLOW") \in emitted

IsToldTheTruth(q) ==
  q.phase = "done" =>
    /\ q.status = 200 => q.took
    /\ q.status \in {403, 404, 409} => ~ q.took

RequestOK(r, q) == HasShape(q) /\ OnPresentRoles(q) /\ IsAudited(r, q) /\ IsToldTheTruth(q)

\* An expense is as it was created until one request has taken it.
TakenOnce(e) ==
  \/ rows[e] = Created /\ Took(e) = {}
  \/ rows[e] = Approved(Created) /\ \E r \in Request : Took(e) = {r}

IInv ==
  /\ rows \in [Expense -> {Created, Approved(Created)}]
  /\ grants \in [User -> SUBSET Role]
  /\ req = [r \in Request |-> req[r]]
  /\ files \in [Scope -> {NoFile, Stub} \cup {Guarded(body) : body \in Body}]
  /\ \A r \in Request : RequestOK(r, req[r])
  /\ \A e \in Expense : TakenOnce(e)

-----------------------------------------------------------------------------
(* What a request moves to *)

LEMMA Moved ==
  ASSUME IInv, NEW r \in Request, NEW q, Moves(r, q)
  PROVE  /\ req' = [p \in Request |-> req'[p]]
         /\ req'[r] = q
         /\ \A p \in Request \ {r} : req'[p] = req[p]
  BY DEF IInv, Moves

\* A step of one request that does not take its expense.
LEMMA MoveStep ==
  ASSUME IInv, NEW r \in Request, NEW q, Moves(r, q), RequestOK(r, req[r])',
         req[r].phase # "done", req'[r].phase = "done" => ~ req'[r].took,
         rows' = rows, grants' = grants, files' = files, emitted \subseteq emitted'
  PROVE  IInv'
  <1>1. /\ req' = [p \in Request |-> req'[p]]
        /\ \A p \in Request \ {r} : req'[p] = req[p]
    BY Moved
  <1>2. ASSUME NEW p \in Request
        PROVE  RequestOK(p, req[p])'
    <2>1. CASE p = r
      BY <2>1
    <2>2. CASE p # r
      <3>1. RequestOK(p, req[p]) /\ req'[p] = req[p]
        BY <1>1, <2>2 DEF IInv
      <3>2. QED
        BY <3>1 DEF RequestOK, HasShape, OnPresentRoles, IsAudited, IsToldTheTruth, IsListing
    <2>3. QED
      BY <2>1, <2>2
  <1>3. \A e \in Expense : Took(e)' = Took(e)
    BY <1>1 DEF Took, Is
  <1>4. \A e \in Expense : TakenOnce(e)'
    BY <1>3 DEF IInv, TakenOnce
  <1>5. QED
    BY <1>1, <1>2, <1>4 DEF IInv

\* What the shapes of phases are; the phase tells which.
LEMMA PhaseShape ==
  ASSUME IInv, NEW r \in Request
  PROVE  /\ Is(r, "resolving") => req[r] \in Resolving
         /\ req[r].phase \in {"checking", "handling"} => req[r] \in Deciding
         /\ Is(r, "saving") => req[r] \in Saving
         /\ Is(r, "done") => req[r] \in Done
         /\ Is(r, "listing") => IsListing(req[r])
         /\ RequestOK(r, req[r])
  BY DEF IInv, RequestOK, HasShape, Is, Idle, Resolving, Deciding, Saving, Done, IsListing

\* An answer that takes nothing.
Declines(r, u, e, status) == Ends(r, u, e, status, FALSE)

LEMMA EndsStep ==
  ASSUME IInv, NEW r \in Request, NEW u \in User, NEW e \in Expense,
         NEW status \in {403, 404, 409, 500}, Declines(r, u, e, status),
         req[r].phase # "done",
         status = 403 => Post(r, e, "approve", "DENY") \in emitted',
         rows' = rows, grants' = grants, files' = files, emitted \subseteq emitted'
  PROVE  IInv'
  <1>1. req'[r].phase = "done" /\ req'[r].user = u /\ req'[r].expense = e /\ req'[r].status = status
    BY DEF Declines, Ends, Moves, IInv
  <1>2. ~ req'[r].took
    BY DEF Declines, Ends, Moves, IInv
  <1>3. req'[r] \in Done
    BY DEF Declines, Ends, Moves, IInv, Done
  <1>4. RequestOK(r, req[r])'
    BY <1>1, <1>2, <1>3 DEF RequestOK, HasShape, OnPresentRoles, IsAudited, IsToldTheTruth
  <1>5. QED
    BY <1>1, <1>2, <1>4, MoveStep DEF Declines, Ends

LEMMA RequestApprovalStep ==
  ASSUME IInv, NEW r \in Request, NEW u \in User, NEW e \in Expense, RequestApproval(r, u, e)
  PROVE  IInv'
  <1>1. /\ req[r].phase # "done"
        /\ rows' = rows /\ grants' = grants /\ files' = files
        /\ emitted' = emitted /\ emitted \subseteq emitted'
    BY DEF RequestApproval, Is
  <1>2. CASE e \notin Visible(u)
    <2>1. Declines(r, u, e, 404)
      BY <1>2 DEF RequestApproval, Status, Declines
    <2>2. QED
      BY <1>1, <2>1, EndsStep
  <1>3. CASE e \in Visible(u)
    <2>1. InTenant(u, e)
      BY <1>3 DEF Visible, InTenant
    <2> DEFINE q == [phase |-> "resolving", user |-> u, expense |-> e, since |-> {grants[u]}]
    <2>2. Moves(r, q)
      BY <1>3, <2>1 DEF RequestApproval
    <2>3. req'[r] = q
      BY <2>2, Moved
    <2>4. grants[u] \in SUBSET Role
      BY DEF IInv
    <2>5. RequestOK(r, req[r])'
      BY <1>1, <2>3, <2>4
         DEF RequestOK, HasShape, Resolving, OnPresentRoles, IsAudited, IsToldTheTruth
    <2>6. QED
      BY <1>1, <2>2, <2>3, <2>5, MoveStep
  <1>4. QED
    BY <1>2, <1>3

LEMMA ResolveStep ==
  ASSUME IInv, NEW r \in Request, Resolve(r)
  PROVE  IInv'
  <1>1. /\ req[r] \in Resolving /\ req[r].phase = "resolving" /\ OnPresentRoles(req[r])
        /\ rows' = rows /\ grants' = grants /\ files' = files
        /\ emitted' = emitted /\ emitted \subseteq emitted'
    BY PhaseShape DEF Resolve, Is, RequestOK
  <1> DEFINE q == [phase |-> "checking", user |-> req[r].user, expense |-> req[r].expense,
                   since |-> req[r].since, roles |-> grants[req[r].user]]
  <1>2. Moves(r, q)
    BY DEF Resolve, ForceFresh
  <1>3. req'[r] = q
    BY <1>2, Moved
  <1>4. q \in Deciding /\ q.phase = "checking" /\ q.roles \in q.since
    BY <1>1 DEF Resolving, Deciding, OnPresentRoles, IInv
  <1> HIDE DEF q
  <1>5. RequestOK(r, req[r])'
    BY <1>3, <1>4 DEF RequestOK, HasShape, OnPresentRoles, IsAudited, IsToldTheTruth
  <1>6. QED
    BY <1>1, <1>2, <1>3, <1>4, <1>5, MoveStep

-----------------------------------------------------------------------------
(* Decisions *)

WellFounded == INSTANCE WellFoundedInduction

LEMMA NatMin ==
  ASSUME NEW T \in SUBSET Nat, T # {}
  PROVE  \E x \in T : \A y \in T : x <= y
  <1> DEFINE R == WellFounded!OpToRel(<, Nat)
  <1>1. WellFounded!IsWellFoundedOn(R, Nat)
    BY WellFounded!NatLessThanWellFounded
  <1>2. \A x, y \in Nat : y < x => <<y, x>> \in R
    BY DEF WellFounded!OpToRel
  <1> HIDE DEF R
  <1>3. PICK x \in T : \A y \in T : ~ (<<y, x>> \in R)
    BY <1>1, WellFounded!WFMin, Zenon
  <1>4. ASSUME NEW y \in T
        PROVE  ~ (y < x)
    BY <1>2, <1>3
  <1>5. QED
    BY <1>4

\* A set of naturals with a bound has a greatest element.
LEMMA Greatest ==
  ASSUME NEW n \in Nat, NEW S \in SUBSET (0 .. n), S # {}
  PROVE  \E m \in S : \A k \in S : k <= m
  <1> DEFINE T == {n - k : k \in S}
  <1>1. PICK x \in T : \A y \in T : x <= y
    <2>1. T \in SUBSET Nat
      OBVIOUS
    <2>2. T # {}
      OBVIOUS
    <2> HIDE DEF T
    <2>3. QED
      BY <2>1, <2>2, NatMin
  <1>2. PICK m \in S : x = n - m
    OBVIOUS
  <1>3. \A k \in S : n - m <= n - k
    BY <1>1, <1>2
  <1>4. QED
    BY <1>3

\* The policies of the chain of a scope, the base at 0, and what each says.
PolicyAt(fs, scope, n) == IF n = 0 THEN Base ELSE fs[SubSeq(scope, 1, n)]
Verdicts(fs, scope, roles, action, case) ==
  {[depth |-> n, effect |-> Verdict(PolicyAt(fs, scope, n), roles, action, case)] :
     n \in {m \in 0 .. Len(scope) : PolicyAt(fs, scope, m) # NoFile}}
Speaking(fs, scope, roles, action, case) ==
  {v \in Verdicts(fs, scope, roles, action, case) : v.effect # "NONE"}

\* A decision is that of a policy of the chain that says something, or a denial.
LEMMA DecisionIsAVerdict ==
  ASSUME NEW fs, NEW scope \in Seq(STRING), NEW roles, NEW action, NEW case
  PROVE  \/ Decision(fs, scope, roles, action, case) = "DENY"
         \/ \E v \in Speaking(fs, scope, roles, action, case) :
              Decision(fs, scope, roles, action, case) = v.effect
  <1> DEFINE S == Speaking(fs, scope, roles, action, case)
             D == {v.depth : v \in S}
  <1>1. Decision(fs, scope, roles, action, case) =
          IF fs[scope] = NoFile \/ S = {} THEN "DENY"
          ELSE (CHOOSE v \in S : \A w \in S : w.depth <= v.depth).effect
    BY DEF Decision, Speaking, Verdicts, PolicyAt
  <1>2. Len(scope) \in Nat
    OBVIOUS
  <1>3. D \in SUBSET (0 .. Len(scope))
    BY DEF Speaking, Verdicts
  <1> HIDE DEF S
  <1>4. ASSUME S # {}
        PROVE  \E v \in S : \A w \in S : w.depth <= v.depth
    <2>1. D # {}
      BY <1>4
    <2>2. PICK m \in D : \A k \in D : k <= m
      <3> HIDE DEF D
      <3>1. QED
        BY <1>2, <1>3, <2>1, Greatest
    <2>3. PICK v \in S : v.depth = m
      BY <2>2
    <2>4. \A w \in S : w.depth <= v.depth
      BY <2>2, <2>3
    <2>5. QED
      BY <2>4
  <1>5. CASE S = {}
    BY <1>1, <1>5
  <1>6. CASE S # {}
    <2> DEFINE v == CHOOSE v \in S : \A w \in S : w.depth <= v.depth
    <2>1. v \in S
      BY <1>4, <1>6
    <2> HIDE DEF v
    <2>2. Decision(fs, scope, roles, action, case) \in {"DENY", v.effect}
      BY <1>1 DEF v
    <2>3. QED
      BY <2>1, <2>2 DEF S
  <1>7. QED
    BY <1>5, <1>6

LEMMA DecisionType ==
  ASSUME NEW fs, NEW scope \in Seq(STRING), NEW roles, NEW action, NEW case
  PROVE  Decision(fs, scope, roles, action, case) \in {"ALLOW", "DENY"}
  <1>1. \A v \in Speaking(fs, scope, roles, action, case) : v.effect \in {"ALLOW", "DENY"}
    <2>1. \A policy : Verdict(policy, roles, action, case) \in {"ALLOW", "DENY", "NONE"}
      BY DEF Verdict
    <2>2. QED
      BY <2>1 DEF Speaking, Verdicts
  <1>2. QED
    BY <1>1, DecisionIsAVerdict

-----------------------------------------------------------------------------
(* The other steps of an approval *)

LEMMA CheckStep ==
  ASSUME IInv, NEW r \in Request, Check(r)
  PROVE  IInv'
  <1>1. /\ req[r] \in Deciding /\ req[r].phase = "checking" /\ OnPresentRoles(req[r])
        /\ rows' = rows /\ grants' = grants /\ files' = files
    BY PhaseShape DEF Check, Is, RequestOK
  <1> DEFINE e == req[r].expense
  <1>2. PICK effect \in {Effect(req[r].user, e, "approve", req[r].roles)} :
          /\ EmitAudit(r, e, "approve", effect)
          /\ IF effect = "ALLOW" THEN Moves(r, [req[r] EXCEPT !.phase = "handling"])
             ELSE EndsWith(r, Status("ForbiddenError"))
    BY DEF Check
  <1>3. e \in Expense /\ req[r].user \in User
    BY <1>1 DEF Deciding
  <1>4. effect \in {"ALLOW", "DENY"}
    <2>1. Attributes[e].scope \in Seq(STRING)
      BY <1>3, ExpenseApiAssumption
    <2>2. QED
      BY <1>2, <2>1, DecisionType DEF Effect
  <1>5. emitted \subseteq emitted' /\ Post(r, e, "approve", effect) \in emitted'
    BY <1>2 DEF EmitAudit
  <1>6. CASE effect = "ALLOW"
    <2> DEFINE q == [req[r] EXCEPT !.phase = "handling"]
    <2>1. Moves(r, q)
      BY <1>2, <1>6
    <2>2. req'[r] = q
      BY <2>1, Moved
    <2>3. q \in Deciding /\ q.phase = "handling" /\ q.roles \in q.since /\ q.expense = e
      BY <1>1 DEF Deciding, OnPresentRoles
    <2> HIDE DEF q
    <2>4. RequestOK(r, req[r])'
      BY <1>5, <1>6, <2>2, <2>3 DEF RequestOK, HasShape, OnPresentRoles, IsAudited, IsToldTheTruth
    <2>5. QED
      BY <1>1, <1>5, <2>1, <2>2, <2>3, <2>4, MoveStep
  <1>7. CASE effect = "DENY"
    <2>1. Declines(r, req[r].user, e, 403)
      BY <1>2, <1>7 DEF EndsWith, Status, Declines
    <2>2. QED
      BY <1>1, <1>3, <1>5, <1>7, <2>1, EndsStep
  <1>8. QED
    BY <1>4, <1>6, <1>7

LEMMA FindByIdStep ==
  ASSUME IInv, NEW r \in Request, FindById(r)
  PROVE  IInv'
  <1>1. /\ req[r] \in Deciding /\ req[r].phase = "handling"
        /\ OnPresentRoles(req[r]) /\ IsAudited(r, req[r])
        /\ rows' = rows /\ grants' = grants /\ files' = files
        /\ emitted' = emitted /\ emitted \subseteq emitted'
    BY PhaseShape DEF FindById, Is, RequestOK
  <1> DEFINE e == req[r].expense
  <1>2. e \in Expense /\ req[r].user \in User
    BY <1>1 DEF Deciding
  <1>3. CASE rows[e].status = "pending"
    <2>1. rows[e] = Created
      BY <1>2, <1>3 DEF IInv, Created, Approved
    <2> DEFINE q == [phase |-> "saving", user |-> req[r].user, expense |-> e, since |-> req[r].since,
                     roles |-> req[r].roles, row |-> Approved(Created)]
    <2>2. Moves(r, q)
      BY <1>3, <2>1 DEF FindById
    <2>3. req'[r] = q
      BY <2>2, Moved
    <2>4. q \in Saving /\ q.phase = "saving" /\ q.roles \in q.since /\ q.expense = e
      <3>1. Approved(Created) \in {Approved(Created)}
        OBVIOUS
      <3>2. QED
        BY <1>1, <3>1 DEF Saving, Deciding, OnPresentRoles
    <2> HIDE DEF q
    <2>5. RequestOK(r, req[r])'
      BY <1>1, <2>3, <2>4 DEF RequestOK, HasShape, OnPresentRoles, IsAudited, IsToldTheTruth
    <2>6. QED
      BY <1>1, <2>2, <2>3, <2>4, <2>5, MoveStep
  <1>4. CASE rows[e].status # "pending"
    <2>1. Declines(r, req[r].user, e, 409)
      BY <1>4 DEF FindById, EndsWith, Status, Declines
    <2>2. QED
      BY <1>1, <1>2, <2>1, EndsStep
  <1>5. QED
    BY <1>3, <1>4

LEMMA FailStep ==
  ASSUME IInv, NEW r \in Request, Fail(r)
  PROVE  IInv'
  <1>1. /\ rows' = rows /\ grants' = grants /\ files' = files
        /\ emitted' = emitted /\ emitted \subseteq emitted'
    BY DEF Fail
  <1>2. CASE /\ req[r].phase \in {"resolving", "checking", "handling", "saving"}
             /\ EndsWith(r, Status("Error"))
    <2>1. req[r] \in Resolving \cup Deciding \cup Saving /\ req[r].phase # "done"
      BY <1>2, PhaseShape DEF Is
    <2>2. req[r].user \in User /\ req[r].expense \in Expense
      BY <2>1 DEF Resolving, Deciding, Saving
    <2>3. Declines(r, req[r].user, req[r].expense, 500)
      BY <1>2 DEF EndsWith, Status, Declines
    <2>4. QED
      BY <1>1, <2>1, <2>2, <2>3, EndsStep
  <1>3. CASE Is(r, "listing") /\ Moves(r, [phase |-> "unlisted", user |-> req[r].user])
    <2> DEFINE q == [phase |-> "unlisted", user |-> req[r].user]
    <2>1. req[r].phase # "done"
      BY <1>3 DEF Is
    <2>2. req'[r] = q /\ q.phase = "unlisted"
      BY <1>3, Moved
    <2> HIDE DEF q
    <2>3. RequestOK(r, req[r])'
      BY <2>2 DEF RequestOK, HasShape, OnPresentRoles, IsAudited, IsToldTheTruth
    <2>4. QED
      BY <1>1, <1>3, <2>1, <2>2, <2>3, MoveStep DEF q
  <1>4. QED
    BY <1>2, <1>3 DEF Fail

\* The one step that takes an expense: its row is as it was created, so nobody has.
LEMMA SaveStep ==
  ASSUME IInv, NEW r \in Request, Save(r)
  PROVE  IInv'
  <1>1. /\ req[r] \in Saving /\ req[r].phase = "saving" /\ IsAudited(r, req[r])
        /\ grants' = grants /\ files' = files
        /\ emitted' = emitted /\ emitted \subseteq emitted'
    BY PhaseShape DEF Save, Is, RequestOK
  <1>2. PICK e \in Expense :
          e = req[r].expense /\ req[r].user \in User /\ req[r].row = Approved(Created)
    BY <1>1 DEF Saving
  <1>3. CASE ~ CasWins(e, req[r].row.version)
    <2>1. Declines(r, req[r].user, e, 409) /\ rows' = rows
      BY <1>2, <1>3 DEF Save, EndsWith, Status, Declines
    <2>2. QED
      BY <1>1, <1>2, <2>1, EndsStep
  <1>4. CASE CasWins(e, req[r].row.version)
    <2>1. rows[e] = Created
      BY <1>2, <1>4 DEF CasWins, IInv, Created, Approved
    <2>2. Took(e) = {}
      BY <1>2, <2>1 DEF IInv, TakenOnce, Created, Approved
    <2>3. PICK status \in {200, 500} : Ends(r, req[r].user, req[r].expense, status, TRUE)
      BY <1>2, <1>4 DEF Save, Status
    <2>4. /\ req' = [p \in Request |-> req'[p]]
          /\ \A p \in Request \ {r} : req'[p] = req[p]
      BY <1>2, <2>3 DEF Ends, Moves, IInv
    <2>5. /\ req'[r].phase = "done" /\ req'[r].user = req[r].user
          /\ req'[r].expense = e /\ req'[r].status = status
      BY <1>2, <2>3 DEF Ends, Moves, IInv
    <2>6. req'[r].took
      BY <1>2, <2>3 DEF Ends, Moves, IInv
    <2>7. req'[r] \in Done
      BY <1>2, <2>3 DEF Ends, Moves, IInv, Done
    <2>8. /\ rows' \in [Expense -> {Created, Approved(Created)}]
          /\ rows'[e] = Approved(Created)
          /\ \A d \in Expense \ {e} : rows'[d] = rows[d]
      BY <1>2, <1>4 DEF Save, IInv
    <2>9. ASSUME NEW p \in Request
          PROVE  RequestOK(p, req[p])'
      <3>1. CASE p = r
        BY <1>1, <1>2, <2>5, <2>6, <2>7, <3>1
           DEF RequestOK, HasShape, OnPresentRoles, IsAudited, IsToldTheTruth
      <3>2. CASE p # r
        <4>1. RequestOK(p, req[p]) /\ req'[p] = req[p]
          BY <2>4, <3>2 DEF IInv
        <4>2. QED
          BY <1>1, <4>1
             DEF RequestOK, HasShape, OnPresentRoles, IsAudited, IsToldTheTruth, IsListing
      <3>3. QED
        BY <3>1, <3>2
    <2>10. Took(e)' = {r}
      BY <2>2, <2>4, <2>5, <2>6 DEF Took, Is
    <2>11. \A d \in Expense \ {e} : Took(d)' = Took(d)
      BY <1>1, <1>2, <2>4, <2>5 DEF Took, Is
    <2>12. ASSUME NEW d \in Expense
           PROVE  TakenOnce(d)'
      <3>1. CASE d = e
        BY <2>8, <2>10, <3>1 DEF TakenOnce
      <3>2. CASE d # e
        <4>1. TakenOnce(d) /\ rows'[d] = rows[d] /\ Took(d)' = Took(d)
          BY <2>8, <2>11, <3>2 DEF IInv
        <4>2. QED
          BY <4>1 DEF TakenOnce
      <3>3. QED
        BY <3>1, <3>2
    <2>13. QED
      BY <1>1, <2>4, <2>8, <2>9, <2>12 DEF IInv
  <1>5. QED
    BY <1>3, <1>4

-----------------------------------------------------------------------------
(* The steps of a listing *)

\* A page is read: nothing of it is shown yet.
LEMMA ReadPageStep ==
  ASSUME IInv, NEW r \in Request, NEW u, NEW cursor, NEW seen, ReadPage(r, u, cursor, seen),
         req[r].phase # "done",
         rows' = rows, grants' = grants, files' = files, emitted' = emitted
  PROVE  IInv'
  <1> DEFINE page == Page(RowsAfter(u, cursor))
             next == NextCursor(RowsAfter(u, cursor))
             q == [phase |-> "listing", user |-> u, todo |-> page, next |-> next,
                   resolved |-> {}, shown |-> {}, seen |-> seen \cup page]
  <1>1. Moves(r, q)
    BY DEF ReadPage
  <1>2. req'[r] = q
    BY <1>1, Moved
  <1> HIDE DEF page, next
  <1>3. q.phase = "listing" /\ IsListing(q) /\ q.shown = {}
    BY DEF IsListing
  <1> HIDE DEF q
  <1>4. RequestOK(r, req[r])'
    BY <1>2, <1>3 DEF RequestOK, HasShape, OnPresentRoles, IsAudited, IsToldTheTruth, IsListing
  <1>5. QED
    BY <1>1, <1>2, <1>3, <1>4, MoveStep

LEMMA CanReadStep ==
  ASSUME IInv, NEW r \in Request, CanRead(r)
  PROVE  IInv'
  <1>1. /\ IsListing(req[r]) /\ req[r].phase = "listing" /\ IsAudited(r, req[r])
        /\ rows' = rows /\ grants' = grants /\ files' = files
    BY PhaseShape DEF CanRead, Is, RequestOK
  <1>2. PICK e, p, effect :
          /\ EmitAudit(r, e, "read", effect)
          /\ Moves(r, [req[r] EXCEPT !.todo = req[r].todo \ {e},
                         !.resolved = req[r].resolved \cup {p},
                         !.shown = req[r].shown \cup (IF effect = "ALLOW" THEN {e} ELSE {})])
    BY DEF CanRead
  <1> DEFINE todo == req[r].todo \ {e}
             resolved == req[r].resolved \cup {p}
             shown == req[r].shown \cup (IF effect = "ALLOW" THEN {e} ELSE {})
             q == [req[r] EXCEPT !.todo = todo, !.resolved = resolved, !.shown = shown]
  <1>3. Moves(r, q)
    BY <1>2
  <1>4. req'[r] = q
    BY <1>3, Moved
  <1>5. emitted \subseteq emitted' /\ Post(r, e, "read", effect) \in emitted'
    BY <1>2 DEF EmitAudit
  <1>6. \A d \in shown : Post(r, d, "read", "ALLOW") \in emitted'
    BY <1>1, <1>5 DEF IsAudited
  <1> HIDE DEF todo, resolved, shown
  <1>7. q.phase = "listing" /\ IsListing(q) /\ q.shown = shown
    BY <1>1 DEF IsListing
  <1> HIDE DEF q
  <1>8. RequestOK(r, req[r])'
    BY <1>4, <1>6, <1>7 DEF RequestOK, HasShape, OnPresentRoles, IsAudited, IsToldTheTruth, IsListing
  <1>9. QED
    BY <1>1, <1>3, <1>4, <1>5, <1>7, <1>8, MoveStep

LEMMA AnswerPageStep ==
  ASSUME IInv, NEW r \in Request, AnswerPage(r)
  PROVE  IInv'
  <1>1. /\ req[r].phase = "listing" /\ req[r].phase # "done"
        /\ rows' = rows /\ grants' = grants /\ files' = files
        /\ emitted' = emitted /\ emitted \subseteq emitted'
    BY DEF AnswerPage, Is
  <1>2. CASE req[r].next = NoCursor
    <2> DEFINE q == [phase |-> "listed", user |-> req[r].user, seen |-> req[r].seen]
    <2>1. Moves(r, q)
      BY <1>2 DEF AnswerPage
    <2>2. req'[r] = q
      BY <2>1, Moved
    <2>3. RequestOK(r, req[r])'
      BY <2>2 DEF RequestOK, HasShape, OnPresentRoles, IsAudited, IsToldTheTruth
    <2>4. QED
      BY <1>1, <2>1, <2>2, <2>3, MoveStep
  <1>3. CASE req[r].next # NoCursor
    BY <1>1, <1>3, ReadPageStep DEF AnswerPage
  <1>4. QED
    BY <1>2, <1>3

-----------------------------------------------------------------------------
(* The steps of the administrator *)

LEMMA GrantsChangeStep ==
  ASSUME IInv, NEW u \in User, NEW roles \in SUBSET Role, GrantsChange(u, roles)
  PROVE  IInv'
  <1>1. /\ rows' = rows /\ files' = files /\ emitted' = emitted
        /\ req' = [r \in Request |-> req'[r]]
        /\ grants' \in [User -> SUBSET Role]
        /\ grants'[u] = roles
        /\ \A v \in User \ {u} : grants'[v] = grants[v]
    BY DEF GrantsChange, IInv
  <1>2. ASSUME NEW r \in Request
        PROVE  /\ RequestOK(r, req[r])'
               /\ req'[r].phase = req[r].phase
               /\ Is(r, "done") => req'[r] = req[r]
    <2>1. CASE req[r].phase \in {"resolving", "checking", "handling", "saving"} /\ req[r].user = u
      <3> DEFINE q == [req[r] EXCEPT !.since = @ \cup {roles}]
      <3>1. req'[r] = q
        BY <2>1 DEF GrantsChange
      <3>2. RequestOK(r, req[r]) /\ req[r] \in Resolving \cup Deciding \cup Saving
        BY <2>1, PhaseShape DEF Is
      <3>3. /\ q \in Resolving \cup Deciding \cup Saving
            /\ q.phase = req[r].phase /\ q.user = u /\ q.expense = req[r].expense
            /\ q.since = req[r].since \cup {roles}
            /\ q.phase # "resolving" => q.roles = req[r].roles
        BY <2>1, <3>2 DEF Resolving, Deciding, Saving
      <3> HIDE DEF q
      <3>5. IsAudited(r, req[r])'
        BY <1>1, <2>1, <3>1, <3>2, <3>3 DEF RequestOK, IsAudited
      <3>6. IsToldTheTruth(req[r])' /\ HasShape(req[r])'
        BY <2>1, <3>1, <3>3 DEF IsToldTheTruth, HasShape
      <3>7. OnPresentRoles(req[r])'
        BY <1>1, <3>1, <3>2, <3>3 DEF RequestOK, OnPresentRoles
      <3>8. QED
        BY <2>1, <3>1, <3>3, <3>5, <3>6, <3>7 DEF RequestOK, Is
    <2>2. CASE ~ (req[r].phase \in {"resolving", "checking", "handling", "saving"} /\ req[r].user = u)
      <3>1. req'[r] = req[r]
        BY <2>2 DEF GrantsChange
      <3>2. RequestOK(r, req[r])
        BY DEF IInv
      <3>3. OnPresentRoles(req[r])'
        <4>1. CASE req[r].phase = "resolving"
          <5>1. req[r].user \in User /\ req[r].user # u
            BY <2>2, <4>1, PhaseShape DEF Is, Resolving
          <5>2. QED
            BY <1>1, <3>1, <3>2, <4>1, <5>1 DEF RequestOK, OnPresentRoles
        <4>2. CASE req[r].phase # "resolving"
          BY <3>1, <3>2, <4>2 DEF RequestOK, OnPresentRoles
        <4>3. QED
          BY <4>1, <4>2
      <3>4. QED
        BY <1>1, <3>1, <3>2, <3>3 DEF RequestOK, HasShape, IsAudited, IsToldTheTruth, IsListing
    <2>3. QED
      BY <2>1, <2>2
  <1>3. \A e \in Expense : Took(e)' = Took(e)
    BY <1>2 DEF Took, Is
  <1>4. \A e \in Expense : TakenOnce(e)'
    BY <1>1, <1>3 DEF IInv, TakenOnce
  <1>5. QED
    BY <1>1, <1>2, <1>4 DEF IInv

LEMMA PublishPolicyStep ==
  ASSUME IInv, NEW s \in Scope, NEW body \in Body, PublishPolicy(s, body)
  PROVE  IInv'
  <1>1. /\ rows' = rows /\ grants' = grants /\ req' = req /\ emitted' = emitted
        /\ files' \in [Scope -> {NoFile, Stub} \cup {Guarded(b) : b \in Body}]
    BY DEF PublishPolicy, PolicyFile, IInv
  <1>2. \A r \in Request : RequestOK(r, req[r])'
    BY <1>1 DEF IInv, RequestOK, HasShape, OnPresentRoles, IsAudited, IsToldTheTruth, IsListing
  <1>3. \A e \in Expense : TakenOnce(e)'
    BY <1>1 DEF IInv, TakenOnce, Took, Is
  <1>4. QED
    BY <1>1, <1>2, <1>3 DEF IInv

-----------------------------------------------------------------------------
(* Tenants *)

\* A published policy begins with the guardrail, so it denies whatever crosses tenants;
\* and so does the base. A stub says nothing.
LEMMA GuardrailDenies ==
  ASSUME NEW roles, NEW action, NEW case \in Case, case.principalTenant # case.resourceTenant
  PROVE  /\ \A body \in Body : Verdict(Guarded(body), roles, action, case) = "DENY"
         /\ Verdict(Base, roles, action, case) = "DENY"
         /\ Verdict(Stub, roles, action, case) = "NONE"
  <1> DEFINE guardrail == CompileRule(TenantIsolationGuardrail)
  <1>1. case \in guardrail.match /\ guardrail.actions = {Anyone} /\ guardrail.roles = {Anyone}
        /\ guardrail.effect = "DENY"
    BY DEF CompileRule, Match, TenantIsolationGuardrail
  <1>2. Applies(guardrail, roles, action, case)
    BY <1>1 DEF Applies
  <1> HIDE DEF guardrail
  <1>3. ASSUME NEW policy, 1 \in DOMAIN policy, policy[1] = guardrail
        PROVE  Verdict(policy, roles, action, case) = "DENY"
    <2>1. "DENY" \in {policy[i].effect : i \in
                        {j \in DOMAIN policy : Applies(policy[j], roles, action, case)}}
      BY <1>1, <1>2, <1>3
    <2>2. QED
      BY <2>1 DEF Verdict
  <1>4. ASSUME NEW body \in Body
        PROVE  Verdict(Guarded(body), roles, action, case) = "DENY"
    <2>1. PICK S : body \in Seq(S)
      BY ExpenseApiAssumption DEF WellFormed
    <2> DEFINE all == <<TenantIsolationGuardrail>> \o body
    <2>2. 1 \in DOMAIN all /\ all[1] = TenantIsolationGuardrail
      <3> HIDE DEF TenantIsolationGuardrail
      <3>1. QED
        BY <2>1
    <2> HIDE DEF all
    <2>3. 1 \in DOMAIN Compile(all) /\ Compile(all)[1] = guardrail
      BY <2>2 DEF Compile, guardrail
    <2>4. Verdict(Compile(all), roles, action, case) = "DENY"
      <3> DEFINE compiled == Compile(all)
      <3>1. 1 \in DOMAIN compiled /\ compiled[1] = guardrail
        BY <2>3
      <3> HIDE DEF compiled
      <3>2. Verdict(compiled, roles, action, case) = "DENY"
        BY <3>1, <1>3
      <3>3. QED
        BY <3>2 DEF compiled
    <2>5. QED
      BY <2>4 DEF Guarded, all
  <1>5. Verdict(Base, roles, action, case) = "DENY"
    <2>1. 1 \in DOMAIN Base /\ Base[1] = guardrail
      BY DEF Base, Compile, guardrail
    <2>2. QED
      BY <1>3, <2>1
  <1>6. Verdict(Stub, roles, action, case) = "NONE"
    <2>1. DOMAIN Stub = {}
      BY DEF Stub, Compile
    <2>2. QED
      BY <2>1 DEF Verdict
  <1>7. QED
    BY <1>4, <1>5, <1>6

LEMMA TenantsStayApart == IInv => CrossTenantDenied
  <1> SUFFICES ASSUME IInv,
                      NEW case \in Case, case.principalTenant # case.resourceTenant,
                      NEW s \in Scope, NEW action, NEW roles
               PROVE  Decision(files, s, roles, action, case) = "DENY"
    BY DEF CrossTenantDenied
  <1>1. s \in Seq(STRING) /\ AncestorScopes(s) \subseteq Scope
    BY ExpenseApiAssumption
  <1>2. ASSUME NEW n \in 0 .. Len(s), PolicyAt(files, s, n) # NoFile
        PROVE  Verdict(PolicyAt(files, s, n), roles, action, case) \in {"DENY", "NONE"}
    <2>1. CASE n = 0
      <3>1. PolicyAt(files, s, n) = Base
        BY <2>1 DEF PolicyAt
      <3>2. Verdict(Base, roles, action, case) = "DENY"
        BY GuardrailDenies
      <3>3. QED
        BY <3>1, <3>2
    <2>2. CASE n # 0
      <3>1. n \in 1 .. Len(s)
        BY <1>1, <2>2
      <3>2. SubSeq(s, 1, n) \in Scope
        <4>1. CASE n = Len(s)
          <5>1. SubSeq(s, 1, n) = s
            BY <1>1, <4>1
          <5>2. QED
            BY <5>1
        <4>2. CASE n # Len(s)
          <5>1. n \in 1 .. Len(s) - 1
            BY <1>1, <3>1, <4>2
          <5>2. SubSeq(s, 1, n) \in AncestorScopes(s)
            BY <5>1 DEF AncestorScopes
          <5>3. QED
            BY <1>1, <5>2
        <4>3. QED
          BY <4>1, <4>2
      <3>3. PolicyAt(files, s, n) = files[SubSeq(s, 1, n)]
        BY <2>2 DEF PolicyAt
      <3>4. PolicyAt(files, s, n) \in {Stub} \cup {Guarded(body) : body \in Body}
        BY <1>2, <3>2, <3>3 DEF IInv
      <3>5. /\ \A body \in Body : Verdict(Guarded(body), roles, action, case) = "DENY"
            /\ Verdict(Stub, roles, action, case) = "NONE"
        BY GuardrailDenies
      <3>6. QED
        BY <3>4, <3>5
    <2>3. QED
      BY <2>1, <2>2
  <1>3. \A v \in Speaking(files, s, roles, action, case) : v.effect = "DENY"
    BY <1>2 DEF Speaking, Verdicts
  <1>4. QED
    BY <1>1, <1>3, DecisionIsAVerdict

-----------------------------------------------------------------------------
(* Theorems *)

LEMMA InitIInv == Init => IInv
  <1> SUFFICES ASSUME Init
               PROVE  IInv
    OBVIOUS
  <1>1. \A r \in Request : req[r] = Idle
    BY DEF Init
  <1>2. \A r \in Request : RequestOK(r, req[r])
    BY <1>1 DEF Idle, RequestOK, HasShape, OnPresentRoles, IsAudited, IsToldTheTruth
  <1>3. \A e \in Expense : TakenOnce(e)
    BY <1>1 DEF Init, TakenOnce, Took, Is, Idle
  <1>4. QED
    BY <1>2, <1>3 DEF Init, IInv

LEMMA StepIInv == IInv /\ [Next]_vars => IInv'
  <1> SUFFICES ASSUME IInv, [Next]_vars
               PROVE  IInv'
    OBVIOUS
  <1>1. ASSUME NEW r \in Request, ExpenseController(r)
        PROVE  IInv'
    <2>1. ASSUME NEW u \in User, NEW e \in Expense, RequestApproval(r, u, e)
          PROVE  IInv'
      BY <2>1, RequestApprovalStep
    <2>2. ASSUME NEW u \in User, List(r, u)
          PROVE  IInv'
      <3>1. /\ ReadPage(r, u, NoCursor, {}) /\ req[r].phase # "done"
            /\ rows' = rows /\ grants' = grants /\ files' = files /\ emitted' = emitted
        BY <2>2 DEF List, Is
      <3>2. QED
        BY <3>1, ReadPageStep
    <2>3. QED
      BY <1>1, <2>1, <2>2 DEF ExpenseController
  <1>2. ASSUME NEW r \in Request, Step(r)
        PROVE  IInv'
    BY <1>2, FailStep, ResolveStep, CheckStep, FindByIdStep, SaveStep, CanReadStep, AnswerPageStep
       DEF Step
  <1>3. ASSUME NEW u \in User, NEW roles \in SUBSET Role, GrantsChange(u, roles)
        PROVE  IInv'
    BY <1>3, GrantsChangeStep
  <1>4. ASSUME NEW s \in Scope, NEW body \in Body, PublishPolicy(s, body)
        PROVE  IInv'
    BY <1>4, PublishPolicyStep
  <1>5. CASE UNCHANGED vars
    <2>1. /\ rows' = rows /\ grants' = grants /\ files' = files
          /\ req' = req /\ emitted' = emitted
      BY <1>5 DEF vars
    <2>2. \A r \in Request : RequestOK(r, req[r])'
      BY <2>1 DEF IInv, RequestOK, HasShape, OnPresentRoles, IsAudited, IsToldTheTruth, IsListing
    <2>3. \A e \in Expense : TakenOnce(e)'
      BY <2>1 DEF IInv, TakenOnce, Took, Is
    <2>4. QED
      BY <2>1, <2>2, <2>3 DEF IInv
  <1>6. QED
    BY <1>1, <1>2, <1>3, <1>4, <1>5 DEF Next

\* Where each request and each expense stands, at every moment.
THEOREM InductiveInvariant == Spec => []IInv
  BY InitIInv, StepIInv, PTL DEF Spec

\* Whatever races, one request takes an expense, and no answer lies about it: the
\* compare-and-set of save() is won from the row as it was created.
THEOREM OneApproval == Spec => []ApprovedByOne
  <1>1. IInv => ApprovedByOne
    <2> SUFFICES ASSUME IInv
                 PROVE  ApprovedByOne
      OBVIOUS
    <2>1. ASSUME NEW e \in Expense
          PROVE  /\ rows[e].version = 1 + Cardinality(Took(e))
                 /\ Cardinality(Took(e)) <= 1
                 /\ rows[e].status = "approved" <=> Took(e) # {}
      <3>1. CASE rows[e] = Created /\ Took(e) = {}
        <4>1. Cardinality(Took(e)) = 0
          BY <3>1, FS_EmptySet
        <4>2. QED
          BY <3>1, <4>1 DEF Created
      <3>2. CASE rows[e] = Approved(Created) /\ \E r \in Request : Took(e) = {r}
        <4>1. Cardinality(Took(e)) = 1 /\ Took(e) # {}
          BY <3>2, FS_Singleton
        <4>2. QED
          BY <3>2, <4>1 DEF Created, Approved
      <3>3. QED
        BY <3>1, <3>2 DEF IInv, TakenOnce
    <2>2. ASSUME NEW r \in Request, Is(r, "done")
          PROVE  /\ req[r].status = 200 => req[r].took
                 /\ req[r].status \in {403, 404, 409} => ~ req[r].took
      BY <2>2 DEF IInv, RequestOK, IsToldTheTruth, Is
    <2>3. QED
      BY <2>1, <2>2 DEF ApprovedByOne
  <1>2. QED
    BY <1>1, InductiveInvariant, PTL

\* Roles revoked before an approval was requested do not approve.
THEOREM PresentRolesApprove == Spec => []ApprovedOnPresentRoles
  <1>1. IInv => ApprovedOnPresentRoles
    BY DEF IInv, RequestOK, OnPresentRoles, ApprovedOnPresentRoles
  <1>2. QED
    BY <1>1, InductiveInvariant, PTL

\* No approval, no row shown and no refusal without the decision posted before.
THEOREM PostedBeforeEffect == Spec => []EffectsWereAudited
  <1>1. IInv => EffectsWereAudited
    BY DEF IInv, RequestOK, IsAudited, EffectsWereAudited, Is
  <1>2. QED
    BY <1>1, InductiveInvariant, PTL

\* Whatever is published at whatever scopes, no decision crosses tenants.
THEOREM TenantIsolation == Spec => []CrossTenantDenied
  BY TenantsStayApart, InductiveInvariant, PTL


-----------------------------------------------------------------------------
(* What a listing reads, page after page *)

\* The order of the listing is a strict one, and of any two expenses one comes first.
LEMMA NewerOrders ==
  ASSUME NEW d \in Expense, NEW e \in Expense
  PROVE  /\ ~ Newer(e, e)
         /\ d # e => Newer(d, e) \/ Newer(e, d)
         /\ \A f \in Expense : Newer(f, d) /\ Newer(d, e) => Newer(f, e)
  <1>1. \A f \in Expense : f \in Nat /\ Attributes[f].created \in Nat
    BY ExpenseApiAssumption
  <1>2. QED
    BY <1>1 DEF Newer

\* Some row comes first.
LEMMA FirstIsNewest ==
  ASSUME NEW found \in SUBSET Expense, found # {}
  PROVE  \E e \in found : NewerIn(found, e) = {}
  <1> DEFINE rank(e) == Cardinality(NewerIn(found, e))
             T == {rank(e) : e \in found}
  <1>1. \A e : IsFiniteSet(NewerIn(found, e)) /\ rank(e) \in Nat
    <2>1. \A e : NewerIn(found, e) \subseteq Expense
      BY DEF NewerIn
    <2>2. QED
      BY <2>1, ExpenseApiAssumption, FS_Subset, FS_CardinalityType
  <1>2. PICK e \in found : \A d \in found : rank(e) <= rank(d)
    <2>1. T \in SUBSET Nat /\ T # {}
      BY <1>1
    <2> HIDE DEF T, rank
    <2>2. PICK x \in T : \A y \in T : x <= y
      BY <2>1, NatMin
    <2>3. QED
      BY <2>2 DEF T
  <1>3. ASSUME NEW d \in NewerIn(found, e)
        PROVE  FALSE
    <2>1. d \in found /\ Newer(d, e)
      BY DEF NewerIn
    <2>2. NewerIn(found, d) \subseteq NewerIn(found, e) \ {d}
      BY <2>1, NewerOrders DEF NewerIn
    <2>3. NewerIn(found, d) \subseteq NewerIn(found, e) /\ NewerIn(found, d) # NewerIn(found, e)
      BY <2>2
    <2>4. rank(d) < rank(e)
      BY <1>1, <2>3, FS_Subset
    <2>5. QED
      BY <1>1, <1>2, <2>1, <2>4
  <1>4. QED
    BY <1>3

\* The last row of a page is the oldest one.
LEMMA LastIsOldest ==
  ASSUME NEW page \in SUBSET Expense, page # {}
  PROVE  Last(page) \in page /\ \A d \in page \ {Last(page)} : Newer(d, Last(page))
  <1>1. \A e \in page : e \in Expense /\ e \in Nat /\ Attributes[e].created \in Nat
    BY ExpenseApiAssumption
  <1> DEFINE times == {Attributes[e].created : e \in page}
  <1>2. PICK first \in page : \A e \in page : Attributes[first].created <= Attributes[e].created
    <2>1. times \in SUBSET Nat /\ times # {}
      BY <1>1
    <2> HIDE DEF times
    <2>2. PICK x \in times : \A y \in times : x <= y
      BY <2>1, NatMin
    <2>3. QED
      BY <2>2 DEF times
  <1> DEFINE ties == {e \in page : Attributes[e].created = Attributes[first].created}
  <1>3. PICK last \in ties : \A e \in ties : last <= e
    <2>1. ties \in SUBSET Nat /\ ties # {}
      BY <1>1
    <2> HIDE DEF ties
    <2>2. QED
      BY <2>1, NatMin
  <1>4. last \in page /\ Attributes[last].created = Attributes[first].created
    OBVIOUS
  <1>5. \A d \in page \ {last} : Newer(d, last)
    <2> SUFFICES ASSUME NEW d \in page \ {last}
                 PROVE  Newer(d, last)
      OBVIOUS
    <2>1. CASE Attributes[d].created = Attributes[first].created
      BY <1>1, <1>3, <1>4, <2>1 DEF Newer
    <2>2. CASE Attributes[d].created # Attributes[first].created
      BY <1>1, <1>2, <1>4, <2>2 DEF Newer
    <2>3. QED
      BY <2>1, <2>2
  <1>6. QED
    BY <1>4, <1>5 DEF Last

\* A page that leaves rows out holds some, and leaves the older ones out.
LEMMA PageIsFirst ==
  ASSUME NEW found \in SUBSET Expense
  PROVE  /\ Page(found) \subseteq found
         /\ found # {} => Page(found) # {}
         /\ \A p \in Page(found), e \in found \ Page(found) : Newer(p, e)
  <1>1. \A e : IsFiniteSet(NewerIn(found, e)) /\ Cardinality(NewerIn(found, e)) \in Nat
    <2>1. \A e : NewerIn(found, e) \subseteq Expense
      BY DEF NewerIn
    <2>2. QED
      BY <2>1, ExpenseApiAssumption, FS_Subset, FS_CardinalityType
  <1>2. PageLimit \in Nat \ {0}
    BY ExpenseApiAssumption
  <1>3. found # {} => Page(found) # {}
    <2> SUFFICES ASSUME found # {}
                 PROVE  Page(found) # {}
      OBVIOUS
    <2>1. PICK e \in found : NewerIn(found, e) = {}
      BY FirstIsNewest
    <2>2. Cardinality(NewerIn(found, e)) = 0
      BY <2>1, FS_EmptySet
    <2>3. e \in Page(found)
      BY <1>2, <2>2 DEF Page
    <2>4. QED
      BY <2>3
  <1>4. ASSUME NEW p \in Page(found), NEW e \in found \ Page(found)
        PROVE  Newer(p, e)
    <2>1. /\ p \in Expense /\ e \in Expense /\ p # e
          /\ Cardinality(NewerIn(found, p)) < PageLimit
          /\ ~ (Cardinality(NewerIn(found, e)) < PageLimit)
      BY DEF Page
    <2>2. ASSUME Newer(e, p)
          PROVE  FALSE
      <3>1. NewerIn(found, e) \subseteq NewerIn(found, p)
        BY <2>1, <2>2, NewerOrders DEF NewerIn
      <3>2. Cardinality(NewerIn(found, e)) <= Cardinality(NewerIn(found, p))
        BY <1>1, <3>1, FS_Subset
      <3>3. QED
        BY <1>1, <1>2, <2>1, <3>2
    <2>3. QED
      BY <2>1, <2>2, NewerOrders
  <1>5. QED
    BY <1>3, <1>4 DEF Page

\* The cursor keeps the milliseconds of the last row's time.
LEMMA MillisecondsAre ==
  ASSUME NEW e \in Expense
  PROVE  /\ Milliseconds(e) \in Nat
         /\ Milliseconds(e) * Precision <= Attributes[e].created
         /\ Attributes[e].created < Milliseconds(e) * Precision + Precision
  <1>1. Attributes[e].created \in Nat /\ Precision \in Nat \ {0}
    BY ExpenseApiAssumption
  <1>2. QED
    BY <1>1 DEF Milliseconds

\* A row that comes after another one is found again with the other's cursor, or it is of
\* the same millisecond.
LEMMA CursorReaches ==
  ASSUME NEW last \in Expense, NEW e \in Expense, Newer(last, e),
         Milliseconds(last) # Milliseconds(e)
  PROVE  Attributes[e].created < Milliseconds(last) * Precision
  <1> DEFINE m == Milliseconds(last)
             n == Milliseconds(e)
  <1>1. /\ m \in Nat /\ n \in Nat /\ Precision \in Nat \ {0}
        /\ Attributes[e].created \in Nat /\ Attributes[last].created \in Nat
        /\ m * Precision <= Attributes[last].created
        /\ Attributes[last].created < m * Precision + Precision
        /\ n * Precision <= Attributes[e].created
        /\ Attributes[e].created < n * Precision + Precision
    BY MillisecondsAre, ExpenseApiAssumption
  <1>2. Attributes[e].created <= Attributes[last].created /\ m # n
    BY <1>1 DEF Newer
  <1> HIDE DEF m, n
  <1>3. CASE n > m
    <2>1. n - m - 1 \in Nat
      BY <1>1, <1>3
    <2>2. (n - m - 1) * Precision \in Nat /\ n * Precision = (n - m - 1) * Precision + m * Precision + Precision
      BY <1>1, <2>1
    <2>3. QED
      BY <1>1, <1>2, <2>2
  <1>4. CASE n < m
    <2>1. m - n - 1 \in Nat
      BY <1>1, <1>4
    <2>2. (m - n - 1) * Precision \in Nat /\ m * Precision = (m - n - 1) * Precision + n * Precision + Precision
      BY <1>1, <2>1
    <2>3. QED
      BY <1>1, <1>2, <2>2 DEF m
  <1>5. QED
    BY <1>1, <1>2, <1>3, <1>4

\* Of the rows a listing has not read, each is tied with one it has, or comes after the cursor.
Tied(e, seen) == \E d \in seen : Newer(d, e) /\ Milliseconds(d) = Milliseconds(e)
Reaches(u, seen, next) ==
  \A e \in Visible(u) \ seen : Tied(e, seen) \/ (next # NoCursor /\ IsAfter(e, next))

ListInv ==
  \A r \in Request :
    /\ Is(r, "listing") => Reaches(req[r].user, req[r].seen, req[r].next)
    /\ Is(r, "listed") => Reaches(req[r].user, req[r].seen, NoCursor)

LEMMA PageReaches ==
  ASSUME NEW u, NEW seen, NEW cursor, cursor = NoCursor \/ Reaches(u, seen, cursor)
  PROVE  LET found == RowsAfter(u, cursor)
         IN  Reaches(u, seen \cup Page(found), NextCursor(found))
  <1> DEFINE found == RowsAfter(u, cursor)
             page == Page(found)
             next == NextCursor(found)
  <1>1. found \in SUBSET Expense /\ found \subseteq Visible(u) /\ Visible(u) \subseteq Expense
    BY DEF RowsAfter, Visible
  <1> SUFFICES ASSUME NEW e \in Visible(u) \ (seen \cup page)
               PROVE  Tied(e, seen \cup page) \/ (next # NoCursor /\ IsAfter(e, next))
    BY DEF Reaches
  <1>2. CASE e \notin found
    <2>1. cursor # NoCursor /\ ~ IsAfter(e, cursor)
      BY <1>2 DEF RowsAfter
    <2>2. Tied(e, seen)
      BY <2>1 DEF Reaches
    <2>3. QED
      BY <2>2 DEF Tied
  <1>3. CASE e \in found
    <2> DEFINE last == Last(page)
    <2> HIDE DEF found
    <2>1. page \subseteq found /\ page # {} /\ \A p \in page : Newer(p, e)
      BY <1>1, <1>3, PageIsFirst
    <2>2. last \in page /\ last \in Expense /\ e \in Expense /\ Newer(last, e)
      BY <1>1, <1>3, <2>1, LastIsOldest
    <2>3. CASE Milliseconds(last) = Milliseconds(e)
      BY <2>2, <2>3 DEF Tied
    <2>4. CASE Milliseconds(last) # Milliseconds(e)
      <3>1. next = [created |-> Milliseconds(last), id |-> last]
        <4>1. page # found
          BY <1>3
        <4>2. QED
          BY <4>1 DEF NextCursor
      <3>2. Attributes[e].created < Milliseconds(last) * Precision
        BY <2>2, <2>4, CursorReaches
      <3>3. IsAfter(e, next)
        BY <3>1, <3>2 DEF IsAfter
      <3>4. Milliseconds(last) # 0
        <4>1. Attributes[e].created \in Nat /\ Precision \in Nat
          BY <2>2, ExpenseApiAssumption
        <4>2. 0 * Precision = 0
          BY <4>1
        <4>3. QED
          BY <3>2, <4>1, <4>2
      <3>5. next # NoCursor
        BY <3>1, <3>4 DEF NoCursor
      <3>6. QED
        BY <3>3, <3>5
    <2>5. QED
      BY <2>3, <2>4
  <1>4. QED
    BY <1>2, <1>3

\* A request that goes on to read a page.
LEMMA ReadPageListInv ==
  ASSUME IInv, ListInv, NEW r \in Request, NEW u, NEW cursor, NEW seen,
         ReadPage(r, u, cursor, seen), cursor = NoCursor \/ Reaches(u, seen, cursor)
  PROVE  ListInv'
  <1> DEFINE page == Page(RowsAfter(u, cursor))
             next == NextCursor(RowsAfter(u, cursor))
             q == [phase |-> "listing", user |-> u, todo |-> page, next |-> next,
                   resolved |-> {}, shown |-> {}, seen |-> seen \cup page]
  <1>1. Reaches(u, seen \cup page, next)
    BY PageReaches
  <1>2. Moves(r, q)
    BY DEF ReadPage
  <1> HIDE DEF page, next
  <1>3. q.phase = "listing" /\ q.user = u /\ q.seen = seen \cup page /\ q.next = next
    OBVIOUS
  <1> HIDE DEF q
  <1>4. req'[r] = q /\ \A p \in Request \ {r} : req'[p] = req[p]
    BY <1>2, Moved
  <1>5. QED
    BY <1>1, <1>3, <1>4 DEF ListInv, Is

\* A request that lists nothing, as before or from now on.
LEMMA OtherListInv ==
  ASSUME IInv, ListInv, NEW r \in Request, NEW q, Moves(r, q), q.phase \notin {"listing", "listed"}
  PROVE  ListInv'
  <1>1. req'[r] = q /\ \A p \in Request \ {r} : req'[p] = req[p]
    BY Moved
  <1>2. QED
    BY <1>1 DEF ListInv, Is

LEMMA EndsListInv ==
  ASSUME IInv, ListInv, NEW r \in Request, NEW u, NEW e, NEW status, NEW took,
         Ends(r, u, e, status, took)
  PROVE  ListInv'
  BY OtherListInv DEF Ends

LEMMA ApprovalListInv ==
  ASSUME IInv, ListInv, NEW r \in Request,
         \/ \E u \in User, e \in Expense : RequestApproval(r, u, e)
         \/ Fail(r) \/ Resolve(r) \/ Check(r) \/ FindById(r) \/ Save(r)
  PROVE  ListInv'
  <1>1. ASSUME NEW u \in User, NEW e \in Expense, RequestApproval(r, u, e)
        PROVE  ListInv'
    <2> DEFINE q == [phase |-> "resolving", user |-> u, expense |-> e, since |-> {grants[u]}]
    <2>1. (\E status : Ends(r, u, e, status, FALSE)) \/ Moves(r, q)
      BY <1>1 DEF RequestApproval
    <2>2. QED
      BY <2>1, EndsListInv, OtherListInv
  <1>2. CASE Fail(r)
    <2> DEFINE q == [phase |-> "unlisted", user |-> req[r].user]
    <2>1. EndsWith(r, Status("Error")) \/ Moves(r, q)
      BY <1>2 DEF Fail
    <2>2. QED
      BY <2>1, EndsListInv, OtherListInv DEF EndsWith
  <1>3. CASE Resolve(r)
    <2>1. PICK roles :
            Moves(r, [phase |-> "checking", user |-> req[r].user, expense |-> req[r].expense,
                      since |-> req[r].since, roles |-> roles])
      BY <1>3 DEF Resolve
    <2>2. QED
      BY <2>1, OtherListInv
  <1>4. CASE Check(r)
    <2>1. req[r] \in Deciding
      BY <1>4, PhaseShape DEF Check, Is
    <2>2. EndsWith(r, Status("ForbiddenError")) \/ Moves(r, [req[r] EXCEPT !.phase = "handling"])
      BY <1>4 DEF Check
    <2>3. [req[r] EXCEPT !.phase = "handling"].phase = "handling"
      BY <2>1 DEF Deciding
    <2>4. QED
      BY <2>2, <2>3, EndsListInv, OtherListInv DEF EndsWith
  <1>5. CASE FindById(r)
    <2> DEFINE q == [phase |-> "saving", user |-> req[r].user, expense |-> req[r].expense,
                     since |-> req[r].since, roles |-> req[r].roles,
                     row |-> Approved(rows[req[r].expense])]
    <2>1. EndsWith(r, Status("ConflictError")) \/ Moves(r, q)
      BY <1>5 DEF FindById
    <2>2. QED
      BY <2>1, EndsListInv, OtherListInv DEF EndsWith
  <1>6. CASE Save(r)
    <2>1. \E status, took : Ends(r, req[r].user, req[r].expense, status, took)
      BY <1>6 DEF Save, EndsWith
    <2>2. QED
      BY <2>1, EndsListInv
  <1>7. QED
    BY <1>1, <1>2, <1>3, <1>4, <1>5, <1>6

LEMMA CanReadListInv ==
  ASSUME IInv, ListInv, NEW r \in Request, CanRead(r)
  PROVE  ListInv'
  <1>1. IsListing(req[r]) /\ req[r].phase = "listing" /\ Is(r, "listing")
    BY PhaseShape DEF CanRead, Is
  <1>2. PICK e, p, effect :
          Moves(r, [req[r] EXCEPT !.todo = req[r].todo \ {e},
                      !.resolved = req[r].resolved \cup {p},
                      !.shown = req[r].shown \cup (IF effect = "ALLOW" THEN {e} ELSE {})])
    BY DEF CanRead
  <1> DEFINE todo == req[r].todo \ {e}
             resolved == req[r].resolved \cup {p}
             shown == req[r].shown \cup (IF effect = "ALLOW" THEN {e} ELSE {})
             q == [req[r] EXCEPT !.todo = todo, !.resolved = resolved, !.shown = shown]
  <1>3. Moves(r, q)
    BY <1>2
  <1> HIDE DEF todo, resolved, shown
  <1>4. /\ q.phase = "listing" /\ q.user = req[r].user /\ q.seen = req[r].seen
        /\ q.next = req[r].next
    BY <1>1 DEF IsListing
  <1> HIDE DEF q
  <1>5. req'[r] = q /\ \A o \in Request \ {r} : req'[o] = req[o]
    BY <1>3, Moved
  <1>6. QED
    BY <1>1, <1>4, <1>5 DEF ListInv, Is

LEMMA AnswerPageListInv ==
  ASSUME IInv, ListInv, NEW r \in Request, AnswerPage(r)
  PROVE  ListInv'
  <1>1. Reaches(req[r].user, req[r].seen, req[r].next)
    BY DEF AnswerPage, ListInv
  <1>2. CASE req[r].next = NoCursor
    <2> DEFINE q == [phase |-> "listed", user |-> req[r].user, seen |-> req[r].seen]
    <2>1. Moves(r, q)
      BY <1>2 DEF AnswerPage
    <2>2. req'[r] = q /\ \A p \in Request \ {r} : req'[p] = req[p]
      BY <2>1, Moved
    <2>3. QED
      BY <1>1, <1>2, <2>2 DEF ListInv, Is
  <1>3. CASE req[r].next # NoCursor
    BY <1>1, <1>3, ReadPageListInv DEF AnswerPage
  <1>4. QED
    BY <1>2, <1>3

\* What others do leaves a listing's request as it is, but for the roles it is told of.
LEMMA AdminListInv ==
  ASSUME IInv, ListInv,
         \/ \E u \in User, roles \in SUBSET Role : GrantsChange(u, roles)
         \/ \E s \in Scope, body \in Body : PublishPolicy(s, body)
         \/ UNCHANGED vars
  PROVE  ListInv'
  <1>1. \A r \in Request : \/ req'[r] = req[r]
                           \/ req'[r].phase \notin {"listing", "listed"}
    <2>1. ASSUME NEW u \in User, NEW roles \in SUBSET Role, GrantsChange(u, roles), NEW r \in Request,
                 req'[r] # req[r]
          PROVE  req'[r].phase \notin {"listing", "listed"}
      <3>1. /\ req'[r] = [req[r] EXCEPT !.since = @ \cup {roles}]
            /\ req[r].phase \in {"resolving", "checking", "handling", "saving"}
        BY <2>1 DEF GrantsChange
      <3>2. req[r] \in Resolving \cup Deciding \cup Saving
        BY <3>1, PhaseShape DEF Is
      <3>3. req'[r].phase = req[r].phase
        BY <3>1, <3>2 DEF Resolving, Deciding, Saving
      <3>4. QED
        BY <3>1, <3>3
    <2>2. ASSUME NEW s \in Scope, NEW body \in Body, PublishPolicy(s, body)
          PROVE  req' = req
      BY <2>2 DEF PublishPolicy
    <2>3. CASE UNCHANGED vars
      BY <2>3 DEF vars
    <2>4. QED
      BY <2>1, <2>2, <2>3
  <1>2. QED
    BY <1>1 DEF ListInv, Is

LEMMA StepListInv ==
  ASSUME IInv, ListInv, [Next]_vars
  PROVE  ListInv'
  <1>1. ASSUME NEW r \in Request, NEW u \in User, List(r, u)
        PROVE  ListInv'
    BY <1>1, ReadPageListInv DEF List
  <1>2. QED
    BY <1>1, ApprovalListInv, CanReadListInv, AnswerPageListInv, AdminListInv
       DEF Next, ExpenseController, Step

\* A listing that has read all its pages has read every row the user may see, but those of
\* the same millisecond as one that it has.
THEOREM OnlyTiesAreMissed == Spec => []MissesOnlyTies
  <1>1. Init => ListInv
    BY DEF Init, ListInv, Is, Idle
  <1>2. Spec => []ListInv
    BY <1>1, StepListInv, InductiveInvariant, PTL DEF Spec
  <1>3. ListInv => MissesOnlyTies
    BY DEF ListInv, Reaches, Tied, MissesOnlyTies
  <1>4. QED
    BY <1>2, <1>3, PTL

-----------------------------------------------------------------------------
(* The web client, for any users and expenses, on an invariant of its own.   *)

IsOfSession(c) == LoggedIn /\ c.of = session.number

\* A call of the present session is its user's.  What it is answered was read for whom it
\* says, in the session's time; and an approval that is answered was made.
WebCall(c) ==
  /\ c = [number |-> c.number, kind |-> c.kind, of |-> c.of, as |-> c.as, on |-> c.on,
          answer |-> c.answer]
  /\ c.of \in 0 .. made.sessions
  /\ IsOfSession(c) => c.as = session.user
  /\ c.kind = "login" => c.as \in DemoUser /\ ~ LoggedIn
  /\ c.kind = "approve" => c.on \in DemoExpense
  /\ c.answer.status = "ok" =>
       /\ c.answer.data.as = c.as /\ c.answer.data.at \in 0 .. version
       /\ IsOfSession(c) => c.answer.data.at >= session.start
       /\ c.kind = "approve" => approvedBy[c.on] = c.as /\ c.as # NoOne

WebSession ==
  /\ version \in Nat
  /\ made = [calls |-> made.calls, sessions |-> made.sessions] /\ made.sessions \in Nat
  /\ session.start \in 0 .. version /\ session.number \in 0 .. made.sessions
  /\ LoggedIn => token = session.user /\ session.number # 0
  /\ ~ LoggedIn => session = NoSession /\ token = NoOne /\ screens = Unread
  /\ approvedBy = [e \in DemoExpense |-> approvedBy[e]]

Parts == {"rows", "events", "assignments", "grant", "listed", "pending", "busy", "outcomes"}

\* What screens may show in the present session.
MayShow(seen) ==
  /\ seen = [part \in Parts |-> seen[part]]
  /\ seen.outcomes = [e \in DemoExpense |-> seen.outcomes[e]]
  /\ Genuine(seen.rows) /\ Genuine(seen.events) /\ Genuine(seen.assignments)
  /\ \A e \in DemoExpense : seen.outcomes[e] = "allow" => LoggedIn /\ approvedBy[e] = session.user

WebScreens == MayShow(screens)

OneLogin == \A c, d \in calls : c.kind = "login" /\ d.kind = "login" => c = d

WebInv ==
  /\ WebSession /\ WebScreens /\ OneLogin
  /\ \A c \in calls : WebCall(c)

LEMMA UnreadIs ==
  /\ Unread = [part \in Parts |-> Unread[part]]
  /\ Unread.outcomes = [e \in DemoExpense |-> Unread.outcomes[e]]
  /\ Unread.rows = Nothing /\ Unread.events = Nothing
  /\ Unread.assignments = Nothing
  /\ \A e \in DemoExpense : Unread.outcomes[e] # "allow"
  BY DEF Unread, Parts

LEMMA InitWebInv ==
  ASSUME InitWeb
  PROVE  WebInv
  <1>1. WebScreens
    BY UnreadIs DEF InitWeb, WebScreens, MayShow, Genuine
  <1>2. WebSession
    BY DEF InitWeb, WebSession, LoggedIn, NoSession
  <1>3. QED
    BY <1>1, <1>2 DEF InitWeb, WebInv, OneLogin

\* Time passes, sessions are counted and expenses are approved, in the same session or out of it.
Onward ==
  /\ version' \in Nat /\ version' >= version
  /\ made'.sessions \in Nat /\ made'.sessions >= made.sessions
  /\ session' = session \/ ~ LoggedIn' \/ session'.number > made.sessions
  /\ \A e \in DemoExpense : approvedBy[e] # NoOne => approvedBy'[e] = approvedBy[e]

LEMMA CallsStay ==
  ASSUME WebInv, Onward, NEW c \in calls, c.kind = "login" => session' = session
  PROVE  WebCall(c)'
  <1>1. /\ c = [number |-> c.number, kind |-> c.kind, of |-> c.of, as |-> c.as, on |-> c.on,
                answer |-> c.answer]
        /\ c.of \in 0 .. made.sessions
        /\ c.of \in 0 .. made'.sessions
        /\ c.kind = "approve" => c.on \in DemoExpense
    BY DEF WebInv, WebCall, WebSession, Onward
  <1>2. IsOfSession(c)' => IsOfSession(c) /\ session' = session
    BY <1>1 DEF IsOfSession, WebInv, WebSession, Onward, LoggedIn
  <1>3. IsOfSession(c)' => c.as = session'.user
    BY <1>2 DEF WebInv, WebCall
  <1>4. c.kind = "login" => c.as \in DemoUser /\ ~ LoggedIn'
    BY DEF WebInv, WebCall, LoggedIn
  <1>5. ASSUME c.answer.status = "ok"
        PROVE  /\ c.answer.data.as = c.as /\ c.answer.data.at \in 0 .. version'
               /\ IsOfSession(c)' => c.answer.data.at >= session'.start
               /\ c.kind = "approve" => approvedBy'[c.on] = c.as /\ c.as # NoOne
    <2>1. /\ c.answer.data.as = c.as /\ c.answer.data.at \in 0 .. version
          /\ IsOfSession(c) => c.answer.data.at >= session.start
          /\ c.kind = "approve" => approvedBy[c.on] = c.as /\ c.as # NoOne
      BY <1>5 DEF WebInv, WebCall
    <2>2. c.answer.data.at \in 0 .. version'
      BY <2>1 DEF Onward, WebInv, WebSession
    <2>3. QED
      BY <1>1, <1>2, <2>1, <2>2 DEF Onward
  <1>6. QED
    BY <1>1, <1>3, <1>4, <1>5 DEF WebCall

LEMMA CallsNext ==
  ASSUME WebInv, Onward, NEW rest \in SUBSET calls, NEW new, calls' = rest \cup new,
         \A c \in rest : c.kind = "login" => session' = session,
         \A r \in new : WebCall(r)'
  PROVE  \A c \in calls' : WebCall(c)'
  BY CallsStay

\* A request of the session, or one that is none's.
LEMMA RequestIsCall ==
  ASSUME NEW kind, NEW of, NEW as, NEW on, NEW r, r = NewCall(kind, of, as, on),
         of \in 0 .. made'.sessions,
         LoggedIn' /\ of = session'.number => as = session'.user,
         kind = "login" => as \in DemoUser /\ ~ LoggedIn',
         kind = "approve" => on \in DemoExpense
  PROVE  WebCall(r)' /\ r.kind = kind
  BY DEF WebCall, NewCall, Unanswered, IsOfSession

\* Screens that are shown what they were, or nothing.
LEMMA ScreensStay ==
  ASSUME WebInv, Onward, session' = session,
         screens' = [part \in Parts |-> screens'[part]],
         \A part \in {"rows", "events", "assignments", "outcomes"} : screens'[part] = screens[part]
  PROVE  WebScreens'
  <1>1. /\ screens'.rows = screens.rows /\ screens'.events = screens.events
        /\ screens'.assignments = screens.assignments /\ screens'.outcomes = screens.outcomes
    OBVIOUS
  <1>2. \A e \in DemoExpense : screens'.outcomes[e] = "allow" => LoggedIn' /\ approvedBy'[e] = session'.user
    BY <1>1 DEF WebInv, WebScreens, MayShow, Onward, LoggedIn
  <1>3. Genuine(screens.rows)' /\ Genuine(screens.events)' /\ Genuine(screens.assignments)'
    BY <1>1 DEF WebInv, WebScreens, MayShow, Genuine
  <1>4. screens'.outcomes = [e \in DemoExpense |-> screens'.outcomes[e]]
    BY <1>1 DEF WebInv, WebScreens, MayShow
  <1>5. QED
    BY <1>1, <1>2, <1>3, <1>4 DEF WebScreens, MayShow

\* The calls a step makes, of the kinds that no login is.
LEMMA MakesCalls ==
  ASSUME WebInv, NEW rest \in SUBSET calls, NEW new, Calls(rest, new),
         UNCHANGED <<approvedBy, version, session>>,
         \A r \in new.requests : r.kind # "login" /\ WebCall(r)'
  PROVE  /\ Onward /\ OneLogin' /\ \A c \in calls' : WebCall(c)'
         /\ made' = [calls |-> made'.calls, sessions |-> made'.sessions]
         /\ made'.sessions = made.sessions
  <1>1. /\ made' = [calls |-> made'.calls, sessions |-> made'.sessions]
        /\ made'.sessions = made.sessions
        /\ calls' = rest \cup new.requests
    BY DEF Calls, WebInv, WebSession
  <1>2. Onward
    BY <1>1 DEF Onward, WebInv, WebSession
  <1>3. OneLogin'
    BY <1>1 DEF OneLogin, WebInv
  <1>4. \A c \in calls' : WebCall(c)'
    BY <1>1, <1>2, CallsNext
  <1>5. QED
    BY <1>1, <1>2, <1>3, <1>4

LEMMA PickWebInv ==
  ASSUME WebInv, NEW u \in DemoUser, Pick(u)
  PROVE  WebInv'
  <1>1. /\ UNCHANGED <<approvedBy, granted, version, token, session, screens>>
        /\ made' = [calls |-> made'.calls, sessions |-> made'.sessions]
        /\ made'.sessions = made.sessions
        /\ calls' = calls \cup {NewCall("login", 0, u, None)}
        /\ ~ LoggedIn /\ \A c \in calls : c.kind # "login"
    BY DEF Pick, Calls, One, service, client, WebInv, WebSession
  <1>2. Onward
    BY <1>1 DEF Onward, WebInv, WebSession
  <1>3. \A r : r = NewCall("login", 0, u, None) => WebCall(r)'
    <2>1. 0 \in 0 .. made'.sessions /\ ~ LoggedIn'
      BY <1>1 DEF WebInv, WebSession, LoggedIn
    <2>2. QED
      BY <2>1, RequestIsCall
  <1>4. \A c \in calls' : WebCall(c)'
    BY <1>1, <1>2, <1>3, CallsStay
  <1>5. OneLogin'
    BY <1>1 DEF OneLogin
  <1>6. WebSession' /\ WebScreens'
    BY <1>1, <1>2, ScreensStay DEF WebInv, WebSession, WebScreens, MayShow, LoggedIn, Genuine
  <1>7. QED
    BY <1>4, <1>5, <1>6 DEF WebInv

\* What the user presses makes one call, of the session, and marks a button at most.
LEMMA PressWebInv ==
  ASSUME WebInv, LoggedIn, NEW kind, NEW on,
         kind # "login", kind = "approve" => on \in DemoExpense,
         Calls(calls, One(kind, session.number, token, on)),
         UNCHANGED <<approvedBy, granted, version, token, session>>,
         screens' = [part \in Parts |-> screens'[part]],
         \A part \in {"rows", "events", "assignments", "outcomes"} : screens'[part] = screens[part]
  PROVE  WebInv'
  <1>1. One(kind, session.number, token, on).requests =
          {NewCall(kind, session.number, token, on)}
    BY DEF One
  <1>2. made'.sessions = made.sessions
    BY DEF Calls, WebInv, WebSession
  <1>3. ASSUME NEW r, r = NewCall(kind, session.number, token, on)
        PROVE  r.kind # "login" /\ WebCall(r)'
    <2>1. session.number \in 0 .. made'.sessions /\ token = session'.user
      BY <1>2 DEF WebInv, WebSession
    <2>2. QED
      BY <1>3, <2>1, RequestIsCall
  <1>4. /\ Onward /\ OneLogin' /\ \A c \in calls' : WebCall(c)'
        /\ made' = [calls |-> made'.calls, sessions |-> made'.sessions]
    <2> DEFINE new == One(kind, session.number, token, on)
    <2>1. \A q \in new.requests : q.kind # "login" /\ WebCall(q)'
      BY <1>1, <1>3
    <2>2. Calls(calls, new) /\ calls \in SUBSET calls
      OBVIOUS
    <2> HIDE DEF new
    <2>3. QED
      BY <2>1, <2>2, MakesCalls
  <1>5. WebScreens'
    BY <1>4, ScreensStay
  <1>6. WebSession'
    BY <1>2, <1>4 DEF WebInv, WebSession, LoggedIn
  <1>7. QED
    BY <1>4, <1>5, <1>6 DEF WebInv

LEMMA LogoutWebInv ==
  ASSUME WebInv, Logout
  PROVE  WebInv'
  <1>1. /\ UNCHANGED <<approvedBy, granted, version, calls, made>>
        /\ token' = NoOne /\ session' = NoSession /\ screens' = Unread
        /\ LoggedIn
    BY DEF Logout, service
  <1>2. ~ LoggedIn' /\ session'.start = 0 /\ session'.number = 0
    BY <1>1 DEF LoggedIn, NoSession
  <1>3. Onward
    BY <1>1, <1>2 DEF Onward, WebInv, WebSession
  <1>4. \A c \in calls : c.kind # "login"
    BY <1>1 DEF WebInv, WebCall
  <1>5. \A c \in calls' : WebCall(c)'
    BY <1>1, <1>3, <1>4, CallsStay
  <1>6. WebSession'
    BY <1>1, <1>2 DEF WebInv, WebSession, NoSession, LoggedIn, Unread
  <1>7. WebScreens'
    BY <1>1, UnreadIs DEF WebScreens, MayShow, Genuine
  <1>8. QED
    BY <1>1, <1>5, <1>6, <1>7 DEF WebInv, OneLogin

\* A call that is answered: what it is told is true when it is told.
LEMMA AnsweredWebInv ==
  ASSUME WebInv, Onward, NEW c \in calls, NEW answer, Becomes(c, answer),
         UNCHANGED <<token, session, screens, made>>,
         approvedBy' = [e \in DemoExpense |-> approvedBy'[e]],
         answer.status = "ok" =>
           /\ answer.data.as = c.as /\ answer.data.at \in version .. version'
           /\ c.kind = "approve" => approvedBy'[c.on] = c.as /\ c.as # NoOne
  PROVE  WebInv'
  <1> DEFINE rest == calls \ {c}
  <1>1. calls' = rest \cup {[c EXCEPT !.answer = answer]}
    BY DEF Becomes
  <1>2. ASSUME NEW d, d = [c EXCEPT !.answer = answer]
        PROVE  WebCall(d)' /\ d.kind = c.kind
    <2>1. /\ c = [number |-> c.number, kind |-> c.kind, of |-> c.of, as |-> c.as, on |-> c.on,
                  answer |-> c.answer]
          /\ c.of \in 0 .. made.sessions
          /\ IsOfSession(c) => c.as = session.user
          /\ c.kind = "login" => c.as \in DemoUser /\ ~ LoggedIn
          /\ c.kind = "approve" => c.on \in DemoExpense
      BY DEF WebInv, WebCall
    <2>2. d = [number |-> c.number, kind |-> c.kind, of |-> c.of, as |-> c.as, on |-> c.on,
               answer |-> answer]
      BY <1>2, <2>1
    <2>3. version \in Nat /\ version' \in Nat /\ session.start \in 0 .. version
      BY DEF WebInv, WebSession, Onward
    <2>4. answer.status = "ok" => answer.data.at \in 0 .. version' /\ answer.data.at >= session.start
      BY <2>3
    <2>5. QED
      BY <2>1, <2>2, <2>4 DEF WebCall, IsOfSession, LoggedIn
  <1>3. \A d \in calls' : WebCall(d)'
    BY <1>1, <1>2, CallsStay
  <1>4. OneLogin'
    BY <1>1, <1>2 DEF OneLogin, WebInv
  <1>5. WebScreens'
    BY ScreensStay DEF WebInv, WebScreens, MayShow
  <1>6. WebSession'
    BY DEF WebInv, WebSession, Onward, LoggedIn
  <1>7. QED
    BY <1>3, <1>4, <1>5, <1>6 DEF WebInv

LEMMA ServeWebInv ==
  ASSUME WebInv, NEW c \in calls, Serve(c)
  PROVE  WebInv'
  <1>1. /\ UNCHANGED <<token, session, screens, made>>
        /\ version \in Nat /\ version \in version .. version
        /\ version \in version .. version + 1 /\ version + 1 \in Nat
        /\ approvedBy = [e \in DemoExpense |-> approvedBy[e]]
    BY DEF Serve, client, WebInv, WebSession
  <1>2. CASE /\ c.kind = "login" \/ (c.kind \in {"list", "events"} /\ c.as # NoOne)
             /\ Becomes(c, Shows(c)) /\ UNCHANGED service
    <2>1. Onward
      BY <1>1, <1>2 DEF Onward, WebInv, WebSession, service
    <2>2. QED
      BY <1>1, <1>2, <2>1, AnsweredWebInv DEF Shows, Ok, service
  <1>3. CASE /\ c.kind \in {"assignments", "reload"} /\ c.as # NoOne
             /\ Becomes(c, Ok([as |-> c.as, at |-> version, grant |-> granted]))
             /\ UNCHANGED service
    <2>1. Onward
      BY <1>1, <1>3 DEF Onward, WebInv, WebSession, service
    <2>2. QED
      BY <1>1, <1>3, <2>1, AnsweredWebInv DEF Ok, service
  <1>4. CASE /\ c.kind = "approve" /\ MayApprove(c)
             /\ approvedBy' = [approvedBy EXCEPT ![c.on] = c.as]
             /\ version' = version + 1
             /\ Becomes(c, Shows(c)) /\ UNCHANGED granted
    <2>1. c.on \in DemoExpense /\ c.as # NoOne /\ approvedBy[c.on] = NoOne
      BY <1>4 DEF WebInv, WebCall, MayApprove
    <2>2. /\ approvedBy'[c.on] = c.as
          /\ \A e \in DemoExpense : e # c.on => approvedBy'[e] = approvedBy[e]
          /\ approvedBy' = [e \in DemoExpense |-> approvedBy'[e]]
      BY <1>1, <1>4, <2>1
    <2>3. Onward
      BY <1>1, <1>4, <2>1, <2>2 DEF Onward, WebInv, WebSession
    <2>4. QED
      BY <1>1, <1>4, <2>1, <2>2, <2>3, AnsweredWebInv DEF Shows, Ok
  <1>5. CASE /\ \/ c.kind = "revoke" /\ granted = c.on /\ granted' = 0
                \/ c.kind = "grant" /\ granted = 0 /\ granted' = version + 1
             /\ version' = version + 1
             /\ Becomes(c, Shows(c)) /\ UNCHANGED approvedBy
    <2>1. Onward
      BY <1>1, <1>5 DEF Onward, WebInv, WebSession
    <2>2. c.kind # "approve"
      BY <1>5
    <2>3. QED
      BY <1>1, <1>5, <2>1, <2>2, AnsweredWebInv DEF Shows, Ok
  <1>6. QED
    BY <1>2, <1>3, <1>4, <1>5 DEF Serve

LEMMA FailsWebInv ==
  ASSUME WebInv, NEW c \in calls, Fails(c)
  PROVE  WebInv'
  <1>1. /\ UNCHANGED <<approvedBy, granted, version, token, session, screens, made>>
        /\ Becomes(c, NetworkError)
    BY DEF Fails, service, client
  <1>2. Onward /\ approvedBy' = [e \in DemoExpense |-> approvedBy'[e]]
    BY <1>1 DEF Onward, WebInv, WebSession
  <1>3. NetworkError.status # "ok"
    BY DEF NetworkError
  <1>4. QED
    BY <1>1, <1>2, <1>3, AnsweredWebInv

\* An answer that is taken, by a session that goes on.
LEMMA TakenWebInv ==
  ASSUME WebInv, NEW c \in calls, NEW new, Calls(calls \ {c}, new),
         UNCHANGED <<approvedBy, granted, version, token, session>>,
         \A r \in new.requests : r.kind # "login" /\ WebCall(r)',
         WebScreens', ~ LoggedIn => screens' = screens
  PROVE  WebInv'
  <1>1. /\ Onward /\ OneLogin' /\ \A d \in calls' : WebCall(d)'
        /\ made' = [calls |-> made'.calls, sessions |-> made'.sessions]
        /\ made'.sessions = made.sessions
    <2> DEFINE rest == calls \ {c}
    <2>1. rest \in SUBSET calls /\ Calls(rest, new)
      OBVIOUS
    <2> HIDE DEF rest
    <2>2. QED
      BY <2>1, MakesCalls
  <1>2. WebSession'
    BY <1>1 DEF WebInv, WebSession, LoggedIn
  <1>3. QED
    BY <1>1, <1>2 DEF WebInv

\* What a mounted component is shown was read for its session.
LEMMA AnswerIsGenuine ==
  ASSUME WebInv, NEW c \in calls, IsOk(c), IsMounted(c)
  PROVE  /\ c.answer.data.as = session.user /\ c.answer.data.at >= session.start
         /\ Genuine(c.answer.data)
         /\ c.kind = "approve" => c.on \in DemoExpense /\ approvedBy[c.on] = session.user
  <1>1. IsOfSession(c) /\ c.answer.status = "ok"
    BY DEF IsMounted, IsOk, IsOfSession
  <1>2. /\ c.answer.data.as = session.user /\ c.answer.data.at >= session.start
        /\ c.kind = "approve" => c.on \in DemoExpense /\ approvedBy[c.on] = session.user
    BY <1>1 DEF WebInv, WebCall
  <1>3. QED
    BY <1>2 DEF Genuine

LEMMA LoginWebInv ==
  ASSUME WebInv, NEW c \in calls, c.kind = "login", LoginAnswered(c),
         UNCHANGED service
  PROVE  WebInv'
  <1>1. UNCHANGED <<approvedBy, granted, version>> /\ version \in Nat /\ made.sessions \in Nat
    BY DEF service, WebInv, WebSession
  <1>2. /\ c.as \in DemoUser /\ c.as # NoOne /\ ~ LoggedIn /\ screens = Unread
        /\ \A d \in calls \ {c} : d.kind # "login"
    BY WebClientAssumption DEF WebInv, WebCall, OneLogin, WebSession
  <1>3. CASE ~ IsOk(c)
    <2>1. Calls(calls \ {c}, NoNew) /\ UNCHANGED <<token, session, screens>>
      BY <1>3 DEF LoginAnswered, client
    <2>2. Onward
      BY <1>1, <2>1 DEF Calls, Onward, WebInv, WebSession
    <2>3. WebScreens'
      BY <2>1, <2>2, ScreensStay DEF WebInv, WebScreens, MayShow
    <2>4. QED
      BY <1>1, <1>2, <2>1, <2>3, TakenWebInv DEF NoNew
  <1>4. CASE IsOk(c)
    <2> DEFINE s == [user |-> c.as, number |-> made.sessions + 1, start |-> version]
               new == Mounts(s).requests
    <2>1. /\ token' = c.as /\ session' = s /\ UNCHANGED screens
          /\ calls' = (calls \ {c}) \cup new
          /\ made' = [calls |-> made.calls + Mounts(s).count, sessions |-> made.sessions + 1]
      BY <1>4 DEF LoginAnswered
    <2>2. /\ made'.sessions = made.sessions + 1
          /\ made' = [calls |-> made'.calls, sessions |-> made'.sessions]
      BY <2>1
    <2>3. /\ session'.user = c.as /\ session'.number = made.sessions + 1 /\ session'.start = version
          /\ LoggedIn'
      BY <1>2, <2>1 DEF LoggedIn
    <2>4. Onward
      BY <1>1, <2>2, <2>3 DEF Onward, WebInv, WebSession
    <2>5. \A r \in new : \E kind : /\ r = NewCall(kind, s.number, s.user, None)
                                      /\ kind \notin {"login", "approve"}
      <3>1. s # NoSession
        BY <1>2 DEF NoSession
      <3>2. QED
        BY <3>1 DEF Mounts, Reloads
    <2>6. \A r \in new : r.kind # "login" /\ WebCall(r)'
      <3>1. /\ s.number = session'.number /\ s.user = session'.user
            /\ s.number \in 0 .. made'.sessions
        BY <1>1, <2>2, <2>3
      <3> HIDE DEF s, new
      <3>2. QED
        BY <2>5, <3>1, RequestIsCall
    <2> HIDE DEF s, new
    <2>7. \A d \in calls' : WebCall(d)'
      BY <1>2, <2>1, <2>4, <2>6, CallsStay
    <2>8. OneLogin'
      BY <1>2, <2>1, <2>6 DEF OneLogin
    <2>9. WebSession'
      BY <1>1, <2>1, <2>2, <2>3 DEF WebInv, WebSession
    <2>10. WebScreens'
      BY <1>2, <2>1, UnreadIs DEF WebScreens, MayShow, Genuine
    <2>11. QED
      BY <2>7, <2>8, <2>9, <2>10 DEF WebInv
  <1>5. QED
    BY <1>3, <1>4

\* The screens when a call is answered that the mounted ones made.
LEMMA SetsScreens ==
  ASSUME WebInv, NEW c \in calls, NEW next, Sets(c, next),
         UNCHANGED <<approvedBy, version, session>>, made'.sessions = made.sessions,
         IsMounted(c) => MayShow(next)
  PROVE  WebScreens' /\ (~ LoggedIn => screens' = screens)
  <1>1. CASE IsMounted(c)
    <2>1. screens' = next /\ LoggedIn /\ LoggedIn'
      BY <1>1 DEF Sets, IsMounted, LoggedIn
    <2>2. QED
      BY <1>1, <2>1 DEF WebScreens, MayShow, Genuine
  <1>2. CASE ~ IsMounted(c)
    <2>1. screens' = screens
      BY <1>2 DEF Sets
    <2>2. QED
      BY <2>1 DEF WebInv, WebScreens, MayShow, Genuine, LoggedIn
  <1>3. QED
    BY <1>1, <1>2

LEMMA AssignmentsMayShow ==
  ASSUME WebInv, NEW c \in calls, IsMounted(c)
  PROVE  MayShow(WithAssignments(c))
  <1>1. CASE IsOk(c)
    <2>1. c.answer.data.as = session.user /\ c.answer.data.at >= session.start
      BY <1>1, AnswerIsGenuine
    <2> DEFINE shown == [as |-> c.answer.data.as, at |-> c.answer.data.at]
               next == [screens EXCEPT !.grant = c.answer.data.grant, !.assignments = shown]
    <2>2. WithAssignments(c) = next /\ Genuine(shown)
      BY <1>1, <2>1 DEF WithAssignments, Genuine
    <2> HIDE DEF shown
    <2>3. MayShow(screens)
      BY DEF WebInv, WebScreens
    <2>4. /\ next = [part \in Parts |-> next[part]]
          /\ next.rows = screens.rows /\ next.events = screens.events
          /\ next.assignments = shown /\ next.outcomes = screens.outcomes
      BY <2>3 DEF MayShow, Parts
    <2> HIDE DEF next
    <2>5. QED
      BY <2>2, <2>3, <2>4 DEF MayShow
  <1>2. CASE ~ IsOk(c)
    BY <1>2 DEF WithAssignments, WebInv, WebScreens
  <1>3. QED
    BY <1>1, <1>2

LEMMA LoadWebInv ==
  ASSUME WebInv, NEW c \in calls, c.kind \in {"list", "events", "assignments"},
         LoadAnswered(c), UNCHANGED service
  PROVE  WebInv'
  <1>1. /\ UNCHANGED <<approvedBy, granted, version, token, session>>
        /\ Calls(calls \ {c}, NoNew) /\ made'.sessions = made.sessions
    BY DEF LoadAnswered, service, Calls, WebInv, WebSession
  <1>2. IsMounted(c) /\ IsOk(c) => Genuine(c.answer.data)
    BY AnswerIsGenuine
  <1>3. WebScreens' /\ (~ LoggedIn => screens' = screens)
    <2>1. CASE c.kind = "list"
      <3> DEFINE shown == IF IsOk(c) THEN c.answer.data ELSE Nothing
      <3>1. IsMounted(c) => Genuine(shown)
        BY <1>2 DEF Genuine
      <3>2. Sets(c, [screens EXCEPT !.listed = TRUE, !.rows = shown])
        BY <2>1 DEF LoadAnswered
      <3> HIDE DEF shown
      <3> DEFINE next == [screens EXCEPT !.listed = TRUE, !.rows = shown]
      <3>3. MayShow(screens)
        BY DEF WebInv, WebScreens
      <3>4. /\ next = [part \in Parts |-> next[part]]
            /\ next.rows = shown /\ next.events = screens.events
            /\ next.assignments = screens.assignments /\ next.outcomes = screens.outcomes
        BY <3>3 DEF MayShow, Parts
      <3> HIDE DEF next
      <3>5. IsMounted(c) => MayShow(next)
        BY <3>1, <3>3, <3>4 DEF MayShow
      <3>6. QED
        BY <1>1, <3>2, <3>5, SetsScreens DEF next
    <2>2. CASE c.kind = "events"
      <3> DEFINE shown == IF IsOk(c) THEN c.answer.data ELSE screens.events
      <3>1. IsMounted(c) => Genuine(shown)
        BY <1>2 DEF WebInv, WebScreens, MayShow
      <3>2. Sets(c, [screens EXCEPT !.events = shown])
        BY <2>2 DEF LoadAnswered
      <3> HIDE DEF shown
      <3> DEFINE next == [screens EXCEPT !.events = shown]
      <3>3. MayShow(screens)
        BY DEF WebInv, WebScreens
      <3>4. /\ next = [part \in Parts |-> next[part]]
            /\ next.rows = screens.rows /\ next.events = shown
            /\ next.assignments = screens.assignments /\ next.outcomes = screens.outcomes
        BY <3>3 DEF MayShow, Parts
      <3> HIDE DEF next
      <3>5. IsMounted(c) => MayShow(next)
        BY <3>1, <3>3, <3>4 DEF MayShow
      <3>6. QED
        BY <1>1, <3>2, <3>5, SetsScreens DEF next
    <2>3. CASE c.kind = "assignments"
      <3>1. Sets(c, WithAssignments(c))
        BY <2>3 DEF LoadAnswered
      <3>2. QED
        BY <1>1, <3>1, AssignmentsMayShow, SetsScreens
    <2>4. QED
      BY <2>1, <2>2, <2>3
  <1>4. QED
    BY <1>1, <1>3, TakenWebInv DEF NoNew

\* The reloads of whatever session there is.
LEMMA ReloadsAreCalls ==
  ASSUME WebInv, session' = session, made'.sessions = made.sessions,
         NEW r \in Reloads(session).requests
  PROVE  r.kind # "login" /\ WebCall(r)'
  <1>1. PICK kind : r = NewCall(kind, session.number, session.user, None) /\ kind \in {"list", "events"}
    <2>1. CASE session = NoSession
      BY <2>1 DEF Reloads, NoNew
    <2>2. CASE session # NoSession
      BY <2>2 DEF Reloads
    <2>3. QED
      BY <2>1, <2>2
  <1>2. session.number \in 0 .. made'.sessions
    BY DEF WebInv, WebSession
  <1>3. QED
    BY <1>1, <1>2, RequestIsCall

LEMMA ApproveWebInv ==
  ASSUME WebInv, NEW c \in calls, c.kind = "approve", ApproveAnswered(c), UNCHANGED service
  PROVE  WebInv'
  <1> DEFINE outcome == IF IsOk(c) THEN "allow" ELSE "deny"
             next == [screens EXCEPT !.pending = None,
                        !.outcomes = [screens.outcomes EXCEPT ![c.on] = outcome]]
  <1>1. /\ UNCHANGED <<approvedBy, granted, version, token, session>>
        /\ Calls(calls \ {c}, Reloads(session)) /\ made'.sessions = made.sessions
        /\ Sets(c, next)
    BY DEF ApproveAnswered, service, Calls, WebInv, WebSession
  <1>2. ASSUME IsMounted(c)
        PROVE  MayShow(next)
    <2> DEFINE outcomes == [screens.outcomes EXCEPT ![c.on] = outcome]
    <2>1. LoggedIn /\ MayShow(screens)
      BY <1>2 DEF IsMounted, WebInv, WebScreens
    <2>2. outcome = "allow" => c.on \in DemoExpense /\ approvedBy[c.on] = session.user
      BY <1>2, AnswerIsGenuine
    <2>3. /\ outcomes = [e \in DemoExpense |-> outcomes[e]]
          /\ \A e \in DemoExpense : outcomes[e] = "allow" => approvedBy[e] = session.user
      BY <2>1, <2>2 DEF MayShow
    <2> HIDE DEF outcome
    <2>4. /\ next = [part \in Parts |-> next[part]]
          /\ next.rows = screens.rows /\ next.events = screens.events
          /\ next.assignments = screens.assignments /\ next.outcomes = outcomes
      BY <2>1 DEF MayShow, Parts
    <2> HIDE DEF outcomes, next
    <2>5. QED
      BY <2>1, <2>3, <2>4 DEF MayShow
  <1> HIDE DEF next
  <1>3. WebScreens' /\ (~ LoggedIn => screens' = screens)
    BY <1>1, <1>2, SetsScreens
  <1>4. QED
    BY <1>1, <1>3, ReloadsAreCalls, TakenWebInv

LEMMA ChangeWebInv ==
  ASSUME WebInv, NEW c \in calls, ChangeAnswered(c), UNCHANGED service
  PROVE  WebInv'
  <1> DEFINE next == [screens EXCEPT !.busy = FALSE]
             new == One("reload", c.of, token, None)
  <1>1. /\ UNCHANGED <<approvedBy, granted, version, token, session>>
        /\ Calls(calls \ {c}, new) /\ made'.sessions = made.sessions
        /\ Sets(c, next)
    BY DEF ChangeAnswered, service, Calls, WebInv, WebSession
  <1>2. MayShow(next)
    <2>1. MayShow(screens)
      BY DEF WebInv, WebScreens
    <2>2. /\ next = [part \in Parts |-> next[part]]
          /\ next.rows = screens.rows /\ next.events = screens.events
          /\ next.assignments = screens.assignments /\ next.outcomes = screens.outcomes
      BY <2>1 DEF MayShow, Parts
    <2> HIDE DEF next
    <2>3. QED
      BY <2>1, <2>2 DEF MayShow
  <1>3. WebScreens' /\ (~ LoggedIn => screens' = screens)
    <2> HIDE DEF next
    <2>1. QED
      BY <1>1, <1>2, SetsScreens
  <1>4. ASSUME NEW r \in new.requests
        PROVE  r.kind # "login" /\ WebCall(r)'
    <2>1. r = NewCall("reload", c.of, token, None)
      BY DEF One
    <2>2. /\ c.of \in 0 .. made'.sessions
          /\ LoggedIn' => token = session'.user
      BY <1>1 DEF WebInv, WebCall, WebSession, LoggedIn
    <2> HIDE DEF new
    <2>3. QED
      BY <2>1, <2>2, RequestIsCall
  <1> HIDE DEF next, new
  <1>5. QED
    BY <1>1, <1>3, <1>4, TakenWebInv

LEMMA ReloadWebInv ==
  ASSUME WebInv, NEW c \in calls, ReloadAnswered(c), UNCHANGED service
  PROVE  WebInv'
  <1>1. /\ UNCHANGED <<approvedBy, granted, version, token, session>>
        /\ Calls(calls \ {c}, Reloads(session)) /\ made'.sessions = made.sessions
        /\ Sets(c, WithAssignments(c))
    BY DEF ReloadAnswered, service, Calls, WebInv, WebSession
  <1>2. WebScreens' /\ (~ LoggedIn => screens' = screens)
    BY <1>1, AssignmentsMayShow, SetsScreens
  <1>3. QED
    BY <1>1, <1>2, ReloadsAreCalls, TakenWebInv

LEMMA DeliverWebInv ==
  ASSUME WebInv, NEW c \in calls, Deliver(c)
  PROVE  WebInv'
  BY LoginWebInv, LoadWebInv, ApproveWebInv, ChangeWebInv, ReloadWebInv DEF Deliver

LEMMA PressesWebInv ==
  ASSUME WebInv,
         \/ \E e \in DemoExpense : OnApprove(e)
         \/ OnRevoke \/ OnGrant \/ RefreshLog
  PROVE  WebInv'
  <1>1. /\ screens = [part \in Parts |-> screens[part]]
        /\ \A x, part : part \in Parts =>
             /\ [screens EXCEPT !.pending = x][part] = IF part = "pending" THEN x ELSE screens[part]
             /\ [screens EXCEPT !.busy = x][part] = IF part = "busy" THEN x ELSE screens[part]
        /\ \A x : /\ [screens EXCEPT !.pending = x] = [part \in Parts |-> [screens EXCEPT !.pending = x][part]]
                  /\ [screens EXCEPT !.busy = x] = [part \in Parts |-> [screens EXCEPT !.busy = x][part]]
    BY DEF WebInv, WebScreens, MayShow
  <1>2. {"rows", "events", "assignments", "outcomes"} \subseteq Parts \ {"pending", "busy"}
    BY DEF Parts
  <1>3. ASSUME UNCHANGED screens \/ \E x : \/ screens' = [screens EXCEPT !.pending = x]
                                          \/ screens' = [screens EXCEPT !.busy = x]
        PROVE  /\ screens' = [part \in Parts |-> screens'[part]]
               /\ \A part \in {"rows", "events", "assignments", "outcomes"} : screens'[part] = screens[part]
    BY <1>1, <1>2, <1>3
  <1>4. ASSUME NEW e \in DemoExpense, OnApprove(e)
        PROVE  WebInv'
    BY <1>3, <1>4, PressWebInv DEF OnApprove, service
  <1>5. CASE OnRevoke
    BY <1>3, <1>5, PressWebInv DEF OnRevoke, service
  <1>6. CASE OnGrant
    BY <1>3, <1>6, PressWebInv DEF OnGrant, service
  <1>7. CASE RefreshLog
    BY <1>3, <1>7, PressWebInv DEF RefreshLog, service, client
  <1>8. QED
    BY <1>4, <1>5, <1>6, <1>7

LEMMA StepWebInv ==
  ASSUME WebInv, [NextWeb]_webVars
  PROVE  WebInv'
  <1>1. CASE UNCHANGED webVars
    <2>1. UNCHANGED <<approvedBy, granted, version, token, session, screens, calls, made>>
      BY <1>1 DEF webVars, service, client
    <2>2. Onward
      BY <2>1 DEF Onward, WebInv, WebSession
    <2>3. \A c \in calls' : WebCall(c)'
      BY <2>1, <2>2, CallsStay
    <2>4. WebSession' /\ WebScreens' /\ OneLogin'
      BY <2>1 DEF WebInv, WebSession, WebScreens, MayShow, OneLogin, LoggedIn, Genuine
    <2>5. QED
      BY <2>3, <2>4 DEF WebInv
  <1>2. CASE NextWeb
    BY <1>2, PickWebInv, PressesWebInv, LogoutWebInv, ServeWebInv, FailsWebInv, DeliverWebInv
       DEF NextWeb
  <1>3. QED
    BY <1>1, <1>2

\* Every call underway is of its session, whatever sessions there have been since.
THEOREM WebInvariant == WebSpec => []WebInv
  BY InitWebInv, StepWebInv, PTL DEF WebSpec

\* However late the calls of earlier sessions are answered, and whatever they then reload,
\* a session shows only what was read for its user since it began.
THEOREM WebShownIsGenuine == WebSpec => []ShownIsGenuine
  <1>1. WebInv => ShownIsGenuine
    BY DEF WebInv, WebSession, WebScreens, MayShow, ShownIsGenuine
  <1>2. QED
    BY <1>1, WebInvariant, PTL
=============================================================================
