------------------------------- MODULE ExpenseApi ------------------------------
(***************************************************************************)
(* The expense service behind its policy enforcement point: approving one    *)
(* expense and listing those the caller may read, while an administrator     *)
(* changes roles and publishes policies.                                     *)
(*                                                                         *)
(* The PIP client is what PipCache shows it to be: a forced answer is what   *)
(* the PAP held at a moment after the call, any other one what it held at    *)
(* some time.  Saving and committing an approval are one step, for what it   *)
(* wrote stays locked in between.                                            *)
(***************************************************************************)
EXTENDS PolicyRules, FiniteSets

CONSTANTS
  Request,
  User,
  Expense,       \* the ids of the seeded expenses, numbers, for listings order them
  Role,
  Scope,
  Body,          \* the policy bodies that are published
  TenantOf,      \* the tenant of a user
  Attributes,    \* of an expense: [tenant, scope, amount, created]
  PageLimit,
  Precision      \* the units of the database's clock in one of a JavaScript Date's

ASSUME ExpenseApiAssumption ==
  /\ Expense \subseteq Nat /\ IsFiniteSet(Expense)
  /\ PageLimit \in Nat \ {0} /\ Precision \in Nat \ {0}
  /\ \A body \in Body : WellFormed(body)
  /\ \A e \in Expense : Attributes[e].scope \in Scope /\ Attributes[e].created \in Nat
  /\ \A s \in Scope : s \in Seq(STRING) /\ s # << >> /\ AncestorScopes(s) \subseteq Scope

VARIABLES
  rows,    \* the table: status and version of each expense
  grants,  \* the effective roles of each user, as the PAP would answer
  held,    \* history: all sets of roles a user has had
  files,   \* the policy files of the PDP
  req,     \* one record per request
  emitted  \* the decisions posted to the audit service

vars == <<rows, grants, held, files, req, emitted>>

NoCursor == [created |-> 0, id |-> 0]
Idle == [phase |-> "idle"]
Is(r, phase) == req[r].phase = phase

\* Expense.create and Expense.approve
Created == [status |-> "pending", version |-> 1]
Approved(row) == [status |-> "approved", version |-> row.version + 1]

Init ==
  /\ rows = [e \in Expense |-> Created]
  /\ grants \in [User -> SUBSET Role]
  /\ held = [u \in User |-> {grants[u]}]
  /\ files = [s \in Scope |-> NoFile]
  /\ req = [r \in Request |-> Idle]
  /\ emitted = {}

\* The status of an error's answer.
Status(error) ==
  CASE error = "NotFoundError" -> 404
    [] error = "ConflictError" -> 409
    [] error = "ForbiddenError" -> 403
    [] OTHER -> 500

Moves(r, next) == req' = [req EXCEPT ![r] = next]

\* took: history, whether the approval was committed.
Ends(r, u, e, status, took) ==
  Moves(r, [phase |-> "done", user |-> u, expense |-> e, status |-> status, took |-> took])
EndsWith(r, status) == Ends(r, req[r].user, req[r].expense, status, FALSE)

-----------------------------------------------------------------------------
(* The enforcement point *)

\* Row level security; and the guard's own check before it asks the PDP.
Visible(u) == {e \in Expense : Attributes[e].tenant = TenantOf[u]}
InTenant(u, e) == Attributes[e].tenant = TenantOf[u]

Asked(u, e) ==
  [principalTenant |-> TenantOf[u], resourceTenant |-> Attributes[e].tenant,
   amount |-> Attributes[e].amount]

Effect(u, e, action, roles) == Decision(files, Attributes[e].scope, roles, action, Asked(u, e))

\* One post for each decision; and only for those that allow.
Post(r, e, action, effect) == [request |-> r, expense |-> e, action |-> action, effect |-> effect]
EmitAllowed(r, e, action, effect) ==
  emitted' = emitted \cup (IF effect = "ALLOW" THEN {Post(r, e, action, effect)} ELSE {})
EmitAudit(r, e, action, effect) == emitted' = emitted \cup {Post(r, e, action, effect)}

\* The guard loads the expense.  since: history, what the user's roles have been from then.
RequestApproval(r, u, e) ==
  /\ Is(r, "idle")
  /\ IF e \notin Visible(u) THEN Ends(r, u, e, Status("NotFoundError"), FALSE)
     ELSE IF ~ InTenant(u, e) THEN Ends(r, u, e, Status("ForbiddenError"), FALSE)
     ELSE Moves(r, [phase |-> "resolving", user |-> u, expense |-> e, since |-> {grants[u]}])
  /\ UNCHANGED <<rows, grants, held, files, emitted>>

\* What pip.resolve may return, forced or not.
Remembered(u) == held[u]
ForceFresh(u) == {grants[u]}

Resolve(r) ==
  /\ Is(r, "resolving")
  /\ \E roles \in ForceFresh(req[r].user) :
       Moves(r, [phase |-> "checking", user |-> req[r].user, expense |-> req[r].expense,
                 since |-> req[r].since, roles |-> roles])
  /\ UNCHANGED <<rows, grants, held, files, emitted>>

Check(r) ==
  /\ Is(r, "checking")
  /\ UNCHANGED <<rows, grants, held, files>>
  /\ \E effect \in {Effect(req[r].user, req[r].expense, "approve", req[r].roles)} :
       /\ EmitAudit(r, req[r].expense, "approve", effect)
       /\ IF effect = "ALLOW" THEN Moves(r, [req[r] EXCEPT !.phase = "handling"])
          ELSE EndsWith(r, Status("ForbiddenError"))

-----------------------------------------------------------------------------
(* ApproveExpenseUseCase, in the request's transaction *)

\* An expense that is approved already is not approved again.
FindById(r) ==
  /\ Is(r, "handling")
  /\ IF rows[req[r].expense].status = "pending"
     THEN Moves(r, [phase |-> "saving", user |-> req[r].user, expense |-> req[r].expense,
                    since |-> req[r].since, roles |-> req[r].roles,
                    row |-> Approved(rows[req[r].expense])])
     ELSE EndsWith(r, Status("ConflictError"))
  /\ UNCHANGED <<rows, grants, held, files, emitted>>

\* guardOptimisticLock: the row is still the one the aggregate was read from; no guard.
AnyRow(e, version) == TRUE
CasWins(e, version) == rows[e].version = version - 1

\* A commit is answered, or it succeeds and its answer is lost.
Save(r) ==
  /\ Is(r, "saving")
  /\ IF CasWins(req[r].expense, req[r].row.version)
     THEN /\ rows' = [rows EXCEPT ![req[r].expense] = req[r].row]
          /\ \E status \in {200, Status("QueryFailedError")} :
               Ends(r, req[r].user, req[r].expense, status, TRUE)
     ELSE EndsWith(r, Status("ConflictError")) /\ UNCHANGED rows
  /\ UNCHANGED <<grants, held, files, emitted>>

-----------------------------------------------------------------------------
(* ListAuthorizedExpensesUseCase; a client that asks for page after page *)

\* createdAt of an aggregate, and the query's order and condition; one that
\* would repeat rows, and one that would skip some.
RoundedUp(e) == (Attributes[e].created + Precision - 1) \div Precision
Milliseconds(e) == Attributes[e].created \div Precision
Newer(d, e) ==
  \/ Attributes[d].created > Attributes[e].created
  \/ Attributes[d].created = Attributes[e].created /\ d > e
IsAfterInBoth(e, cursor) == Attributes[e].created < cursor.created * Precision /\ e < cursor.id
IsAfter(e, cursor) ==
  \/ Attributes[e].created < cursor.created * Precision
  \/ Attributes[e].created = cursor.created * Precision /\ e < cursor.id

\* list: the rows of the query, the first of them, newest first, and the cursor of the next.
RowsAfter(u, cursor) == {e \in Visible(u) : cursor = NoCursor \/ IsAfter(e, cursor)}
NewerIn(found, e) == {d \in found : Newer(d, e)}
Page(found) == {e \in found : Cardinality(NewerIn(found, e)) < PageLimit}
Last(page) == CHOOSE e \in page : \A d \in page \ {e} : Newer(d, e)
NextCursor(found) ==
  LET last == Last(Page(found))
  IN  IF Page(found) = found THEN NoCursor ELSE [created |-> Milliseconds(last), id |-> last]

\* resolved: effectiveByScope.  seen: history, all rows of the pages so far.
ReadPage(r, u, cursor, seen) ==
  LET found == RowsAfter(u, cursor)
  IN  Moves(r, [phase |-> "listing", user |-> u, todo |-> Page(found), next |-> NextCursor(found),
                resolved |-> {}, shown |-> {}, seen |-> seen \cup Page(found)])

List(r, u) ==
  /\ Is(r, "idle")
  /\ ReadPage(r, u, NoCursor, {})
  /\ UNCHANGED <<rows, grants, held, files, emitted>>

\* resolveEffective: one principal for all expenses of a scope.
Resolutions(r, scope) ==
  LET known == {p \in req[r].resolved : p.scope = scope}
  IN  IF known # {} THEN known
      ELSE {[scope |-> scope, roles |-> roles] : roles \in Remembered(req[r].user)}

CanRead(r) ==
  /\ Is(r, "listing")
  /\ UNCHANGED <<rows, grants, held, files>>
  /\ \E e \in {d \in req[r].todo : NewerIn(req[r].todo, d) = {}} :
     \E p \in Resolutions(r, Attributes[e].scope) :
       \E effect \in {Effect(req[r].user, e, "read", p.roles)} :
         /\ EmitAudit(r, e, "read", effect)
         /\ Moves(r, [req[r] EXCEPT !.todo = req[r].todo \ {e},
                        !.resolved = req[r].resolved \cup {p},
                        !.shown = req[r].shown \cup (IF effect = "ALLOW" THEN {e} ELSE {})])

AnswerPage(r) ==
  /\ Is(r, "listing") /\ req[r].todo = {}
  /\ IF req[r].next = NoCursor
     THEN Moves(r, [phase |-> "listed", user |-> req[r].user, seen |-> req[r].seen])
     ELSE ReadPage(r, req[r].user, req[r].next, req[r].seen)
  /\ UNCHANGED <<rows, grants, held, files, emitted>>

\* The PAP, the PDP or the database fails, of an approval before anything is committed.
Fail(r) ==
  /\ \/ /\ req[r].phase \in {"resolving", "checking", "handling", "saving"}
        /\ EndsWith(r, Status("Error"))
     \/ Is(r, "listing") /\ Moves(r, [phase |-> "unlisted", user |-> req[r].user])
  /\ UNCHANGED <<rows, grants, held, files, emitted>>

-----------------------------------------------------------------------------
(* The administrator *)

GrantsChange(u, roles) ==
  /\ grants' = [grants EXCEPT ![u] = roles]
  /\ held' = [held EXCEPT ![u] = @ \cup {roles}]
  /\ req' = [r \in Request |->
               IF req[r].phase \in {"resolving", "checking", "handling", "saving"} /\ req[r].user = u
               THEN [req[r] EXCEPT !.since = @ \cup {roles}] ELSE req[r]]
  /\ UNCHANGED <<rows, files, emitted>>

PolicyFile == [body \in Body |-> Guarded(body)]

\* The file of the scope is written, then those of its ancestors; the PDP loads none
\* while one is missing.
PublishPolicy(s, body) ==
  \E stubs \in SUBSET AncestorScopes(s) :
    /\ \A t \in AncestorScopes(s) : files[t] = NoFile => t \in stubs
    /\ files' = [t \in Scope |-> IF t = s THEN PolicyFile[body]
                                 ELSE IF t \in stubs THEN Stub ELSE files[t]]
    /\ UNCHANGED <<rows, grants, held, req, emitted>>

Step(r) ==
  \/ Fail(r) \/ Resolve(r) \/ Check(r) \/ FindById(r) \/ Save(r)
  \/ CanRead(r) \/ AnswerPage(r)

ExpenseController(r) ==
  \E u \in User :
    \/ \E e \in Expense : RequestApproval(r, u, e)
    \/ List(r, u)

Next ==
  \/ \E r \in Request : ExpenseController(r) \/ Step(r)
  \/ \E u \in User, roles \in SUBSET Role : GrantsChange(u, roles)
  \/ \E s \in Scope, body \in Body : PublishPolicy(s, body)

Spec == Init /\ [][Next]_vars

\* A handler goes on as what it awaits settles.
FairSpec == Spec /\ \A r \in Request : WF_vars(Step(r))

-----------------------------------------------------------------------------
Ended(r) == req[r].phase \in {"done", "listed", "unlisted"}
Took(e) == {r \in Request : Is(r, "done") /\ req[r].expense = e /\ req[r].took}

\* An expense is approved by one request, however many were allowed to, and a client is
\* told 200 only if it was its request, and 403, 404 or 409 only if it was not.
ApprovedByOne ==
  /\ \A e \in Expense :
       /\ rows[e].version = 1 + Cardinality(Took(e))
       /\ Cardinality(Took(e)) <= 1
       /\ rows[e].status = "approved" <=> Took(e) # {}
  /\ \A r \in Request : Is(r, "done") =>
       /\ req[r].status = 200 => req[r].took
       /\ req[r].status \in {403, 404, 409} => ~ req[r].took

\* An approval goes ahead only on roles that the user had after it was requested: one
\* revoked before is enforced, whatever the PIP client still remembers.
ApprovedOnPresentRoles ==
  \A r \in Request :
    req[r].phase \in {"checking", "handling", "saving"} => req[r].roles \in req[r].since

\* What the service does to an expense, shows of it or refuses was decided by the PDP, and
\* the decision was posted before: an approval that took effect and each row of a page
\* have an ALLOW, a 403 has a DENY.
EffectsWereAudited ==
  \A r \in Request :
    /\ Is(r, "done") =>
         /\ req[r].took => Post(r, req[r].expense, "approve", "ALLOW") \in emitted
         /\ req[r].status = 403 => Post(r, req[r].expense, "approve", "DENY") \in emitted
    /\ Is(r, "listing") => \A e \in req[r].shown : Post(r, e, "read", "ALLOW") \in emitted

\* The PDP denies a principal every resource of another tenant, although a policy of a
\* scope overrides the base that says so, whatever has been published where.
CrossTenantDenied ==
  \A case \in {c \in Case : c.principalTenant # c.resourceTenant} :
    \A s \in Scope, action \in {"read", "approve"}, roles \in SUBSET Role :
      Decision(files, s, roles, action, case) = "DENY"

\* Every request is answered.
EveryRequestEnds == \A r \in Request : ~ Is(r, "idle") ~> Ended(r)

\* A client that has read all pages misses only expenses created in the same millisecond as
\* one it was shown or refused, for the cursor has no more of the last row's time.
MissesOnlyTies ==
  \A r \in Request : Is(r, "listed") =>
    \A e \in Visible(req[r].user) \ req[r].seen :
      \E d \in req[r].seen : Newer(d, e) /\ Milliseconds(d) = Milliseconds(e)
==============================================================================
