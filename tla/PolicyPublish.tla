----------------------------- MODULE PolicyPublish -----------------------------
(***************************************************************************)
(* The policy module of authz-admin: publish, activate and rollback, each  *)
(* one READ COMMITTED transaction of PostgreSQL that also writes the files  *)
(* Cerbos watches, before it commits.  A tenant reads and writes its own    *)
(* rows only; the directory, and the names in it, are shared by them all.   *)
(***************************************************************************)
EXTENDS Integers, Sequences

CONSTANTS
  Request,     \* requests that publish, activate or roll back
  Tenant,
  TenantOf,    \* per request, the tenant of its token
  Scope,       \* paths as sequences of labels, closed under prefixes
  Resource,    \* names, as the sequences of labels between their dots
  Body,        \* the rules of a rule body that parses
  Malformed,   \* a rule body that does not
  NoPolicy,    \* a request without a policy yet
  NoFile,
  MaxVersion   \* bound on the versions of a scope

Rule == [resource: Resource, body: Body] \cup {Malformed}
Policy ==
  [tenant: Tenant, scope: Scope, rule: Rule, version: 1 .. MaxVersion,
   status: {"staged", "active"}]

\* A compiled rule body, or the empty stub; the identifier of its policy tells the tenant.
Document ==
  [tenant: Tenant, resource: Resource, scope: Scope, body: Body \cup {"stub"},
   version: 1 .. MaxVersion]

\* What numbers its versions on its own: a scope of a tenant.
Line == Tenant \X Scope
LineOf(it) == <<it.tenant, it.scope>>

\* fileNameFor: labels joined, so that the name tells neither the tenant nor where
\* the resource ends.
NameOf(document) == document.resource \o document.scope
FileName == {resource \o scope : resource \in Resource, scope \in Scope}

ASSUME PolicyPublishAssumption ==
  /\ TenantOf \in [Request -> Tenant]
  /\ \A s \in Scope : s \in Seq(STRING) /\ s # << >>
  /\ \A s \in Scope : \A n \in 1 .. Len(s) : SubSeq(s, 1, n) \in Scope
  /\ Malformed \notin [resource: Resource, body: Body]
  /\ NoPolicy \notin Policy /\ NoFile \notin Document
  /\ MaxVersion \in Nat \ {0}

VARIABLES
  rows,     \* the committed rows of the table policies
  files,    \* the files of the policy directory
  phase,    \* per request
  policy,   \* the aggregate the request saves, once it has one
  todo      \* the documents it has still to write

vars == <<rows, files, phase, policy, todo>>

Phase == {"idle", "saving", "writing", "answered", "failed"}

Init ==
  /\ rows = {}
  /\ files = [f \in FileName |-> NoFile]
  /\ phase = [p \in Request |-> "idle"]
  /\ policy = [p \in Request |-> NoPolicy]
  /\ todo = [p \in Request |-> << >>]

-----------------------------------------------------------------------------
(* cerbos-policy-mapper.ts *)

\* The proper ancestors of a scope, the most specific first; without
\* the top-level scope.
AncestorsBelowTop(scope) == [i \in 1 .. Len(scope) - 2 |-> SubSeq(scope, 1, Len(scope) - i)]
AncestorScopes(scope) == [i \in 1 .. Len(scope) - 1 |-> SubSeq(scope, 1, Len(scope) - i)]

\* The leaf, then a stub for every ancestor, there already or not.
FilesOf(new) ==
  LET at(scope, body) == [tenant |-> new.tenant, resource |-> new.rule.resource, scope |-> scope,
                          body |-> body, version |-> new.version]
      ancestors == AncestorScopes(new.scope)
  IN  <<at(new.scope, new.rule.body)>> \o [i \in DOMAIN ancestors |-> at(ancestors[i], "stub")]

-----------------------------------------------------------------------------
(* The three use cases, up to save() *)

\* What row level security shows p.
Visible(p) == {r \in rows : r.tenant = TenantOf[p]}

\* findLatestForScope(scope)?.version, or 0, of the rows of a tenant.
LatestVersion(line) ==
  LET versions == {0} \cup {r.version : r \in {q \in rows : LineOf(q) = line}}
  IN  CHOOSE v \in versions : \A w \in versions : w <= v

NextVersion(line) == LatestVersion(line) + 1

Builds(p, scope, rule) ==
  LET next == NextVersion(<<TenantOf[p], scope>>)
  IN  /\ phase[p] = "idle"
      /\ next <= MaxVersion
      /\ phase' = [phase EXCEPT ![p] = "saving"]
      /\ policy' = [policy EXCEPT ![p] =
           [tenant |-> TenantOf[p], scope |-> scope, rule |-> rule,
            version |-> next, status |-> "staged"]]
      /\ UNCHANGED <<rows, files, todo>>

\* Any scope, whoever the tenant is.
Publish(p, scope, rule) == Builds(p, scope, rule)

\* The rule of an earlier version as the next one.
Rollback(p, current, target) ==
  /\ current \in Visible(p)
  /\ target \in Visible(p)
  /\ target.scope = current.scope
  /\ Builds(p, current.scope, target.rule)

\* ifMatch is the If-Match header, 0 when it is not sent.
MayActivate(loaded, ifMatch) == ifMatch \in {0, loaded.version} /\ loaded.status # "active"
Activated(row) == [row EXCEPT !.status = "active"]

Activate(p, loaded, ifMatch) ==
  /\ phase[p] = "idle"
  /\ loaded \in Visible(p)
  /\ \/ /\ MayActivate(loaded, ifMatch)
        /\ policy' = [policy EXCEPT ![p] = Activated(loaded)]
        /\ phase' = [phase EXCEPT ![p] = "saving"]
     \/ /\ ~ MayActivate(loaded, ifMatch)
        /\ phase' = [phase EXCEPT ![p] = "failed"]
        /\ UNCHANGED policy
  /\ UNCHANGED <<rows, files, todo>>

-----------------------------------------------------------------------------
(* save(), the publisher and the end of the transaction *)

SameVersion(a, b) == LineOf(a) = LineOf(b) /\ a.version = b.version

\* A failed transaction that keeps its locks, and PostgreSQL: a write waits while
\* another transaction holds the row or the unique key.
HeldForever(p, q) == phase[q] \in {"writing", "failed"} /\ SameVersion(policy[q], policy[p])
Holds(p, q) == phase[q] = "writing" /\ SameVersion(policy[q], policy[p])
Blocked(p) == \E q \in Request \ {p} : policy[q] # NoPolicy /\ Holds(p, q)

\* An insert without the unique index.
NeverTaken(new) == FALSE
Taken(new) == \E r \in rows : SameVersion(r, new)
StillStaged(new) == \E r \in rows : SameVersion(r, new) /\ r.status = "staged"

Fail(p) ==
  /\ phase' = [phase EXCEPT ![p] = "failed"]
  /\ UNCHANGED <<rows, files, policy, todo>>

\* A staged version is inserted, an active one updates its staged row; then the
\* rule body is parsed and compiled.
Save(p) ==
  /\ phase[p] = "saving"
  /\ ~ Blocked(p)
  /\ LET saved == IF policy[p].status = "active" THEN StillStaged(policy[p])
                                                 ELSE ~ Taken(policy[p])
     IN  \/ /\ saved /\ policy[p].rule # Malformed
            /\ phase' = [phase EXCEPT ![p] = "writing"]
            /\ todo' = [todo EXCEPT ![p] = FilesOf(policy[p])]
            /\ UNCHANGED <<rows, files, policy>>
         \/ /\ ~ saved \/ policy[p].rule = Malformed
            /\ Fail(p)

\* writeFileAtomic of the next file: its temporary file is named for the process and
\* the millisecond, and then renamed.
WriteFile(p) ==
  /\ phase[p] = "writing"
  /\ todo[p] # << >>
  /\ files' = [files EXCEPT ![NameOf(Head(todo[p]))] = Head(todo[p])]
  /\ todo' = [todo EXCEPT ![p] = Tail(todo[p])]
  /\ UNCHANGED <<rows, phase, policy>>

\* Two of them in one millisecond: p renames what q wrote last into the temporary
\* file, and q finds nothing to rename.
WriteShared(p, q) ==
  /\ \A r \in {p, q} : phase[r] = "writing" /\ todo[r] # << >>
  /\ NameOf(Head(todo[p])) = NameOf(Head(todo[q]))
  /\ files' = [files EXCEPT ![NameOf(Head(todo[q]))] = Head(todo[q])]
  /\ todo' = [todo EXCEPT ![p] = Tail(todo[p])]
  /\ phase' = [phase EXCEPT ![q] = "failed"]
  /\ UNCHANGED <<rows, policy>>

\* The table once p is saved: a row more, or the row it activates; and an update
\* that activates that version of the scope for every tenant.
CommittedScopeWide(new) ==
  IF new.status = "staged" THEN rows \cup {new}
  ELSE {IF r.scope = new.scope /\ r.version = new.version THEN Activated(r) ELSE r : r \in rows}
Committed(new) ==
  IF new.status = "staged" THEN rows \cup {new}
  ELSE {IF SameVersion(r, new) THEN Activated(r) ELSE r : r \in rows}

\* The answer to a COMMIT may be lost.
Commit(p) ==
  /\ phase[p] = "writing"
  /\ todo[p] = << >>
  /\ rows' = Committed(policy[p])
  /\ \E outcome \in {"answered", "failed"} : phase' = [phase EXCEPT ![p] = outcome]
  /\ UNCHANGED <<files, policy, todo>>

\* A statement, a file or the process fails: the transaction is rolled back, the
\* files that were written stay.
Abort(p) ==
  /\ phase[p] \in {"saving", "writing"}
  /\ Fail(p)

Proceed(p) == Save(p) \/ WriteFile(p) \/ Commit(p)

PolicyController(p) ==
  \/ \E s \in Scope, rule \in Rule : Publish(p, s, rule)
  \/ \E current, target \in Visible(p) : Rollback(p, current, target)
  \/ \E loaded \in Visible(p), ifMatch \in 0 .. MaxVersion : Activate(p, loaded, ifMatch)

Next ==
  \E p \in Request :
    \/ PolicyController(p)
    \/ Proceed(p)
    \/ \E q \in Request \ {p} : WriteShared(p, q)
    \/ Abort(p)

Spec == Init /\ [][Next]_vars

\* Every statement and every file write ends.
FairSpec == Spec /\ \A p \in Request : WF_vars(Proceed(p))

-----------------------------------------------------------------------------
(* Properties *)

TypeOK ==
  /\ rows \subseteq Policy
  /\ files \in [FileName -> Document \cup {NoFile}]
  /\ phase \in [Request -> Phase]
  /\ policy \in [Request -> Policy \cup {NoPolicy}]
  /\ \A p \in Request : \A i \in DOMAIN todo[p] : todo[p][i] \in Document

Exists(name) == files[name] # NoFile
IsAbove(s, t) == Len(s) < Len(t) /\ s = SubSeq(t, 1, Len(s))

\* A policy file without the files of its ancestor scopes is one whose publisher
\* has still to write them, or failed before it did.
ChainsAreComplete ==
  \A name \in FileName : Exists(name) =>
    \A s \in Scope : IsAbove(s, files[name].scope) =>
      LET ancestor == files[name].resource \o s
      IN  \/ Exists(ancestor)
          \/ \E p \in Request : \E j \in DOMAIN todo[p] : NameOf(todo[p][j]) = ancestor

\* The next that p writes.
IsWriting(p, document) ==
  phase[p] = "writing" /\ todo[p] # << >> /\ Head(todo[p]) = document

\* Although the files are written outside the transactions, a rule that a publish or a
\* rollback puts into a file is newer than every version its tenant's table has of that
\* scope, and no older than the rule it replaces there.  Between tenants nothing of the
\* kind holds: whoever publishes a scope last has the file.
PublishNeverGoesBack ==
  [][\A name \in FileName :
       LET old == files[name]
           new == files'[name]
       IN  new # old /\ new.body # "stub" =>
             \/ /\ \A r \in rows : LineOf(r) = LineOf(new) => r.version < new.version
                /\ Exists(name) /\ old.body # "stub" /\ LineOf(old) = LineOf(new)
                     => old.version <= new.version
             \/ \E p \in Request : IsWriting(p, new) /\ policy[p].status = "active"]_vars

\* A request that was not refused at once is answered, however the others end.
EveryRequestEnds ==
  \A p \in Request : phase[p] = "saving" ~> phase[p] \in {"answered", "failed"}

\* The table is the history its readers are promised.
VersionCount(line) == LatestVersion(line)
Row(line, v) == CHOOSE r \in rows : LineOf(r) = line /\ r.version = v
Versions ==
  [line \in Line |->
     [v \in 1 .. VersionCount(line) |->
        [rule |-> Row(line, v).rule, status |-> Row(line, v).status]]]
History == INSTANCE VersionHistory WITH history <- Versions
ImplementsHistory == History!Spec

-----------------------------------------------------------------------------
(* Claims of comments *)

\* "emits empty-rules PASSTHROUGH stubs for every missing ANCESTOR scope"
\* (cerbos-policy-mapper.ts).
StubsOnlyWhereMissing ==
  [][\A name \in FileName :
       Exists(name) /\ files'[name] # files[name] /\ files'[name].body = "stub"
       => files[name].body = "stub"]_vars

\* "a runtime, user-defined policy becomes effective within seconds"
\* (fs-cerbos-policy.publisher.ts): no rule of a tenant is replaced by another's.
OneTenantsFile ==
  [][\A name \in FileName :
       Exists(name) /\ files[name].body # "stub"
       => files'[name].tenant = files[name].tenant]_vars

\* "Done AFTER persistence so the source of truth is committed first"
\* (publish-policy.use-case.ts): a rule the PDP enforces is a row of the table.
SourceOfTruthFirst ==
  \A name \in FileName :
    Exists(name) /\ files[name].body # "stub" =>
      \E r \in rows : SameVersion(r, files[name])
==============================================================================
