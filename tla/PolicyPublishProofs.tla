-------------------------- MODULE PolicyPublishProofs --------------------------
(***************************************************************************)
(* Proofs about PolicyPublish: the table is a history without gaps, a        *)
(* publish never puts an older rule of a tenant into a file, and no chain of *)
(* scopes stays broken, for any tenants, scopes, rules, bound and requests.  *)
(***************************************************************************)
EXTENDS PolicyPublish, TLAPS

-----------------------------------------------------------------------------
(* The inductive invariant *)

IsRule(document) == document.body # "stub"
Saving(p) == phase[p] = "saving"
Writing(p) == phase[p] = "writing"
IsStaged(p) == policy[p].status = "staged"

\* s is a line in all of these.
HasRow(s, v) == \E r \in rows : LineOf(r) = s /\ r.version = v
\* The versions before v of a scope are all there.
FollowsRows(s, v) == \A w \in 1 .. v - 1 : HasRow(s, w)

\* The table: versions are unique, and without gaps.
RowsOK ==
  /\ rows \subseteq Policy
  /\ \A r, q \in rows : SameVersion(r, q) => r = q
  /\ \A r \in rows : FollowsRows(LineOf(r), r.version)

\* What a request saves follows the rows there were, or activates one of them.
PolicyOK(p) ==
  /\ policy[p] \in Policy
  /\ IsStaged(p) => FollowsRows(LineOf(policy[p]), policy[p].version)
  /\ ~ IsStaged(p) => \E r \in rows : SameVersion(r, policy[p]) /\ r.rule = policy[p].rule

\* Until it commits, a saved version is not there, or not active, and nobody else's.
SavedOK(p) ==
  /\ policy[p].rule # Malformed
  /\ IsStaged(p) => ~ HasRow(LineOf(policy[p]), policy[p].version)
  /\ ~ IsStaged(p) => \A r \in rows : SameVersion(r, policy[p]) => r.status = "staged"
  /\ \A q \in Request \ {p} : Writing(q) => ~ SameVersion(policy[p], policy[q])

\* After each of its documents come those of the scopes above.
IsChained(list) ==
  \A i \in DOMAIN list : \A s \in Scope :
    IsAbove(s, list[i].scope) =>
      \E j \in DOMAIN list : j > i /\ NameOf(list[j]) = list[i].resource \o s

\* The one document with rules is that of the policy itself.
HasLeafOf(new, list) == \A i \in DOMAIN list : IsRule(list[i]) => SameVersion(list[i], new)

\* Every rule in a file came with the versions before it in the table.
FilesOK ==
  \A name \in FileName :
    Exists(name) /\ IsRule(files[name])
      => FollowsRows(LineOf(files[name]), files[name].version)

RequestOK(p) ==
  /\ policy[p] \in Policy \cup {NoPolicy}
  /\ Saving(p) \/ Writing(p) => PolicyOK(p)
  /\ Writing(p) => SavedOK(p) /\ HasLeafOf(policy[p], todo[p])
  /\ phase[p] \in {"idle", "saving"} => todo[p] = << >>
  /\ IsChained(todo[p])

IInv ==
  /\ RowsOK
  /\ files \in [FileName -> Document \cup {NoFile}]
  /\ phase \in [Request -> Phase]
  /\ policy = [p \in Request |-> policy[p]]
  /\ todo \in [Request -> Seq(Document)]
  /\ \A p \in Request : RequestOK(p)
  /\ FilesOK
  /\ ChainsAreComplete

-----------------------------------------------------------------------------
(* Versions *)

WellFounded == INSTANCE WellFoundedInduction

LEMMA NatMin ==
  ASSUME NEW T \in SUBSET Nat, T # {}
  PROVE  \E x \in T : \A y \in T : x <= y
  <1> DEFINE R == WellFounded!OpToRel(<, Nat)
  <1>1. WellFounded!IsWellFoundedOn(R, Nat)
    BY WellFounded!NatLessThanWellFounded
  <1>2. \A x, y \in Nat : y < x => <<y, x>> \in R
    BY DEF WellFounded!OpToRel
  <1> HIDE DEF R
  <1>3. PICK x \in T : \A y \in T : ~ (<<y, x>> \in R)
    BY <1>1, WellFounded!WFMin, Zenon
  <1>4. ASSUME NEW y \in T
        PROVE  ~ (y < x)
    BY <1>2, <1>3
  <1>5. QED
    BY <1>4

\* A set of naturals with a bound has a greatest element.
LEMMA Greatest ==
  ASSUME NEW n \in Nat, NEW S \in SUBSET (0 .. n), S # {}
  PROVE  \E m \in S : \A k \in S : k <= m
  <1> DEFINE T == {n - k : k \in S}
  <1>1. PICK x \in T : \A y \in T : x <= y
    <2>1. T \in SUBSET Nat
      OBVIOUS
    <2>2. T # {}
      OBVIOUS
    <2> HIDE DEF T
    <2>3. QED
      BY <2>1, <2>2, NatMin
  <1>2. PICK m \in S : x = n - m
    OBVIOUS
  <1>3. \A k \in S : n - m <= n - k
    BY <1>1, <1>2
  <1>4. QED
    BY <1>3

LEMMA PolicyFields ==
  ASSUME NEW r \in Policy
  PROVE  /\ r.tenant \in Tenant /\ r.scope \in Scope /\ LineOf(r) \in Line
         /\ r.rule \in Rule /\ r.version \in 1 .. MaxVersion
         /\ r.status \in {"staged", "active"}
         /\ r # NoPolicy
  BY PolicyPublishAssumption DEF Policy, LineOf, Line

\* A table of policies as PolicyPublish keeps it, and its latest version of a scope.
IsTable(table) ==
  /\ table \subseteq Policy
  /\ \A r, q \in table : SameVersion(r, q) => r = q
  /\ \A r \in table : \A w \in 1 .. r.version - 1 :
       \E q \in table : LineOf(q) = LineOf(r) /\ q.version = w

LatestIn(table, s) ==
  LET versions == {0} \cup {r.version : r \in {q \in table : LineOf(q) = s}}
  IN  CHOOSE v \in versions : \A w \in versions : w <= v

LEMMA RowsAreTable ==
  /\ RowsOK => IsTable(rows)
  /\ RowsOK' => IsTable(rows')
  BY DEF RowsOK, IsTable, FollowsRows, HasRow

\* findLatestForScope finds the greatest version, and there are all up to it.
LEMMA LatestInTable ==
  ASSUME NEW table, IsTable(table), NEW s
  PROVE  /\ LatestIn(table, s) \in 0 .. MaxVersion
         /\ \A v \in Nat : (v \in 1 .. LatestIn(table, s)) <=>
                           (\E r \in table : LineOf(r) = s /\ r.version = v)
  <1> DEFINE versions == {0} \cup {r.version : r \in {q \in table : LineOf(q) = s}}
             latest == CHOOSE v \in versions : \A w \in versions : w <= v
             There(v) == \E r \in table : LineOf(r) = s /\ r.version = v
  <1>1. versions \in SUBSET (0 .. MaxVersion) /\ 0 \in versions
    BY PolicyFields, PolicyPublishAssumption DEF IsTable
  <1>2. \A v \in versions : v = 0 \/ There(v)
    OBVIOUS
  <1>3. \A v : There(v) => v \in versions /\ v \in 1 .. MaxVersion
    BY PolicyFields DEF IsTable
  <1>4. LatestIn(table, s) = latest
    BY DEF LatestIn
  <1> HIDE DEF versions
  <1>5. \E m \in versions : \A k \in versions : k <= m
    BY <1>1, Greatest, PolicyPublishAssumption
  <1>6. latest \in versions /\ \A w \in versions : w <= latest
    BY <1>5
  <1> HIDE DEF latest
  <1>7. \A v : There(v) => \A w \in 1 .. v - 1 : There(w)
    BY DEF IsTable
  <1> HIDE DEF There
  <1>8. latest \in Nat /\ \A v \in 1 .. latest : There(v)
    <2>1. latest \in Nat
      BY <1>1, <1>6, PolicyPublishAssumption
    <2>2. ASSUME NEW v \in 1 .. latest
          PROVE  There(v)
      <3>1. There(latest)
        BY <1>2, <1>6, <2>1
      <3>2. v = latest \/ v \in 1 .. latest - 1
        BY <2>1
      <3>3. QED
        BY <1>7, <3>1, <3>2
    <2>3. QED
      BY <2>1, <2>2
  <1>9. ASSUME NEW v \in Nat
        PROVE  v \in 1 .. latest <=> There(v)
    BY <1>3, <1>6, <1>8
  <1>10. QED
    BY <1>1, <1>4, <1>6, <1>9 DEF There

LEMMA LatestIsGreatest ==
  ASSUME RowsOK, NEW s
  PROVE  /\ LatestVersion(s) \in 0 .. MaxVersion
         /\ FollowsRows(s, NextVersion(s))
  <1>1. LatestVersion(s) = LatestIn(rows, s)
    BY DEF LatestVersion, LatestIn
  <1>2. LatestVersion(s) \in Nat /\ NextVersion(s) - 1 = LatestVersion(s)
    BY <1>1, LatestInTable, RowsAreTable, PolicyPublishAssumption DEF NextVersion
  <1>3. QED
    BY <1>1, <1>2, LatestInTable, RowsAreTable DEF FollowsRows, HasRow

-----------------------------------------------------------------------------
(* Scopes and files *)

LEMMA PrefixOfPrefix ==
  ASSUME NEW s \in Seq(STRING), NEW m \in 1 .. Len(s), NEW n \in 1 .. m
  PROVE  /\ SubSeq(s, 1, m) \in Seq(STRING) /\ Len(SubSeq(s, 1, m)) = m
         /\ SubSeq(SubSeq(s, 1, m), 1, n) = SubSeq(s, 1, n)
  <1>1. SubSeq(s, 1, m) \in Seq(STRING) /\ Len(SubSeq(s, 1, m)) = m
    OBVIOUS
  <1>2. SubSeq(SubSeq(s, 1, m), 1, n) = SubSeq(s, 1, n)
    OBVIOUS
  <1>3. QED
    BY <1>1, <1>2

LEMMA PathFacts ==
  ASSUME NEW s \in Scope
  PROVE  s \in Seq(STRING) /\ Len(s) \in Nat \ {0} /\ DOMAIN s = 1 .. Len(s)
  <1>1. s \in Seq(STRING) /\ s # << >>
    BY PolicyPublishAssumption
  <1>2. QED
    BY <1>1

LEMMA NamesOfScopes ==
  ASSUME NEW resource \in Resource, NEW scope \in Scope
  PROVE  resource \o scope \in FileName
  <1> DEFINE joined(r, s) == r \o s
  <1>1. FileName = {joined(r, s) : r \in Resource, s \in Scope}
    BY DEF FileName
  <1> HIDE DEF joined
  <1>2. joined(resource, scope) \in FileName
    BY <1>1
  <1>3. QED
    BY <1>2 DEF joined

LEMMA DocumentFields ==
  ASSUME NEW d \in Document
  PROVE  /\ d.tenant \in Tenant /\ d.resource \in Resource /\ d.scope \in Scope
         /\ d.version \in 1 .. MaxVersion /\ d # NoFile /\ NameOf(d) \in FileName
  <1>1. /\ d.tenant \in Tenant /\ d.resource \in Resource /\ d.scope \in Scope
        /\ d.version \in 1 .. MaxVersion /\ d # NoFile
    BY PolicyPublishAssumption DEF Document
  <1>2. NameOf(d) \in FileName
    BY <1>1, NamesOfScopes DEF NameOf
  <1>3. QED
    BY <1>1, <1>2

\* The documents of a policy, one for each scope from its own up.
LEMMA FilesOfPolicy ==
  ASSUME NEW new \in Policy, new.rule # Malformed
  PROVE  /\ FilesOf(new) \in Seq(Document)
         /\ IsChained(FilesOf(new))
         /\ HasLeafOf(new, FilesOf(new))
  <1> DEFINE n == Len(new.scope)
             up(j) == SubSeq(new.scope, 1, n - j + 1)
             at(scope, body) == [tenant |-> new.tenant, resource |-> new.rule.resource,
                                 scope |-> scope, body |-> body, version |-> new.version]
             stubs == [i \in 1 .. n - 1 |-> at(SubSeq(new.scope, 1, n - i), "stub")]
             leaf == at(new.scope, new.rule.body)
             resource == new.rule.resource
  <1>1. /\ new.tenant \in Tenant
        /\ new.scope \in Scope /\ new.scope \in Seq(STRING) /\ n \in Nat \ {0}
        /\ new.rule.resource \in Resource /\ new.rule.body \in Body
        /\ new.version \in 1 .. MaxVersion
    <2>1. new.tenant \in Tenant /\ new.scope \in Scope /\ new.version \in 1 .. MaxVersion
      BY PolicyFields
    <2>2. new.rule \in [resource: Resource, body: Body]
      BY PolicyFields DEF Rule
    <2>3. QED
      BY <2>1, <2>2, PathFacts
  <1>2. FilesOf(new) = <<leaf>> \o stubs
    BY <1>1 DEF FilesOf, AncestorScopes
  <1>3. \A j \in 1 .. n : up(j) \in Scope
    BY <1>1, PolicyPublishAssumption
  <1>4. leaf \in Document /\ leaf.scope = new.scope /\ leaf.resource = resource
        /\ leaf.tenant = new.tenant /\ leaf.version = new.version
    BY <1>1 DEF Document
  <1>5. ASSUME NEW i \in 1 .. n - 1
        PROVE  /\ stubs[i] \in Document
               /\ stubs[i].scope = up(i + 1) /\ stubs[i].resource = resource
               /\ stubs[i].body = "stub"
    <2>1. i + 1 \in 1 .. n /\ n - (i + 1) + 1 = n - i
      BY <1>1
    <2>2. SubSeq(new.scope, 1, n - i) = up(i + 1)
      BY <2>1
    <2>3. stubs[i] = at(up(i + 1), "stub")
      BY <2>2
    <2>4. up(i + 1) \in Scope
      BY <1>3, <2>1
    <2> HIDE DEF up
    <2>5. QED
      BY <1>1, <2>3, <2>4 DEF Document
  <1>6. stubs \in Seq(Document) /\ Len(stubs) = n - 1
    <2>1. stubs = [i \in 1 .. n - 1 |-> stubs[i]] /\ n - 1 \in Nat
      BY <1>1
    <2> HIDE DEF stubs
    <2>2. QED
      BY <1>5, <2>1
  <1> HIDE DEF leaf, stubs
  <1>7. /\ FilesOf(new) \in Seq(Document) /\ Len(FilesOf(new)) = n
        /\ FilesOf(new)[1] = leaf
        /\ \A j \in 2 .. n : FilesOf(new)[j] = stubs[j - 1]
    BY <1>1, <1>2, <1>4, <1>6
  <1>8. up(1) = new.scope
    BY <1>1
  <1>9. ASSUME NEW j \in 1 .. n
        PROVE  FilesOf(new)[j].scope = up(j) /\ FilesOf(new)[j].resource = resource
    <2>1. CASE j = 1
      BY <1>4, <1>7, <1>8, <2>1
    <2>2. CASE j # 1
      <3>1. j \in 2 .. n /\ j - 1 \in 1 .. n - 1 /\ (j - 1) + 1 = j
        BY <1>1, <2>2
      <3>2. /\ FilesOf(new)[j] = stubs[j - 1] /\ stubs[j - 1].scope = up((j - 1) + 1)
            /\ stubs[j - 1].resource = resource
        BY <1>5, <1>7, <3>1
      <3>3. QED
        BY <3>1, <3>2
    <2>3. QED
      BY <2>1, <2>2
  <1>10. ASSUME NEW i \in 1 .. n, NEW s \in Scope, IsAbove(s, up(i))
         PROVE  \E j \in 1 .. n : j > i /\ s = up(j)
    <2>1. Len(s) \in Nat \ {0}
      BY PathFacts
    <2>2. Len(up(i)) = n - i + 1
      BY <1>1
    <2>3. Len(s) \in 1 .. n - i /\ s = SubSeq(up(i), 1, Len(s))
      BY <1>1, <1>10, <2>1, <2>2 DEF IsAbove
    <2>4. s = SubSeq(new.scope, 1, Len(s))
      BY <1>1, <2>3, PrefixOfPrefix
    <2>5. n - Len(s) + 1 \in 1 .. n /\ n - Len(s) + 1 > i /\ n - (n - Len(s) + 1) + 1 = Len(s)
      BY <1>1, <2>3
    <2>6. QED
      BY <2>4, <2>5
  <1>11. DOMAIN FilesOf(new) = 1 .. n
    BY <1>1, <1>7
  <1> HIDE DEF up
  <1>12. IsChained(FilesOf(new))
    <2> SUFFICES ASSUME NEW i \in 1 .. n, NEW s \in Scope, IsAbove(s, FilesOf(new)[i].scope)
                 PROVE  \E j \in 1 .. n : j > i
                          /\ NameOf(FilesOf(new)[j]) = FilesOf(new)[i].resource \o s
      BY <1>11 DEF IsChained
    <2>1. FilesOf(new)[i].scope = up(i) /\ FilesOf(new)[i].resource = resource
      BY <1>9
    <2>2. PICK j \in 1 .. n : j > i /\ s = up(j)
      BY <1>10, <2>1
    <2>3. NameOf(FilesOf(new)[j]) = resource \o s
      BY <1>9, <2>2 DEF NameOf
    <2>4. QED
      BY <2>1, <2>2, <2>3
  <1>13. HasLeafOf(new, FilesOf(new))
    <2> SUFFICES ASSUME NEW i \in 1 .. n, IsRule(FilesOf(new)[i])
                 PROVE  SameVersion(FilesOf(new)[i], new)
      BY <1>11 DEF HasLeafOf
    <2>1. i = 1
      <3>1. CASE i # 1
        <4>1. i \in 2 .. n /\ i - 1 \in 1 .. n - 1
          BY <1>1, <3>1
        <4>2. FilesOf(new)[i].body = "stub"
          BY <1>5, <1>7, <4>1
        <4>3. QED
          BY <4>2 DEF IsRule
      <3>2. QED
        BY <3>1
    <2>2. QED
      BY <1>4, <1>7, <2>1 DEF SameVersion, LineOf
  <1>14. QED
    BY <1>7, <1>12, <1>13

-----------------------------------------------------------------------------
(* Steps that leave table and files alone *)

LEMMA SameRows ==
  ASSUME rows' = rows
  PROVE  /\ \A s, v : HasRow(s, v)' <=> HasRow(s, v)
         /\ \A s, v : FollowsRows(s, v)' <=> FollowsRows(s, v)
  BY DEF HasRow, FollowsRows

\* A request gets something to save, or fails.
LEMMA QuietStep ==
  ASSUME IInv, NEW p \in Request, UNCHANGED <<rows, files, todo>>,
         phase' \in [Request -> Phase], policy' = [q \in Request |-> policy'[q]],
         \A q \in Request \ {p} : phase'[q] = phase[q] /\ policy'[q] = policy[q],
         policy'[p] \in Policy \cup {NoPolicy},
         phase'[p] \in {"saving", "failed"},
         phase'[p] = "saving" => phase[p] = "idle" /\ PolicyOK(p)'
  PROVE  IInv'
  <1>1. RowsOK' /\ FilesOK' /\ ChainsAreComplete'
    <2>1. RowsOK'
      BY SameRows DEF IInv, RowsOK
    <2>2. FilesOK'
      BY SameRows DEF IInv, FilesOK, Exists
    <2>3. ChainsAreComplete'
      BY DEF IInv, ChainsAreComplete, Exists
    <2>4. QED
      BY <2>1, <2>2, <2>3
  <1>2. ASSUME NEW q \in Request
        PROVE  RequestOK(q)'
    <2>1. RequestOK(q)
      BY DEF IInv
    <2>2. CASE q = p
      <3>1. ~ Writing(p)' /\ (Saving(p)' => PolicyOK(p)' /\ todo[p] = << >>)
        BY <2>1, <2>2 DEF Writing, Saving, RequestOK
      <3>2. phase'[p] # "idle" /\ IsChained(todo[p])'
        BY <2>1, <2>2 DEF RequestOK, IsChained
      <3>3. QED
        BY <2>2, <3>1, <3>2 DEF RequestOK, Saving
    <2>3. CASE q # p
      <3>1. phase'[q] = phase[q] /\ policy'[q] = policy[q] /\ todo'[q] = todo[q]
        BY <2>3
      <3>2. PolicyOK(q) => PolicyOK(q)'
        BY <3>1, SameRows DEF PolicyOK, IsStaged
      <3>3. \A o \in Request : Writing(o)' => Writing(o) /\ policy'[o] = policy[o]
        BY DEF Writing
      <3>4. SavedOK(q) => SavedOK(q)'
        BY <3>1, <3>3, SameRows DEF SavedOK, IsStaged
      <3>5. QED
        BY <2>1, <3>1, <3>2, <3>4 DEF RequestOK, Saving, Writing, HasLeafOf, IsChained
    <2>4. QED
      BY <2>2, <2>3
  <1>3. QED
    BY <1>1, <1>2 DEF IInv

\* No chain is broken while every file stays there, or still to come.
LEMMA StillToCome ==
  ASSUME ChainsAreComplete, files' = files,
         \A q \in Request : \A j \in DOMAIN todo[q] :
           \E k \in DOMAIN todo'[q] : todo'[q][k] = todo[q][j]
  PROVE  ChainsAreComplete'
  <1> SUFFICES ASSUME NEW name \in FileName, files'[name] # NoFile, NEW s \in Scope,
                      IsAbove(s, files'[name].scope)
               PROVE  LET ancestor == files'[name].resource \o s
                      IN  \/ files'[ancestor] # NoFile
                          \/ \E q \in Request : \E j \in DOMAIN todo'[q] :
                               NameOf(todo'[q][j]) = ancestor
    BY DEF ChainsAreComplete, IsAbove, NameOf, Exists
  <1> DEFINE ancestor == files[name].resource \o s
  <1>1. \/ Exists(ancestor)
        \/ \E q \in Request : \E j \in DOMAIN todo[q] : NameOf(todo[q][j]) = ancestor
    BY DEF ChainsAreComplete, Exists
  <1>2. QED
    BY <1>1 DEF Exists

\* A transaction ends without a commit.
LEMMA FailStep ==
  ASSUME IInv, NEW p \in Request, Fail(p)
  PROVE  IInv'
  <1>1. /\ phase' \in [Request -> Phase] /\ phase'[p] = "failed"
        /\ \A q \in Request \ {p} : phase'[q] = phase[q]
        /\ UNCHANGED <<rows, files, todo, policy>>
    BY DEF Fail, IInv, Phase
  <1>2. policy[p] \in Policy \cup {NoPolicy}
    BY DEF IInv, RequestOK
  <1>3. QED
    BY <1>1, <1>2, QuietStep DEF IInv

\* A publish or a rollback: the next version of the scope.
LEMMA BuildsStep ==
  ASSUME IInv, NEW p \in Request, NEW s \in Scope, NEW rule \in Rule, Builds(p, s, rule)
  PROVE  IInv'
  <1> DEFINE line == <<TenantOf[p], s>>
             new == [tenant |-> TenantOf[p], scope |-> s, rule |-> rule,
                     version |-> NextVersion(line), status |-> "staged"]
  <1>1. /\ phase[p] = "idle" /\ phase' \in [Request -> Phase] /\ phase'[p] = "saving"
        /\ policy' = [q \in Request |-> policy'[q]] /\ policy'[p] = new
        /\ \A q \in Request \ {p} : phase'[q] = phase[q] /\ policy'[q] = policy[q]
        /\ UNCHANGED <<rows, files, todo>>
    BY DEF Builds, IInv, Phase
  <1>2. LatestVersion(line) \in 0 .. MaxVersion /\ FollowsRows(line, NextVersion(line))
    BY LatestIsGreatest DEF IInv
  <1>3. NextVersion(line) \in 1 .. MaxVersion
    BY <1>2, PolicyPublishAssumption DEF Builds, NextVersion
  <1>4. new \in Policy
    BY <1>3, PolicyPublishAssumption DEF Policy
  <1>5. PolicyOK(p)'
    <2>1. policy'[p].status = "staged" /\ LineOf(policy'[p]) = line
          /\ policy'[p].version = NextVersion(line)
      BY <1>1 DEF LineOf
    <2>2. FollowsRows(LineOf(policy'[p]), policy'[p].version)
      BY <1>2, <2>1
    <2>3. QED
      BY <1>1, <1>4, <2>1, <2>2 DEF PolicyOK, IsStaged, FollowsRows, HasRow, LineOf
  <1>6. QED
    BY <1>1, <1>4, <1>5, QuietStep

\* An activation of a version that was read, or its refusal.
LEMMA ActivateStep ==
  ASSUME IInv, NEW p \in Request, NEW loaded \in Visible(p), NEW ifMatch, Activate(p, loaded, ifMatch)
  PROVE  IInv'
  <1>1. CASE MayActivate(loaded, ifMatch)
    <2>1. /\ phase[p] = "idle" /\ phase' \in [Request -> Phase] /\ phase'[p] = "saving"
          /\ policy' = [q \in Request |-> policy'[q]] /\ policy'[p] = Activated(loaded)
          /\ \A q \in Request \ {p} : phase'[q] = phase[q] /\ policy'[q] = policy[q]
          /\ UNCHANGED <<rows, files, todo>>
      BY <1>1 DEF Activate, IInv, Phase
    <2>2. loaded \in rows /\ loaded \in Policy
      BY DEF IInv, RowsOK, Visible
    <2>3. /\ Activated(loaded) \in Policy
          /\ LineOf(Activated(loaded)) = LineOf(loaded) /\ Activated(loaded).version = loaded.version
          /\ Activated(loaded).rule = loaded.rule /\ Activated(loaded).status = "active"
      BY <2>2 DEF Activated, Policy, LineOf
    <2>4. PolicyOK(p)'
      BY <2>1, <2>2, <2>3 DEF PolicyOK, IsStaged, SameVersion
    <2>5. QED
      BY <2>1, <2>3, <2>4, QuietStep
  <1>2. CASE ~ MayActivate(loaded, ifMatch)
    <2>1. Fail(p)
      BY <1>2 DEF Activate, Fail
    <2>2. QED
      BY <2>1, FailStep
  <1>3. QED
    BY <1>1, <1>2

\* An insert or update that nobody blocks; the files are still to be written.
LEMMA SaveStep ==
  ASSUME IInv, NEW p \in Request, Save(p)
  PROVE  IInv'
  <1> DEFINE saved == IF policy[p].status = "active" THEN StillStaged(policy[p])
                                                     ELSE ~ Taken(policy[p])
  <1>1. CASE saved /\ policy[p].rule # Malformed
    <2>1. /\ phase[p] = "saving" /\ ~ Blocked(p)
          /\ PolicyOK(p) /\ policy[p] \in Policy /\ todo[p] = << >>
      BY DEF Save, IInv, RequestOK, Saving, PolicyOK
    <2>2. /\ phase' = [phase EXCEPT ![p] = "writing"]
          /\ todo' = [todo EXCEPT ![p] = FilesOf(policy[p])]
          /\ UNCHANGED <<rows, files, policy>>
      BY <1>1, FailStep DEF Save, Fail
    <2>3. /\ FilesOf(policy[p]) \in Seq(Document)
          /\ IsChained(FilesOf(policy[p])) /\ HasLeafOf(policy[p], FilesOf(policy[p]))
      BY <1>1, <2>1, FilesOfPolicy
    <2>4. /\ phase' \in [Request -> Phase] /\ phase'[p] = "writing"
          /\ todo' \in [Request -> Seq(Document)] /\ todo'[p] = FilesOf(policy[p])
          /\ \A q \in Request \ {p} : phase'[q] = phase[q] /\ todo'[q] = todo[q]
      BY <2>2, <2>3 DEF IInv, Phase
    <2>5. ASSUME NEW q \in Request \ {p}, Writing(q)
          PROVE  ~ SameVersion(policy[p], policy[q]) /\ ~ SameVersion(policy[q], policy[p])
      <3>1. policy[q] \in Policy
        BY <2>5 DEF IInv, RequestOK, PolicyOK
      <3>2. policy[q] # NoPolicy
        BY <3>1, PolicyFields
      <3>3. QED
        BY <2>1, <2>5, <3>2 DEF Blocked, Holds, Writing, SameVersion
    <2>6. RowsOK' /\ FilesOK'
      <3>1. RowsOK'
        BY <2>2, SameRows DEF IInv, RowsOK
      <3>2. FilesOK'
        BY <2>2, SameRows DEF IInv, FilesOK, Exists
      <3>3. QED
        BY <3>1, <3>2
    <2>7. ChainsAreComplete'
      <3>1. \A q \in Request : \A j \in DOMAIN todo[q] :
              j \in DOMAIN todo'[q] /\ todo'[q][j] = todo[q][j]
        BY <2>1, <2>4
      <3>2. QED
        BY <2>2, <3>1, StillToCome DEF IInv
    <2>8. ASSUME NEW q \in Request
          PROVE  RequestOK(q)'
      <3>1. RequestOK(q)
        BY DEF IInv
      <3>2. policy'[q] = policy[q]
        BY <2>2
      <3>3. PolicyOK(q) => PolicyOK(q)'
        BY <2>2, SameRows DEF PolicyOK, IsStaged
      <3>4. CASE q = p
        <4>1. \A r \in rows : SameVersion(r, policy[p]) /\ ~ IsStaged(p) => r.status = "staged"
          <5> SUFFICES ASSUME NEW r \in rows, SameVersion(r, policy[p]), ~ IsStaged(p)
                       PROVE  r.status = "staged"
            OBVIOUS
          <5>1. policy[p].status = "active"
            BY <2>1, PolicyFields DEF IsStaged
          <5>2. PICK o \in rows : SameVersion(o, policy[p]) /\ o.status = "staged"
            BY <1>1, <5>1 DEF StillStaged
          <5>3. SameVersion(o, r)
            BY <5>2 DEF SameVersion
          <5>4. QED
            BY <5>2, <5>3 DEF IInv, RowsOK
        <4>2. IsStaged(p) => ~ HasRow(LineOf(policy[p]), policy[p].version)
          BY <1>1 DEF IsStaged, Taken, SameVersion, HasRow
        <4>3. \A o \in Request \ {p} : Writing(o)' => Writing(o)
          BY <2>4 DEF Writing
        <4>4. SavedOK(p)'
          BY <1>1, <2>2, <2>5, <4>1, <4>2, <4>3, SameRows DEF SavedOK, IsStaged
        <4>5. HasLeafOf(policy[p], todo[p])' /\ IsChained(todo[p])'
          BY <2>2, <2>3, <2>4
        <4>6. QED
          BY <2>1, <2>2, <2>4, <3>3, <3>4, <4>4, <4>5 DEF RequestOK, Saving, Writing
      <3>5. CASE q # p
        <4>1. \A o \in Request \ {q} :
                Writing(q) /\ Writing(o)' => ~ SameVersion(policy[q], policy[o]) \/ Writing(o)
          BY <2>4, <2>5, <3>5 DEF Writing
        <4>2. Writing(q) /\ SavedOK(q) => SavedOK(q)'
          BY <2>2, <4>1, SameRows DEF SavedOK, IsStaged
        <4>3. todo'[q] = todo[q] /\ phase'[q] = phase[q]
          BY <2>4, <3>5
        <4>4. QED
          BY <3>1, <3>2, <3>3, <4>2, <4>3 DEF RequestOK, Saving, Writing
      <3>6. QED
        BY <3>4, <3>5
    <2>9. QED
      BY <2>2, <2>4, <2>6, <2>7, <2>8 DEF IInv
  <1>2. CASE ~ (saved /\ policy[p].rule # Malformed)
    <2>1. Fail(p)
      BY <1>2 DEF Save
    <2>2. QED
      BY <2>1, FailStep
  <1>3. QED
    BY <1>1, <1>2

-----------------------------------------------------------------------------
(* A file is written *)

LEMMA RestOfFiles ==
  ASSUME NEW list \in Seq(Document), list # << >>
  PROVE  /\ Head(list) \in Document /\ Head(list) = list[1] /\ 1 \in DOMAIN list
         /\ Tail(list) \in Seq(Document)
         /\ \A j \in DOMAIN list : j > 1 => j - 1 \in DOMAIN Tail(list) /\ Tail(list)[j - 1] = list[j]
         /\ \A j \in DOMAIN Tail(list) : j + 1 \in DOMAIN list /\ Tail(list)[j] = list[j + 1]
         /\ IsChained(list) => IsChained(Tail(list))
         /\ \A new : HasLeafOf(new, list) => HasLeafOf(new, Tail(list))
  <1> DEFINE rest == Tail(list)
  <1>1. /\ Head(list) \in Document /\ Head(list) = list[1] /\ 1 \in DOMAIN list
        /\ rest \in Seq(Document) /\ DOMAIN rest \subseteq Nat \ {0} /\ DOMAIN list \subseteq Nat \ {0}
    OBVIOUS
  <1>2. \A j \in DOMAIN list : j > 1 => j - 1 \in DOMAIN rest /\ rest[j - 1] = list[j]
    OBVIOUS
  <1>3. \A j \in DOMAIN rest : j + 1 \in DOMAIN list /\ rest[j] = list[j + 1]
    OBVIOUS
  <1> HIDE DEF rest
  <1>4. ASSUME IsChained(list)
        PROVE  IsChained(rest)
    <2> SUFFICES ASSUME NEW i \in DOMAIN rest, NEW s \in Scope, IsAbove(s, rest[i].scope)
                 PROVE  \E j \in DOMAIN rest : j > i /\ NameOf(rest[j]) = rest[i].resource \o s
      BY DEF IsChained
    <2>1. i + 1 \in DOMAIN list /\ rest[i] = list[i + 1]
      BY <1>3
    <2>2. PICK j \in DOMAIN list : j > i + 1 /\ NameOf(list[j]) = list[i + 1].resource \o s
      BY <1>4, <2>1 DEF IsChained
    <2>3. j > 1 /\ j - 1 > i
      BY <1>1, <2>2
    <2>4. QED
      BY <1>2, <2>1, <2>2, <2>3
  <1>5. ASSUME NEW new, HasLeafOf(new, list)
        PROVE  HasLeafOf(new, rest)
    BY <1>3, <1>5 DEF HasLeafOf
  <1>6. QED
    BY <1>1, <1>2, <1>3, <1>4, <1>5 DEF rest

\* The next document of q is put into its file by the rename of p, which is q itself, or
\* a request after whose rename q fails.
LEMMA RenameStep ==
  ASSUME IInv, NEW p \in Request, NEW q \in Request, Writing(p), Writing(q),
         todo[p] # << >>, todo[q] # << >>, NameOf(Head(todo[p])) = NameOf(Head(todo[q])),
         files' = [files EXCEPT ![NameOf(Head(todo[q]))] = Head(todo[q])],
         todo' = [todo EXCEPT ![p] = Tail(todo[p])],
         phase' = [phase EXCEPT ![q] = "failed"] \/ phase' = phase,
         UNCHANGED <<rows, policy>>
  PROVE  IInv'
  <1> DEFINE file == Head(todo[q])
             rest == Tail(todo[p])
  <1>1. /\ todo[p] \in Seq(Document) /\ todo[q] \in Seq(Document)
        /\ IsChained(todo[p]) /\ IsChained(todo[q])
        /\ policy[q] \in Policy /\ PolicyOK(q) /\ HasLeafOf(policy[p], todo[p])
        /\ HasLeafOf(policy[q], todo[q])
    BY DEF IInv, RequestOK, PolicyOK
  <1>2. /\ file \in Document /\ file = todo[q][1] /\ 1 \in DOMAIN todo[q]
        /\ NameOf(todo[p][1]) = NameOf(file) /\ 1 \in DOMAIN todo[p]
        /\ rest \in Seq(Document) /\ IsChained(rest) /\ HasLeafOf(policy[p], rest)
        /\ \A j \in DOMAIN todo[p] : j > 1 => j - 1 \in DOMAIN rest /\ rest[j - 1] = todo[p][j]
    BY <1>1, RestOfFiles
  <1> HIDE DEF file, rest
  <1>3. /\ files' = [files EXCEPT ![NameOf(file)] = file]
        /\ todo' = [todo EXCEPT ![p] = rest]
    BY DEF file, rest
  <1>4. NameOf(file) \in FileName /\ file # NoFile
    BY <1>2, DocumentFields
  <1>5. /\ files' \in [FileName -> Document \cup {NoFile}] /\ files'[NameOf(file)] = file
        /\ \A name \in FileName : name # NameOf(file) => files'[name] = files[name]
        /\ todo' \in [Request -> Seq(Document)] /\ todo'[p] = rest
        /\ \A r \in Request \ {p} : todo'[r] = todo[r]
    BY <1>2, <1>3, <1>4 DEF IInv
  <1>6. phase' \in [Request -> Phase] /\ \A r \in Request : phase'[r] \in {phase[r], "failed"}
    BY DEF IInv, Phase
  <1>7. IsRule(file) => FollowsRows(LineOf(file), file.version)
    <2> SUFFICES ASSUME IsRule(file)
                 PROVE  FollowsRows(LineOf(policy[q]), policy[q].version)
      BY <1>1, <1>2 DEF HasLeafOf, SameVersion
    <2>1. CASE IsStaged(q)
      BY <1>1, <2>1 DEF PolicyOK
    <2>2. CASE ~ IsStaged(q)
      <3>1. PICK r \in rows : SameVersion(r, policy[q])
        BY <1>1, <2>2 DEF PolicyOK
      <3>2. FollowsRows(LineOf(r), r.version)
        BY DEF IInv, RowsOK
      <3>3. QED
        BY <3>1, <3>2 DEF SameVersion
    <2>3. QED
      BY <2>1, <2>2
  <1>8. RowsOK' /\ FilesOK'
    <2>1. RowsOK'
      BY SameRows DEF IInv, RowsOK
    <2>2. FilesOK'
      <3> SUFFICES ASSUME NEW name \in FileName, files'[name] # NoFile, IsRule(files'[name])
                   PROVE  FollowsRows(LineOf(files'[name]), files'[name].version)
        BY SameRows DEF FilesOK, Exists, IsRule, LineOf
      <3>1. CASE name = NameOf(file)
        BY <1>5, <1>7, <3>1
      <3>2. CASE name # NameOf(file)
        BY <1>5, <3>2 DEF IInv, FilesOK, Exists
      <3>3. QED
        BY <3>1, <3>2
    <2>3. QED
      BY <2>1, <2>2
  <1>9. ChainsAreComplete'
    <2> SUFFICES ASSUME NEW name \in FileName, files'[name] # NoFile, NEW s \in Scope,
                        IsAbove(s, files'[name].scope)
                 PROVE  LET ancestor == files'[name].resource \o s
                        IN  \/ files'[ancestor] # NoFile
                            \/ \E r \in Request : \E j \in DOMAIN todo'[r] :
                                 NameOf(todo'[r][j]) = ancestor
      BY DEF ChainsAreComplete, IsAbove, Exists, NameOf
    <2> DEFINE ancestor == files'[name].resource \o s
    <2>1. ancestor \in FileName
      <3>1. files'[name] \in Document
        BY <1>5
      <3>2. QED
        BY <3>1, DocumentFields, NamesOfScopes
    <2> HIDE DEF ancestor
    <2>2. ASSUME NEW r \in Request, NEW j \in DOMAIN todo[r], NameOf(todo[r][j]) = ancestor,
                 r # p \/ j > 1
          PROVE  \E k \in DOMAIN todo'[r] : NameOf(todo'[r][k]) = ancestor
      <3>1. CASE r # p
        BY <1>5, <2>2, <3>1
      <3>2. CASE r = p /\ j > 1
        BY <1>2, <1>5, <2>2, <3>2
      <3>3. QED
        BY <2>2, <3>1, <3>2
    <2>3. CASE name = NameOf(file)
      <3>1. files'[name] = todo[q][1]
        BY <1>2, <1>5, <2>3
      <3>2. PICK j \in DOMAIN todo[q] : j > 1 /\ NameOf(todo[q][j]) = ancestor
        <4>1. \A i \in DOMAIN todo[q] : IsAbove(s, todo[q][i].scope) =>
                \E j \in DOMAIN todo[q] : j > i /\ NameOf(todo[q][j]) = todo[q][i].resource \o s
          BY <1>1 DEF IsChained
        <4>2. 1 \in DOMAIN todo[q] /\ IsAbove(s, todo[q][1].scope)
          BY <1>2, <3>1
        <4>3. ancestor = todo[q][1].resource \o s
          BY <3>1 DEF ancestor
        <4>4. \E j \in DOMAIN todo[q] : j > 1 /\ NameOf(todo[q][j]) = todo[q][1].resource \o s
          BY <4>1, <4>2
        <4>5. QED
          BY <4>3, <4>4
      <3>3. QED
        BY <2>2, <3>2 DEF ancestor
    <2>4. CASE name # NameOf(file)
      <3>1. files'[name] = files[name] /\ Exists(name)
        BY <1>5, <2>4 DEF Exists
      <3>2. CASE Exists(ancestor)
        <4>1. files'[ancestor] # NoFile
          BY <1>4, <1>5, <2>1, <3>2 DEF Exists
        <4>2. QED
          BY <4>1 DEF ancestor
      <3>3. CASE ~ Exists(ancestor)
        <4>1. PICK r \in Request : \E j \in DOMAIN todo[r] : NameOf(todo[r][j]) = ancestor
          BY <3>1, <3>3 DEF IInv, ChainsAreComplete, ancestor
        <4>2. PICK j \in DOMAIN todo[r] : NameOf(todo[r][j]) = ancestor
          BY <4>1
        <4>3. CASE r # p \/ j > 1
          BY <2>2, <4>2, <4>3 DEF ancestor
        <4>4. CASE r = p /\ ~ (j > 1)
          <5>1. j = 1
            BY <1>1, <4>4
          <5>2. ancestor = NameOf(file)
            BY <1>2, <4>2, <4>4, <5>1
          <5>3. files'[ancestor] # NoFile
            BY <1>4, <1>5, <5>2
          <5>4. QED
            BY <5>3 DEF ancestor
        <4>5. QED
          BY <4>3, <4>4
      <3>4. QED
        BY <3>2, <3>3
    <2>5. QED
      BY <2>3, <2>4
  <1>10. ASSUME NEW r \in Request
         PROVE  RequestOK(r)'
    <2>1. RequestOK(r) /\ policy'[r] = policy[r] /\ phase'[r] \in {phase[r], "failed"}
      BY <1>6 DEF IInv
    <2>2. PolicyOK(r) => PolicyOK(r)'
      BY SameRows DEF PolicyOK, IsStaged
    <2>3. SavedOK(r) => SavedOK(r)'
      <3>1. \A o \in Request : Writing(o)' => Writing(o)
        BY <1>6 DEF Writing
      <3>2. QED
        BY <3>1, SameRows DEF SavedOK, IsStaged
    <2>4. CASE r = p
      BY <1>1, <1>2, <1>5, <2>1, <2>2, <2>3, <2>4 DEF RequestOK, Saving, Writing
    <2>5. CASE r # p
      BY <1>5, <2>1, <2>2, <2>3, <2>5 DEF RequestOK, Saving, Writing
    <2>6. QED
      BY <2>4, <2>5
  <1>11. QED
    BY <1>5, <1>6, <1>8, <1>9, <1>10 DEF IInv

LEMMA WriteStep ==
  ASSUME IInv, NEW p \in Request, WriteFile(p)
  PROVE  IInv'
  <1>1. /\ Writing(p) /\ todo[p] # << >>
        /\ files' = [files EXCEPT ![NameOf(Head(todo[p]))] = Head(todo[p])]
        /\ todo' = [todo EXCEPT ![p] = Tail(todo[p])]
        /\ phase' = phase /\ UNCHANGED <<rows, policy>>
    BY DEF WriteFile, Writing
  <1>2. QED
    BY <1>1, RenameStep

LEMMA SharedStep ==
  ASSUME IInv, NEW p \in Request, NEW q \in Request, WriteShared(p, q)
  PROVE  IInv'
  <1>1. /\ Writing(p) /\ Writing(q) /\ todo[p] # << >> /\ todo[q] # << >>
        /\ NameOf(Head(todo[p])) = NameOf(Head(todo[q]))
        /\ files' = [files EXCEPT ![NameOf(Head(todo[q]))] = Head(todo[q])]
        /\ todo' = [todo EXCEPT ![p] = Tail(todo[p])]
        /\ phase' = [phase EXCEPT ![q] = "failed"] /\ UNCHANGED <<rows, policy>>
    BY DEF WriteShared, Writing
  <1>2. QED
    BY <1>1, RenameStep

-----------------------------------------------------------------------------
(* A transaction commits *)

\* A row, once the version of new is active.
Turned(new, r) == IF SameVersion(r, new) THEN Activated(r) ELSE r

\* A commit adds the row of a staged version, or activates the one there is.
LEMMA CommittedRows ==
  ASSUME IInv, NEW p \in Request, Commit(p)
  PROVE  /\ policy[p] \in Policy /\ Writing(p) /\ SavedOK(p) /\ PolicyOK(p)
         /\ IsStaged(p) => rows' = rows \cup {policy[p]}
         /\ ~ IsStaged(p) => rows' = {Turned(policy[p], r) : r \in rows}
         /\ \A r \in rows : /\ Turned(policy[p], r) \in Policy
                            /\ SameVersion(Turned(policy[p], r), r)
                            /\ Turned(policy[p], r).rule = r.rule
  <1>1. policy[p] \in Policy /\ Writing(p) /\ SavedOK(p) /\ PolicyOK(p)
    BY DEF IInv, RequestOK, PolicyOK, Commit, Writing
  <1>2. /\ IsStaged(p) => rows' = rows \cup {policy[p]}
        /\ ~ IsStaged(p) => rows' = {Turned(policy[p], r) : r \in rows}
    BY DEF Commit, Committed, Turned, IsStaged
  <1>3. ASSUME NEW r \in rows
        PROVE  /\ Turned(policy[p], r) \in Policy
               /\ SameVersion(Turned(policy[p], r), r)
               /\ Turned(policy[p], r).rule = r.rule
    <2>1. r \in Policy
      BY DEF IInv, RowsOK
    <2>2. QED
      BY <2>1 DEF Turned, Activated, SameVersion, LineOf, Policy
  <1>4. QED
    BY <1>1, <1>2, <1>3

LEMMA CommitStep ==
  ASSUME IInv, NEW p \in Request, Commit(p)
  PROVE  IInv'
  <1> DEFINE new == policy[p]
  <1>1. /\ new \in Policy /\ Writing(p) /\ SavedOK(p) /\ PolicyOK(p)
        /\ IsStaged(p) => rows' = rows \cup {new}
        /\ ~ IsStaged(p) => rows' = {Turned(new, r) : r \in rows}
        /\ \A r \in rows : /\ Turned(new, r) \in Policy
                           /\ SameVersion(Turned(new, r), r)
                           /\ Turned(new, r).rule = r.rule
    BY CommittedRows
  <1>2. /\ phase' \in [Request -> Phase] /\ phase'[p] \in {"answered", "failed"}
        /\ \A q \in Request \ {p} : phase'[q] = phase[q]
        /\ UNCHANGED <<files, policy, todo>>
    BY DEF Commit, IInv, Phase
  <1>3. \A s, v : HasRow(s, v) => HasRow(s, v)'
    BY <1>1 DEF HasRow, SameVersion
  <1>4. \A s, v : HasRow(s, v)' => HasRow(s, v) \/ (s = LineOf(new) /\ v = new.version)
    BY <1>1 DEF HasRow, SameVersion
  <1>5. \A s, v : FollowsRows(s, v) => FollowsRows(s, v)'
    BY <1>3 DEF FollowsRows
  <1>6. RowsOK'
    <2>1. rows' \subseteq Policy
      BY <1>1 DEF IInv, RowsOK
    <2>2. ASSUME NEW r \in rows', NEW q \in rows', SameVersion(r, q)
          PROVE  r = q
      <3>1. CASE IsStaged(p)
        <4>1. \A o \in rows : ~ SameVersion(o, new)
          BY <1>1, <3>1 DEF SavedOK, HasRow, SameVersion
        <4>2. QED
          BY <1>1, <2>2, <3>1, <4>1 DEF IInv, RowsOK, SameVersion
      <3>2. CASE ~ IsStaged(p)
        <4>1. PICK a \in rows : r = Turned(new, a)
          BY <1>1, <3>2
        <4>2. PICK b \in rows : q = Turned(new, b)
          BY <1>1, <3>2
        <4>3. SameVersion(a, b)
          BY <1>1, <2>2, <4>1, <4>2 DEF SameVersion
        <4>4. QED
          BY <4>1, <4>2, <4>3 DEF IInv, RowsOK
      <3>3. QED
        BY <3>1, <3>2
    <2>3. ASSUME NEW r \in rows'
          PROVE  FollowsRows(LineOf(r), r.version)'
      <3>1. FollowsRows(LineOf(r), r.version)
        <4>1. CASE IsStaged(p)
          BY <1>1, <4>1 DEF IInv, RowsOK, PolicyOK
        <4>2. CASE ~ IsStaged(p)
          BY <1>1, <4>2 DEF IInv, RowsOK, SameVersion
        <4>3. QED
          BY <4>1, <4>2
      <3>2. QED
        BY <1>5, <3>1
    <2>4. QED
      BY <2>1, <2>2, <2>3 DEF RowsOK
  <1>7. FilesOK'
    BY <1>2, <1>5 DEF IInv, FilesOK, Exists
  <1>8. ChainsAreComplete'
    BY <1>2, StillToCome DEF IInv
  <1>9. ASSUME NEW q \in Request
        PROVE  RequestOK(q)'
    <2>1. RequestOK(q) /\ policy'[q] = policy[q] /\ todo'[q] = todo[q]
      BY <1>2 DEF IInv
    <2>2. CASE q = p
      BY <1>2, <2>1, <2>2 DEF RequestOK, Saving, Writing
    <2>3. CASE q # p
      <3>1. PolicyOK(q) => PolicyOK(q)'
        <4> SUFFICES ASSUME PolicyOK(q), ~ IsStaged(q)
                     PROVE  \E r \in rows' : SameVersion(r, policy[q]) /\ r.rule = policy[q].rule
          BY <1>5, <2>1 DEF PolicyOK, IsStaged
        <4>1. PICK r \in rows : SameVersion(r, policy[q]) /\ r.rule = policy[q].rule
          BY DEF PolicyOK
        <4>2. QED
          BY <1>1, <4>1 DEF SameVersion
      <3>2. ASSUME Writing(q), SavedOK(q)
            PROVE  SavedOK(q)'
        <4>1. ~ SameVersion(policy[q], new)
          BY <1>1, <2>3, <3>2 DEF SavedOK
        <4>2. IsStaged(q) => ~ HasRow(LineOf(policy[q]), policy[q].version)'
          <5>1. \A t, w : t = LineOf(policy[q]) /\ w = policy[q].version =>
                  (HasRow(t, w)' => HasRow(t, w))
            BY <1>4, <4>1 DEF SameVersion
          <5>2. \A t, w : t = LineOf(policy[q]) /\ w = policy[q].version =>
                  (IsStaged(q) => ~ HasRow(t, w))
            BY <3>2 DEF SavedOK
          <5>3. QED
            BY <2>1, <5>1, <5>2 DEF HasRow
        <4>3. ASSUME NEW r \in rows', SameVersion(r, policy[q])
              PROVE  r \in rows
          BY <1>1, <4>1, <4>3 DEF Turned, SameVersion
        <4>4. \A o \in Request : Writing(o)' => Writing(o)
          BY <1>2 DEF Writing
        <4>5. QED
          BY <2>1, <1>2, <3>2, <4>2, <4>3, <4>4 DEF SavedOK, IsStaged
      <3>3. QED
        BY <1>2, <2>1, <2>3, <3>1, <3>2 DEF RequestOK, Saving, Writing
    <2>4. QED
      BY <2>2, <2>3
  <1>10. QED
    BY <1>2, <1>6, <1>7, <1>8, <1>9 DEF IInv

-----------------------------------------------------------------------------
(* The invariant is inductive *)

LEMMA InitIInv == Init => IInv
  <1> SUFFICES ASSUME Init
               PROVE  IInv
    OBVIOUS
  <1>1. RowsOK
    BY DEF Init, RowsOK
  <1>2. files \in [FileName -> Document \cup {NoFile}] /\ \A name \in FileName : ~ Exists(name)
    BY DEF Init, Exists
  <1>3. FilesOK /\ ChainsAreComplete
    BY <1>2 DEF FilesOK, ChainsAreComplete
  <1>4. /\ phase \in [Request -> Phase] /\ policy = [p \in Request |-> policy[p]]
        /\ todo \in [Request -> Seq(Document)]
        /\ \A p \in Request : phase[p] = "idle" /\ policy[p] = NoPolicy /\ todo[p] = << >>
    BY DEF Init, Phase
  <1>5. IsChained(<< >>)
    BY DEF IsChained
  <1>6. \A p \in Request : RequestOK(p)
    BY <1>4, <1>5 DEF RequestOK, Saving, Writing
  <1>7. QED
    BY <1>1, <1>2, <1>3, <1>4, <1>6 DEF IInv

LEMMA StutterIInv ==
  ASSUME IInv, UNCHANGED vars
  PROVE  IInv'
  <1>1. UNCHANGED <<rows, files, phase, policy, todo>>
    BY DEF vars
  <1>2. RowsOK'
    BY <1>1, SameRows DEF IInv, RowsOK
  <1>3. FilesOK'
    BY <1>1, SameRows DEF IInv, FilesOK, Exists
  <1>4. ChainsAreComplete'
    BY <1>1, StillToCome DEF IInv
  <1>5. ASSUME NEW q \in Request
        PROVE  RequestOK(q)'
    <2>1. PolicyOK(q) => PolicyOK(q)'
      BY <1>1, SameRows DEF PolicyOK, IsStaged
    <2>2. SavedOK(q) => SavedOK(q)'
      BY <1>1, SameRows DEF SavedOK, IsStaged, Writing
    <2>3. QED
      BY <1>1, <2>1, <2>2 DEF IInv, RequestOK, Saving, Writing
  <1>6. QED
    BY <1>1, <1>2, <1>3, <1>4, <1>5 DEF IInv

LEMMA StepIInv == IInv /\ [Next]_vars => IInv'
  <1> SUFFICES ASSUME IInv, [Next]_vars
               PROVE  IInv'
    OBVIOUS
  <1>1. ASSUME NEW p \in Request, PolicyController(p)
        PROVE  IInv'
    <2>1. CASE \E s \in Scope, rule \in Rule : Publish(p, s, rule)
      BY <2>1, BuildsStep DEF Publish
    <2>2. CASE \E current, target \in Visible(p) : Rollback(p, current, target)
      <3>1. PICK current \in rows, target \in rows : Builds(p, current.scope, target.rule)
        BY <2>2 DEF Rollback, Visible
      <3>2. current.scope \in Scope /\ target.rule \in Rule
        BY PolicyFields DEF IInv, RowsOK
      <3>3. QED
        BY <3>1, <3>2, BuildsStep
    <2>3. CASE \E loaded \in Visible(p), ifMatch \in 0 .. MaxVersion : Activate(p, loaded, ifMatch)
      BY <2>3, ActivateStep
    <2>4. QED
      BY <1>1, <2>1, <2>2, <2>3 DEF PolicyController
  <1>2. ASSUME NEW p \in Request, Proceed(p)
        PROVE  IInv'
    BY <1>2, SaveStep, WriteStep, CommitStep DEF Proceed
  <1>3. ASSUME NEW p \in Request, Abort(p)
        PROVE  IInv'
    BY <1>3, FailStep DEF Abort
  <1>4. ASSUME NEW p \in Request, NEW q \in Request, WriteShared(p, q)
        PROVE  IInv'
    BY <1>4, SharedStep
  <1>5. CASE UNCHANGED vars
    BY <1>5, StutterIInv
  <1>6. QED
    BY <1>1, <1>2, <1>3, <1>4, <1>5 DEF Next

\* What the table, the policy directory and the requests hold in every reachable state:
\* versions without gaps, the files each publish has still to write in the order of the
\* scopes, and a saved version that is nobody else's until its transaction ends.
THEOREM InductiveInvariant == Spec => []IInv
  BY InitIInv, StepIInv, PTL DEF Spec

\* Rows, files and requests keep their types.
THEOREM TypeCorrect == Spec => []TypeOK
  <1>1. IInv => TypeOK
    <2> SUFFICES ASSUME IInv
                 PROVE  TypeOK
      OBVIOUS
    <2>1. policy \in [Request -> Policy \cup {NoPolicy}]
      BY DEF IInv, RequestOK
    <2>2. \A p \in Request : \A i \in DOMAIN todo[p] : todo[p][i] \in Document
      BY DEF IInv
    <2>3. QED
      BY <2>1, <2>2 DEF IInv, RowsOK, TypeOK
  <1>2. QED
    BY <1>1, InductiveInvariant, PTL

\* The chain of scopes above a policy file is there, or somebody has still to write it.
THEOREM ChainsStayComplete == Spec => []ChainsAreComplete
  BY InductiveInvariant, PTL DEF IInv

-----------------------------------------------------------------------------
(* No publish goes back *)

LEMMA OnlyWritesChangeFiles ==
  ASSUME IInv, [Next]_vars, NEW name \in FileName, files'[name] # files[name]
  PROVE  \E p \in Request : IsWriting(p, files'[name])
  <1>1. PICK p \in Request : Writing(p) /\ todo[p] # << >>
                            /\ files' = [files EXCEPT ![NameOf(Head(todo[p]))] = Head(todo[p])]
    BY DEF Next, PolicyController, Publish, Rollback, Builds, Activate, Proceed, Save, Commit,
           Abort, Fail, vars, WriteFile, WriteShared, Writing
  <1>2. files'[name] = Head(todo[p])
    BY <1>1 DEF IInv
  <1>3. QED
    BY <1>1, <1>2 DEF IsWriting, Writing

\* Only an activation puts a rule into a file where there is one that came later: a
\* staged version that is older than the one in the file would be in the table.
LEMMA WriteGoesForward ==
  ASSUME IInv, NEW p \in Request, NEW new, IsWriting(p, new), IsStaged(p), IsRule(new)
  PROVE  /\ \A r \in rows : LineOf(r) = LineOf(new) => r.version < new.version
         /\ \A name \in FileName :
              Exists(name) /\ IsRule(files[name]) /\ LineOf(files[name]) = LineOf(new)
                => files[name].version <= new.version
  <1>1. /\ todo[p] \in Seq(Document) /\ todo[p] # << >> /\ HasLeafOf(policy[p], todo[p])
        /\ policy[p] \in Policy /\ SavedOK(p) /\ new = Head(todo[p])
    BY DEF IsWriting, IInv, RequestOK, PolicyOK, Writing
  <1>2. new \in Document /\ new = todo[p][1] /\ 1 \in DOMAIN todo[p]
    BY <1>1, RestOfFiles
  <1>3. LineOf(new) = LineOf(policy[p]) /\ new.version = policy[p].version
    BY <1>1, <1>2 DEF HasLeafOf, SameVersion
  <1>4. new.version \in Nat \ {0}
    BY <1>2, DocumentFields
  <1>5. ~ HasRow(LineOf(new), new.version)
    BY <1>1, <1>3 DEF SavedOK
  <1>6. ASSUME NEW v \in Nat, FollowsRows(LineOf(new), v)
        PROVE  v <= new.version
    <2>1. ~ (new.version \in 1 .. v - 1)
      BY <1>5, <1>6 DEF FollowsRows
    <2>2. QED
      BY <1>4, <2>1
  <1>7. ASSUME NEW r \in rows, LineOf(r) = LineOf(new)
        PROVE  r.version < new.version
    <2>1. r.version \in Nat /\ FollowsRows(LineOf(new), r.version)
      BY <1>7, PolicyFields DEF IInv, RowsOK
    <2>2. r.version # new.version
      BY <1>5, <1>7 DEF HasRow
    <2>3. QED
      BY <1>4, <1>6, <2>1, <2>2
  <1>8. ASSUME NEW name \in FileName, Exists(name), IsRule(files[name]),
               LineOf(files[name]) = LineOf(new)
        PROVE  files[name].version <= new.version
    <2>1. files[name] \in Document
      BY <1>8 DEF IInv, Exists
    <2>2. files[name].version \in Nat
      BY <2>1, DocumentFields
    <2>3. FollowsRows(LineOf(new), files[name].version)
      BY <1>8 DEF IInv, FilesOK
    <2>4. QED
      BY <1>6, <2>2, <2>3
  <1>9. QED
    BY <1>7, <1>8

\* A rule that a publish or a rollback puts into a file is newer than every version the
\* table has of its tenant and scope, and no older than the rule of theirs it replaces.
THEOREM NeverGoesBack == Spec => PublishNeverGoesBack
  <1> DEFINE Forward ==
        \A name \in FileName :
          LET old == files[name]
              new == files'[name]
          IN  new # old /\ new.body # "stub" =>
                \/ /\ \A r \in rows : LineOf(r) = LineOf(new) => r.version < new.version
                   /\ Exists(name) /\ old.body # "stub" /\ LineOf(old) = LineOf(new)
                        => old.version <= new.version
                \/ \E p \in Request : IsWriting(p, new) /\ policy[p].status = "active"
  <1>1. ASSUME IInv, [Next]_vars
        PROVE  Forward
    <2> SUFFICES ASSUME NEW name \in FileName, files'[name] # files[name], IsRule(files'[name]),
                        NEW new, new = files'[name]
                 PROVE  \/ /\ \A r \in rows : LineOf(r) = LineOf(new) => r.version < new.version
                           /\ Exists(name) /\ IsRule(files[name])
                                /\ LineOf(files[name]) = LineOf(new)
                                => files[name].version <= new.version
                        \/ \E p \in Request : IsWriting(p, new) /\ policy[p].status = "active"
      BY DEF IsRule
    <2>1. PICK p \in Request : IsWriting(p, new)
      BY <1>1, OnlyWritesChangeFiles
    <2>2. CASE IsStaged(p)
      BY <1>1, <2>1, <2>2, WriteGoesForward DEF IsRule
    <2>3. CASE ~ IsStaged(p)
      <3>1. policy[p] \in Policy
        BY <1>1, <2>1 DEF IsWriting, IInv, RequestOK, PolicyOK, Writing
      <3>2. QED
        BY <2>1, <2>3, <3>1, PolicyFields DEF IsStaged
    <2>4. QED
      BY <2>2, <2>3
  <1>2. IInv /\ [Next]_vars => [Forward]_vars
    BY <1>1
  <1>3. QED
    BY <1>2, InductiveInvariant, PTL DEF Spec, PublishNeverGoesBack

-----------------------------------------------------------------------------
(* The table is the history its readers are promised *)

\* The mapping, of any table.
RowIn(table, s, v) == CHOOSE r \in table : LineOf(r) = s /\ r.version = v
Entry(r) == [rule |-> r.rule, status |-> r.status]
HistoryOf(table, s) == [v \in 1 .. LatestIn(table, s) |-> Entry(RowIn(table, s, v))]

LEMMA MappingOfTable ==
  /\ Versions = [s \in Line |-> HistoryOf(rows, s)]
  /\ Versions' = [s \in Line |-> HistoryOf(rows', s)]
  BY DEF Versions, VersionCount, LatestVersion, Row, HistoryOf, LatestIn, RowIn, Entry

\* A scope's history lists its rows, each at its version.
LEMMA HistoryListsRows ==
  ASSUME NEW table, IsTable(table), NEW s
  PROVE  /\ LatestIn(table, s) \in Nat
         /\ \A r \in table : LineOf(r) = s =>
              r.version \in 1 .. LatestIn(table, s) /\ RowIn(table, s, r.version) = r
         /\ \A v \in 1 .. LatestIn(table, s) : \E r \in table : LineOf(r) = s /\ r.version = v
  <1>1. LatestIn(table, s) \in Nat
    BY LatestInTable, PolicyPublishAssumption
  <1>2. ASSUME NEW r \in table, LineOf(r) = s
        PROVE  /\ r.version \in 1 .. LatestIn(table, s)
               /\ RowIn(table, s, r.version) = r
    <2>1. r.version \in Nat
      BY PolicyFields DEF IsTable
    <2>2. r.version \in 1 .. LatestIn(table, s)
      BY <1>2, <2>1, LatestInTable
    <2>3. RowIn(table, s, r.version) = r
      <3>1. \A q \in table : LineOf(q) = s /\ q.version = r.version => q = r
        BY <1>2 DEF IsTable, SameVersion
      <3>2. QED
        BY <1>2, <3>1 DEF RowIn
    <2>4. QED
      BY <2>2, <2>3
  <1>3. \A v \in 1 .. LatestIn(table, s) : \E r \in table : LineOf(r) = s /\ r.version = v
    BY <1>1, LatestInTable
  <1>4. QED
    BY <1>1, <1>2, <1>3

\* Tables with the same versions of a scope have the same latest one.
LEMMA SameLatest ==
  ASSUME NEW t, IsTable(t), NEW u, IsTable(u), NEW s,
         \A r \in t : LineOf(r) = s => \E q \in u : SameVersion(q, r),
         \A q \in u : LineOf(q) = s => \E r \in t : SameVersion(q, r)
  PROVE  LatestIn(t, s) = LatestIn(u, s)
  <1>1. LatestIn(t, s) \in Nat /\ LatestIn(u, s) \in Nat
    BY LatestInTable, PolicyPublishAssumption
  <1>2. \A v \in Nat : v \in 1 .. LatestIn(t, s) <=> v \in 1 .. LatestIn(u, s)
    BY LatestInTable DEF SameVersion
  <1>3. LatestIn(t, s) <= LatestIn(u, s) /\ LatestIn(u, s) <= LatestIn(t, s)
    BY <1>1, <1>2
  <1>4. QED
    BY <1>1, <1>3

LEMMA SameHistory ==
  ASSUME NEW t, IsTable(t), NEW u, IsTable(u), NEW s,
         {r \in t : LineOf(r) = s} = {r \in u : LineOf(r) = s}
  PROVE  HistoryOf(t, s) = HistoryOf(u, s)
  <1>1. \A r : (r \in t /\ LineOf(r) = s) <=> (r \in u /\ LineOf(r) = s)
    OBVIOUS
  <1>2. LatestIn(t, s) = LatestIn(u, s)
    <2>1. \A r \in t : LineOf(r) = s => \E q \in u : SameVersion(q, r)
      BY <1>1 DEF SameVersion
    <2>2. \A q \in u : LineOf(q) = s => \E r \in t : SameVersion(q, r)
      BY <1>1 DEF SameVersion
    <2>3. QED
      BY <2>1, <2>2, SameLatest
  <1>3. ASSUME NEW v \in 1 .. LatestIn(t, s)
        PROVE  RowIn(t, s, v) = RowIn(u, s, v)
    <2>1. PICK r \in t : LineOf(r) = s /\ r.version = v
      BY HistoryListsRows
    <2>2. RowIn(t, s, v) = r
      BY <2>1, HistoryListsRows
    <2>3. RowIn(u, s, v) = r
      BY <1>1, <2>1, HistoryListsRows
    <2>4. QED
      BY <2>2, <2>3
  <1>4. QED
    BY <1>2, <1>3 DEF HistoryOf

\* A row that is not there yet is the next version.
LEMMA AppendsVersion ==
  ASSUME NEW t, IsTable(t), NEW new \in Policy, NEW u, u = t \cup {new}, IsTable(u),
         \A r \in t : ~ SameVersion(r, new)
  PROVE  HistoryOf(u, LineOf(new)) = Append(HistoryOf(t, LineOf(new)), Entry(new))
  <1> DEFINE s == LineOf(new)
             a == LatestIn(t, s)
             b == LatestIn(u, s)
             v == new.version
             before(w) == Entry(RowIn(t, s, w))
             after(w) == Entry(RowIn(u, s, w))
  <1>1. a \in Nat /\ b \in Nat
    BY LatestInTable, PolicyPublishAssumption
  <1>2. v \in Nat /\ v # 0
    BY PolicyFields, PolicyPublishAssumption
  <1>3. \A w \in Nat : (w \in 1 .. b) <=> (w \in 1 .. a \/ w = v)
    <2>1. \A w \in Nat : (w \in 1 .. b) <=> (\E r \in u : LineOf(r) = s /\ r.version = w)
      BY LatestInTable
    <2>2. \A w \in Nat : (w \in 1 .. a) <=> (\E r \in t : LineOf(r) = s /\ r.version = w)
      BY LatestInTable
    <2>3. QED
      BY <2>1, <2>2
  <1>4. ~ (v \in 1 .. a)
    BY <1>2, LatestInTable DEF SameVersion
  <1>5. after(v) = Entry(new)
    BY HistoryListsRows
  <1>6. ASSUME NEW w \in 1 .. a
        PROVE  after(w) = before(w)
    <2>1. PICK r \in t : LineOf(r) = s /\ r.version = w
      BY HistoryListsRows
    <2>2. RowIn(t, s, w) = r
      BY <2>1, HistoryListsRows
    <2>3. RowIn(u, s, w) = r
      BY <2>1, HistoryListsRows
    <2>4. QED
      BY <2>2, <2>3
  <1>7. /\ HistoryOf(t, s) = [w \in 1 .. a |-> before(w)]
        /\ HistoryOf(u, s) = [w \in 1 .. b |-> after(w)]
    BY DEF HistoryOf
  <1> HIDE DEF a, b, v, before, after
  <1>8. v = b /\ b = a + 1
    <2>1. v \in 1 .. b
      BY <1>2, <1>3
    <2>2. ~ (b \in 1 .. a)
      BY <1>1, <1>2, <1>4, <2>1
    <2>3. b = v
      BY <1>1, <1>3, <2>1, <2>2
    <2>4. CASE b = 1
      BY <1>1, <1>3, <1>4, <2>3, <2>4
    <2>5. CASE b # 1
      <3>1. b - 1 \in 1 .. b /\ b - 1 \in Nat /\ b - 1 # v
        BY <1>1, <2>1, <2>3, <2>5
      <3>2. b - 1 \in 1 .. a
        BY <1>3, <3>1
      <3>3. QED
        BY <1>1, <2>1, <2>2, <2>3, <3>2
    <2>6. QED
      BY <2>4, <2>5
  <1>9. [w \in 1 .. a + 1 |-> after(w)] = Append([w \in 1 .. a |-> before(w)], Entry(new))
    BY <1>1, <1>5, <1>6, <1>8
  <1>10. QED
    BY <1>7, <1>8, <1>9

\* An activation leaves the history as long, and its rules as they are.
LEMMA ActivatesVersion ==
  ASSUME NEW t, IsTable(t), NEW new, NEW old \in t, SameVersion(old, new),
         NEW u, u = {Turned(new, r) : r \in t}, IsTable(u)
  PROVE  HistoryOf(u, LineOf(new)) =
           [HistoryOf(t, LineOf(new)) EXCEPT ![new.version].status = "active"]
  <1> DEFINE s == LineOf(new)
             v == new.version
             a == LatestIn(t, s)
             before(w) == Entry(RowIn(t, s, w))
             after(w) == Entry(RowIn(u, s, w))
  <1>1. ASSUME NEW r \in t
        PROVE  /\ Turned(new, r) \in u
               /\ LineOf(Turned(new, r)) = LineOf(r) /\ Turned(new, r).version = r.version
               /\ Entry(Turned(new, r)) = IF SameVersion(r, new)
                                          THEN [Entry(r) EXCEPT !.status = "active"]
                                          ELSE Entry(r)
    <2>1. r \in Policy
      BY DEF IsTable
    <2>2. QED
      BY <2>1 DEF Turned, Activated, Entry, Policy, LineOf
  <1>2. LatestIn(u, s) = a
    <2>1. \A r \in t : LineOf(r) = s => \E q \in u : SameVersion(q, r)
      BY <1>1 DEF SameVersion
    <2>2. \A q \in u : LineOf(q) = s => \E r \in t : SameVersion(q, r)
      BY <1>1 DEF SameVersion
    <2>3. QED
      BY <2>1, <2>2, SameLatest
  <1>3. v \in 1 .. a
    BY HistoryListsRows DEF SameVersion
  <1>4. ASSUME NEW w \in 1 .. a
        PROVE  after(w) = IF w = v THEN [before(w) EXCEPT !.status = "active"] ELSE before(w)
    <2>1. PICK r \in t : LineOf(r) = s /\ r.version = w
      BY HistoryListsRows
    <2>2. RowIn(t, s, w) = r
      BY <2>1, HistoryListsRows
    <2>3. RowIn(u, s, w) = Turned(new, r)
      <3>1. Turned(new, r) \in u /\ LineOf(Turned(new, r)) = s /\ Turned(new, r).version = w
        BY <1>1, <2>1
      <3>2. QED
        BY <3>1, HistoryListsRows
    <2>4. SameVersion(r, new) <=> w = v
      BY <2>1 DEF SameVersion
    <2>5. QED
      BY <1>1, <2>2, <2>3, <2>4
  <1>5. /\ HistoryOf(t, s) = [w \in 1 .. a |-> before(w)]
        /\ HistoryOf(u, s) = [w \in 1 .. a |-> after(w)]
    BY <1>2 DEF HistoryOf
  <1> HIDE DEF a, v, before, after
  <1>6. [w \in 1 .. a |-> after(w)] = [[w \in 1 .. a |-> before(w)] EXCEPT ![v].status = "active"]
    BY <1>3, <1>4
  <1>7. QED
    BY <1>5, <1>6 DEF v

\* Only a commit changes the table.
LEMMA OnlyCommitChangesRows ==
  ASSUME [Next]_vars, rows' # rows
  PROVE  \E p \in Request : Commit(p)
  BY DEF Next, PolicyController, Publish, Rollback, Builds, Activate, Proceed, Save, WriteFile,
         WriteShared, Abort, Fail, vars

LEMMA CommitExtendsHistory ==
  ASSUME IInv, IInv', NEW p \in Request, Commit(p)
  PROVE  \/ History!Publish(LineOf(policy[p]), policy[p].rule)
         \/ /\ policy[p].version \in DOMAIN Versions[LineOf(policy[p])]
            /\ History!Activate(LineOf(policy[p]), policy[p].version)
  <1> DEFINE new == policy[p]
             s == LineOf(new)
             v == new.version
  <1>1. /\ new \in Policy /\ SavedOK(p) /\ PolicyOK(p)
        /\ IsStaged(p) => rows' = rows \cup {new}
        /\ ~ IsStaged(p) => rows' = {Turned(new, r) : r \in rows}
        /\ \A r \in rows : SameVersion(Turned(new, r), r)
    BY CommittedRows
  <1>2. s \in Line /\ v \in Nat
    BY <1>1, PolicyFields
  <1>3. IsTable(rows) /\ IsTable(rows')
    BY RowsAreTable DEF IInv
  <1>4. ASSUME NEW t \in Line \ {s}
        PROVE  HistoryOf(rows', t) = HistoryOf(rows, t)
    <2>1. {r \in rows : LineOf(r) = t} = {r \in rows' : LineOf(r) = t}
      <3>1. CASE IsStaged(p)
        BY <1>1, <3>1
      <3>2. CASE ~ IsStaged(p)
        BY <1>1, <3>2 DEF Turned, SameVersion
      <3>3. QED
        BY <3>1, <3>2
    <2>2. QED
      BY <1>3, <2>1, SameHistory
  <1>5. CASE IsStaged(p)
    <2>1. \A r \in rows : ~ SameVersion(r, new)
      BY <1>1, <1>5 DEF SavedOK, HasRow, SameVersion
    <2>2. HistoryOf(rows', s) = Append(HistoryOf(rows, s), Entry(new))
      BY <1>1, <1>3, <1>5, <2>1, AppendsVersion
    <2>3. Entry(new) = [rule |-> new.rule, status |-> "staged"]
      BY <1>5 DEF Entry, IsStaged
    <2>4. Versions' = [Versions EXCEPT ![s] = Append(@, Entry(new))]
      BY <1>2, <1>4, <2>2, MappingOfTable
    <2>5. QED
      BY <2>3, <2>4 DEF History!Publish
  <1>6. CASE ~ IsStaged(p)
    <2>1. PICK old \in rows : SameVersion(old, new)
      BY <1>1, <1>6 DEF PolicyOK
    <2>2. HistoryOf(rows', s) = [HistoryOf(rows, s) EXCEPT ![v].status = "active"]
      BY <1>1, <1>3, <1>6, <2>1, ActivatesVersion
    <2>3. old.status = "staged"
      BY <1>1, <1>6, <2>1 DEF SavedOK
    <2>4. v \in DOMAIN HistoryOf(rows, s) /\ HistoryOf(rows, s)[v] = Entry(old)
      <3>1. LineOf(old) = s /\ old.version = v
        BY <2>1 DEF SameVersion
      <3>2. v \in 1 .. LatestIn(rows, s) /\ RowIn(rows, s, v) = old
        BY <1>3, <3>1, HistoryListsRows
      <3>3. QED
        BY <3>2 DEF HistoryOf
    <2>5. Versions[s] = HistoryOf(rows, s)
      BY <1>2, MappingOfTable
    <2>6. Versions' = [Versions EXCEPT ![s][v].status = "active"]
      BY <1>2, <1>4, <2>2, MappingOfTable
    <2>7. Versions[s][v].status = "staged"
      BY <2>3, <2>4, <2>5 DEF Entry
    <2>8. v \in DOMAIN Versions[s]
      BY <2>4, <2>5
    <2>9. QED
      BY <2>6, <2>7, <2>8 DEF History!Activate
  <1>7. QED
    BY <1>5, <1>6

\* The table of policies is, per scope, a history that only grows at its end, of rules
\* that never change and versions that are activated once.
THEOREM TableIsHistory == Spec => ImplementsHistory
  <1>1. Init => History!Init
    <2> SUFFICES ASSUME Init
                 PROVE  Versions = [s \in Line |-> << >>]
      BY DEF History!Init
    <2>1. IsTable(rows) /\ rows = {}
      BY DEF Init, IsTable
    <2>2. ASSUME NEW s \in Line
          PROVE  HistoryOf(rows, s) = << >>
      <3>1. LatestIn(rows, s) = 0
        <4>1. LatestIn(rows, s) \in Nat
          BY <2>1, LatestInTable, PolicyPublishAssumption
        <4>2. ~ (LatestIn(rows, s) \in 1 .. LatestIn(rows, s))
          BY <2>1, <4>1, LatestInTable
        <4>3. QED
          BY <4>1, <4>2
      <3>2. QED
        BY <3>1 DEF HistoryOf
    <2>3. QED
      BY <2>2, MappingOfTable
  <1>2. IInv /\ IInv' /\ [Next]_vars => [History!Next]_(Versions)
    <2> SUFFICES ASSUME IInv, IInv', [Next]_vars
                 PROVE  [History!Next]_(Versions)
      OBVIOUS
    <2>1. CASE rows' = rows
      BY <2>1, MappingOfTable
    <2>2. CASE rows' # rows
      <3>1. PICK p \in Request : Commit(p)
        BY <2>2, OnlyCommitChangesRows
      <3>2. LineOf(policy[p]) \in Line /\ policy[p].rule \in Rule
        BY <3>1, CommittedRows, PolicyFields
      <3>3. QED
        BY <3>1, <3>2, CommitExtendsHistory DEF History!Next
    <2>3. QED
      BY <2>1, <2>2
  <1>3. QED
    BY <1>1, <1>2, InductiveInvariant, PTL DEF Spec, ImplementsHistory, History!Spec
=============================================================================
