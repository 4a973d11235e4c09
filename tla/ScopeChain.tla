------------------------------ MODULE ScopeChain ------------------------------
(***************************************************************************)
(* The effective roles and the department of a principal, computed from    *)
(* the grants on the path from the root to a scope: scope-chain.vo.ts and   *)
(* resolve-principal.use-case.ts.  A scope is a sequence of labels, a grant *)
(* a record with a role key and a scope.                                   *)
(***************************************************************************)
EXTENDS Integers, Sequences, FiniteSets

CONSTANT NoDepartment

\* forScope: the ancestors of a scope and itself, the root first; without itself.
ProperAncestors(scope) == [n \in 1 .. Len(scope) - 1 |-> SubSeq(scope, 1, n)]
Chain(scope) == [n \in 1 .. Len(scope) |-> SubSeq(scope, 1, n)]

\* depthOf, 0 where it is null.
DepthOf(chain, scope) ==
  IF \E n \in DOMAIN chain : chain[n] = scope
  THEN CHOOSE n \in DOMAIN chain : chain[n] = scope
  ELSE 0

\* bestDepthByRole after one more grant: a Map keeps the order of its first insertions.
Noted(best, grant, chain) ==
  LET depth == DepthOf(chain, grant.scope)
      isKnown == \E i \in DOMAIN best : best[i].key = grant.key
  IN  IF isKnown
      THEN [i \in DOMAIN best |->
              IF best[i].key = grant.key /\ depth > best[i].depth
              THEN [best[i] EXCEPT !.depth = depth] ELSE best[i]]
      ELSE Append(best, [key |-> grant.key, depth |-> depth])

\* bestDepthByRole after the loop over the grants.
Best(grants, chain) ==
  LET after[n \in 0 .. Len(grants)] ==
        IF n = 0 THEN << >> ELSE Noted(after[n - 1], grants[n], chain)
  IN  after[Len(grants)]

\* dedupeMostSpecificFirst: the sort is stable.
Before(best, i, j) ==
  \/ best[i].depth > best[j].depth
  \/ best[i].depth = best[j].depth /\ i < j
Place(best, i) == 1 + Cardinality({j \in DOMAIN best : Before(best, j, i)})
Sorted(best) ==
  [n \in DOMAIN best |-> best[CHOOSE i \in DOMAIN best : Place(best, i) = n].key]
EffectiveRoles(grants, chain) == Sorted(Best(grants, chain))

\* deriveDepartment: the label under the root of the deepest grant's scope.
Deeper(g, grant, chain) ==
  IF DepthOf(chain, grant.scope) > DepthOf(chain, g.scope) THEN grant ELSE g
Deepest(grants, chain) ==
  LET after[n \in 0 .. Len(grants)] ==
        IF n = 0 THEN grants[1] ELSE Deeper(after[n - 1], grants[n], chain)
  IN  after[Len(grants)]
Department(grants, chain) ==
  IF grants # << >> /\ Len(Deepest(grants, chain).scope) >= 2
  THEN Deepest(grants, chain).scope[2] ELSE NoDepartment
==============================================================================
