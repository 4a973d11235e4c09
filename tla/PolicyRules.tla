------------------------------ MODULE PolicyRules ------------------------------
(***************************************************************************)
(* Policies as they are authored, compiled for the PDP and evaluated by it.  *)
(* A case is what a decision is asked about, attributes of a principal and   *)
(* of a resource; an expression is the set of cases it holds of.            *)
(***************************************************************************)
EXTENDS Naturals, Sequences

CONSTANTS
  Case,      \* [principalTenant, resourceTenant, ...]
  Anyone,    \* "*": every role, or every action
  NoRoles,   \* the role sent for a principal that has none
  NoFile

\* A policy body is a sequence of rules [actions, roles, effect, condition].  A condition
\* has the operands of its all or any, or one expression, or nothing; an operand that is
\* a condition itself counts as the set of cases it holds of.
Condition == [kind: {"all", "any", "expr", "empty"}, of: SUBSET SUBSET Case]

-----------------------------------------------------------------------------
(* Compilation *)

\* parseRuleBody takes an array of rules, parseRule none without actions or roles.
WellFormed(body) ==
  /\ body \in Seq({body[i] : i \in DOMAIN body})
  /\ \A i \in DOMAIN body : body[i].actions # {} /\ body[i].roles # {}

Match(c) ==
  CASE c.kind = "all" -> {case \in Case : \A e \in c.of : case \in e}
    [] c.kind \in {"any", "expr"} -> UNION c.of
    [] c.kind = "empty" -> Case

CompileRule(rule) ==
  [actions |-> rule.actions, roles |-> rule.roles, effect |-> rule.effect,
   match |-> Match(rule.condition)]

Compile(body) == [i \in DOMAIN body |-> CompileRule(body[i])]

TenantIsolationGuardrail ==
  [actions |-> {Anyone}, roles |-> {Anyone}, effect |-> "DENY",
   condition |-> [kind |-> "expr",
                  of |-> {{case \in Case : case.resourceTenant # case.principalTenant}}]]

AncestorScopes(scope) == {SubSeq(scope, 1, n) : n \in 1 .. Len(scope) - 1}

\* The file of the scope a policy is published at, and those of its ancestors.
Unguarded(body) == Compile(body)
Guarded(body) == Compile(<<TenantIsolationGuardrail>> \o body)
Stub == Compile(<<>>)

-----------------------------------------------------------------------------
(* Evaluation: what CerbosPdpClient.check sends, and what Cerbos makes of it *)

RolesSent(roles) == IF roles = {} THEN {NoRoles} ELSE roles

Applies(rule, roles, action, case) ==
  /\ case \in rule.match
  /\ rule.actions \cap {action, Anyone} # {}
  /\ rule.roles \cap (RolesSent(roles) \cup {Anyone}) # {}

\* Within one policy a denial overrides; a policy that says nothing defers.
Verdict(policy, roles, action, case) ==
  LET effects == {policy[i].effect : i \in
                    {j \in DOMAIN policy : Applies(policy[j], roles, action, case)}}
  IN  IF "DENY" \in effects THEN "DENY" ELSE IF effects # {} THEN "ALLOW" ELSE "NONE"

\* The policy shipped for all tenants, above every chain of scopes.
Base == Compile(<<TenantIsolationGuardrail>>)

\* The most specific policy of the chain that says something decides.  Denied is what
\* none speaks of, and a resource whose own scope has no policy.
Decision(files, scope, roles, action, case) ==
  LET policy(n) == IF n = 0 THEN Base ELSE files[SubSeq(scope, 1, n)]
      chain == {n \in 0 .. Len(scope) : policy(n) # NoFile}
      verdicts == {[depth |-> n, effect |-> Verdict(policy(n), roles, action, case)] : n \in chain}
      speaking == {v \in verdicts : v.effect # "NONE"}
  IN  IF files[scope] = NoFile \/ speaking = {} THEN "DENY"
      ELSE (CHOOSE v \in speaking : \A w \in speaking : w.depth <= v.depth).effect
==============================================================================
