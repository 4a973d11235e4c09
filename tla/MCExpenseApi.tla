----------------------------- MODULE MCExpenseApi -----------------------------
(* Small instances of ExpenseApi. *)
EXTENDS ExpenseApi, TLC

CONSTANTS acme, globex, riya, manager

Root == <<"acme">>
Finance == <<"acme", "finance">>
MCScope == {Root, Finance}
MCTenantOf == [u \in User |-> acme]
MCCase == [principalTenant: {acme, globex}, resourceTenant: {acme, globex}, amount: {"small", "large"}]

\* As seed.ts writes them: those of a tenant by one statement, so at one time; but the third
\* is older, and the fifth a little newer.
MCAttributes ==
  [e \in Expense |-> [tenant |-> IF e = 4 THEN globex ELSE acme, scope |-> Finance,
                      amount |-> IF e = 1 THEN "small" ELSE "large",
                      created |-> CASE e = 3 -> 0 [] e = 5 -> 4 [] OTHER -> 3]]

Rule(effect, actions, roles, c) ==
  [effect |-> effect, actions |-> actions, roles |-> roles, condition |-> c]
Small == {case \in Case : case.amount = "small"}
Always == [kind |-> "empty", of |-> {}]

\* Managers approve what is small; everyone reads.
MCBody ==
  {<<Rule("ALLOW", {"approve"}, {manager}, [kind |-> "all", of |-> {Small}]),
     Rule("ALLOW", {Anyone}, {manager}, [kind |-> "any", of |-> {Small}])>>,
   <<Rule("ALLOW", {"read"}, {Anyone}, Always),
     Rule("DENY", {Anyone}, {manager}, [kind |-> "expr", of |-> {Case \ Small}])>>}
==============================================================================
