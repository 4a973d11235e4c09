---------------------------- MODULE MCPolicyPublish ----------------------------
(* Small instances of PolicyPublish. *)
EXTENDS PolicyPublish, TLC

CONSTANTS p1, p2, p3, t1, t2

\* Two requests of one tenant, one of another.
MCTenantOf == (p1 :> t1) @@ (p2 :> t1) @@ (p3 :> t2)

\* A scope and one in it, which has its name.
MCScope == {<<"acme">>, <<"acme", "acme">>}
\* "expense" in acme.acme and "expense.acme" in acme are one file.
MCResource == {<<"expense">>, <<"expense", "acme">>}
==============================================================================
