-------------------------------- MODULE MCEdge --------------------------------
(* Small instances of Edge. *)
EXTENDS Edge, TLC

CONSTANTS riya, dev, acme, globex, initech, k1, k2, pemA, pemB

\* Users of two tenants, one of them an administrator of the platform; there is a third tenant.
MCSeedUsers ==
  [u \in User |-> IF u = dev THEN [tenantId |-> globex, platformAdmin |-> TRUE] ELSE [tenantId |-> acme]]

\* A key, the next one under its kid, and one under a kid of its own.
MCSigningKey == <<[kid |-> k1, pem |-> pemA], [kid |-> k1, pem |-> pemB], [kid |-> k2, pem |-> pemA]>>

\* A privileged write, the audit service's listing and its ingest, a path whose dot segments
\* lead to a PIP endpoint, a grant, and a path that has no route.
MCCall ==
  {[method |-> "POST", path |-> <<"v1", "role-assignments">>, tenantId |-> AnyTenant,
    fields |-> [h \in {"x-platform-admin", "x-tenant-id"} |->
                  IF h = "x-tenant-id" THEN initech ELSE TRUE]],
   [method |-> "GET", path |-> <<"v1", "audit", "events", "">>, tenantId |-> initech,
    fields |-> [h \in {"x-internal-identity"} |-> "forged"]],
   [method |-> "POST", path |-> <<"v1", "audit", "events">>, tenantId |-> initech, fields |-> << >>],
   [method |-> "GET", path |-> <<"v1", "roles", "..", "principals", "u", "effective">>,
    tenantId |-> initech, fields |-> << >>],
   [method |-> "POST", path |-> <<"v1", "auth", "refresh">>, tenantId |-> AnyTenant,
    fields |-> [h \in {"x-actor-id"} |-> dev]],
   [method |-> "GET", path |-> <<"v1", "expensesX">>, tenantId |-> AnyTenant, fields |-> << >>]}

EdgeSymmetry == Permutations(Request)
==============================================================================
