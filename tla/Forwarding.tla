------------------------------ MODULE Forwarding ------------------------------
(***************************************************************************)
(* What the gateway sends to an upstream for a request, and the principal   *)
(* that the service's middleware takes from it.  Header fields are a        *)
(* function from names to values, a path is a sequence of segments.        *)
(***************************************************************************)
EXTENDS Integers, Sequences
Seqs == INSTANCE SequencesExt

CONSTANTS
  InternalTtl,   \* INTERNAL_TOKEN_TTL_SECONDS
  Tolerance,     \* internalTokenClockToleranceSeconds
  Verifying,     \* the services with the shared secret, internalTokenSecret
  AnyTenant      \* the tenant of a call that names none

ASSUME ForwardingAssumption == InternalTtl \in Nat /\ Tolerance \in Nat

NoRoute == [upstream |-> "none", requiresAuth |-> FALSE]
NoIdentity == [sub |-> "none"]
Refused == [error |-> "UnauthenticatedError"]

-----------------------------------------------------------------------------
(* The gateway *)

\* A trailing slash is an empty last segment.
NormalizePath(path) == IF Len(path) > 1 /\ Seqs!Last(path) = "" THEN Seqs!Front(path) ELSE path

SegmentMatch(path, prefix) == Seqs!IsPrefix(prefix, path)

AuthzAdminV1Collections ==
  {"tenants", "org-units", "roles", "permissions", "role-assignments", "policies"}

ResolveRoute(path) ==
  LET under(prefix) == SegmentMatch(NormalizePath(path), prefix)
      protected(upstream) == [upstream |-> upstream, requiresAuth |-> TRUE]
  IN  CASE under(<<"auth">>) \/ under(<<"v1", "auth">>) ->
             [upstream |-> "identity", requiresAuth |-> FALSE]
        [] under(<<"admin">>) -> protected("authz-admin")
        [] under(<<"v1", "expenses">>) -> protected("expense")
        [] under(<<"v1", "audit">>) -> protected("audit")
        [] \E c \in AuthzAdminV1Collections : under(<<"v1", c>>) -> protected("authz-admin")
        [] OTHER -> NoRoute

\* fetch parses the URL it is given, which takes the dot segments out of the path.
TakeSegment(kept, segment) ==
  CASE segment = "."  -> kept
    [] segment = ".." -> IF kept = << >> THEN kept ELSE Seqs!Front(kept)
    [] OTHER          -> Append(kept, segment)
WithoutDotSegments(path) == Seqs!FoldLeft(TakeSegment, << >>, path)

\* The call as the upstream gets it: for another path, perhaps, than it was routed by.
Sent(call) ==
  [method |-> call.method, path |-> NormalizePath(WithoutDotSegments(call.path)),
   tenantId |-> call.tenantId]

\* The verified identity of a token's claims: its caller acts for itself.
GatewayIdentity(claims) ==
  [sub |-> claims.sub, tid |-> claims.tid, sid |-> claims.sid, actor |-> claims.sub,
   admin |-> claims.admin]

\* mint: the claims, and the claims signed.
Mint(identity, time) ==
  [internalIdentity |-> identity,
   internalIdentitySignature |-> [claims |-> identity, iss |-> "api-gateway", exp |-> time + InternalTtl]]

ClientSpoofableHeaders ==
  {"x-internal-identity", "x-internal-identity-signature", "x-tenant-id", "x-actor-id", "x-platform-admin"}
HopByHopHeaders == {"connection", "host"}

\* What is kept of the client's fields.
Kept(client) == DOMAIN client \ (HopByHopHeaders \cup ClientSpoofableHeaders)

Injected(identity, minted) ==
  [h \in ClientSpoofableHeaders \ (IF identity.admin THEN {} ELSE {"x-platform-admin"}) |->
     CASE h = "x-internal-identity" -> minted.internalIdentity
       [] h = "x-internal-identity-signature" -> minted.internalIdentitySignature
       [] h = "x-tenant-id" -> identity.tid
       [] h = "x-actor-id" -> identity.actor
       [] h = "x-platform-admin" -> TRUE]

BuildForwardedHeaders(client, identity, time) ==
  LET injected == IF identity = NoIdentity THEN << >>
                  ELSE Injected(identity, Mint(identity, time))
  IN  [h \in Kept(client) \cup DOMAIN injected |->
         IF h \in DOMAIN injected THEN injected[h] ELSE client[h]]

-----------------------------------------------------------------------------
(* The services' IdentityContextMiddleware *)

\* assertHeaderMatchesSignedClaims
HeaderMatchesSignedClaims(headers, claims) ==
  "x-internal-identity" \in DOMAIN headers => headers["x-internal-identity"] = claims

\* verifySignedToken
VerifySignedToken(headers, time) ==
  IF "x-internal-identity-signature" \notin DOMAIN headers THEN Refused
  ELSE LET payload == headers["x-internal-identity-signature"]
       IN  IF /\ payload.iss = "api-gateway"
              /\ time <= payload.exp + Tolerance
              /\ HeaderMatchesSignedClaims(headers, payload.claims)
           THEN payload.claims ELSE Refused

\* decodePlaceholder: without a secret the plain header field is taken at its word.
DecodePlaceholder(headers) ==
  IF "x-internal-identity" \in DOMAIN headers THEN headers["x-internal-identity"] ELSE Refused

Principal(service, headers, time) ==
  IF service \in Verifying THEN VerifySignedToken(headers, time) ELSE DecodePlaceholder(headers)

-----------------------------------------------------------------------------
(* Whom the service then acts for *)

\* What row level security and the handlers see of the caller.
TenantContextStore(tenant, admin, actor) ==
  [tenantId |-> tenant, isPlatformAdmin |-> admin, actorId |-> actor]

\* TenantContextGuard, of authz-admin.
TenantContext(principal) ==
  IF principal = Refused THEN Refused
  ELSE TenantContextStore(principal.tid, principal.admin, principal.actor)

\* IdentityTenantContextGuard: the expense service knows no administrators.
IdentityTenantContext(principal) ==
  IF principal = Refused THEN Refused
  ELSE TenantContextStore(principal.tid, FALSE, principal.actor)

\* resolveReadTenant: the tenant whose decisions the audit service lists, and for whom.
ReadContext(principal, asked) ==
  IF principal = Refused \/ (~ principal.admin /\ asked \notin {AnyTenant, principal.tid}) THEN Refused
  ELSE TenantContextStore(IF principal.admin THEN asked ELSE principal.tid,
                          principal.admin, principal.actor)

\* PlatformAdminGuard
IsPlatformAdmin(context) == context # Refused /\ context.isPlatformAdmin
AdminOnly(context) == IF IsPlatformAdmin(context) THEN context ELSE Refused

\* The surfaces it guards: tenants, and writes to what is shared or privileged.
IsAdminSurface(call) ==
  LET under(collection) == SegmentMatch(call.path, <<"v1", collection>>)
  IN  under("tenants") \/ (call.method = "POST" /\ (under("permissions") \/ under("role-assignments")))

\* The surfaces that the services leave out of the middleware, for callers of their own that
\* have no identity: the PEPs' posts to the audit log, and the PIP endpoints.
IsIngest(upstream, call) ==
  upstream = "audit" /\ call.method = "POST" /\ call.path = <<"v1", "audit", "events">>
IsPip(upstream, call) ==
  upstream = "authz-admin" /\ SegmentMatch(call.path, <<"v1", "principals">>) /\ Len(call.path) > 2
HasMiddleware(upstream, call) == ~ IsIngest(upstream, call) /\ ~ IsPip(upstream, call)

\* RecordAuditEventRequest, PipTenantContextGuard: the tenant is the one the body or the query
\* names, and the caller is nobody.
ClientContext(call) ==
  IF call.tenantId = AnyTenant THEN Refused ELSE TenantContextStore(call.tenantId, FALSE, "none")

\* Each surface's guards; a path that no controller takes is answered 404 after them.  The audit
\* service's verification of its chain looks at no tenant's rows more than at another's, and
\* the health probes, which nothing guards, at none.
Context(upstream, call, principal) ==
  CASE ~ HasMiddleware(upstream, call) -> ClientContext(call)
    [] upstream = "audit" /\ HasMiddleware(upstream, call) -> ReadContext(principal, call.tenantId)
    [] upstream = "expense" -> IdentityTenantContext(principal)
    [] upstream = "authz-admin" /\ IsAdminSurface(call) -> AdminOnly(TenantContext(principal))
    [] OTHER -> TenantContext(principal)
==============================================================================
