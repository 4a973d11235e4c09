--------------------------------- MODULE Edge ---------------------------------
(***************************************************************************)
(* The API gateway in front of the identity service and of the services     *)
(* that trust its signed identity: it verifies the user's access token       *)
(* against the identity service's published key and forwards the call with    *)
(* an identity of its own making.  RateLimiter says which calls it refuses.  *)
(***************************************************************************)
EXTENDS IdentityService, Forwarding, FiniteSets

CONSTANTS
  Request,
  Call,             \* what clients send: [method, path, tenantId, fields], the fields but the token
  Skew,             \* JWT_CLOCK_TOLERANCE_SECONDS
  CacheTtl,         \* JWKS_CACHE_TTL_SECONDS
  UpstreamTimeout

ASSUME EdgeAssumption ==
  Skew \in Nat /\ CacheTtl \in Nat /\ UpstreamTimeout \in Nat

VARIABLES
  cache,     \* the verifier's keys and when they arrived
  inflight,  \* the fetch that requests wait for: when it was sent, and its answer
  req

gatewayVars == <<cache, inflight, req>>
vars == <<now, identityVars, gatewayVars>>

Never == MaxNow + 1
NoCache == [keys |-> {}, at |-> Never]
NoFetch == [keys |-> {}, sent |-> Never]
RouteOf == [call \in Call |-> ResolveRoute(call.path)]
Is(r, phase) == req[r].phase = phase

\* An answered call.  token: the one it was refused for.  Other answers are as no call.
Answered(token) == [phase |-> "done", token |-> token]
Ended == Answered(NoToken)

Init ==
  /\ now = 0
  /\ InitIdentity
  /\ cache = NoCache
  /\ inflight = NoFetch
  /\ req = [r \in Request |-> Ended]

-----------------------------------------------------------------------------
(* JwksTokenVerifier *)

\* cachedKeys: the keys, unless they are too old; however old they are.
KeysOfAnyAge == cache.keys
CachedKeys == IF now - cache.at > CacheTtl THEN {} ELSE cache.keys

AnyKey(keys, token) == keys # {}
HasKid(keys, token) == \E k \in keys : k.kid = token.key.kid

\* validateClaims; and the signature against the key of that kid.
IsExpired(token) == now > token.exp + Skew
Verifies(keys, token) == token.key \in keys /\ ~ IsExpired(token)

Unauthenticated(record) == Answered(record.token)

\* A call that may go on is sent to the upstream, with the identity minted for it.
Forwarded(record, identity) ==
  [phase |-> "forwarded", route |-> RouteOf[record.call], token |-> record.token,
   call |-> Sent(record.call),
   headers |-> BuildForwardedHeaders(record.call.fields, identity, now)]

\* What becomes of a call once its verifier has keys.
Authenticated(record, keys) ==
  LET token == pairs[record.token].access
  IN  IF Verifies(keys, token) THEN Forwarded(record, GatewayIdentity(token)) ELSE Unauthenticated(record)

StartOrJoinFetch ==
  inflight' = IF inflight = NoFetch THEN [keys |-> {}, sent |-> now] ELSE inflight

\* The limiter refuses a call, no route takes it, or it has no token and its route asks for one.
TurnAway(r) ==
  /\ Is(r, "done")
  /\ req' = [req EXCEPT ![r] = Ended]
  /\ UNCHANGED <<now, identityVars, cache, inflight>>

\* A call on a public route: a token it has is not looked at.
Arrive(r, call) ==
  /\ Is(r, "done") /\ RouteOf[call] # NoRoute /\ ~ RouteOf[call].requiresAuth
  /\ req' = [req EXCEPT ![r] = Forwarded([call |-> call, token |-> NoToken], NoIdentity)]
  /\ UNCHANGED <<now, identityVars, cache, inflight>>

\* A call whose token has to be verified, and that the limiter lets through.
ArriveWith(r, call, token) ==
  LET record == [phase |-> "fetching", call |-> call, token |-> token]
  IN  /\ Is(r, "done") /\ RouteOf[call].requiresAuth
      /\ UNCHANGED <<now, identityVars, cache>>
      /\ IF HasKid(CachedKeys, pairs[token].access)
         THEN req' = [req EXCEPT ![r] = Authenticated(record, CachedKeys)] /\ UNCHANGED inflight
         ELSE req' = [req EXCEPT ![r] = record] /\ StartOrJoinFetch

\* The identity service answers the fetch; its answer arrives, and all that wait go on.
JwksServed ==
  /\ inflight # NoFetch /\ inflight.keys = {}
  /\ inflight' = [inflight EXCEPT !.keys = Jwks]
  /\ UNCHANGED <<now, identityVars, cache, req>>

FetchAnswered ==
  /\ inflight # NoFetch /\ inflight.keys # {}
  /\ cache' = [keys |-> inflight.keys, at |-> now]
  /\ inflight' = NoFetch
  /\ req' = [r \in Request |->
               IF Is(r, "fetching") THEN Authenticated(req[r], inflight.keys) ELSE req[r]]
  /\ UNCHANGED <<now, identityVars>>

\* It fails or times out.
FetchFails ==
  /\ inflight # NoFetch
  /\ inflight' = NoFetch
  /\ req' = [r \in Request |-> IF Is(r, "fetching") THEN Unauthenticated(req[r]) ELSE req[r]]
  /\ UNCHANGED <<now, identityVars, cache>>

-----------------------------------------------------------------------------
(* The upstreams *)

\* Whom a service takes a forwarded call to act for, from what it is sent.
ActsAs(r) ==
  LET upstream == req[r].route.upstream
  IN  Context(upstream, req[r].call, Principal(upstream, req[r].headers, now))

\* Whether its identity is looked at.
IsIdentified(r) == HasMiddleware(req[r].route.upstream, req[r].call)

\* It handles the call, or answers 401 or 403.
Handle(r) ==
  /\ Is(r, "forwarded") /\ req[r].route.requiresAuth
  /\ req' = [req EXCEPT ![r] = Ended]
  /\ UNCHANGED <<now, identityVars, cache, inflight>>

\* The identity service grants tokens to whom has none.
HandleGrant(r) ==
  /\ Is(r, "forwarded") /\ ~ req[r].route.requiresAuth
  /\ Grant
  /\ req' = [req EXCEPT ![r] = Ended]
  /\ UNCHANGED <<now, cache, inflight>>

\* The connection fails, or the upstream takes too long.
ForwardFails(r) ==
  /\ Is(r, "forwarded")
  /\ req' = [req EXCEPT ![r] = Ended]
  /\ UNCHANGED <<now, identityVars, cache, inflight>>

RestartIdentity == Restart /\ UNCHANGED <<now, gatewayVars>>

\* AbortSignal.timeout: no fetch outlasts its time.
Tick ==
  /\ now < MaxNow
  /\ inflight # NoFetch => now - inflight.sent < UpstreamTimeout
  /\ now' = now + 1
  /\ UNCHANGED <<identityVars, gatewayVars>>

Step(r) == Handle(r) \/ HandleGrant(r) \/ ForwardFails(r)
Fetch == JwksServed \/ FetchAnswered \/ FetchFails

Next ==
  \/ \E r \in Request :
       \/ TurnAway(r)
       \/ \E call \in Call : Arrive(r, call)
       \/ \E call \in Call, token \in DOMAIN pairs : ArriveWith(r, call, token)
       \/ Step(r)
  \/ Fetch
  \/ RestartIdentity
  \/ Tick

Spec == Init /\ [][Next]_vars

-----------------------------------------------------------------------------
\* The keys that were the signing key at some time from t on.
PublishedSince(t) ==
  {SigningKey[n] : n \in {m \in 1 .. signing : m = signing \/ retiredAt[m] >= t}}

\* The user the token was issued to, in its tenant; a platform administrator reads any
\* tenant's decisions.
ActsFor(context, token, asked) ==
  /\ context.actorId = token.sub
  /\ context.isPlatformAdmin => token.admin
  /\ context.tenantId = token.tid \/ (token.admin /\ context.tenantId = asked)

\* The identity fields of a forwarded call tell of the token's user; without a token there
\* are none.
TellOf(headers, token) ==
  \A h \in ClientSpoofableHeaders \cap DOMAIN headers :
    CASE h = "x-internal-identity" -> headers[h] = GatewayIdentity(token)
      [] h = "x-internal-identity-signature" -> headers[h].claims = GatewayIdentity(token)
      [] h = "x-tenant-id" -> headers[h] = token.tid
      [] h = "x-actor-id" -> headers[h] = token.sub
      [] h = "x-platform-admin" -> token.admin
TellOfNobody(headers) == ClientSpoofableHeaders \cap DOMAIN headers = {}

\* What the gateway forwards speaks for nobody but the user of a token that was signed by a
\* key published no longer than a cache's life and a fetch before; and wherever a service
\* runs the identity middleware, it acts for that user, in the user's tenant, and, where it
\* verifies the gateway's signature, within the token's life and the tolerances of the two
\* hops: whatever the client's own header fields, query and dot segments say.  The two
\* surfaces without the middleware act in the tenant the client names.
AccessIsBounded ==
  [][\A r \in Request :
       LET token == pairs[req'[r].token].access
           issued == pairs[req[r].token].access
       IN  /\ ~ Is(r, "forwarded") /\ req'[r].phase = "forwarded" =>
                IF req'[r].route.requiresAuth
                THEN /\ token.key \in PublishedSince(now - CacheTtl - UpstreamTimeout)
                     /\ TellOf(req'[r].headers, token)
                ELSE TellOfNobody(req'[r].headers)
           /\ Is(r, "forwarded") /\ req[r].route.requiresAuth /\ req'[r] # req[r]
                /\ IsIdentified(r) /\ ActsAs(r) # Refused =>
                /\ ActsFor(ActsAs(r), issued, req[r].call.tenantId)
                /\ req[r].route.upstream \in Verifying =>
                     now <= issued.exp + Skew + InternalTtl + Tolerance]_vars

\* The gateway refuses a token that is still good only if it could not fetch the keys, if
\* the key changed after its fetch was sent, or if it changed under one kid while the old
\* one was cached.
IsGood(token) == token.key = SigningKey[signing] /\ ~ IsExpired(token)
RefusedForCause ==
  [][\A r \in Request :
       req'[r].phase = "done" /\ req'[r] # req[r] /\ req'[r].token # NoToken
         /\ IsGood(pairs[req'[r].token].access)
       => \/ FetchFails
          \/ Cardinality(PublishedSince(now - UpstreamTimeout)) > 1
          \/ \E key \in PublishedSince(now - CacheTtl - UpstreamTimeout) :
               key # SigningKey[signing] /\ key.kid = SigningKey[signing].kid]_vars

-----------------------------------------------------------------------------
(* Claims of comments *)

IsForwardedTo(r, upstream) == Is(r, "forwarded") /\ req[r].route.upstream = upstream

\* "Read-only decision log" (route-table.ts, of /v1/audit).
AuditRouteOnlyReads == \A r \in Request : IsForwardedTo(r, "audit") => req[r].call.method = "GET"

\* "unknown paths 404 at the edge rather than leaking to an arbitrary upstream"
\* (route-table.ts): what is served is what was routed.
OnlyKnownPathsAreServed ==
  \A r \in Request : Is(r, "forwarded") => ResolveRoute(req[r].call.path) = req[r].route
==============================================================================
