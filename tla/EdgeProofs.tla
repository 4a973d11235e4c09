------------------------------ MODULE EdgeProofs ------------------------------
(***************************************************************************)
(* Proofs about Edge, for any number of users, calls, keys and token pairs:  *)
(* a session's refresh tokens form one line, a service acts for a user only *)
(* on a token that says so and whose key was published of late, and a good   *)
(* token is refused only for a cause.  And about RateLimiter: what a client  *)
(* is admitted, for any clients, quota and window.                          *)
(***************************************************************************)
EXTENDS Edge, RateLimiter, FiniteSetTheorems, SequenceTheorems, TLAPS

-----------------------------------------------------------------------------
(* The inductive invariant *)

Key == {SigningKey[n] : n \in Nat \ {0}}
Tenant == {Account[user].tenant : user \in User}
AccessToken == [sub: User, tid: Tenant, sid: Nat, admin: BOOLEAN, exp: Nat, key: Key]
Pair == [access: AccessToken, from: Nat]

\* The keys so far, and when each was replaced.
KeysOK ==
  /\ now \in 0 .. MaxNow
  /\ signing \in Nat \ {0}
  /\ retiredAt \in Seq(Nat) /\ Len(retiredAt) = signing - 1
  /\ \A n \in 1 .. signing - 1 : retiredAt[n] <= now

\* A session has the number of its first pair.
PairsOK ==
  /\ pairs \in Seq(Pair)
  /\ \A n \in 1 .. Len(pairs) : pairs[n].access.sid \in 1 .. n

\* A token of the store is in it once, and is of the session its pair is of.
StoreOK ==
  /\ \A record \in store :
       /\ record.token \in 1 .. Len(pairs) /\ record.user \in User
       /\ record.session = pairs[record.token].access.sid
  /\ \A a, b \in store : a.token = b.token => a = b

\* How old the keys are that the verifier has, and those that its fetch will bring.
CacheOK ==
  /\ cache \in [keys: SUBSET Key, at: Nat]
  /\ cache.keys # {} => cache.at <= now /\ cache.keys \subseteq PublishedSince(cache.at - UpstreamTimeout)
FetchOK ==
  /\ inflight \in [keys: SUBSET Key, sent: Nat]
  /\ inflight # NoFetch =>
       /\ inflight.sent <= now /\ now - inflight.sent <= UpstreamTimeout
       /\ inflight.keys \subseteq PublishedSince(inflight.sent)

\* The header fields were minted for the user of the token, while it was good.
IsMinted(record, time) ==
  LET token == pairs[record.token].access
  IN  /\ time <= token.exp + Skew
      /\ \E fields : record.headers = BuildForwardedHeaders(fields, GatewayIdentity(token), time)

RequestOK(record) ==
  /\ record.phase \in {"done", "fetching", "forwarded"}
  /\ record.phase = "fetching" =>
       record.token \in 1 .. Len(pairs) /\ RouteOf[record.call].requiresAuth
  /\ record.phase = "forwarded" /\ record.route.requiresAuth =>
       record.token \in 1 .. Len(pairs) /\ \E time \in 0 .. now : IsMinted(record, time)

IInv ==
  /\ KeysOK /\ PairsOK /\ StoreOK /\ SessionsAreLinear
  /\ CacheOK /\ FetchOK
  /\ req = [r \in Request |-> req[r]]
  /\ \A r \in Request : RequestOK(req[r])


-----------------------------------------------------------------------------
(* Sessions *)

Sid(n) == pairs[n].access.sid

\* SessionsAreLinear, without its local definitions.
Linear ==
  /\ \A m, n \in 1 .. Len(pairs) :
       m < n /\ Sid(m) = Sid(n) /\ (\A l \in m + 1 .. n - 1 : Sid(l) # Sid(n)) => pairs[n].from = m
  /\ \A n \in 1 .. Len(pairs) : pairs[n].from = NoToken => Sid(n) = n
  /\ \A record \in store : \A n \in 1 .. Len(pairs) : Sid(n) = record.session => n <= record.token

LEMMA LinearSessions ==
  ASSUME PairsOK
  PROVE  SessionsAreLinear <=> Linear
  <1>1. DOMAIN pairs = 1 .. Len(pairs)
    BY DEF PairsOK
  <1>2. QED
    BY <1>1 DEF SessionsAreLinear, Linear, Sid

LEMMA PairFields ==
  ASSUME PairsOK, NEW n \in 1 .. Len(pairs)
  PROVE  /\ pairs[n] \in Pair /\ pairs[n].access \in AccessToken
         /\ pairs[n].access.exp \in Nat /\ pairs[n].access.sid \in 1 .. n
         /\ pairs[n].access.admin \in BOOLEAN
  <1>1. pairs[n] \in Pair /\ pairs[n].access.sid \in 1 .. n
    BY DEF PairsOK
  <1>2. pairs[n].access \in AccessToken
    BY <1>1 DEF Pair
  <1>3. pairs[n].access.exp \in Nat /\ pairs[n].access.admin \in BOOLEAN
    BY <1>2 DEF AccessToken
  <1>4. QED
    BY <1>1, <1>2, <1>3

LEMMA SignedToken ==
  ASSUME KeysOK, NEW user \in User, NEW session \in Nat
  PROVE  /\ SignAccessToken(user, session) \in AccessToken
         /\ SignAccessToken(user, session).sid = session
  <1>1. Account[user].tenant \in Tenant
    BY DEF Tenant
  <1>2. Account[user].admin \in BOOLEAN
    BY DEF Account, ToSeedUser
  <1>3. SigningKey[signing] \in Key
    BY DEF Key, KeysOK
  <1>4. now + AccessTtl \in Nat
    BY IdentityServiceAssumption DEF KeysOK
  <1>5. QED
    BY <1>1, <1>2, <1>3, <1>4 DEF SignAccessToken, AccessToken

\* What a grant that issues a pair has: a new session, or one of a token it consumes.
GrantFrom(session, from, kept) ==
  \/ session = NoToken /\ from = NoToken /\ kept = store
  \/ \E record \in store :
       session = record.session /\ from = record.token /\ kept = store \ {record}

LEMMA IssueStep ==
  ASSUME KeysOK, PairsOK, StoreOK, SessionsAreLinear,
         NEW user \in User, NEW session, NEW from, NEW kept,
         GrantFrom(session, from, kept), IssueFor(user, session, from, kept)
  PROVE  /\ PairsOK' /\ StoreOK' /\ SessionsAreLinear'
         /\ UNCHANGED <<signing, retiredAt>>
         /\ \A n \in 1 .. Len(pairs) : n \in 1 .. Len(pairs') /\ pairs'[n] = pairs[n]
  <1>0. PICK token, sid : token = Len(pairs) + 1 /\ sid = IF session = NoToken THEN token ELSE session
    OBVIOUS
  <1> DEFINE pair == [access |-> SignAccessToken(user, sid), from |-> from]
             new == [token |-> token, user |-> user, session |-> sid, expiresAt |-> now + RefreshTtl]
  <1>1. /\ pairs' = Append(pairs, pair) /\ store' = kept \cup {new}
        /\ UNCHANGED <<signing, retiredAt>>
    BY <1>0 DEF IssueFor
  <1>2. Len(pairs) \in Nat /\ token \in Nat \ {0}
    BY <1>0 DEF PairsOK
  <1>3. /\ kept \subseteq store
        /\ session \in Nat /\ (session # NoToken => session \in 1 .. Len(pairs)) /\ from \in 0 .. Len(pairs)
        /\ session = NoToken <=> from = NoToken
    <2>1. CASE session = NoToken /\ from = NoToken /\ kept = store
      BY <1>2, <2>1 DEF NoToken
    <2>2. ASSUME NEW record \in store, session = record.session, from = record.token,
                 kept = store \ {record}
          PROVE  <1>3
      <3>1. from \in 1 .. Len(pairs) /\ session = Sid(from)
        BY <2>2 DEF StoreOK, Sid
      <3>2. session \in 1 .. from
        BY <3>1, PairFields DEF Sid
      <3>3. QED
        BY <1>2, <2>2, <3>1, <3>2 DEF NoToken
    <2>3. QED
      BY <2>1, <2>2 DEF GrantFrom
  <1>4. sid \in 1 .. token
    BY <1>0, <1>2, <1>3
  <1>5. pair \in Pair /\ pair.access.sid = sid /\ pair.from = from
    BY <1>2, <1>3, <1>4, SignedToken DEF Pair
  <1>6. new.token = token /\ new.user = user /\ new.session = sid
    OBVIOUS
  <1>7. token = Len(pairs) + 1 /\ sid = IF session = NoToken THEN token ELSE session
    BY <1>0
  <1> HIDE DEF pair, new
  <1>8. /\ pairs' \in Seq(Pair) /\ Len(pairs') = token /\ pairs'[token] = pair
        /\ \A n \in 1 .. Len(pairs) : pairs'[n] = pairs[n]
    BY <1>1, <1>5, <1>7 DEF PairsOK
  <1>9. \A n \in 1 .. token : n \in 1 .. Len(pairs) \/ n = token
    BY <1>2, <1>7
  <1>10. PairsOK'
    BY <1>4, <1>5, <1>8, <1>9 DEF PairsOK
  <1>11. StoreOK'
    <2>1. ASSUME NEW record \in store'
          PROVE  /\ record.token \in 1 .. Len(pairs') /\ record.user \in User
                 /\ record.session = Sid(record.token)'
      <3>1. CASE record \in store
        BY <1>2, <1>7, <1>8, <3>1 DEF StoreOK, Sid
      <3>2. CASE record = new
        BY <1>2, <1>5, <1>6, <1>8, <3>2 DEF Sid
      <3>3. QED
        BY <1>1, <1>3, <3>1, <3>2
    <2>2. \A record \in store : record.token # token
      BY <1>2, <1>7 DEF StoreOK
    <2>3. \A a, b \in store' : a.token = b.token => a = b
      BY <1>1, <1>3, <1>6, <2>2 DEF StoreOK
    <2>4. QED
      BY <2>1, <2>3 DEF StoreOK, Sid
  <1>12. Linear
    BY LinearSessions
  <1>13. \A n \in 1 .. Len(pairs) : Sid(n)' = Sid(n) /\ pairs'[n].from = pairs[n].from
    BY <1>8 DEF Sid
  <1>14. Sid(token)' = sid /\ pairs'[token].from = from
    BY <1>5, <1>8 DEF Sid
  <1>15. Linear'
    <2>1. ASSUME NEW m \in 1 .. token, NEW n \in 1 .. token, m < n, Sid(m)' = Sid(n)',
                 \A l \in m + 1 .. n - 1 : Sid(l)' # Sid(n)'
          PROVE  pairs'[n].from = m
      <3>1. m \in 1 .. Len(pairs)
        BY <1>2, <1>7, <2>1
      <3>2. CASE n \in 1 .. Len(pairs)
        <4>1. \A l \in m + 1 .. n - 1 : l \in 1 .. Len(pairs)
          BY <1>2, <3>1, <3>2
        <4>2. \A l \in m + 1 .. n - 1 : Sid(l) # Sid(n)
          BY <1>13, <2>1, <3>2, <4>1
        <4>3. QED
          BY <1>12, <1>13, <2>1, <3>1, <3>2, <4>2 DEF Linear
      <3>3. CASE n = token
        <4>1. Sid(m) = sid /\ Sid(m) \in 1 .. m
          BY <1>13, <1>14, <2>1, <3>1, <3>3, PairFields DEF Sid
        <4>2. session # NoToken /\ sid = session
          BY <1>2, <1>7, <3>1, <4>1
        <4>3. PICK record \in store : session = record.session /\ from = record.token
          BY <1>3, <4>2 DEF GrantFrom
        <4>4. from \in 1 .. Len(pairs) /\ Sid(from) = session
          BY <4>3 DEF StoreOK, Sid
        <4>5. m <= from
          BY <1>12, <3>1, <4>1, <4>2, <4>3 DEF Linear
        <4>6. ~ from \in m + 1 .. n - 1
          BY <1>13, <1>14, <2>1, <3>3, <4>2, <4>4
        <4>7. QED
          BY <1>2, <1>7, <1>14, <3>1, <3>3, <4>4, <4>5, <4>6
      <3>4. QED
        BY <1>9, <3>2, <3>3
    <2>2. ASSUME NEW n \in 1 .. token, pairs'[n].from = NoToken
          PROVE  Sid(n)' = n
      BY <1>3, <1>7, <1>9, <1>12, <1>13, <1>14, <2>2 DEF Linear
    <2>3. ASSUME NEW record \in store', NEW n \in 1 .. token, Sid(n)' = record.session
          PROVE  n <= record.token
      <3>1. CASE record = new
        BY <1>2, <1>6, <3>1
      <3>2. CASE record # new
        <4>1. record \in kept /\ record \in store
          BY <1>1, <1>3, <3>2
        <4>2. CASE n \in 1 .. Len(pairs)
          BY <1>12, <1>13, <2>3, <4>1, <4>2 DEF Linear
        <4>3. CASE n = token
          <5>1. record.session = sid
            BY <1>14, <2>3, <4>3
          <5>2. record.token \in 1 .. Len(pairs) /\ Sid(record.token) = record.session
            BY <4>1 DEF StoreOK, Sid
          <5>3. record.session \in 1 .. record.token
            BY <5>2, PairFields DEF Sid
          <5>4. session # NoToken /\ sid = session
            BY <1>2, <1>7, <5>1, <5>2, <5>3
          <5>5. PICK spent \in store : session = spent.session /\ kept = store \ {spent}
            BY <1>3, <5>4 DEF GrantFrom
          <5>6. spent.token \in 1 .. Len(pairs) /\ Sid(spent.token) = session
            BY <5>5 DEF StoreOK, Sid
          <5>7. record.token <= spent.token /\ spent.token <= record.token
            BY <1>12, <4>1, <5>1, <5>2, <5>4, <5>5, <5>6 DEF Linear
          <5>8. record.token = spent.token
            BY <1>2, <5>2, <5>6, <5>7
          <5>9. QED
            BY <4>1, <5>5, <5>8 DEF StoreOK
        <4>4. QED
          BY <1>9, <4>2, <4>3
      <3>3. QED
        BY <3>1, <3>2
    <2>4. QED
      BY <1>8, <2>1, <2>2, <2>3 DEF Linear
  <1>16. SessionsAreLinear'
    <2>1. DOMAIN pairs' = 1 .. Len(pairs')
      BY <1>8
    <2>2. QED
      BY <1>15, <2>1 DEF SessionsAreLinear, Linear, Sid
  <1>17. \A n \in 1 .. Len(pairs) : n \in 1 .. Len(pairs')
    BY <1>2, <1>7, <1>8
  <1>18. QED
    BY <1>1, <1>8, <1>10, <1>11, <1>16, <1>17


\* A pair once issued stays as it is.
PairsKept == \A n \in 1 .. Len(pairs) : n \in 1 .. Len(pairs') /\ pairs'[n] = pairs[n]

LEMMA ConsumeStep ==
  ASSUME PairsOK, StoreOK, SessionsAreLinear, store' \subseteq store, UNCHANGED pairs
  PROVE  PairsOK' /\ StoreOK' /\ SessionsAreLinear' /\ PairsKept
  <1>1. PairsOK' /\ PairsKept
    BY DEF PairsOK, PairsKept
  <1>2. StoreOK'
    BY DEF StoreOK
  <1>3. Linear'
    BY LinearSessions DEF Linear, Sid
  <1>4. SessionsAreLinear'
    <2>1. DOMAIN pairs' = 1 .. Len(pairs')
      BY DEF PairsOK
    <2>2. QED
      BY <1>3, <2>1 DEF SessionsAreLinear, Linear, Sid
  <1>5. QED
    BY <1>1, <1>2, <1>4

LEMMA IssueTokenStep ==
  ASSUME KeysOK, PairsOK, StoreOK, SessionsAreLinear, NEW user \in User, IssueToken(user)
  PROVE  /\ PairsOK' /\ StoreOK' /\ SessionsAreLinear' /\ PairsKept
         /\ UNCHANGED <<signing, retiredAt>>
  <1>1. PICK kept : kept = store
    OBVIOUS
  <1>2. IssueFor(user, NoToken, NoToken, kept) /\ GrantFrom(NoToken, NoToken, kept)
    BY <1>1 DEF IssueToken, GrantFrom
  <1>3. QED
    BY <1>2, IssueStep DEF PairsKept

LEMMA RefreshTokenStep ==
  ASSUME KeysOK, PairsOK, StoreOK, SessionsAreLinear, NEW token, RefreshToken(token)
  PROVE  /\ PairsOK' /\ StoreOK' /\ SessionsAreLinear' /\ PairsKept
         /\ UNCHANGED <<signing, retiredAt>>
  <1>1. CASE UNCHANGED identityVars
    BY <1>1, ConsumeStep DEF identityVars
  <1>2. ASSUME NEW record \in store, record.token = token,
               IF record.expiresAt <= now
               THEN store' = Consume(record) /\ UNCHANGED <<signing, pairs, retiredAt>>
               ELSE IssueFor(record.user, record.session, token, Consume(record))
        PROVE  /\ PairsOK' /\ StoreOK' /\ SessionsAreLinear' /\ PairsKept
               /\ UNCHANGED <<signing, retiredAt>>
    <2>1. CASE record.expiresAt <= now
      BY <1>2, <2>1, ConsumeStep DEF Consume
    <2>2. CASE ~ (record.expiresAt <= now)
      <3>1. PICK kept, user, session :
              kept = store \ {record} /\ user = record.user /\ session = record.session
        OBVIOUS
      <3>2. IssueFor(user, session, token, kept) /\ GrantFrom(session, token, kept) /\ user \in User
        BY <1>2, <2>2, <3>1 DEF Consume, GrantFrom, StoreOK
      <3>3. QED
        BY <3>2, IssueStep DEF PairsKept
    <2>3. QED
      BY <2>1, <2>2
  <1>3. QED
    BY <1>1, <1>2 DEF RefreshToken

\* Whatever a grant does, the tokens of a session stay in line.
LEMMA GrantStep ==
  ASSUME KeysOK, PairsOK, StoreOK, SessionsAreLinear, Grant
  PROVE  /\ PairsOK' /\ StoreOK' /\ SessionsAreLinear' /\ PairsKept
         /\ UNCHANGED <<signing, retiredAt>>
  BY IssueTokenStep, RefreshTokenStep DEF Grant

-----------------------------------------------------------------------------
(* Keys *)

LEMMA PublishedMonotone ==
  ASSUME KeysOK, NEW t \in Int, NEW u \in Int, t <= u
  PROVE  PublishedSince(u) \subseteq PublishedSince(t)
  <1>1. \A n \in 1 .. signing : n = signing \/ retiredAt[n] \in Nat
    BY DEF KeysOK
  <1>2. QED
    BY <1>1 DEF PublishedSince

LEMMA PublishedKeys ==
  ASSUME KeysOK, NEW t \in Int
  PROVE  /\ PublishedSince(t) \subseteq Key
         /\ SigningKey[signing] \in PublishedSince(t) /\ SigningKey[signing] \in Key
  BY DEF KeysOK, PublishedSince, Key

\* The identity service keeps its key, or goes over to the next.
KeyKept == UNCHANGED <<signing, retiredAt>>
KeyReplaced == signing' = signing + 1 /\ retiredAt' = Append(retiredAt, now)

LEMMA PublishedKept ==
  ASSUME KeysOK, KeyKept \/ KeyReplaced, NEW t \in Int, t <= now, NEW key \in PublishedSince(t)
  PROVE  key \in PublishedSince(t)'
  <1>1. CASE KeyKept
    BY <1>1 DEF KeyKept, PublishedSince
  <1>2. CASE KeyReplaced
    <2>1. /\ retiredAt'[signing] = now
          /\ \A n \in 1 .. signing - 1 : retiredAt'[n] = retiredAt[n]
      BY <1>2 DEF KeysOK, KeyReplaced
    <2>2. PICK n \in 1 .. signing : key = SigningKey[n] /\ (n = signing \/ retiredAt[n] >= t)
      BY DEF PublishedSince
    <2>3. n \in 1 .. signing' /\ retiredAt'[n] >= t
      <3>1. CASE n = signing
        BY <1>2, <2>1, <3>1 DEF KeysOK, KeyReplaced
      <3>2. CASE n # signing
        BY <1>2, <2>1, <2>2, <3>2 DEF KeysOK, KeyReplaced
      <3>3. QED
        BY <3>1, <3>2
    <2>4. QED
      BY <2>2, <2>3 DEF PublishedSince
  <1>3. QED
    BY <1>1, <1>2

\* What a verifier has, whatever becomes of the key and the time.
LEMMA KeysStayOfLate ==
  ASSUME KeysOK, CacheOK, FetchOK, KeyKept \/ KeyReplaced, now' \in Nat, now <= now',
         UNCHANGED <<cache, inflight>>, inflight # NoFetch => now' - inflight.sent <= UpstreamTimeout
  PROVE  CacheOK' /\ FetchOK'
  <1>1. now \in Nat /\ cache.at \in Nat /\ inflight.sent \in Nat
    BY DEF KeysOK, CacheOK, FetchOK
  <1>2. ASSUME cache.keys # {}
        PROVE  /\ cache.at <= now'
               /\ cache.keys \subseteq PublishedSince(cache.at - UpstreamTimeout)'
    <2>1. PICK t \in Int : t = cache.at - UpstreamTimeout
      BY <1>1, EdgeAssumption
    <2>2. t <= now /\ cache.at <= now'
      BY <1>1, <1>2, <2>1, EdgeAssumption DEF CacheOK
    <2>3. \A key \in cache.keys : key \in PublishedSince(t)'
      BY <1>2, <2>1, <2>2, PublishedKept DEF CacheOK
    <2>4. cache' = cache
      OBVIOUS
    <2>5. t = (cache.at - UpstreamTimeout)'
      BY <2>1, <2>4
    <2>6. QED
      BY <2>2, <2>3, <2>4, <2>5
  <1>3. ASSUME inflight # NoFetch
        PROVE  /\ inflight.sent <= now'
               /\ inflight.keys \subseteq PublishedSince(inflight.sent)'
    <2>1. PICK t \in Int : t = inflight.sent
      BY <1>1
    <2>2. t <= now /\ inflight.sent <= now'
      BY <1>1, <1>3, <2>1 DEF FetchOK
    <2>3. \A key \in inflight.keys : key \in PublishedSince(t)'
      BY <1>3, <2>1, <2>2, PublishedKept DEF FetchOK
    <2>4. inflight' = inflight
      OBVIOUS
    <2>5. t = (inflight.sent)'
      BY <2>1, <2>4
    <2>6. QED
      BY <2>2, <2>3, <2>4, <2>5
  <1>4. CacheOK'
    BY <1>2 DEF CacheOK
  <1>5. FetchOK'
    BY <1>3 DEF FetchOK, NoFetch, Never
  <1>6. QED
    BY <1>4, <1>5


-----------------------------------------------------------------------------
(* Steps *)

\* What stands of a request stands while pairs are only added and time goes on.
LEMMA RequestKept ==
  ASSUME IInv, PairsKept, now' \in Nat, now <= now', NEW record, RequestOK(record)
  PROVE  RequestOK(record)'
  <1>1. record.token \in 1 .. Len(pairs) =>
          record.token \in 1 .. Len(pairs') /\ pairs'[record.token] = pairs[record.token]
    BY DEF PairsKept
  <1>2. \A time \in 0 .. now : time \in 0 .. now'
    BY DEF IInv, KeysOK
  <1>3. QED
    BY <1>1, <1>2 DEF RequestOK, IsMinted

\* A step of the identity service or of the clock, which may end calls.
LEMMA IdentityStep ==
  ASSUME IInv, KeysOK', PairsOK', StoreOK', SessionsAreLinear', PairsKept,
         KeyKept \/ KeyReplaced, now <= now', UNCHANGED <<cache, inflight>>,
         inflight # NoFetch => now' - inflight.sent <= UpstreamTimeout,
         req' = [r \in Request |-> req'[r]],
         \A r \in Request : req'[r] = req[r] \/ req'[r] = Ended
  PROVE  IInv'
  <1>1. now' \in Nat
    BY DEF KeysOK
  <1>2. CacheOK' /\ FetchOK'
    BY <1>1, KeysStayOfLate DEF IInv
  <1>3. ASSUME NEW r \in Request
        PROVE  RequestOK(req[r])'
    <2>1. PICK record : record = req'[r]
      OBVIOUS
    <2>2. RequestOK(record)
      <3>1. RequestOK(Ended)
        BY DEF RequestOK, Ended, Answered
      <3>2. QED
        BY <2>1, <3>1 DEF IInv
    <2>3. RequestOK(record)'
      BY <1>1, <2>2, RequestKept
    <2>4. QED
      BY <2>1, <2>3
  <1>4. QED
    BY <1>2, <1>3 DEF IInv

\* A step of the gateway.
LEMMA GatewayStep ==
  ASSUME IInv, UNCHANGED <<now, identityVars>>, CacheOK', FetchOK',
         req' = [r \in Request |-> req'[r]], \A r \in Request : RequestOK(req'[r])
  PROVE  IInv'
  <1>1. KeysOK' /\ PairsOK' /\ StoreOK'
    BY DEF IInv, identityVars, KeysOK, PairsOK, StoreOK
  <1>2. SessionsAreLinear'
    BY DEF IInv, identityVars, SessionsAreLinear
  <1>3. ASSUME NEW r \in Request
        PROVE  RequestOK(req[r])'
    <2>1. PICK record : record = req'[r]
      OBVIOUS
    <2>2. RequestOK(record) /\ PairsKept /\ now' \in Nat /\ now <= now'
      BY <2>1 DEF IInv, identityVars, PairsKept, KeysOK
    <2>3. RequestOK(record)'
      BY <2>2, RequestKept
    <2>4. QED
      BY <2>1, <2>3
  <1>4. QED
    BY <1>1, <1>2, <1>3 DEF IInv

LEMMA GatewayKeeps ==
  ASSUME IInv, UNCHANGED <<now, identityVars, cache>>
  PROVE  CacheOK' /\ (UNCHANGED inflight => FetchOK')
  BY DEF IInv, identityVars, CacheOK, FetchOK, PublishedSince, NoFetch, Never

\* What becomes of a call that has keys to be verified with.
LEMMA AuthenticatedRequest ==
  ASSUME IInv, NEW record, record.token \in 1 .. Len(pairs), RouteOf[record.call].requiresAuth,
         NEW keys
  PROVE  RequestOK(Authenticated(record, keys))
  <1> DEFINE token == pairs[record.token].access
             sent == Forwarded(record, GatewayIdentity(token))
  <1>1. CASE ~ Verifies(keys, token)
    BY <1>1 DEF Authenticated, Unauthenticated, Answered, RequestOK
  <1>2. CASE Verifies(keys, token)
    <2>1. now \in 0 .. now /\ now <= token.exp + Skew
      BY <1>2, PairFields, EdgeAssumption DEF IInv, KeysOK, Verifies, IsExpired
    <2>2. /\ sent.phase = "forwarded" /\ sent.route = RouteOf[record.call]
          /\ sent.token = record.token
          /\ sent.headers = BuildForwardedHeaders(record.call.fields, GatewayIdentity(token), now)
      BY DEF Forwarded
    <2> HIDE DEF sent
    <2>3. IsMinted(sent, now)
      BY <2>1, <2>2 DEF IsMinted
    <2>4. RequestOK(sent)
      BY <2>1, <2>2, <2>3 DEF RequestOK
    <2>5. QED
      BY <1>2, <2>4 DEF Authenticated, sent
  <1>3. QED
    BY <1>1, <1>2

LEMMA AnsweredRequest ==
  ASSUME NEW token
  PROVE  RequestOK(Answered(token))
  BY DEF Answered, RequestOK

LEMMA ArriveStep ==
  ASSUME IInv, NEW r \in Request, NEW call \in Call, Arrive(r, call)
  PROVE  IInv'
  <1>1. UNCHANGED <<now, identityVars, cache, inflight>>
    BY DEF Arrive
  <1>2. PICK next : req' = [req EXCEPT ![r] = next] /\ RequestOK(next)
    <2>1. ~ RouteOf[call].requiresAuth
          /\ req' = [req EXCEPT ![r] = Forwarded([call |-> call, token |-> NoToken], NoIdentity)]
      BY DEF Arrive
    <2>2. RequestOK(Forwarded([call |-> call, token |-> NoToken], NoIdentity))
      BY <2>1 DEF Forwarded, RequestOK
    <2>3. QED
      BY <2>1, <2>2
  <1>3. req' = [s \in Request |-> req'[s]] /\ \A s \in Request : RequestOK(req'[s])
    BY <1>2 DEF IInv
  <1>4. QED
    BY <1>1, <1>3, GatewayKeeps, GatewayStep

LEMMA ArriveWithStep ==
  ASSUME IInv, NEW r \in Request, NEW call \in Call, NEW token \in DOMAIN pairs,
         ArriveWith(r, call, token)
  PROVE  IInv'
  <1> DEFINE record == [phase |-> "fetching", call |-> call, token |-> token]
  <1>1. /\ UNCHANGED <<now, identityVars, cache>> /\ RouteOf[call].requiresAuth
        /\ token \in 1 .. Len(pairs)
    BY DEF ArriveWith, IInv, PairsOK
  <1>2. record.phase = "fetching" /\ record.call = call /\ record.token = token
    OBVIOUS
  <1> HIDE DEF record
  <1>3. PICK next : req' = [req EXCEPT ![r] = next] /\ RequestOK(next)
    <2>1. RequestOK(record)
      BY <1>1, <1>2 DEF RequestOK
    <2>2. RequestOK(Authenticated(record, CachedKeys))
      <3>1. PICK keys : keys = CachedKeys
        OBVIOUS
      <3>2. QED
        BY <1>1, <1>2, <3>1, AuthenticatedRequest
    <2>3. req' = [req EXCEPT ![r] = Authenticated(record, CachedKeys)] \/ req' = [req EXCEPT ![r] = record]
      BY DEF ArriveWith, record
    <2>4. QED
      BY <2>1, <2>2, <2>3
  <1>4. req' = [s \in Request |-> req'[s]] /\ \A s \in Request : RequestOK(req'[s])
    BY <1>3 DEF IInv
  <1>5. FetchOK'
    <2>1. CASE UNCHANGED inflight
      BY <1>1, <2>1, GatewayKeeps
    <2>2. CASE inflight' = [keys |-> {}, sent |-> now]
      BY <1>1, <2>2, EdgeAssumption DEF IInv, KeysOK, FetchOK
    <2>3. QED
      BY <2>1, <2>2 DEF ArriveWith, StartOrJoinFetch
  <1>6. QED
    BY <1>1, <1>4, <1>5, GatewayKeeps, GatewayStep

LEMMA JwksServedStep ==
  ASSUME IInv, JwksServed
  PROVE  IInv'
  <1>1. /\ UNCHANGED <<now, identityVars, cache, req>> /\ inflight # NoFetch
        /\ inflight' = [inflight EXCEPT !.keys = {SigningKey[signing]}]
    BY DEF JwksServed, Jwks
  <1>2. inflight \in [keys: SUBSET Key, sent: Nat] /\ inflight.sent \in Int
    BY DEF IInv, FetchOK
  <1>3. SigningKey[signing] \in Key /\ SigningKey[signing] \in PublishedSince(inflight.sent)
    BY <1>2, PublishedKeys DEF IInv
  <1>4. /\ inflight'.keys = {SigningKey[signing]} /\ inflight'.sent = inflight.sent
        /\ inflight' \in [keys: SUBSET Key, sent: Nat]
    BY <1>1, <1>2, <1>3
  <1>5. PublishedSince(inflight.sent)' = PublishedSince(inflight.sent)
    BY <1>1, <1>4 DEF identityVars, PublishedSince
  <1>6. FetchOK'
    BY <1>1, <1>3, <1>4, <1>5 DEF IInv, FetchOK
  <1>7. req' = [s \in Request |-> req'[s]] /\ \A s \in Request : RequestOK(req'[s])
    BY <1>1 DEF IInv
  <1>8. QED
    BY <1>1, <1>6, <1>7, GatewayKeeps, GatewayStep

\* Calls that wait go on, each with what was found of its own token.
LEMMA WaitingGoOn ==
  ASSUME IInv, NEW keys,
         req' = [r \in Request |-> IF Is(r, "fetching") THEN Authenticated(req[r], keys) ELSE req[r]]
  PROVE  req' = [s \in Request |-> req'[s]] /\ \A s \in Request : RequestOK(req'[s])
  <1>1. ASSUME NEW r \in Request
        PROVE  RequestOK(req'[r])
    <2>1. CASE Is(r, "fetching")
      <3>1. PICK record : record = req[r]
        OBVIOUS
      <3>2. record.token \in 1 .. Len(pairs) /\ RouteOf[record.call].requiresAuth
        BY <2>1, <3>1 DEF IInv, Is, RequestOK
      <3>3. RequestOK(Authenticated(record, keys))
        BY <3>2, AuthenticatedRequest
      <3>4. QED
        BY <2>1, <3>1, <3>3
    <2>2. CASE ~ Is(r, "fetching")
      BY <2>2 DEF IInv
    <2>3. QED
      BY <2>1, <2>2
  <1>2. QED
    BY <1>1

LEMMA NoFetchOK ==
  ASSUME inflight' = NoFetch
  PROVE  FetchOK'
  BY IdentityServiceAssumption DEF FetchOK, NoFetch, Never

LEMMA FetchAnsweredStep ==
  ASSUME IInv, FetchAnswered
  PROVE  IInv'
  <1>1. /\ UNCHANGED <<now, identityVars>> /\ inflight # NoFetch
        /\ cache' = [keys |-> inflight.keys, at |-> now] /\ inflight' = NoFetch
    BY DEF FetchAnswered
  <1>2. PICK keys : /\ keys = inflight.keys
                    /\ req' = [r \in Request |->
                         IF Is(r, "fetching") THEN Authenticated(req[r], keys) ELSE req[r]]
    BY DEF FetchAnswered
  <1>3. now \in Nat /\ inflight.sent \in Nat /\ inflight.keys \in SUBSET Key
    BY DEF IInv, KeysOK, FetchOK
  <1>4. inflight.keys \subseteq PublishedSince(now - UpstreamTimeout)
    <2>1. now - UpstreamTimeout <= inflight.sent
      BY <1>1, <1>3, EdgeAssumption DEF IInv, FetchOK
    <2>2. PublishedSince(inflight.sent) \subseteq PublishedSince(now - UpstreamTimeout)
      BY <1>3, <2>1, EdgeAssumption, PublishedMonotone DEF IInv
    <2>3. QED
      BY <1>1, <2>2 DEF IInv, FetchOK
  <1>5. CacheOK'
    <2>1. cache'.keys = inflight.keys /\ cache'.at = now
      BY <1>1
    <2>2. PublishedSince(now - UpstreamTimeout)' = PublishedSince(now - UpstreamTimeout)
      BY <1>1 DEF identityVars, PublishedSince
    <2>3. now' = now
      BY <1>1
    <2>4. cache' \in [keys: SUBSET Key, at: Nat]
      BY <1>1, <1>3
    <2>5. PublishedSince(cache.at - UpstreamTimeout)' = PublishedSince(now - UpstreamTimeout)
      BY <1>1, <2>1, <2>3 DEF identityVars, PublishedSince
    <2>6. QED
      BY <1>3, <1>4, <2>1, <2>3, <2>4, <2>5 DEF CacheOK
  <1>6. QED
    BY <1>1, <1>2, <1>5, NoFetchOK, WaitingGoOn, GatewayStep

LEMMA FetchFailsStep ==
  ASSUME IInv, FetchFails
  PROVE  IInv'
  <1>1. UNCHANGED <<now, identityVars, cache>> /\ inflight' = NoFetch
    BY DEF FetchFails
  <1>2. req' = [s \in Request |-> req'[s]] /\ \A s \in Request : RequestOK(req'[s])
    BY AnsweredRequest DEF FetchFails, Unauthenticated, IInv
  <1>3. QED
    BY <1>1, <1>2, NoFetchOK, GatewayKeeps, GatewayStep

\* A call is ended.
LEMMA EndStep ==
  ASSUME IInv, NEW r \in Request, req' = [req EXCEPT ![r] = Ended],
         UNCHANGED <<now, identityVars, cache, inflight>>
  PROVE  IInv'
  <1>1. req' = [s \in Request |-> req'[s]] /\ \A s \in Request : RequestOK(req'[s])
    BY AnsweredRequest DEF IInv, Ended
  <1>2. QED
    BY <1>1, GatewayKeeps, GatewayStep

LEMMA FetchIsTimely ==
  ASSUME IInv
  PROVE  inflight # NoFetch => now - inflight.sent <= UpstreamTimeout
  BY DEF IInv, FetchOK

LEMMA HandleGrantStep ==
  ASSUME IInv, NEW r \in Request, HandleGrant(r)
  PROVE  IInv'
  <1>1. /\ UNCHANGED <<now, cache, inflight>> /\ Grant
        /\ req' = [req EXCEPT ![r] = Ended]
    BY DEF HandleGrant
  <1>2. /\ PairsOK' /\ StoreOK' /\ SessionsAreLinear' /\ PairsKept
        /\ UNCHANGED <<signing, retiredAt>>
    BY <1>1, GrantStep DEF IInv
  <1>3. KeysOK' /\ now <= now'
    BY <1>1, <1>2 DEF IInv, KeysOK
  <1>4. /\ req' = [s \in Request |-> req'[s]]
        /\ \A s \in Request : req'[s] = req[s] \/ req'[s] = Ended
    BY <1>1 DEF IInv
  <1>5. inflight # NoFetch => now' - inflight.sent <= UpstreamTimeout
    BY <1>1, FetchIsTimely
  <1>6. QED
    BY <1>1, <1>2, <1>3, <1>4, <1>5, IdentityStep DEF KeyKept

LEMMA RestartStep ==
  ASSUME IInv, RestartIdentity
  PROVE  IInv'
  <1>1. UNCHANGED <<now, cache, inflight, req, pairs>> /\ store' = {} /\ (KeyKept \/ KeyReplaced)
    BY DEF RestartIdentity, Restart, gatewayVars, KeyKept, KeyReplaced
  <1>2. PairsOK' /\ StoreOK' /\ SessionsAreLinear' /\ PairsKept
    BY <1>1, ConsumeStep DEF IInv
  <1>3. KeysOK' /\ now <= now'
    <2>1. CASE KeyKept
      BY <1>1, <2>1 DEF IInv, KeysOK, KeyKept
    <2>2. CASE KeyReplaced
      <3>1. /\ retiredAt' \in Seq(Nat) /\ Len(retiredAt') = signing
            /\ retiredAt'[signing] = now
            /\ \A n \in 1 .. signing - 1 : retiredAt'[n] = retiredAt[n]
        BY <2>2 DEF IInv, KeysOK, KeyReplaced
      <3>2. signing' = signing + 1 /\ signing \in Nat \ {0} /\ now' = now /\ now \in 0 .. MaxNow
        BY <1>1, <2>2 DEF IInv, KeysOK, KeyReplaced
      <3>3. \A n \in 1 .. signing' - 1 : n = signing \/ n \in 1 .. signing - 1
        BY <3>2
      <3>4. \A n \in 1 .. signing' - 1 : retiredAt'[n] <= now'
        BY <3>1, <3>2, <3>3 DEF IInv, KeysOK
      <3>5. signing' \in Nat \ {0} /\ Len(retiredAt') = signing' - 1 /\ now <= now'
        BY <3>1, <3>2
      <3>6. QED
        BY <3>1, <3>2, <3>4, <3>5 DEF KeysOK
    <2>3. QED
      BY <1>1, <2>1, <2>2
  <1>4. /\ req' = [s \in Request |-> req'[s]]
        /\ \A s \in Request : req'[s] = req[s] \/ req'[s] = Ended
    BY <1>1 DEF IInv
  <1>5. inflight # NoFetch => now' - inflight.sent <= UpstreamTimeout
    BY <1>1, FetchIsTimely
  <1>6. QED
    BY <1>1, <1>2, <1>3, <1>4, <1>5, IdentityStep

LEMMA TickStep ==
  ASSUME IInv, Tick
  PROVE  IInv'
  <1>1. /\ now' = now + 1 /\ now < MaxNow
        /\ UNCHANGED <<identityVars, cache, inflight, req>>
        /\ inflight # NoFetch => now - inflight.sent < UpstreamTimeout
    BY DEF Tick, gatewayVars
  <1>2. now' \in 0 .. MaxNow /\ now <= now' /\ now \in Nat
    BY <1>1, IdentityServiceAssumption DEF IInv, KeysOK
  <1>3. KeysOK'
    BY <1>1, <1>2 DEF IInv, KeysOK, identityVars
  <1>4. PairsOK' /\ StoreOK' /\ SessionsAreLinear' /\ PairsKept
    BY <1>1, ConsumeStep DEF IInv, identityVars
  <1>5. inflight # NoFetch => now' - inflight.sent <= UpstreamTimeout
    <2>1. inflight.sent \in Nat
      BY DEF IInv, FetchOK
    <2>2. QED
      BY <1>1, <1>2, <2>1, EdgeAssumption
  <1>6. /\ req' = [s \in Request |-> req'[s]]
        /\ \A s \in Request : req'[s] = req[s] \/ req'[s] = Ended
    BY <1>1 DEF IInv
  <1>7. KeyKept
    BY <1>1 DEF KeyKept, identityVars
  <1>8. QED
    BY <1>1, <1>2, <1>3, <1>4, <1>5, <1>6, <1>7, IdentityStep


-----------------------------------------------------------------------------
(* The invariant, and what follows from it *)

LEMMA InitIInv == Init => IInv
  <1> SUFFICES ASSUME Init
               PROVE  IInv
    OBVIOUS
  <1>1. KeysOK
    BY IdentityServiceAssumption DEF Init, InitIdentity, KeysOK
  <1>2. PairsOK /\ StoreOK /\ SessionsAreLinear
    BY DEF Init, InitIdentity, PairsOK, StoreOK, SessionsAreLinear
  <1>3. CacheOK /\ FetchOK
    BY IdentityServiceAssumption DEF Init, NoCache, NoFetch, Never, CacheOK, FetchOK
  <1>4. req = [r \in Request |-> req[r]] /\ \A r \in Request : RequestOK(req[r])
    BY AnsweredRequest DEF Init, Ended
  <1>5. QED
    BY <1>1, <1>2, <1>3, <1>4 DEF IInv

LEMMA StepIInv == IInv /\ [Next]_vars => IInv'
  <1> SUFFICES ASSUME IInv, [Next]_vars
               PROVE  IInv'
    OBVIOUS
  <1>1. CASE UNCHANGED vars
    <2>1. /\ UNCHANGED <<now, identityVars, cache, inflight>>
          /\ req' = [r \in Request |-> req'[r]] /\ \A r \in Request : RequestOK(req'[r])
      BY <1>1 DEF vars, gatewayVars, IInv
    <2>2. QED
      BY <2>1, GatewayKeeps, GatewayStep
  <1>2. ASSUME NEW r \in Request, Step(r)
        PROVE  IInv'
    BY <1>2, HandleGrantStep, EndStep DEF Step, Handle, ForwardFails
  <1>3. CASE Fetch
    BY <1>3, JwksServedStep, FetchAnsweredStep, FetchFailsStep DEF Fetch
  <1>4. QED
    BY <1>1, <1>2, <1>3, EndStep, ArriveStep, ArriveWithStep, RestartStep, TickStep
       DEF Next, TurnAway

\* What the identity service and the gateway hold in every reachable state: tokens in
\* line, keys no older than a cache's life and a fetch, and calls forwarded with header
\* fields that were minted while their token was good.
THEOREM InductiveInvariant == Spec => []IInv
  BY InitIInv, StepIInv, PTL DEF Spec

\* However grants, retries and restarts mix, each refresh token is exchanged at most once
\* and a session is a line of pairs of which only the last can still be exchanged.
THEOREM SessionsStayLinear == Spec => []SessionsAreLinear
  <1>1. IInv => SessionsAreLinear
    BY DEF IInv
  <1>2. QED
    BY <1>1, InductiveInvariant, PTL

LEMMA KeysOfLate ==
  ASSUME IInv
  PROVE  /\ CachedKeys \subseteq PublishedSince(now - CacheTtl - UpstreamTimeout)
         /\ inflight # NoFetch => inflight.keys \subseteq PublishedSince(now - UpstreamTimeout)
         /\ PublishedSince(now - UpstreamTimeout)
              \subseteq PublishedSince(now - CacheTtl - UpstreamTimeout)
  <1>1. now \in Nat /\ cache.at \in Nat /\ inflight.sent \in Nat
    BY DEF IInv, KeysOK, CacheOK, FetchOK
  <1>2. ASSUME CachedKeys # {}
        PROVE  CachedKeys \subseteq PublishedSince(now - CacheTtl - UpstreamTimeout)
    <2>1. CachedKeys = cache.keys /\ ~ (now - cache.at > CacheTtl)
      BY <1>2 DEF CachedKeys
    <2>2. now - CacheTtl - UpstreamTimeout <= cache.at - UpstreamTimeout
      BY <1>1, <2>1, EdgeAssumption
    <2>3. PublishedSince(cache.at - UpstreamTimeout)
            \subseteq PublishedSince(now - CacheTtl - UpstreamTimeout)
      BY <1>1, <2>2, EdgeAssumption, PublishedMonotone DEF IInv
    <2>4. QED
      BY <1>2, <2>1, <2>3 DEF IInv, CacheOK
  <1>3. ASSUME inflight # NoFetch
        PROVE  inflight.keys \subseteq PublishedSince(now - UpstreamTimeout)
    <2>1. now - UpstreamTimeout <= inflight.sent
      BY <1>1, <1>3, EdgeAssumption DEF IInv, FetchOK
    <2>2. PublishedSince(inflight.sent) \subseteq PublishedSince(now - UpstreamTimeout)
      BY <1>1, <2>1, EdgeAssumption, PublishedMonotone DEF IInv
    <2>3. QED
      BY <1>3, <2>2 DEF IInv, FetchOK
  <1>4. PublishedSince(now - UpstreamTimeout) \subseteq PublishedSince(now - CacheTtl - UpstreamTimeout)
    <2>1. now - CacheTtl - UpstreamTimeout <= now - UpstreamTimeout
      BY <1>1, EdgeAssumption
    <2>2. QED
      BY <1>1, <2>1, EdgeAssumption, PublishedMonotone DEF IInv
  <1>5. QED
    BY <1>2, <1>3, <1>4

-----------------------------------------------------------------------------
(* Header fields *)

\* What a gateway identity is, field by field.
LEMMA IdentityOfToken ==
  ASSUME NEW token, NEW identity, identity = GatewayIdentity(token)
  PROVE  /\ identity # NoIdentity /\ identity # Refused
         /\ identity.tid = token.tid /\ identity.actor = token.sub /\ identity.admin = token.admin
  BY DEF GatewayIdentity, NoIdentity, Refused

\* None of the client's own fields is taken for one of the gateway's.
LEMMA MintedFields ==
  ASSUME NEW fields, NEW identity, identity # NoIdentity, NEW time, NEW headers,
         headers = BuildForwardedHeaders(fields, identity, time)
  PROVE  /\ {"x-internal-identity", "x-internal-identity-signature"} \subseteq DOMAIN headers
         /\ headers["x-internal-identity"] = identity
         /\ headers["x-internal-identity-signature"] =
              [claims |-> identity, iss |-> "api-gateway", exp |-> time + InternalTtl]
  <1> DEFINE minted == Mint(identity, time)
             injected == Injected(identity, minted)
  <1>1. /\ minted.internalIdentity = identity
        /\ minted.internalIdentitySignature =
             [claims |-> identity, iss |-> "api-gateway", exp |-> time + InternalTtl]
    BY DEF Mint
  <1> HIDE DEF minted
  <1>2. /\ {"x-internal-identity", "x-internal-identity-signature"} \subseteq DOMAIN injected
        /\ injected["x-internal-identity"] = minted.internalIdentity
        /\ injected["x-internal-identity-signature"] = minted.internalIdentitySignature
    BY DEF Injected, ClientSpoofableHeaders
  <1> HIDE DEF injected
  <1>3. headers = [h \in Kept(fields) \cup DOMAIN injected |->
                     IF h \in DOMAIN injected THEN injected[h] ELSE fields[h]]
    BY DEF BuildForwardedHeaders, injected, minted
  <1>4. QED
    BY <1>1, <1>2, <1>3

\* What is forwarded on a token tells of its user, and without one of nobody.
LEMMA UsersFields ==
  ASSUME NEW token, NEW fields, NEW time, NEW headers,
         headers = BuildForwardedHeaders(fields, GatewayIdentity(token), time)
  PROVE  TellOf(headers, token)
  <1> DEFINE identity == GatewayIdentity(token)
             minted == Mint(identity, time)
             injected == Injected(identity, minted)
  <1>1. /\ identity # NoIdentity
        /\ identity.tid = token.tid /\ identity.actor = token.sub /\ identity.admin = token.admin
    BY IdentityOfToken
  <1>2. minted.internalIdentity = identity /\ minted.internalIdentitySignature.claims = identity
    BY DEF Mint
  <1>3. headers = [h \in Kept(fields) \cup DOMAIN injected |->
                     IF h \in DOMAIN injected THEN injected[h] ELSE fields[h]]
    BY <1>1 DEF BuildForwardedHeaders
  <1> HIDE DEF identity, minted
  <1>4. /\ DOMAIN injected = ClientSpoofableHeaders \ (IF identity.admin THEN {} ELSE {"x-platform-admin"})
        /\ \A h \in DOMAIN injected :
             /\ h = "x-internal-identity" => injected[h] = minted.internalIdentity
             /\ h = "x-internal-identity-signature" => injected[h] = minted.internalIdentitySignature
             /\ h = "x-tenant-id" => injected[h] = identity.tid
             /\ h = "x-actor-id" => injected[h] = identity.actor
    BY DEF Injected, ClientSpoofableHeaders
  <1> HIDE DEF injected
  <1>5. ASSUME NEW h \in ClientSpoofableHeaders \cap DOMAIN headers
        PROVE  h \in DOMAIN injected /\ headers[h] = injected[h]
    BY <1>3 DEF Kept
  <1>6. QED
    BY <1>1, <1>2, <1>4, <1>5 DEF TellOf, ClientSpoofableHeaders, identity

LEMMA NobodysFields ==
  ASSUME NEW fields, NEW time, NEW headers, headers = BuildForwardedHeaders(fields, NoIdentity, time)
  PROVE  TellOfNobody(headers)
  BY DEF BuildForwardedHeaders, Kept, TellOfNobody

-----------------------------------------------------------------------------
(* Outcomes *)

\* A call goes on with a token whose key the verifier has; otherwise it ends with it.
LEMMA AuthenticatedOutcome ==
  ASSUME NEW record, NEW keys
  PROVE  /\ Authenticated(record, keys).token = record.token
         /\ \/ /\ Authenticated(record, keys).phase = "forwarded"
               /\ Authenticated(record, keys).route = RouteOf[record.call]
               /\ Authenticated(record, keys).headers =
                    BuildForwardedHeaders(record.call.fields,
                                          GatewayIdentity(pairs[record.token].access), now)
               /\ Verifies(keys, pairs[record.token].access)
            \/ /\ Authenticated(record, keys).phase = "done"
               /\ ~ Verifies(keys, pairs[record.token].access)
  BY DEF Authenticated, Forwarded, Unauthenticated, Answered

\* Every step of a request: nothing, an end without a token, a forward for nobody, or the
\* outcome of keys.
Outcome(r) ==
  \/ req'[r] = req[r]
  \/ req'[r] = Ended
  \/ req'[r].phase = "fetching"
  \/ /\ req'[r].phase = "forwarded" /\ ~ req'[r].route.requiresAuth
     /\ TellOfNobody(req'[r].headers)
  \/ FetchFails
  \/ \E record, keys :
       /\ req'[r] = Authenticated(record, keys) /\ RouteOf[record.call].requiresAuth
       /\ \/ keys = CachedKeys /\ HasKid(keys, pairs[record.token].access)
          \/ inflight # NoFetch /\ keys = inflight.keys /\ keys # {}

LEMMA Outcomes ==
  ASSUME IInv, Next, NEW r \in Request
  PROVE  Outcome(r)
  <1>1. req = [s \in Request |-> req[s]] /\ \A s \in Request : RequestOK(req[s])
    BY DEF IInv
  <1>2. ASSUME NEW s \in Request, NEW call \in Call, Arrive(s, call)
        PROVE  Outcome(r)
    <2>1. PICK next : /\ next = Forwarded([call |-> call, token |-> NoToken], NoIdentity)
                      /\ req' = [req EXCEPT ![s] = next]
      BY <1>2 DEF Arrive
    <2>2. next.phase = "forwarded" /\ ~ next.route.requiresAuth
          /\ next.headers = BuildForwardedHeaders(call.fields, NoIdentity, now)
      BY <1>2, <2>1 DEF Arrive, Forwarded
    <2>3. TellOfNobody(next.headers)
      BY <2>2, NobodysFields
    <2>4. QED
      BY <1>1, <2>1, <2>2, <2>3 DEF Outcome
  <1>3. ASSUME NEW s \in Request, NEW call \in Call, NEW token \in DOMAIN pairs,
               ArriveWith(s, call, token)
        PROVE  Outcome(r)
    <2>1. PICK record : record = [phase |-> "fetching", call |-> call, token |-> token]
      OBVIOUS
    <2>2. /\ record.token = token /\ record.phase = "fetching" /\ record.call = call
          /\ RouteOf[call].requiresAuth
      BY <1>3, <2>1 DEF ArriveWith
    <2>3. \/ /\ HasKid(CachedKeys, pairs[token].access)
             /\ req' = [req EXCEPT ![s] = Authenticated(record, CachedKeys)]
          \/ req' = [req EXCEPT ![s] = record]
      BY <1>3, <2>1 DEF ArriveWith
    <2>4. QED
      BY <1>1, <2>2, <2>3 DEF Outcome
  <1>4. ASSUME NEW s \in Request, TurnAway(s) \/ Step(s)
        PROVE  Outcome(r)
    BY <1>1, <1>4 DEF TurnAway, Step, Handle, HandleGrant, ForwardFails, Outcome
  <1>5. CASE Fetch
    <2>1. Is(r, "fetching") => RouteOf[req[r].call].requiresAuth
      BY <1>1 DEF RequestOK, Is
    <2>2. QED
      BY <1>5, <2>1 DEF Fetch, JwksServed, FetchAnswered, Outcome
  <1>6. CASE RestartIdentity \/ Tick
    BY <1>6 DEF RestartIdentity, Tick, gatewayVars, Outcome
  <1>7. QED
    BY <1>2, <1>3, <1>4, <1>5, <1>6 DEF Next

\* A call that is forwarded for somebody: the token was verified with keys of late.
LEMMA ForwardedOnKeys ==
  ASSUME IInv, Next, NEW r \in Request, NEW token, token = pairs[req'[r].token].access,
         ~ Is(r, "forwarded"), req'[r].phase = "forwarded"
  PROVE  IF req'[r].route.requiresAuth
         THEN /\ token.key \in PublishedSince(now - CacheTtl - UpstreamTimeout)
              /\ TellOf(req'[r].headers, token)
         ELSE TellOfNobody(req'[r].headers)
  <1>1. Outcome(r)
    BY Outcomes
  <1>2. req'[r] # Ended /\ ~ FetchFails
    <2>1. Ended.phase = "done"
      BY DEF Ended, Answered
    <2>2. FetchFails => req'[r] = req[r] \/ req'[r].phase = "done"
      BY DEF FetchFails, Unauthenticated, Answered
    <2>3. QED
      BY <2>1, <2>2 DEF Is
  <1>3. CASE ~ req'[r].route.requiresAuth /\ TellOfNobody(req'[r].headers)
    BY <1>3
  <1>4. ASSUME NEW record, NEW keys, req'[r] = Authenticated(record, keys),
               RouteOf[record.call].requiresAuth,
               keys = CachedKeys \/ (inflight # NoFetch /\ keys = inflight.keys)
        PROVE  /\ req'[r].route.requiresAuth /\ TellOf(req'[r].headers, token)
               /\ token.key \in PublishedSince(now - CacheTtl - UpstreamTimeout)
    <2>1. /\ req'[r].token = record.token /\ req'[r].route = RouteOf[record.call]
          /\ Verifies(keys, token)
          /\ req'[r].headers = BuildForwardedHeaders(record.call.fields, GatewayIdentity(token), now)
      BY <1>4, AuthenticatedOutcome
    <2>2. token.key \in keys
      BY <2>1 DEF Verifies
    <2>3. PICK headers, fields : /\ headers = req'[r].headers
                                 /\ headers = BuildForwardedHeaders(fields, GatewayIdentity(token), now)
      BY <2>1
    <2>4. TellOf(headers, token)
      BY <2>3, UsersFields
    <2>5. QED
      BY <1>4, <2>1, <2>2, <2>3, <2>4, KeysOfLate
  <1>5. QED
    BY <1>1, <1>2, <1>3, <1>4 DEF Outcome, Is

-----------------------------------------------------------------------------
(* Whom a service acts for *)

\* So a service takes a call for its caller's, or for nobody's.
LEMMA PrincipalOfMinted ==
  ASSUME NEW fields, NEW identity, identity # NoIdentity, NEW sent, NEW headers, NEW service,
         NEW time, headers = BuildForwardedHeaders(fields, identity, sent)
  PROVE  /\ Principal(service, headers, time) \in {Refused, identity}
         /\ service \in Verifying /\ Principal(service, headers, time) # Refused =>
              time <= sent + InternalTtl + Tolerance
  <1> DEFINE payload == headers["x-internal-identity-signature"]
  <1>1. /\ "x-internal-identity" \in DOMAIN headers
        /\ "x-internal-identity-signature" \in DOMAIN headers
        /\ headers["x-internal-identity"] = identity
        /\ payload = [claims |-> identity, iss |-> "api-gateway", exp |-> sent + InternalTtl]
    BY MintedFields
  <1> HIDE DEF payload
  <1>5. payload.claims = identity /\ payload.exp = sent + InternalTtl
    BY <1>1
  <1>2. CASE service \in Verifying
    <2>1. Principal(service, headers, time) =
            IF /\ payload.iss = "api-gateway"
               /\ time <= payload.exp + Tolerance
               /\ HeaderMatchesSignedClaims(headers, payload.claims)
            THEN payload.claims ELSE Refused
      BY <1>1, <1>2 DEF Principal, VerifySignedToken, payload
    <2>2. QED
      BY <1>5, <2>1
  <1>3. CASE service \notin Verifying
    BY <1>1, <1>3 DEF Principal, DecodePlaceholder
  <1>4. QED
    BY <1>2, <1>3

\* No guard lets in whom nobody vouches for, where identities are looked at.
LEMMA ContextOfRefused ==
  ASSUME NEW upstream, NEW call, HasMiddleware(upstream, call)
  PROVE  Context(upstream, call, Refused) = Refused
  BY DEF Context, ReadContext, IdentityTenantContext, AdminOnly, IsPlatformAdmin, TenantContext

\* Each guard lets a principal act as itself, in its tenant, an administrator in any.
LEMMA ContextOfIdentity ==
  ASSUME NEW token, token.admin \in BOOLEAN, NEW identity, identity = GatewayIdentity(token),
         NEW upstream, NEW call, HasMiddleware(upstream, call),
         Context(upstream, call, identity) # Refused
  PROVE  ActsFor(Context(upstream, call, identity), token, call.tenantId)
  <1>1. /\ identity # Refused /\ identity.tid = token.tid /\ identity.actor = token.sub
        /\ identity.admin = token.admin
    BY IdentityOfToken
  <1>2. ASSUME NEW tenant, NEW admin \in BOOLEAN, NEW actor
        PROVE  /\ TenantContextStore(tenant, admin, actor).tenantId = tenant
               /\ TenantContextStore(tenant, admin, actor).isPlatformAdmin = admin
               /\ TenantContextStore(tenant, admin, actor).actorId = actor
    BY DEF TenantContextStore
  <1>3. CASE upstream = "audit"
    <2>1. PICK tenant : tenant = IF identity.admin THEN call.tenantId ELSE identity.tid
      OBVIOUS
    <2>2. Context(upstream, call, identity) = ReadContext(identity, call.tenantId)
      BY <1>3 DEF Context
    <2>3. ReadContext(identity, call.tenantId)
            = [tenantId |-> tenant, isPlatformAdmin |-> identity.admin, actorId |-> identity.actor]
      BY <2>1, <2>2 DEF ReadContext, TenantContextStore
    <2>4. QED
      BY <1>1, <2>1, <2>2, <2>3 DEF ActsFor
  <1>4. CASE upstream = "expense"
    <2>1. Context(upstream, call, identity) = IdentityTenantContext(identity)
      BY <1>4 DEF Context
    <2>2. IdentityTenantContext(identity)
            = [tenantId |-> identity.tid, isPlatformAdmin |-> FALSE, actorId |-> identity.actor]
      BY <1>1 DEF IdentityTenantContext, TenantContextStore
    <2>3. QED
      BY <1>1, <2>1, <2>2 DEF ActsFor
  <1>5. CASE upstream # "audit" /\ upstream # "expense"
    <2>1. TenantContext(identity) = TenantContextStore(identity.tid, identity.admin, identity.actor)
      BY <1>1 DEF TenantContext
    <2>2. Context(upstream, call, identity) = TenantContext(identity)
      BY <1>5 DEF Context, AdminOnly
    <2>3. QED
      BY <1>1, <1>2, <2>1, <2>2 DEF ActsFor
  <1>6. QED
    BY <1>3, <1>4, <1>5

LEMMA ActsForCaller ==
  ASSUME IInv, NEW r \in Request, Is(r, "forwarded"), req[r].route.requiresAuth,
         IsIdentified(r), ActsAs(r) # Refused, NEW issued, issued = pairs[req[r].token].access
  PROVE  /\ ActsFor(ActsAs(r), issued, req[r].call.tenantId)
         /\ req[r].route.upstream \in Verifying =>
              now <= issued.exp + Skew + InternalTtl + Tolerance
  <1>1. PICK record : record = req[r]
    OBVIOUS
  <1>2. PICK time \in 0 .. now : record.token \in 1 .. Len(pairs) /\ IsMinted(record, time)
    BY <1>1 DEF IInv, Is, RequestOK
  <1>3. PICK identity : identity = GatewayIdentity(issued)
    OBVIOUS
  <1>4. PICK fields : /\ time <= issued.exp + Skew
                      /\ record.headers = BuildForwardedHeaders(fields, identity, time)
    BY <1>1, <1>2, <1>3 DEF IsMinted
  <1>5. issued.admin \in BOOLEAN /\ issued.exp \in Nat /\ now \in Nat
    BY <1>1, <1>2, PairFields DEF IInv, KeysOK
  <1>6. PICK upstream, principal : /\ upstream = record.route.upstream
                                   /\ principal = Principal(upstream, record.headers, now)
    OBVIOUS
  <1>7. ActsAs(r) = Context(upstream, record.call, principal) /\ HasMiddleware(upstream, record.call)
    BY <1>1, <1>6 DEF ActsAs, IsIdentified
  <1>8. /\ principal \in {Refused, identity}
        /\ upstream \in Verifying /\ principal # Refused => now <= time + InternalTtl + Tolerance
    <2>1. identity # NoIdentity
      BY <1>3, IdentityOfToken
    <2>2. QED
      BY <1>4, <1>6, <2>1, PrincipalOfMinted
  <1>9. principal # Refused
    BY <1>7, ContextOfRefused
  <1>10. principal = identity
    BY <1>8, <1>9
  <1>11. ActsFor(ActsAs(r), issued, record.call.tenantId)
    BY <1>3, <1>5, <1>7, <1>10, ContextOfIdentity
  <1>12. upstream \in Verifying => now <= issued.exp + Skew + InternalTtl + Tolerance
    <2>1. upstream \in Verifying => now <= time + InternalTtl + Tolerance
      BY <1>8, <1>9
    <2>2. time \in Nat /\ InternalTtl \in Nat /\ Tolerance \in Nat /\ Skew \in Nat
      BY <1>5, EdgeAssumption, ForwardingAssumption
    <2>3. QED
      BY <1>4, <1>5, <2>1, <2>2
  <1>13. QED
    BY <1>1, <1>6, <1>11, <1>12

\* The gateway speaks only for the user of a token verified by a key of late, and wherever a
\* service runs the identity middleware it acts for that user only, whatever header fields,
\* query and dot segments the client sends.
THEOREM AccessStaysBounded == Spec => AccessIsBounded
  <1>1. IInv /\ [Next]_vars => [\A r \in Request :
          LET token == pairs[req'[r].token].access
              issued == pairs[req[r].token].access
          IN  /\ ~ Is(r, "forwarded") /\ req'[r].phase = "forwarded" =>
                   IF req'[r].route.requiresAuth
                   THEN /\ token.key \in PublishedSince(now - CacheTtl - UpstreamTimeout)
                        /\ TellOf(req'[r].headers, token)
                   ELSE TellOfNobody(req'[r].headers)
              /\ Is(r, "forwarded") /\ req[r].route.requiresAuth /\ req'[r] # req[r]
                   /\ IsIdentified(r) /\ ActsAs(r) # Refused =>
                   /\ ActsFor(ActsAs(r), issued, req[r].call.tenantId)
                   /\ req[r].route.upstream \in Verifying =>
                        now <= issued.exp + Skew + InternalTtl + Tolerance]_vars
    BY ForwardedOnKeys, ActsForCaller
  <1>2. QED
    BY <1>1, InductiveInvariant, PTL DEF Spec, AccessIsBounded


-----------------------------------------------------------------------------
(* Refusals *)

LEMMA PublishedIsFinite ==
  ASSUME KeysOK, NEW t \in Int
  PROVE  IsFiniteSet(PublishedSince(t))
  <1> DEFINE since == {m \in 1 .. signing : m = signing \/ retiredAt[m] >= t}
             key == [n \in since |-> SigningKey[n]]
  <1>1. IsFiniteSet(since)
    <2>1. IsFiniteSet(1 .. signing)
      BY FS_Interval DEF KeysOK
    <2>2. QED
      BY <2>1, FS_Subset
  <1>2. PublishedSince(t) = {SigningKey[n] : n \in since}
    BY DEF PublishedSince
  <1> HIDE DEF since
  <1>3. key \in Surjection(since, PublishedSince(t))
    BY <1>2 DEF Surjection
  <1>4. QED
    BY <1>1, <1>3, FS_Surjection

LEMMA TwoElements ==
  ASSUME NEW S, IsFiniteSet(S), NEW a \in S, NEW b \in S, a # b
  PROVE  Cardinality(S) > 1
  <1>1. Cardinality(S) \in Nat /\ Cardinality(S) # 0
    BY FS_CardinalityType, FS_EmptySet
  <1>2. Cardinality(S) # 1
    BY FS_Singleton
  <1>3. QED
    BY <1>1, <1>2

LEMMA RefusalHasCause ==
  ASSUME IInv, Next, NEW r \in Request, req'[r].phase = "done", req'[r] # req[r],
         req'[r].token # NoToken, IsGood(pairs[req'[r].token].access)
  PROVE  \/ FetchFails
         \/ Cardinality(PublishedSince(now - UpstreamTimeout)) > 1
         \/ \E key \in PublishedSince(now - CacheTtl - UpstreamTimeout) :
              key # SigningKey[signing] /\ key.kid = SigningKey[signing].kid
  <1>1. Outcome(r)
    BY Outcomes
  <1>2. req'[r] # Ended
    BY DEF Ended, Answered
  <1>3. SUFFICES ASSUME ~ FetchFails
                 PROVE  \/ Cardinality(PublishedSince(now - UpstreamTimeout)) > 1
                        \/ \E key \in PublishedSince(now - CacheTtl - UpstreamTimeout) :
                             key # SigningKey[signing] /\ key.kid = SigningKey[signing].kid
    OBVIOUS
  <1>4. PICK record, keys :
          /\ req'[r] = Authenticated(record, keys)
          /\ \/ keys = CachedKeys /\ HasKid(keys, pairs[record.token].access)
             \/ inflight # NoFetch /\ keys = inflight.keys /\ keys # {}
    BY <1>1, <1>2, <1>3 DEF Outcome
  <1>5. PICK token : token = pairs[record.token].access
    OBVIOUS
  <1>6. token.key = SigningKey[signing] /\ token.key \notin keys
    <2>1. IsGood(token) /\ ~ Verifies(keys, token)
      BY <1>4, <1>5, AuthenticatedOutcome
    <2>2. QED
      BY <2>1 DEF IsGood, Verifies
  <1>7. CASE keys = CachedKeys /\ HasKid(keys, token)
    <2>1. PICK key \in keys : key.kid = token.key.kid
      BY <1>7 DEF HasKid
    <2>2. key \in PublishedSince(now - CacheTtl - UpstreamTimeout) /\ key # SigningKey[signing]
      BY <1>6, <1>7, KeysOfLate
    <2>3. QED
      BY <1>6, <2>1, <2>2
  <1>8. CASE inflight # NoFetch /\ keys = inflight.keys /\ keys # {}
    <2>1. PICK t \in Int : t = now - UpstreamTimeout
      BY EdgeAssumption DEF IInv, KeysOK
    <2>2. PICK key \in keys : key # SigningKey[signing]
      BY <1>6, <1>8
    <2>3. key \in PublishedSince(t) /\ SigningKey[signing] \in PublishedSince(t)
      BY <1>8, <2>1, KeysOfLate, PublishedKeys DEF IInv
    <2>4. Cardinality(PublishedSince(t)) > 1
      BY <2>2, <2>3, PublishedIsFinite, TwoElements DEF IInv
    <2>5. QED
      BY <2>1, <2>4
  <1>9. QED
    BY <1>4, <1>5, <1>7, <1>8

\* The gateway refuses a good token only if it could not fetch the keys, if the key changed
\* after its fetch was sent, or if it changed under one kid while the old one was cached.
THEOREM RefusalsHaveCause == Spec => RefusedForCause
  <1>1. IInv /\ [Next]_vars => [\A r \in Request :
          req'[r].phase = "done" /\ req'[r] # req[r] /\ req'[r].token # NoToken
            /\ IsGood(pairs[req'[r].token].access)
          => \/ FetchFails
             \/ Cardinality(PublishedSince(now - UpstreamTimeout)) > 1
             \/ \E key \in PublishedSince(now - CacheTtl - UpstreamTimeout) :
                  key # SigningKey[signing] /\ key.kid = SigningKey[signing].kid]_vars
    BY RefusalHasCause
  <1>2. QED
    BY <1>1, InductiveInvariant, PTL DEF Spec, RefusedForCause


-----------------------------------------------------------------------------
(* The rate limiter in front, for any clients, window and quota.             *)

Span(A, from, to) == {call \in A : call.at \in from .. to}

\* Of one client's calls and refusals, its window and the time.  The window counts what was
\* let through since it opened, and as long before that no more was than a window allows.
LimitOK(A, R, window, t) ==
  /\ IsFiniteSet(A)
  /\ \A call \in A : /\ call.at \in 0 .. t /\ call.number \in Nat
                     /\ call.number <= Cardinality(Span(A, call.at, call.at))
  /\ R \subseteq 0 .. t
  /\ window = NoWindow => A = {}
  /\ window # NoWindow =>
       /\ window = [count |-> window.count, start |-> window.start]
       /\ window.start \in 0 .. t /\ window.count \in 0 .. Quota
       /\ window.count = Cardinality(Span(A, window.start, t))
       /\ \A call \in A : call.at < window.start + WindowMs
       /\ Cardinality(Span(A, window.start - WindowMs, window.start - 1)) <= Quota
  /\ \A u \in Int : Cardinality(Span(A, u, u + WindowMs - 1)) <= 2 * Quota
  /\ \A u \in R : Cardinality(Span(A, u - WindowMs + 1, u)) >= Quota

LimiterInv ==
  /\ clock \in 0 .. MaxClock
  /\ windows = [k \in Address |-> windows[k]]
  /\ admitted = [k \in Address |-> admitted[k]] /\ refused = [k \in Address |-> refused[k]]
  /\ \A k \in Address : LimitOK(admitted[k], refused[k], windows[k], clock)

LEMMA SpanIsFinite ==
  ASSUME NEW A, IsFiniteSet(A), NEW from, NEW to
  PROVE  IsFiniteSet(Span(A, from, to)) /\ Cardinality(Span(A, from, to)) \in Nat
  <1>1. Span(A, from, to) \subseteq A
    BY DEF Span
  <1>2. QED
    BY <1>1, FS_Subset, FS_CardinalityType

\* Of a part of a span's calls there are no more.
LEMMA SpanGrows ==
  ASSUME NEW A, IsFiniteSet(A), NEW B, NEW from, NEW to, NEW first, NEW last, B \subseteq A,
         \A call \in Span(B, from, to) : call.at \in first .. last
  PROVE  /\ Cardinality(Span(B, from, to)) <= Cardinality(Span(A, first, last))
  <1>1. Span(B, from, to) \subseteq Span(A, first, last)
    BY DEF Span
  <1>2. QED
    BY <1>1, SpanIsFinite, FS_Subset

\* Two spans that cover a third.
LEMMA SpansCover ==
  ASSUME NEW A, IsFiniteSet(A), NEW from, NEW to, NEW a, NEW b, NEW c, NEW d,
         \A call \in Span(A, from, to) : call.at \in a .. b \/ call.at \in c .. d
  PROVE  Cardinality(Span(A, from, to)) <= Cardinality(Span(A, a, b)) + Cardinality(Span(A, c, d))
  <1> DEFINE S == Span(A, a, b)
             T == Span(A, c, d)
  <1>1. IsFiniteSet(S) /\ IsFiniteSet(T) /\ Cardinality(S) \in Nat /\ Cardinality(T) \in Nat
    BY SpanIsFinite
  <1>2. Span(A, from, to) \subseteq S \cup T
    BY DEF Span
  <1> HIDE DEF S, T
  <1>3. /\ IsFiniteSet(S \cup T) /\ IsFiniteSet(S \cap T)
        /\ Cardinality(S \cup T) = Cardinality(S) + Cardinality(T) - Cardinality(S \cap T)
    BY <1>1, FS_Union, FS_Intersection
  <1>4. Cardinality(S \cap T) \in Nat /\ Cardinality(S \cup T) \in Nat
    BY <1>3, FS_CardinalityType
  <1>5. Cardinality(Span(A, from, to)) <= Cardinality(S \cup T) /\ Cardinality(Span(A, from, to)) \in Nat
    BY <1>2, <1>3, SpanIsFinite, FS_Subset
  <1>6. QED
    BY <1>1, <1>3, <1>4, <1>5 DEF S, T

LEMMA LimitTicks ==
  ASSUME NEW A, NEW R, NEW window, NEW t \in Nat, LimitOK(A, R, window, t)
  PROVE  LimitOK(A, R, window, t + 1)
  <1>1. \A call \in A : call.at \in 0 .. t
    BY DEF LimitOK
  <1>2. window # NoWindow => Span(A, window.start, t + 1) = Span(A, window.start, t)
    BY <1>1 DEF Span, LimitOK
  <1>3. QED
    BY <1>2 DEF LimitOK

LEMMA LimitOpens ==
  ASSUME NEW A, NEW R, NEW window, NEW t \in 0 .. MaxClock, LimitOK(A, R, window, t),
         window = NoWindow \/ t - window.start >= WindowMs
  PROVE  LimitOK(A, R, [count |-> 0, start |-> t], t)
  <1> DEFINE new == [count |-> 0, start |-> t]
  <1>1. IsFiniteSet(A) /\ WindowMs \in Nat \ {0} /\ Quota \in Nat \ {0} /\ t \in Nat /\ MaxClock \in Nat
    BY RateLimiterAssumption DEF LimitOK
  <1>2. new # NoWindow
    BY <1>1 DEF NoWindow
  <1>3. \A call \in A : call.at \in 0 .. t - 1
    <2>1. CASE window = NoWindow
      BY <2>1 DEF LimitOK
    <2>2. CASE window # NoWindow
      BY <1>1, <2>2 DEF LimitOK
    <2>3. QED
      BY <2>1, <2>2
  <1>4. Cardinality(Span(A, t, t)) = 0
    <2>1. Span(A, t, t) = {}
      BY <1>1, <1>3 DEF Span
    <2>2. QED
      BY <2>1, FS_EmptySet
  <1>5. Cardinality(Span(A, t - WindowMs, t - 1)) <= Quota
    <2>1. CASE window = NoWindow
      <3>1. Span(A, t - WindowMs, t - 1) = {}
        BY <2>1 DEF LimitOK, Span
      <3>2. QED
        BY <1>1, <3>1, FS_EmptySet
    <2>2. CASE window # NoWindow
      <3>1. /\ window.start \in 0 .. t /\ window.count \in 0 .. Quota
            /\ window.count = Cardinality(Span(A, window.start, t))
        BY <2>2 DEF LimitOK
      <3>2. \A call \in Span(A, t - WindowMs, t - 1) : call.at \in window.start .. t
        BY <1>1, <2>2, <3>1 DEF Span
      <3>3. Cardinality(Span(A, t - WindowMs, t - 1)) <= Cardinality(Span(A, window.start, t))
        BY <1>1, <3>2, SpanGrows
      <3>4. QED
        BY <1>1, <3>1, <3>3, SpanIsFinite
    <2>3. QED
      BY <2>1, <2>2
  <1>6. \A call \in A : call.at < t + WindowMs
    BY <1>1, <1>3
  <1>7. /\ new = [count |-> new.count, start |-> new.start]
        /\ new.start = t /\ new.count = 0 /\ t \in 0 .. t /\ 0 \in 0 .. Quota
    BY <1>1
  <1> HIDE DEF new
  <1>8. LimitOK(A, R, new, t)
    BY <1>2, <1>4, <1>5, <1>6, <1>7 DEF LimitOK
  <1>9. QED
    BY <1>8 DEF new

LEMMA LimitAdmits ==
  ASSUME NEW A, NEW R, NEW window, NEW t \in 0 .. MaxClock, LimitOK(A, R, window, t),
         window # NoWindow, t - window.start < WindowMs, window.count < Quota
  PROVE  LimitOK(A \cup {[at |-> t, number |-> Cardinality(Span(A, t, t)) + 1]}, R,
                 [window EXCEPT !.count = @ + 1], t)
  <1> DEFINE call == [at |-> t, number |-> Cardinality(Span(A, t, t)) + 1]
             B == A \cup {call}
             new == [window EXCEPT !.count = @ + 1]
  <1>1. /\ IsFiniteSet(A) /\ WindowMs \in Nat \ {0} /\ Quota \in Nat \ {0} /\ t \in Nat
        /\ MaxClock \in Nat
        /\ Cardinality(Span(A, t, t)) \in Nat
    BY SpanIsFinite, RateLimiterAssumption DEF LimitOK
  <1>2. /\ window = [count |-> window.count, start |-> window.start]
        /\ window.start \in 0 .. t /\ window.count \in 0 .. Quota
        /\ window.count = Cardinality(Span(A, window.start, t))
        /\ Cardinality(Span(A, window.start - WindowMs, window.start - 1)) <= Quota
        /\ \A c \in A : c.at < window.start + WindowMs
    BY DEF LimitOK
  <1>3. \A c \in A : /\ c.at \in 0 .. t /\ c.number \in Nat
                     /\ c.number <= Cardinality(Span(A, c.at, c.at))
    BY DEF LimitOK
  <1>4. call.at = t /\ call.number = Cardinality(Span(A, t, t)) + 1 /\ call.number \in Nat
    BY <1>1
  <1>5. call \notin A
    BY <1>1, <1>3, <1>4
  <1> HIDE DEF call
  <1>6. IsFiniteSet(B) /\ A \subseteq B /\ call \in B /\ \A c \in B : c \in A \/ c = call
    BY <1>1, FS_AddElement
  <1> HIDE DEF B
  <1>7. ASSUME NEW from \in Int, NEW to \in Int
        PROVE  /\ t \in from .. to => Cardinality(Span(B, from, to)) = Cardinality(Span(A, from, to)) + 1
               /\ t \notin from .. to => Span(B, from, to) = Span(A, from, to)
               /\ Cardinality(Span(A, from, to)) <= Cardinality(Span(B, from, to))
    <2>1. t \in from .. to => Span(B, from, to) = Span(A, from, to) \cup {call}
      BY <1>4 DEF Span, B
    <2>2. t \notin from .. to => Span(B, from, to) = Span(A, from, to)
      BY <1>4 DEF Span, B
    <2>3. /\ call \notin Span(A, from, to) /\ IsFiniteSet(Span(A, from, to))
          /\ Cardinality(Span(A, from, to)) \in Nat
      <3>1. call \notin Span(A, from, to)
        BY <1>5 DEF Span
      <3>2. IsFiniteSet(A)
        BY <1>1
      <3>3. QED
        BY <3>1, <3>2, SpanIsFinite
    <2>4. Cardinality(Span(A, from, to) \cup {call}) = Cardinality(Span(A, from, to)) + 1
      BY <2>3, FS_AddElement
    <2>5. CASE t \in from .. to
      BY <2>1, <2>3, <2>4, <2>5
    <2>6. CASE t \notin from .. to
      BY <2>2, <2>3, <2>6
    <2>7. QED
      BY <2>5, <2>6
  <1>8. \A c \in B : /\ c.at \in 0 .. t /\ c.number \in Nat
                     /\ c.number <= Cardinality(Span(B, c.at, c.at))
    <2>1. ASSUME NEW c \in A
          PROVE  c.number <= Cardinality(Span(B, c.at, c.at))
      <3>1. c.at \in Int /\ c.number \in Nat /\ c.number <= Cardinality(Span(A, c.at, c.at))
        BY <1>3
      <3>2. Cardinality(Span(A, c.at, c.at)) <= Cardinality(Span(B, c.at, c.at))
        BY <1>7, <3>1
      <3>3. /\ Cardinality(Span(A, c.at, c.at)) \in Nat /\ Cardinality(Span(B, c.at, c.at)) \in Nat
        BY <1>1, <1>6, SpanIsFinite
      <3>4. QED
        BY <3>1, <3>2, <3>3
    <2>2. t \in Int /\ t \in t .. t /\ t \in 0 .. t
      BY <1>1
    <2>3. call.number <= Cardinality(Span(B, call.at, call.at))
      BY <1>1, <1>4, <1>7, <2>2
    <2>4. QED
      BY <1>3, <1>4, <1>6, <2>1, <2>2, <2>3
  <1>9. /\ new = [count |-> new.count, start |-> new.start]
        /\ new.start = window.start /\ new.count = window.count + 1
    BY <1>2
  <1> HIDE DEF new
  <1>10. new.count \in 0 .. Quota /\ new.start \in 0 .. t
    BY <1>1, <1>2, <1>9
  <1>11. new.count = Cardinality(Span(B, new.start, t))
    <2>1. window.start \in Int /\ t \in Int /\ t \in window.start .. t
      BY <1>1, <1>2
    <2>2. Cardinality(Span(B, window.start, t)) = Cardinality(Span(A, window.start, t)) + 1
      BY <1>7, <2>1
    <2>3. QED
      BY <1>2, <1>9, <2>2
  <1>12. Cardinality(Span(B, new.start - WindowMs, new.start - 1)) <= Quota
    <2>1. /\ window.start - WindowMs \in Int /\ window.start - 1 \in Int
          /\ t \notin window.start - WindowMs .. window.start - 1
      BY <1>1, <1>2
    <2>2. Span(B, window.start - WindowMs, window.start - 1) =
            Span(A, window.start - WindowMs, window.start - 1)
      BY <1>7, <2>1
    <2>3. QED
      BY <1>2, <1>9, <2>2
  <1>13. \A c \in B : c.at < new.start + WindowMs
    BY <1>1, <1>2, <1>4, <1>6, <1>9
  <1>14. ASSUME NEW u \in Int
         PROVE  Cardinality(Span(B, u, u + WindowMs - 1)) <= 2 * Quota
    <2>1. CASE t \notin u .. u + WindowMs - 1
      <3>0. u + WindowMs - 1 \in Int
        BY <1>1
      <3>1. Span(B, u, u + WindowMs - 1) = Span(A, u, u + WindowMs - 1)
        BY <1>7, <2>1, <3>0
      <3>2. QED
        BY <3>1 DEF LimitOK
    <2>2. CASE t \in u .. u + WindowMs - 1
      <3>1. \A c \in Span(B, u, u + WindowMs - 1) :
              c.at \in window.start - WindowMs .. window.start - 1 \/ c.at \in window.start .. t
        <4>1. ASSUME NEW c \in B, c.at \in u .. u + WindowMs - 1
              PROVE  \/ c.at \in window.start - WindowMs .. window.start - 1
                     \/ c.at \in window.start .. t
          <5>1. c.at \in 0 .. t
            BY <1>8
          <5>2. QED
            BY <1>1, <1>2, <2>2, <4>1, <5>1
        <4>2. QED
          BY <4>1 DEF Span
      <3>2. Cardinality(Span(B, u, u + WindowMs - 1)) <=
              Cardinality(Span(B, window.start - WindowMs, window.start - 1))
                + Cardinality(Span(B, window.start, t))
        BY <1>6, <3>1, SpansCover
      <3>3. /\ Cardinality(Span(B, window.start - WindowMs, window.start - 1)) \in Nat
            /\ Cardinality(Span(B, u, u + WindowMs - 1)) \in Nat
        BY <1>6, SpanIsFinite
      <3>4. QED
        BY <1>1, <1>2, <1>9, <1>10, <1>11, <1>12, <3>2, <3>3
    <2>3. QED
      BY <2>1, <2>2
  <1>15. ASSUME NEW u \in R
         PROVE  Cardinality(Span(B, u - WindowMs + 1, u)) >= Quota
    <2>1. u \in Int /\ Cardinality(Span(A, u - WindowMs + 1, u)) >= Quota
      BY <1>1 DEF LimitOK
    <2>2. Cardinality(Span(A, u - WindowMs + 1, u)) <= Cardinality(Span(B, u - WindowMs + 1, u))
      <3>1. u - WindowMs + 1 \in Int
        BY <1>1, <2>1
      <3>2. QED
        BY <1>7, <2>1, <3>1
    <2>3. /\ Cardinality(Span(A, u - WindowMs + 1, u)) \in Nat
          /\ Cardinality(Span(B, u - WindowMs + 1, u)) \in Nat
      BY <1>1, <1>6, SpanIsFinite
    <2>4. QED
      BY <1>1, <2>1, <2>2, <2>3
  <1>16. new # NoWindow
    BY <1>1, <1>2, <1>9 DEF NoWindow
  <1>17. LimitOK(B, R, new, t)
    <2>1. R \subseteq 0 .. t
      BY DEF LimitOK
    <2>2. QED
      BY <1>6, <1>8, <1>9, <1>10, <1>11, <1>12, <1>13, <1>14, <1>15, <1>16, <2>1 DEF LimitOK
  <1>18. QED
    BY <1>17 DEF B, new, call

LEMMA LimitRefuses ==
  ASSUME NEW A, NEW R, NEW window, NEW t \in 0 .. MaxClock, LimitOK(A, R, window, t),
         window # NoWindow, t - window.start < WindowMs, window.count >= Quota
  PROVE  LimitOK(A, R \cup {t}, window, t)
  <1>1. /\ IsFiniteSet(A) /\ WindowMs \in Nat \ {0} /\ Quota \in Nat \ {0} /\ t \in Nat
        /\ window.start \in 0 .. t /\ window.count \in 0 .. Quota
        /\ window.count = Cardinality(Span(A, window.start, t))
    BY RateLimiterAssumption DEF LimitOK
  <1>2. Cardinality(Span(A, t - WindowMs + 1, t)) >= Quota
    <2>1. \A c \in Span(A, window.start, t) : c.at \in t - WindowMs + 1 .. t
      BY <1>1 DEF Span, LimitOK
    <2>2. Cardinality(Span(A, window.start, t)) <= Cardinality(Span(A, t - WindowMs + 1, t))
      BY <1>1, <2>1, SpanGrows
    <2>3. Cardinality(Span(A, t - WindowMs + 1, t)) \in Nat
      BY <1>1, SpanIsFinite
    <2>4. QED
      BY <1>1, <2>2, <2>3
  <1>3. R \cup {t} \subseteq 0 .. t
    BY <1>1 DEF LimitOK
  <1>4. QED
    BY <1>2, <1>3 DEF LimitOK

LEMMA SpansAre ==
  \A k \in Address : \A from, to : AdmittedIn(k, from, to) = Span(admitted[k], from, to)
  BY DEF AdmittedIn, Span

LEMMA InitLimiterInv ==
  ASSUME InitLimiter
  PROVE  LimiterInv
  <1>1. LimitOK({}, {}, NoWindow, 0)
    <2>1. \A from, to : Cardinality(Span({}, from, to)) = 0
      <3>1. \A from, to : Span({}, from, to) = {}
        BY DEF Span
      <3>2. QED
        BY <3>1, FS_EmptySet
    <2>2. Quota \in Nat
      BY RateLimiterAssumption
    <2>3. QED
      BY <2>1, <2>2, FS_EmptySet DEF LimitOK
  <1>2. QED
    BY <1>1, RateLimiterAssumption DEF InitLimiter, LimiterInv

LEMMA ConsumeLimiterInv ==
  ASSUME LimiterInv, NEW k \in Address, ConsumeQuota(k)
  PROVE  LimiterInv'
  <1> DEFINE A == admitted[k]
             R == refused[k]
             window == windows[k]
             open == StateOf(k)
  <1>1. /\ clock \in 0 .. MaxClock /\ clock' = clock /\ LimitOK(A, R, window, clock)
        /\ WindowMs \in Nat \ {0} /\ Quota \in Nat \ {0} /\ MaxClock \in Nat
    BY RateLimiterAssumption DEF LimiterInv, ConsumeQuota
  <1>2. /\ LimitOK(A, R, open, clock) /\ open # NoWindow /\ clock - open.start < WindowMs
        /\ open.start \in Nat /\ open.count \in Nat
    <2>1. CASE IsNewWindow(window)
      <3>1. open = [count |-> 0, start |-> clock]
        BY <2>1 DEF StateOf
      <3>2. open # NoWindow /\ clock - open.start < WindowMs /\ open.start = clock /\ open.count = 0
        BY <1>1, <3>1 DEF NoWindow
      <3>3. window = NoWindow \/ clock - window.start >= WindowMs
        BY <2>1 DEF IsNewWindow
      <3> HIDE DEF A, R, window, open
      <3>4. LimitOK(A, R, [count |-> 0, start |-> clock], clock)
        BY <1>1, <3>3, LimitOpens
      <3>5. QED
        BY <1>1, <3>1, <3>2, <3>4
    <2>2. CASE ~ IsNewWindow(window)
      <3>1. open = window /\ window # NoWindow /\ ~ (clock - window.start >= WindowMs)
        BY <2>2 DEF StateOf, IsNewWindow
      <3> HIDE DEF A, R, window, open
      <3>2. window.start \in Nat /\ window.count \in Nat
        BY <1>1, <3>1 DEF LimitOK
      <3>3. QED
        BY <1>1, <3>1, <3>2
    <2>3. QED
      BY <2>1, <2>2
  <1>3. LimitOK(admitted'[k], refused'[k], windows'[k], clock)
    <2>1. CASE open.count >= Quota
      <3>1. admitted'[k] = A /\ refused'[k] = R \cup {clock} /\ windows'[k] = open
        BY <2>1 DEF ConsumeQuota, LimiterInv
      <3> HIDE DEF A, R, open
      <3>2. QED
        BY <1>1, <1>2, <2>1, <3>1, LimitRefuses
    <2>2. CASE ~ (open.count >= Quota)
      <3> DEFINE call == [at |-> clock, number |-> Cardinality(Span(A, clock, clock)) + 1]
      <3>1. Counted(k) = call
        BY SpansAre DEF Counted
      <3> HIDE DEF call
      <3>2. /\ admitted'[k] = A \cup {call} /\ refused'[k] = R
            /\ windows'[k] = [open EXCEPT !.count = open.count + 1]
        BY <2>2, <3>1 DEF ConsumeQuota, LimiterInv
      <3>3. open.count < Quota
        BY <1>1, <1>2, <2>2
      <3> HIDE DEF A, R, open
      <3>4. LimitOK(A \cup {call}, R, [open EXCEPT !.count = open.count + 1], clock)
        BY <1>1, <1>2, <3>3, LimitAdmits DEF call
      <3>5. QED
        BY <3>2, <3>4
    <2>3. QED
      BY <2>1, <2>2
  <1>4. /\ windows' = [j \in Address |-> windows'[j]]
        /\ admitted' = [j \in Address |-> admitted'[j]] /\ refused' = [j \in Address |-> refused'[j]]
        /\ \A j \in Address : j # k => /\ admitted'[j] = admitted[j] /\ refused'[j] = refused[j]
                                       /\ windows'[j] = windows[j]
    BY DEF ConsumeQuota, LimiterInv
  <1>5. \A j \in Address : LimitOK(admitted'[j], refused'[j], windows'[j], clock)
    BY <1>3, <1>4 DEF LimiterInv
  <1>6. QED
    BY <1>1, <1>4, <1>5 DEF LimiterInv

LEMMA StepLimiterInv ==
  ASSUME LimiterInv, [NextLimiter]_limiterVars
  PROVE  LimiterInv'
  <1>1. CASE UNCHANGED limiterVars
    BY <1>1 DEF limiterVars, LimiterInv
  <1>2. CASE Advance
    <2>1. /\ clock \in Nat /\ clock' = clock + 1 /\ clock' \in 0 .. MaxClock
          /\ UNCHANGED <<windows, admitted, refused>>
      BY <1>2, RateLimiterAssumption DEF Advance, LimiterInv
    <2>2. \A k \in Address : LimitOK(admitted[k], refused[k], windows[k], clock + 1)
      BY <2>1, LimitTicks DEF LimiterInv
    <2>3. QED
      BY <2>1, <2>2 DEF LimiterInv
  <1>3. CASE Use
    BY <1>3, ConsumeLimiterInv DEF Use
  <1>4. QED
    BY <1>1, <1>2, <1>3 DEF NextLimiter

\* What each client's window has counted, at every moment.
THEOREM LimiterInvariant == LimiterSpec => []LimiterInv
  BY InitLimiterInv, StepLimiterInv, PTL DEF LimiterSpec

\* In any span of a window's length a client gets at most twice the quota through: once
\* since its window opened, once in as long before that.
THEOREM TwiceTheQuota == LimiterSpec => []AtMostTwiceTheQuota
  <1>1. LimiterInv => AtMostTwiceTheQuota
    <2> SUFFICES ASSUME LimiterInv, NEW k \in Address, NEW t \in 0 .. MaxClock
                 PROVE  Cardinality(AdmittedIn(k, t, t + WindowMs - 1)) <= 2 * Quota
      BY DEF AtMostTwiceTheQuota
    <2>1. Cardinality(Span(admitted[k], t, t + WindowMs - 1)) <= 2 * Quota
      BY DEF LimiterInv, LimitOK
    <2>2. QED
      BY <2>1, SpansAre
  <1>2. QED
    BY <1>1, LimiterInvariant, PTL

\* A refused client had its quota within the window's length before it.
THEOREM RefusedAtQuota == LimiterSpec => []RefusedOnlyAtQuota
  <1>1. LimiterInv => RefusedOnlyAtQuota
    <2> SUFFICES ASSUME LimiterInv, NEW k \in Address, NEW t \in refused[k]
                 PROVE  Cardinality(AdmittedIn(k, t - WindowMs + 1, t)) >= Quota
      BY DEF RefusedOnlyAtQuota
    <2>1. Cardinality(Span(admitted[k], t - WindowMs + 1, t)) >= Quota
      BY DEF LimiterInv, LimitOK
    <2>2. QED
      BY <2>1, SpansAre
  <1>2. QED
    BY <1>1, LimiterInvariant, PTL
=============================================================================
