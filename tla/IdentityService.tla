---------------------------- MODULE IdentityService ----------------------------
(***************************************************************************)
(* The identity service: the password and the refresh grant, the refresh    *)
(* tokens it keeps in memory, and the one key it signs with and publishes.   *)
(* A grant's handler awaits nothing but promises that are settled, apart     *)
(* from the password hash at its start, so what it does is one step.        *)
(***************************************************************************)
EXTENDS Naturals, Sequences

CONSTANTS
  User,
  SeedUsers,    \* the configured entry of each user: [tenantId], or [tenantId, platformAdmin]
  SigningKey,   \* [kid, pem]: the keys the service is configured with, one after another
  AccessTtl,
  RefreshTtl,
  MaxPairs,     \* bound on the token pairs issued
  MaxNow        \* bound on the clock

ASSUME IdentityServiceAssumption ==
  /\ SigningKey # << >>
  /\ AccessTtl \in Nat \ {0} /\ RefreshTtl \in Nat \ {0}
  /\ MaxPairs \in Nat /\ MaxNow \in Nat

VARIABLES
  now,
  signing,   \* which of the keys the running process has
  store,     \* its refresh tokens: [token, user, session, expiresAt]
  pairs,     \* history: the pairs issued, in order; a pair's number is its refresh token
  retiredAt  \* history: when each key but the present one was replaced

identityVars == <<signing, store, pairs, retiredAt>>

NoToken == 0

InitIdentity ==
  /\ signing = 1
  /\ store = {}
  /\ pairs = << >>
  /\ retiredAt = << >>

-----------------------------------------------------------------------------
\* toSeedUser: only a platformAdmin that is true makes an administrator.
ToSeedUser(entry) ==
  [tenant |-> entry.tenantId, admin |-> "platformAdmin" \in DOMAIN entry /\ entry.platformAdmin]

\* The users are made at the start, all of them active, and none changes.
Account == [user \in User |-> ToSeedUser(SeedUsers[user])]

\* signAccessToken: what is signed, and by which key.
SignAccessToken(user, session) ==
  [sub |-> user, tid |-> Account[user].tenant, sid |-> session,
   admin |-> Account[user].admin, exp |-> now + AccessTtl, key |-> SigningKey[signing]]

\* issueFor, with a session of its own unless it continues one.  from: history, the refresh
\* token spent on it.
IssueFor(user, session, from, kept) ==
  LET token == Len(pairs) + 1
      sid == IF session = NoToken THEN token ELSE session
  IN  /\ token <= MaxPairs
      /\ pairs' = Append(pairs, [access |-> SignAccessToken(user, sid), from |-> from])
      /\ store' = kept \cup {[token |-> token, user |-> user, session |-> sid,
                              expiresAt |-> now + RefreshTtl]}
      /\ UNCHANGED <<signing, retiredAt>>

IssueToken(user) == IssueFor(user, NoToken, NoToken, store)

\* consume: what is left of the store; the token is left where it was.
Peek(record) == store
Consume(record) == store \ {record}

\* Unknown and expired tokens are answered 401; an expired one is consumed all the same.
RefreshToken(token) ==
  \/ /\ \A record \in store : record.token # token
     /\ UNCHANGED identityVars
  \/ \E record \in store :
       /\ record.token = token
       /\ IF record.expiresAt <= now
          THEN store' = Consume(record) /\ UNCHANGED <<signing, pairs, retiredAt>>
          ELSE IssueFor(record.user, record.session, token, Consume(record))

\* A restart, with the same key or with the next, forgets the refresh tokens.
Restart ==
  /\ store' = {}
  /\ \/ UNCHANGED <<signing, retiredAt>>
     \/ /\ signing < Len(SigningKey)
        /\ signing' = signing + 1
        /\ retiredAt' = Append(retiredAt, now)
  /\ UNCHANGED pairs

\* jwks: a key set of one.
Jwks == {SigningKey[signing]}

\* The grants a client asks for: for a password, or for a refresh token.  One whose answer
\* is lost may ask again; the pair in the answer is then one that nobody uses.
Grant ==
  \/ \E user \in User : IssueToken(user)
  \/ \E token \in DOMAIN pairs : RefreshToken(token)

-----------------------------------------------------------------------------
\* However calls, retries and restarts mix, each refresh token is exchanged at most once,
\* a session is a line of pairs each bought with the one before, and of the tokens of a
\* session only the last can still be exchanged.
SessionsAreLinear ==
  LET session(n) == pairs[n].access.sid
      line(s) == {n \in DOMAIN pairs : session(n) = s}
  IN  /\ \A m, n \in DOMAIN pairs :
           /\ m < n /\ session(m) = session(n) /\ (\A l \in m + 1 .. n - 1 : session(l) # session(n))
              => pairs[n].from = m
           /\ pairs[n].from = NoToken => session(n) = n
      /\ \A record \in store : \A n \in line(record.session) : n <= record.token
==============================================================================
