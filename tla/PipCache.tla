------------------------------- MODULE PipCache -------------------------------
(***************************************************************************)
(* HttpPipClient: principals resolved through a TTL/LRU cache in front of  *)
(* the PAP, which owns them.  A call runs to its first await in one step;  *)
(* the PAP answers a request at some moment between its sending and its    *)
(* arrival, and the principal may change at any time.                      *)
(*                                                                         *)
(* A principal is known by its version, 1, 2, ...; history[k][v] is the    *)
(* time at which version v of k was replaced.                              *)
(***************************************************************************)
EXTENDS TtlLruCache, FiniteSets

CONSTANTS
  Call,         \* calls of resolve()
  NoCall,
  NoArg,        \* the arguments of a call not made yet
  Key,          \* tenant::user::scope
  PipTimeout,   \* pipTimeoutMs
  MaxTime,      \* bound on the clock
  MaxVersion    \* bound on the versions of a principal

ASSUME PipCacheAssumption ==
  /\ NoCall \notin Call
  /\ NoArg \notin [key: Key, forceFresh: BOOLEAN]
  /\ PipTimeout \in Nat
  /\ MaxTime \in Nat
  /\ MaxVersion \in Nat \ {0}

VARIABLES
  now,
  history,    \* per key, when each version was replaced
  store,      \* the cache
  inFlight,   \* per key, the call whose fetch others join, or NoCall
  phase,      \* per call
  arg,        \* the arguments of the call
  startedAt,  \* when it was called
  awaits,     \* the call whose fetch it awaits
  got,        \* the version the PAP put in the answer to its fetch, 0 before
  value,      \* the version resolve() returned, 0 before
  endedAt     \* when it returned

vars == <<now, history, store, inFlight, phase, arg, startedAt, awaits, got, value, endedAt>>
owner == <<now, history>>

Arg == [key: Key, forceFresh: BOOLEAN]
Phase == {"idle", "fetching", "joined", "answered", "failed"}
Version == 1 .. MaxVersion
CacheEntry == [key: Key, value: Version, expiresAt: Nat]

Current(k) == Len(history[k]) + 1

Init ==
  /\ now = 0
  /\ history = [k \in Key |-> << >>]
  /\ store = << >>
  /\ inFlight = [k \in Key |-> NoCall]
  /\ phase = [c \in Call |-> "idle"]
  /\ arg = [c \in Call |-> NoArg]
  /\ startedAt = [c \in Call |-> 0]
  /\ awaits = [c \in Call |-> NoCall]
  /\ got = [c \in Call |-> 0]
  /\ value = [c \in Call |-> 0]
  /\ endedAt = [c \in Call |-> 0]

-----------------------------------------------------------------------------
(* The owner and the clock *)

\* A role is assigned or revoked, an attribute edited.
Change(k) ==
  /\ Current(k) < MaxVersion
  /\ history' = [history EXCEPT ![k] = Append(@, now)]
  /\ UNCHANGED <<now, store, inFlight, phase, arg, startedAt, awaits, got, value, endedAt>>

\* AbortSignal.timeout: no fetch is older than the timeout.
NoTimeout(c) == TRUE
InTime(c) == now < startedAt[c] + PipTimeout

Tick ==
  /\ now < MaxTime
  /\ \A c \in Call : phase[c] = "fetching" => InTime(c)
  /\ now' = now + 1
  /\ UNCHANGED <<history, store, inFlight, phase, arg, startedAt, awaits, got, value, endedAt>>

\* GET /v1/principals/:userId/effective reads the principal.
PapReads(c) ==
  /\ phase[c] = "fetching"
  /\ got[c] = 0
  /\ got' = [got EXCEPT ![c] = Current(arg[c].key)]
  /\ UNCHANGED <<owner, store, inFlight, phase, arg, startedAt, awaits, value, endedAt>>

-----------------------------------------------------------------------------
(* resolve() *)

Called(c, k, forced) ==
  /\ phase[c] = "idle"
  /\ arg' = [arg EXCEPT ![c] = [key |-> k, forceFresh |-> forced]]
  /\ startedAt' = [startedAt EXCEPT ![c] = now]

\* A cached principal is returned at once.
ResolveHit(c, k) ==
  /\ Called(c, k, FALSE)
  /\ Hit(store, k, now)
  /\ store' = AfterGet(store, k, now)
  /\ phase' = [phase EXCEPT ![c] = "answered"]
  /\ value' = [value EXCEPT ![c] = Entry(store, k).value]
  /\ endedAt' = [endedAt EXCEPT ![c] = now]
  /\ UNCHANGED <<owner, inFlight, awaits, got>>

Misses(c, k) ==
  /\ Called(c, k, FALSE)
  /\ ~ Hit(store, k, now)
  /\ store' = AfterGet(store, k, now)
  /\ UNCHANGED <<owner, got, value, endedAt>>

\* A miss joins the fetch another call has under way for the key.
ResolveJoin(c, k) ==
  /\ Misses(c, k)
  /\ inFlight[k] # NoCall
  /\ phase' = [phase EXCEPT ![c] = "joined"]
  /\ awaits' = [awaits EXCEPT ![c] = inFlight[k]]
  /\ UNCHANGED inFlight

Fetches(c) ==
  /\ phase' = [phase EXCEPT ![c] = "fetching"]
  /\ awaits' = [awaits EXCEPT ![c] = c]

\* inFlight.set(key, fetchPromise), and a fetch nobody can find.
NotShared(c, k) == inFlight
Shared(c, k) == [inFlight EXCEPT ![k] = c]

\* A miss nobody is fetching starts a fetch others may join.
ResolveFetch(c, k) ==
  /\ Misses(c, k)
  /\ inFlight[k] = NoCall
  /\ Fetches(c)
  /\ inFlight' = Shared(c, k)

\* A forced read that waits for a fetch under way instead of making its own.
ForcedJoins(c, k) ==
  /\ Called(c, k, TRUE)
  /\ phase' = [phase EXCEPT ![c] = IF inFlight[k] = NoCall THEN "fetching" ELSE "joined"]
  /\ awaits' = [awaits EXCEPT ![c] = IF inFlight[k] = NoCall THEN c ELSE inFlight[k]]
  /\ UNCHANGED <<owner, store, inFlight, got, value, endedAt>>

\* forceFresh looks at neither the cache nor the fetches under way.
ResolveFresh(c, k) ==
  /\ Called(c, k, TRUE)
  /\ Fetches(c)
  /\ UNCHANGED <<owner, store, inFlight, got, value, endedAt>>

\* The fetch of c answers c alone.
AwaitingAlone(c) == {c}

\* The calls that await the fetch of c.
Awaiting(c) == {d \in Call : phase[d] \in {"fetching", "joined"} /\ awaits[d] = c}

\* finally: the key's entry goes, whoever made it.
Forgot(c) == [inFlight EXCEPT ![arg[c].key] = NoCall]

\* A 200 fills the cache and answers every call that awaits it.
FetchOk(c) ==
  LET k == arg[c].key
  IN  /\ phase[c] = "fetching"
      /\ got[c] # 0
      /\ store' = Set(store, k, got[c], now)
      /\ inFlight' = Forgot(c)
      /\ phase' = [d \in Call |-> IF d \in Awaiting(c) THEN "answered" ELSE phase[d]]
      /\ value' = [d \in Call |-> IF d \in Awaiting(c) THEN got[c] ELSE value[d]]
      /\ endedAt' = [d \in Call |-> IF d \in Awaiting(c) THEN now ELSE endedAt[d]]
      /\ UNCHANGED <<owner, arg, startedAt, awaits, got>>

\* A timeout, a network error or another status rejects for all of them.
FetchFails(c) ==
  /\ phase[c] = "fetching"
  /\ inFlight' = Forgot(c)
  /\ phase' = [d \in Call |-> IF d \in Awaiting(c) THEN "failed" ELSE phase[d]]
  /\ endedAt' = [d \in Call |-> IF d \in Awaiting(c) THEN now ELSE endedAt[d]]
  /\ UNCHANGED <<owner, store, arg, startedAt, awaits, got, value>>

\* invalidate(): a consumer of change events drops the key.
Invalidate(k) ==
  /\ store' = Delete(store, k)
  /\ UNCHANGED <<owner, inFlight, phase, arg, startedAt, awaits, got, value, endedAt>>

Resolve(c) ==
  \E k \in Key : ResolveHit(c, k) \/ ResolveJoin(c, k) \/ ResolveFetch(c, k) \/ ResolveFresh(c, k)
Settle(c) == FetchOk(c) \/ FetchFails(c)

Next ==
  \/ \E c \in Call : Resolve(c) \/ PapReads(c) \/ Settle(c)
  \/ \E k \in Key : Change(k) \/ Invalidate(k)
  \/ Tick

Spec == Init /\ [][Next]_vars

\* Callers call, and the timer settles a fetch the network does not.
FairSpec == Spec /\ \A c \in Call : WF_vars(Resolve(c)) /\ WF_vars(Settle(c))

-----------------------------------------------------------------------------
(* Properties *)

TypeOK ==
  /\ now \in 0 .. MaxTime
  /\ history \in [Key -> Seq(Nat)]
  /\ \A k \in Key : Current(k) \in Version
  /\ store \in Seq(CacheEntry)
  /\ Len(store) <= MaxEntries
  /\ inFlight \in [Key -> Call \cup {NoCall}]
  /\ phase \in [Call -> Phase]
  /\ arg \in [Call -> Arg \cup {NoArg}]
  /\ startedAt \in [Call -> 0 .. MaxTime]
  /\ awaits \in [Call -> Call \cup {NoCall}]
  /\ got \in [Call -> 0 .. MaxVersion]
  /\ value \in [Call -> 0 .. MaxVersion]
  /\ endedAt \in [Call -> 0 .. MaxTime]

\* Version v of k was still the current one at time t.
CurrentAt(k, v, t) == v <= Len(history[k]) => history[k][v] >= t

\* A principal resolve() returns was current no longer ago than the TTL plus the
\* time a fetch may take, however hits, joins, evictions and late answers mix.
BoundedStaleness ==
  \A c \in Call : phase[c] = "answered" =>
    CurrentAt(arg[c].key, value[c], endedAt[c] - Ttl - PipTimeout)

\* A sensitive action decides on a principal no older than its own call.
FreshReadsAreFresh ==
  \A c \in Call : phase[c] = "answered" /\ arg[c].forceFresh =>
    CurrentAt(arg[c].key, value[c], startedAt[c])

\* As long as nothing forces a fresh read of a key, one fetch per key is enough.
SingleFlightUnlessForced ==
  \A c, d \in Call :
    /\ phase[c] = "fetching" /\ phase[d] = "fetching"
    /\ arg[c].key = arg[d].key
    /\ \A b \in Call : arg[b] # [key |-> arg[c].key, forceFresh |-> TRUE]
    => c = d

\* No call waits for a fetch that has settled, and none can start to: what it
\* joins is under way for its own key.
JoinsAreLive ==
  /\ \A c \in Call : phase[c] = "joined" =>
       phase[awaits[c]] = "fetching" /\ arg[awaits[c]].key = arg[c].key
  /\ \A k \in Key : inFlight[k] # NoCall =>
       phase[inFlight[k]] = "fetching" /\ arg[inFlight[k]].key = k

\* Every call returns a principal or throws.
EveryCallEnds == \A c \in Call : <>(phase[c] \in {"answered", "failed"})
==============================================================================
