------------------------------ MODULE LruRecency ------------------------------
(***************************************************************************)
(* TtlLruCache on its own: get, set and delete in any order on a clock,    *)
(* against a record of when each key was last used.                        *)
(***************************************************************************)
EXTENDS TtlLruCache, FiniteSets

CONSTANTS
  CacheKey,
  Value,
  MaxClock,  \* bound on the clock
  MaxUses    \* bound on the calls

VARIABLES
  clock,
  cache,
  model,   \* the abstract cache: per key, what the last set left and when it expires
  used,    \* per key, the number of the call that last set it or hit it
  uses     \* calls so far

lruVars == <<clock, cache, model, used, uses>>

Absent == [value |-> "none", expiresAt |-> 0]

InitLru ==
  /\ clock = 0
  /\ cache = << >>
  /\ model = [k \in CacheKey |-> Absent]
  /\ used = [k \in CacheKey |-> 0]
  /\ uses = 0

Counts == uses < MaxUses /\ uses' = uses + 1

Advance == clock < MaxClock /\ clock' = clock + 1 /\ UNCHANGED <<cache, model, used, uses>>

GetKey(k) ==
  /\ Counts
  /\ cache' = AfterGet(cache, k, clock)
  /\ used' = IF Hit(cache, k, clock) THEN [used EXCEPT ![k] = uses'] ELSE used
  /\ UNCHANGED <<clock, model>>

SetKey(k, v) ==
  /\ Counts
  /\ cache' = Set(cache, k, v, clock)
  /\ model' = [model EXCEPT ![k] = [value |-> v, expiresAt |-> clock + Ttl]]
  /\ used' = [used EXCEPT ![k] = uses']
  /\ UNCHANGED clock

DeleteKey(k) ==
  /\ Counts
  /\ cache' = Delete(cache, k)
  /\ model' = [model EXCEPT ![k] = Absent]
  /\ UNCHANGED <<clock, used>>

NextLru ==
  \/ Advance
  \/ \E k \in CacheKey : GetKey(k) \/ DeleteKey(k)
  \/ \E k \in CacheKey, v \in Value : SetKey(k, v)

LruSpec == InitLru /\ [][NextLru]_lruVars

-----------------------------------------------------------------------------
(* Properties *)

Keys(s) == {s[i].key : i \in DOMAIN s}

\* A hit returns what the last set of the key left, and only before its expiry:
\* neither evictions nor other keys' entries ever change an answer.
HitsAreLastSet ==
  \A k \in CacheKey : Hit(cache, k, clock) =>
    /\ Entry(cache, k).value = model[k].value
    /\ clock < model[k].expiresAt

Evicts(k, v) ==
  SetKey(k, v) =>
    LET evicted == Keys(cache) \ Keys(cache')
    IN  /\ \A e \in evicted, o \in Keys(cache) : used[e] <= used[o]
        /\ evicted # {} => k \notin Keys(cache) /\ Cardinality(Keys(cache)) = MaxEntries
EvictsInOrder == \A k \in CacheKey, v \in Value : Evicts(k, v)

\* Set makes room by dropping the key used longest ago, and only when it has to:
\* an update of a cached key evicts nobody.
EvictsLeastRecentlyUsed == [][EvictsInOrder]_lruVars
==============================================================================
