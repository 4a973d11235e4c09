------------------------------ MODULE TtlLruCache ------------------------------
(***************************************************************************)
(* The PIP's cache: a JavaScript Map, kept as the sequence of its entries  *)
(* in insertion order, the least recently used first.                      *)
(***************************************************************************)
EXTENDS Integers, Sequences

CONSTANTS
  MaxEntries,   \* pipCacheMaxEntries
  Ttl           \* pipCacheTtlMs

ASSUME TtlLruCacheAssumption == MaxEntries \in Nat \ {0} /\ Ttl \in Nat

Has(store, key) == \E i \in DOMAIN store : store[i].key = key

Position(store, key) == CHOOSE i \in DOMAIN store : store[i].key = key

\* store.get(key)
Entry(store, key) == store[Position(store, key)]

\* store.delete(key)
Delete(store, key) ==
  IF Has(store, key)
  THEN LET i == Position(store, key)
       IN  SubSeq(store, 1, i - 1) \o SubSeq(store, i + 1, Len(store))
  ELSE store

\* An entry that is served one tick past its expiry.
HitLate(store, key, now) == Has(store, key) /\ Entry(store, key).expiresAt >= now

\* get() finds an entry that has not expired.
Hit(store, key, now) == Has(store, key) /\ Entry(store, key).expiresAt > now

\* A hit that stays where it is: first in, first out.
NotPromoted(store, key, now) == IF Hit(store, key, now) THEN store ELSE Delete(store, key)

\* What get() leaves: a hit moves to the recent end, an expired entry goes.
AfterGet(store, key, now) ==
  IF Hit(store, key, now)
  THEN Append(Delete(store, key), Entry(store, key))
  ELSE Delete(store, key)

\* An update of a key that is there already, as if it were a new one.
RoomAlways(store, key) == IF Len(store) > MaxEntries THEN Tail(store) ELSE store

\* Room for key: its old entry goes, or at capacity the least recently used one.
Room(store, key) ==
  IF Has(store, key) THEN Delete(store, key)
  ELSE IF Len(store) >= MaxEntries THEN Tail(store)
  ELSE store

\* set(key, value)
Set(store, key, value, now) ==
  Append(Room(store, key), [key |-> key, value |-> value, expiresAt |-> now + Ttl])
==============================================================================
