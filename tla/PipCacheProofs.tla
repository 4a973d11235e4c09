---------------------------- MODULE PipCacheProofs ----------------------------
(***************************************************************************)
(* Proofs about PipCache: how old a principal can be that resolve()        *)
(* returns, for any TTL, timeout, capacity and number of calls; and about   *)
(* LruRecency: what the cache evicts and returns.                          *)
(***************************************************************************)
EXTENDS PipCache, LruRecency, FiniteSetTheorems, SequenceTheorems, TLAPS

\* One-line abbreviations, expanded throughout.
USE DEF owner, Shared, Forgot, InTime, Called, Misses, Fetches

-----------------------------------------------------------------------------
(* The cache as a sequence of entries *)

\* An entry of a key that is there has that key.
LEMMA PositionIs ==
  ASSUME NEW E, NEW s \in Seq(E), NEW k, Has(s, k)
  PROVE  /\ Position(s, k) \in 1 .. Len(s)
         /\ Entry(s, k) = s[Position(s, k)]
         /\ Entry(s, k).key = k
  BY DEF Has, Position, Entry

\* Deleting a key that is there closes the gap.
LEMMA DeleteIs ==
  ASSUME NEW E, NEW s \in Seq(E), NEW k, Has(s, k)
  PROVE  /\ Delete(s, k) \in Seq(E)
         /\ Len(Delete(s, k)) = Len(s) - 1
         /\ \A i \in 1 .. Len(s) - 1 : Delete(s, k)[i] = s[IF i < Position(s, k) THEN i ELSE i + 1]
  <1> DEFINE p == Position(s, k)
             a == SubSeq(s, 1, p - 1)
             b == SubSeq(s, p + 1, Len(s))
  <1>1. p \in 1 .. Len(s) /\ Len(s) \in Nat /\ \A i \in 1 .. Len(s) : s[i] \in E
    BY PositionIs
  <1> HIDE DEF p
  <1>2. /\ a \in Seq(E) /\ Len(a) = p - 1
        /\ \A i \in 1 .. p - 1 : a[i] = s[i]
    BY <1>1, SubSeqProperties
  <1>3. /\ b \in Seq(E) /\ Len(b) = Len(s) - p
        /\ \A i \in 1 .. Len(s) - p : b[i] = s[p + i]
    <2>1. \A i \in p + 1 .. Len(s) : s[i] \in E
      BY <1>1
    <2>2. /\ b \in Seq(E)
          /\ Len(b) = IF p + 1 <= Len(s) THEN Len(s) - (p + 1) + 1 ELSE 0
          /\ \A i \in 1 .. Len(s) - (p + 1) + 1 : b[i] = s[p + 1 + i - 1]
      BY <1>1, <2>1, SubSeqProperties
    <2>3. QED
      BY <1>1, <2>2
  <1> HIDE DEF a, b
  <1>4. /\ a \o b \in Seq(E)
        /\ Len(a \o b) = Len(a) + Len(b)
        /\ \A i \in 1 .. Len(a) + Len(b) : (a \o b)[i] = IF i <= Len(a) THEN a[i] ELSE b[i - Len(a)]
    BY <1>2, <1>3, ConcatProperties
  <1>5. Len(a) + Len(b) = Len(s) - 1
    BY <1>1, <1>2, <1>3
  <1>6. ASSUME NEW i \in 1 .. Len(s) - 1
        PROVE  (a \o b)[i] = s[IF i < p THEN i ELSE i + 1]
    <2>1. CASE i < p
      <3>1. i \in 1 .. Len(a) + Len(b) /\ i <= Len(a) /\ i \in 1 .. p - 1
        BY <1>1, <1>2, <1>5, <2>1
      <3>2. QED
        BY <1>2, <1>4, <2>1, <3>1
    <2>2. CASE ~ (i < p)
      <3>1. (a \o b)[i] = b[i - (p - 1)]
        BY <1>1, <1>2, <1>3, <1>4, <2>2
      <3>2. i - (p - 1) \in 1 .. Len(s) - p
        BY <1>1, <2>2
      <3>3. b[i - (p - 1)] = s[p + (i - (p - 1))] /\ p + (i - (p - 1)) = i + 1
        BY <1>1, <1>3, <3>2
      <3>4. QED
        BY <2>2, <3>1, <3>3
    <2>3. QED
      BY <2>1, <2>2
  <1>7. Delete(s, k) = a \o b
    BY DEF Delete, a, b, p
  <1>8. QED
    BY <1>4, <1>5, <1>6, <1>7 DEF p

\* Deleting a key leaves the other entries, one fewer when it was there.
LEMMA DeleteKeeps ==
  ASSUME NEW s \in Seq(CacheEntry), NEW k
  PROVE  /\ Delete(s, k) \in Seq(CacheEntry)
         /\ Len(Delete(s, k)) = IF Has(s, k) THEN Len(s) - 1 ELSE Len(s)
         /\ \A i \in 1 .. Len(Delete(s, k)) : \E j \in 1 .. Len(s) : Delete(s, k)[i] = s[j]
  <1>1. CASE ~ Has(s, k)
    BY <1>1 DEF Delete
  <1>2. CASE Has(s, k)
    <2>1. /\ Delete(s, k) \in Seq(CacheEntry)
          /\ Len(Delete(s, k)) = Len(s) - 1
          /\ \A i \in 1 .. Len(s) - 1 : Delete(s, k)[i] = s[IF i < Position(s, k) THEN i ELSE i + 1]
      BY <1>2, DeleteIs
    <2>2. Len(s) \in Nat
      OBVIOUS
    <2>3. \A i \in 1 .. Len(s) - 1 : (IF i < Position(s, k) THEN i ELSE i + 1) \in 1 .. Len(s)
      BY <2>2
    <2>4. QED
      BY <1>2, <2>1, <2>3
  <1>3. QED
    BY <1>1, <1>2

\* Reading leaves entries that were there, and no more of them.
LEMMA AfterGetKeeps ==
  ASSUME NEW s \in Seq(CacheEntry), NEW k, NEW t
  PROVE  /\ AfterGet(s, k, t) \in Seq(CacheEntry)
         /\ Len(AfterGet(s, k, t)) <= Len(s)
         /\ \A i \in 1 .. Len(AfterGet(s, k, t)) :
              \E j \in 1 .. Len(s) : AfterGet(s, k, t)[i] = s[j]
  <1> DEFINE d == Delete(s, k)
             e == Entry(s, k)
  <1>1. /\ d \in Seq(CacheEntry)
        /\ Len(d) = IF Has(s, k) THEN Len(s) - 1 ELSE Len(s)
        /\ \A i \in 1 .. Len(d) : \E j \in 1 .. Len(s) : d[i] = s[j]
        /\ Len(s) \in Nat /\ Len(d) \in Nat
    BY DeleteKeeps
  <1>5. Len(d) <= Len(s)
    BY <1>1
  <1> HIDE DEF d, e
  <1>2. CASE Hit(s, k, t)
    <2>1. Has(s, k)
      BY <1>2 DEF Hit
    <2>2. PICK j \in 1 .. Len(s) : e = s[j]
      BY <2>1, PositionIs DEF e
    <2>3. e \in CacheEntry
      BY <2>2
    <2>4. /\ Append(d, e) \in Seq(CacheEntry)
          /\ Len(Append(d, e)) = Len(d) + 1
          /\ \A i \in 1 .. Len(d) : Append(d, e)[i] = d[i]
          /\ Append(d, e)[Len(d) + 1] = e
      BY <1>1, <2>3, AppendProperties
    <2>5. AfterGet(s, k, t) = Append(d, e)
      BY <1>2 DEF AfterGet, d, e
    <2>6. Len(d) \in Nat /\ Len(s) \in Nat /\ Len(d) + 1 = Len(s)
      BY <1>1, <2>1
    <2>7. ASSUME NEW i \in 1 .. Len(d) + 1
          PROVE  \E m \in 1 .. Len(s) : Append(d, e)[i] = s[m]
      <3>1. CASE i = Len(d) + 1
        BY <2>2, <2>4, <3>1
      <3>2. CASE i # Len(d) + 1
        <4>1. i \in 1 .. Len(d)
          BY <2>6, <3>2
        <4>2. QED
          BY <1>1, <2>4, <4>1
      <3>3. QED
        BY <3>1, <3>2
    <2>8. Len(Append(d, e)) = Len(s)
      BY <2>4, <2>6
    <2>9. /\ Append(d, e) \in Seq(CacheEntry)
          /\ Len(Append(d, e)) <= Len(s)
          /\ \A i \in 1 .. Len(Append(d, e)) : \E m \in 1 .. Len(s) : Append(d, e)[i] = s[m]
      <3>1. \A i \in 1 .. Len(Append(d, e)) : \E m \in 1 .. Len(s) : Append(d, e)[i] = s[m]
        BY <2>6, <2>7, <2>8
      <3>2. Len(Append(d, e)) <= Len(s)
        BY <2>6, <2>8
      <3>3. Append(d, e) \in Seq(CacheEntry)
        BY <2>4
      <3>4. QED
        BY <3>1, <3>2, <3>3
    <2>10. QED
      BY <2>5, <2>9
  <1>3. CASE ~ Hit(s, k, t)
    <2>1. AfterGet(s, k, t) = d
      BY <1>3 DEF AfterGet, d
    <2>2. QED
      BY <1>1, <1>5, <2>1
  <1>4. QED
    BY <1>2, <1>3

\* Set adds the new entry, keeps within the capacity and invents nothing else.
LEMMA SetAdds ==
  ASSUME NEW s \in Seq(CacheEntry), Len(s) <= MaxEntries,
         NEW k \in Key, NEW v \in Version, NEW t \in Nat
  PROVE  /\ Set(s, k, v, t) \in Seq(CacheEntry)
         /\ Len(Set(s, k, v, t)) <= MaxEntries
         /\ \A i \in 1 .. Len(Set(s, k, v, t)) :
              \/ Set(s, k, v, t)[i] = [key |-> k, value |-> v, expiresAt |-> t + Ttl]
              \/ \E j \in 1 .. Len(s) : Set(s, k, v, t)[i] = s[j]
  <1> DEFINE r == Room(s, k)
             e == [key |-> k, value |-> v, expiresAt |-> t + Ttl]
  <1>0. Len(s) \in Nat /\ MaxEntries \in Nat \ {0} /\ Ttl \in Nat
    BY TtlLruCacheAssumption
  <1>1. /\ r \in Seq(CacheEntry)
        /\ Len(r) < MaxEntries
        /\ \A i \in 1 .. Len(r) : \E j \in 1 .. Len(s) : r[i] = s[j]
    <2>1. CASE Has(s, k)
      <3>1. Len(s) # 0
        BY <2>1, PositionIs
      <3>2. r = Delete(s, k)
        BY <2>1 DEF Room
      <3>3. /\ Delete(s, k) \in Seq(CacheEntry)
            /\ Len(Delete(s, k)) = Len(s) - 1
            /\ \A i \in 1 .. Len(Delete(s, k)) : \E j \in 1 .. Len(s) : Delete(s, k)[i] = s[j]
        BY <2>1, DeleteKeeps
      <3>4. QED
        BY <1>0, <3>1, <3>2, <3>3
    <2>2. CASE ~ Has(s, k) /\ Len(s) >= MaxEntries
      <3>1. r = Tail(s)
        BY <2>2 DEF Room
      <3>2. s # << >> /\ Len(s) >= 1
        BY <1>0, <2>2, EmptySeq
      <3>3. /\ Tail(s) \in Seq(CacheEntry) /\ Len(Tail(s)) = Len(s) - 1
            /\ \A i \in 1 .. Len(Tail(s)) : Tail(s)[i] = s[i + 1]
        BY <3>2, HeadTailProperties
      <3>4. QED
        BY <1>0, <2>2, <3>1, <3>2, <3>3
    <2>3. CASE ~ Has(s, k) /\ ~ (Len(s) >= MaxEntries)
      BY <1>0, <2>3 DEF Room
    <2>4. QED
      BY <2>1, <2>2, <2>3
  <1> HIDE DEF r
  <1>2. e \in CacheEntry
    BY <1>0 DEF CacheEntry
  <1> HIDE DEF e
  <1>3. /\ Append(r, e) \in Seq(CacheEntry)
        /\ Len(Append(r, e)) = Len(r) + 1
        /\ \A i \in 1 .. Len(r) : Append(r, e)[i] = r[i]
        /\ Append(r, e)[Len(r) + 1] = e
        /\ Len(r) \in Nat
    BY <1>1, <1>2, AppendProperties
  <1>4. Set(s, k, v, t) = Append(r, e)
    BY DEF Set, r, e
  <1>5. \A i \in 1 .. Len(r) + 1 : i \in 1 .. Len(r) \/ i = Len(r) + 1
    BY <1>3
  <1>6. QED
    BY <1>0, <1>1, <1>3, <1>4, <1>5 DEF e

-----------------------------------------------------------------------------
(* The inductive invariant *)

\* v is a version k has had, and it was still current at time t.
Recent(k, v, t) == v \in 1 .. Current(k) /\ CurrentAt(k, v, t)

ChangesArePast == \A k \in Key : \A v \in 1 .. Len(history[k]) : history[k][v] <= now

\* A fetch is no older than the timeout, and what it brings no older than the fetch.
FetchOK(c) ==
  phase[c] = "fetching" =>
    /\ awaits[c] = c
    /\ now <= startedAt[c] + PipTimeout
    /\ got[c] # 0 => Recent(arg[c].key, got[c], startedAt[c])

JoinOK(c) ==
  phase[c] = "joined" =>
    /\ ~ arg[c].forceFresh
    /\ awaits[c] \in Call
    /\ phase[awaits[c]] = "fetching"
    /\ arg[awaits[c]].key = arg[c].key

AnswerOK(c) ==
  phase[c] = "answered" =>
    /\ endedAt[c] <= now
    /\ Recent(arg[c].key, value[c], endedAt[c] - Ttl - PipTimeout)
    /\ arg[c].forceFresh => Recent(arg[c].key, value[c], startedAt[c])

ArgOK(c) == IF phase[c] = "idle" THEN arg[c] = NoArg /\ got[c] = 0 ELSE arg[c] \in Arg

CallsOK ==
  \A c \in Call :
    /\ ArgOK(c)
    /\ startedAt[c] <= now
    /\ FetchOK(c)
    /\ JoinOK(c)
    /\ AnswerOK(c)

\* An entry was read at most the timeout before it was cached.
EntryOK(e) ==
  /\ e.expiresAt <= now + Ttl
  /\ Recent(e.key, e.value, e.expiresAt - Ttl - PipTimeout)

EntriesOK == \A i \in 1 .. Len(store) : EntryOK(store[i])

\* What others may join is under way.
InFlightOK ==
  \A k \in Key : inFlight[k] # NoCall =>
    phase[inFlight[k]] = "fetching" /\ arg[inFlight[k]].key = k

Unforced(k) == \A b \in Call : arg[b] # [key |-> k, forceFresh |-> TRUE]

\* Without a forced read of its key, a fetch under way can be found.
FetchesAreFound ==
  \A c \in Call : phase[c] = "fetching" /\ Unforced(arg[c].key) => inFlight[arg[c].key] = c

IInv ==
  /\ TypeOK
  /\ ChangesArePast
  /\ CallsOK
  /\ EntriesOK
  /\ InFlightOK
  /\ FetchesAreFound

-----------------------------------------------------------------------------
(* Lemmas on versions *)

\* A version that was current at a time in the past stays one that was.
LEMMA RecentStays ==
  ASSUME TypeOK, NEW k \in Key, Change(k),
         NEW l \in Key, NEW v, NEW t \in Int, t <= now, Recent(l, v, t)
  PROVE  Recent(l, v, t)'
  <1>1. /\ history[k] \in Seq(Nat) /\ history[l] \in Seq(Nat) /\ now \in Nat
        /\ history' = [history EXCEPT ![k] = Append(history[k], now)]
    BY DEF TypeOK, Change
  <1>2. CASE l # k
    <2>1. history'[l] = history[l]
      BY <1>1, <1>2 DEF TypeOK
    <2>2. QED
      BY <2>1 DEF Recent, CurrentAt, Current
  <1>3. CASE l = k
    <2>1. history'[k] = Append(history[k], now)
      BY <1>1 DEF TypeOK
    <2>2. /\ Len(history'[k]) = Len(history[k]) + 1
          /\ \A i \in 1 .. Len(history[k]) : history'[k][i] = history[k][i]
          /\ history'[k][Len(history[k]) + 1] = now
          /\ Len(history[k]) \in Nat
      BY <1>1, <2>1, AppendProperties
    <2>3. v \in 1 .. Len(history[k]) + 1 /\ (v <= Len(history[k]) => history[k][v] >= t)
      BY <1>3 DEF Recent, CurrentAt, Current
    <2>4. CASE v = Len(history[k]) + 1
      BY <1>3, <2>2, <2>4 DEF Recent, CurrentAt, Current
    <2>5. CASE v \in 1 .. Len(history[k])
      BY <1>3, <2>2, <2>3, <2>5 DEF Recent, CurrentAt, Current
    <2>6. QED
      BY <2>2, <2>3, <2>4, <2>5
  <1>4. QED
    BY <1>2, <1>3

\* An earlier time asks less of a version.
LEMMA RecentEarlier ==
  ASSUME TypeOK, NEW k \in Key, NEW v, NEW t \in Int, NEW u \in Int, u <= t, Recent(k, v, t)
  PROVE  Recent(k, v, u)
  <1>1. history[k] \in Seq(Nat)
    BY DEF TypeOK
  <1>2. Len(history[k]) \in Nat /\ \A i \in 1 .. Len(history[k]) : history[k][i] \in Nat
    BY <1>1
  <1>3. QED
    BY <1>2 DEF Recent, CurrentAt, Current

\* The current version is current.
LEMMA CurrentIsRecent ==
  ASSUME TypeOK, NEW k \in Key, NEW t \in Int
  PROVE  Recent(k, Current(k), t) /\ Current(k) \in Version
  <1>1. history[k] \in Seq(Nat)
    BY DEF TypeOK
  <1>2. Len(history[k]) \in Nat
    BY <1>1
  <1>3. QED
    BY <1>2 DEF TypeOK, Recent, CurrentAt, Current

\* What does not concern the history keeps every version as recent as it was.
LEMMA RecentUnchanged ==
  ASSUME UNCHANGED history
  PROVE  \A k, v, t : Recent(k, v, t)' <=> Recent(k, v, t)
  BY DEF Recent, CurrentAt, Current

-----------------------------------------------------------------------------
(* The invariant is inductive *)

LEMMA InitIInv == Init => IInv
  <1> SUFFICES ASSUME Init PROVE IInv
    OBVIOUS
  <1>1. TypeOK
    BY PipCacheAssumption, TtlLruCacheAssumption, EmptySeq
       DEF Init, TypeOK, Current, Version, Phase
  <1>2. ChangesArePast /\ EntriesOK
    BY DEF Init, ChangesArePast, EntriesOK
  <1>3. CallsOK /\ InFlightOK /\ FetchesAreFound
    BY DEF Init, CallsOK, ArgOK, FetchOK, JoinOK, AnswerOK, InFlightOK, FetchesAreFound
  <1>4. QED
    BY <1>1, <1>2, <1>3 DEF IInv

\* The principal changes: what was current until now was current at every time up
\* to now.
LEMMA ChangeStep == ASSUME IInv, NEW k \in Key, Change(k) PROVE IInv'
  <1>0. /\ TypeOK /\ now \in Nat /\ Ttl \in Nat /\ PipTimeout \in Nat
        /\ UNCHANGED <<now, store, inFlight, phase, arg, startedAt, awaits, got, value, endedAt>>
    BY PipCacheAssumption, TtlLruCacheAssumption DEF IInv, TypeOK, Change
  <1>1. /\ history[k] \in Seq(Nat)
        /\ history' = [history EXCEPT ![k] = Append(history[k], now)]
        /\ Append(history[k], now) \in Seq(Nat)
        /\ Len(Append(history[k], now)) = Len(history[k]) + 1
        /\ \A i \in 1 .. Len(history[k]) : Append(history[k], now)[i] = history[k][i]
        /\ Append(history[k], now)[Len(history[k]) + 1] = now
        /\ Len(history[k]) \in Nat
    <2>1. history[k] \in Seq(Nat)
      BY <1>0 DEF TypeOK
    <2>2. QED
      BY <1>0, <2>1, AppendProperties DEF Change
  <1>2. TypeOK'
    <2>1. Len(history[k]) + 2 \in Version
      BY <1>1, PipCacheAssumption DEF Change, Current, Version
    <2>2. history' \in [Key -> Seq(Nat)]
      BY <1>0, <1>1 DEF TypeOK
    <2>3. \A l \in Key : Current(l)' \in Version
      BY <1>0, <1>1, <2>1 DEF TypeOK, Current
    <2>4. QED
      BY <1>0, <2>2, <2>3 DEF TypeOK
  <1>3. ChangesArePast'
    <2>1. ASSUME NEW l \in Key, NEW v \in 1 .. Len(history'[l])
          PROVE  history'[l][v] <= now
      <3>1. CASE l = k
        BY <1>0, <1>1, <2>1, <3>1 DEF TypeOK, IInv, ChangesArePast
      <3>2. CASE l # k
        BY <1>0, <1>1, <2>1, <3>2 DEF TypeOK, IInv, ChangesArePast
      <3>3. QED
        BY <3>1, <3>2
    <2>2. QED
      BY <1>0, <2>1 DEF ChangesArePast
  <1>4. CallsOK'
    <2> SUFFICES ASSUME NEW c \in Call
                 PROVE  /\ ArgOK(c)'
                        /\ startedAt'[c] <= now'
                        /\ FetchOK(c)' /\ JoinOK(c)' /\ AnswerOK(c)'
      BY DEF CallsOK
    <2>1. /\ ArgOK(c)
          /\ startedAt[c] <= now /\ startedAt[c] \in Nat /\ endedAt[c] \in Nat
          /\ FetchOK(c) /\ JoinOK(c) /\ AnswerOK(c)
      BY DEF IInv, CallsOK, TypeOK
    <2>2. FetchOK(c)'
      <3>1. CASE phase[c] = "fetching" /\ got[c] # 0
        <4>1. Recent(arg[c].key, got[c], startedAt[c])'
          BY <1>0, <2>1, <3>1, RecentStays DEF FetchOK, ArgOK, Arg
        <4>2. QED
          BY <1>0, <2>1, <3>1, <4>1 DEF FetchOK
      <3>2. CASE ~ (phase[c] = "fetching" /\ got[c] # 0)
        BY <1>0, <2>1, <3>2 DEF FetchOK
      <3>3. QED
        BY <3>1, <3>2
    <2>3. AnswerOK(c)'
      <3>1. CASE phase[c] = "answered"
        <4>1. arg[c].key \in Key /\ endedAt[c] - Ttl - PipTimeout \in Int
              /\ endedAt[c] - Ttl - PipTimeout <= now
          BY <1>0, <2>1, <3>1 DEF AnswerOK, ArgOK, Arg
        <4>2. Recent(arg[c].key, value[c], endedAt[c] - Ttl - PipTimeout)'
          BY <1>0, <2>1, <3>1, <4>1, RecentStays DEF AnswerOK
        <4>3. arg[c].forceFresh => Recent(arg[c].key, value[c], startedAt[c])'
          BY <1>0, <2>1, <3>1, <4>1, RecentStays DEF AnswerOK
        <4>4. QED
          BY <1>0, <2>1, <3>1, <4>2, <4>3 DEF AnswerOK
      <3>2. CASE phase[c] # "answered"
        BY <1>0, <3>2 DEF AnswerOK
      <3>3. QED
        BY <3>1, <3>2
    <2>4. QED
      BY <1>0, <2>1, <2>2, <2>3 DEF JoinOK, ArgOK
  <1>5. EntriesOK'
    <2> SUFFICES ASSUME NEW i \in 1 .. Len(store)
                 PROVE  EntryOK(store[i])'
      BY <1>0 DEF EntriesOK
    <2>1. store[i] \in CacheEntry /\ EntryOK(store[i])
      BY <1>0 DEF IInv, EntriesOK, TypeOK
    <2>2. /\ store[i].key \in Key /\ store[i].expiresAt - Ttl - PipTimeout \in Int
          /\ store[i].expiresAt - Ttl - PipTimeout <= now
      BY <1>0, <2>1 DEF CacheEntry, EntryOK
    <2>3. Recent(store[i].key, store[i].value, store[i].expiresAt - Ttl - PipTimeout)'
      BY <1>0, <2>1, <2>2, RecentStays DEF EntryOK
    <2>4. QED
      BY <1>0, <2>1, <2>3 DEF EntryOK
  <1>6. InFlightOK' /\ FetchesAreFound'
    BY <1>0 DEF IInv, InFlightOK, FetchesAreFound, Unforced
  <1>7. QED
    BY <1>2, <1>3, <1>4, <1>5, <1>6 DEF IInv

\* Time passes, but not beyond the timeout of a fetch.
LEMMA TickStep == ASSUME IInv, Tick PROVE IInv'
  <1>0. /\ now' = now + 1 /\ now \in Nat /\ now' \in 0 .. MaxTime /\ Ttl \in Nat
        /\ UNCHANGED <<history, store, inFlight, phase, arg, startedAt, awaits, got, value, endedAt>>
    BY PipCacheAssumption, TtlLruCacheAssumption DEF IInv, TypeOK, Tick
  <1>1. \A k, v, t : Recent(k, v, t)' <=> Recent(k, v, t)
    BY <1>0, RecentUnchanged
  <1>2. TypeOK'
    BY <1>0 DEF IInv, TypeOK, Current
  <1>3. ChangesArePast'
    <2>1. ASSUME NEW k \in Key, NEW v \in 1 .. Len(history[k])
          PROVE  history[k][v] <= now + 1
      <3>1. history[k][v] \in Nat /\ history[k][v] <= now
        <4>1. history[k] \in Seq(Nat)
          BY DEF IInv, TypeOK
        <4>2. QED
          BY <4>1 DEF IInv, ChangesArePast
      <3>2. QED
        BY <1>0, <3>1
    <2>2. QED
      BY <1>0, <2>1 DEF ChangesArePast
  <1>4. CallsOK'
    <2> SUFFICES ASSUME NEW c \in Call
                 PROVE  /\ ArgOK(c)'
                        /\ startedAt'[c] <= now'
                        /\ FetchOK(c)' /\ JoinOK(c)' /\ AnswerOK(c)'
      BY DEF CallsOK
    <2>1. /\ ArgOK(c)
          /\ startedAt[c] <= now /\ startedAt[c] \in Nat /\ endedAt[c] \in Nat
          /\ FetchOK(c) /\ JoinOK(c) /\ AnswerOK(c)
      BY DEF IInv, CallsOK, TypeOK
    <2>2. FetchOK(c)'
      BY <1>0, <1>1, <2>1, PipCacheAssumption DEF FetchOK, Tick
    <2>3. AnswerOK(c)'
      BY <1>0, <1>1, <2>1 DEF AnswerOK
    <2>4. QED
      BY <1>0, <2>1, <2>2, <2>3 DEF JoinOK, ArgOK
  <1>5. EntriesOK'
    <2> SUFFICES ASSUME NEW i \in 1 .. Len(store)
                 PROVE  EntryOK(store[i])'
      BY <1>0 DEF EntriesOK
    <2>1. store[i] \in CacheEntry /\ EntryOK(store[i])
      BY DEF IInv, EntriesOK, TypeOK
    <2>2. store[i].expiresAt \in Nat
      BY <2>1 DEF CacheEntry
    <2>3. QED
      BY <1>0, <1>1, <2>1, <2>2 DEF EntryOK
  <1>6. InFlightOK' /\ FetchesAreFound'
    BY <1>0 DEF IInv, InFlightOK, FetchesAreFound, Unforced
  <1>7. QED
    BY <1>2, <1>3, <1>4, <1>5, <1>6 DEF IInv

\* Entries that were there before are still right.
LEMMA EntriesKept ==
  ASSUME IInv, UNCHANGED owner, store' \in Seq(CacheEntry),
         \A i \in 1 .. Len(store') : \E j \in 1 .. Len(store) : store'[i] = store[j]
  PROVE  EntriesOK' /\ ChangesArePast'
  <1>1. \A k, v, t : Recent(k, v, t)' <=> Recent(k, v, t)
    BY RecentUnchanged
  <1>2. ASSUME NEW i \in 1 .. Len(store')
        PROVE  EntryOK(store[i])'
    <2>1. PICK j \in 1 .. Len(store) : store'[i] = store[j]
      BY <1>2
    <2>2. EntryOK(store[j])
      BY DEF IInv, EntriesOK
    <2>3. QED
      BY <1>1, <2>1, <2>2 DEF EntryOK
  <1>3. QED
    BY <1>2 DEF EntriesOK, IInv, ChangesArePast

\* A call whose fetch does not settle disturbs no other call.
LEMMA OthersKept ==
  ASSUME IInv, UNCHANGED owner, NEW c \in Call,
         phase[c] = "fetching" => phase'[c] = "fetching" /\ arg'[c] = arg[c],
         \A d \in Call \ {c} :
           /\ phase'[d] = phase[d] /\ arg'[d] = arg[d] /\ startedAt'[d] = startedAt[d]
           /\ awaits'[d] = awaits[d] /\ got'[d] = got[d] /\ value'[d] = value[d]
           /\ endedAt'[d] = endedAt[d],
         NEW d \in Call \ {c}
  PROVE  ArgOK(d)' /\ startedAt'[d] <= now' /\ FetchOK(d)' /\ JoinOK(d)' /\ AnswerOK(d)'
  <1>1. \A k, v, t : Recent(k, v, t)' <=> Recent(k, v, t)
    BY RecentUnchanged
  <1>2. ArgOK(d) /\ startedAt[d] <= now /\ FetchOK(d) /\ JoinOK(d) /\ AnswerOK(d)
    BY DEF IInv, CallsOK
  <1>3. ArgOK(d)' /\ startedAt'[d] <= now'
    BY <1>2 DEF ArgOK
  <1>4. FetchOK(d)' /\ AnswerOK(d)'
    BY <1>1, <1>2 DEF FetchOK, AnswerOK
  <1>5. JoinOK(d)'
    BY <1>2 DEF JoinOK
  <1>6. QED
    BY <1>3, <1>4, <1>5

\* The PAP reads the principal: what it reads is current, and the call not yet done.
LEMMA PapReadsStep == ASSUME IInv, NEW c \in Call, PapReads(c) PROVE IInv'
  <1>0. /\ TypeOK
        /\ phase[c] = "fetching" /\ arg[c] \in Arg /\ arg[c].key \in Key
        /\ awaits[c] = c /\ now <= startedAt[c] + PipTimeout /\ startedAt[c] <= now
        /\ startedAt[c] \in Int /\ now \in Int
    BY DEF IInv, PapReads, CallsOK, ArgOK, FetchOK, Arg, TypeOK
  <1>1. /\ got' = [got EXCEPT ![c] = Current(arg[c].key)]
        /\ UNCHANGED <<now, history, store, inFlight, phase, arg, startedAt, awaits, value, endedAt>>
    BY DEF PapReads
  <1>2. Current(arg[c].key) \in Version /\ Recent(arg[c].key, Current(arg[c].key), startedAt[c])
    BY <1>0, CurrentIsRecent
  <1>3. TypeOK'
    <2>1. got' \in [Call -> 0 .. MaxVersion]
      BY <1>0, <1>1, <1>2, PipCacheAssumption DEF TypeOK, Version
    <2>2. QED
      BY <1>0, <1>1, <2>1 DEF TypeOK, Current
  <1>4. CallsOK'
    <2>1. ASSUME NEW d \in Call \ {c}
          PROVE  ArgOK(d)' /\ startedAt'[d] <= now' /\ FetchOK(d)' /\ JoinOK(d)' /\ AnswerOK(d)'
      <3>1. \A e \in Call \ {c} : got'[e] = got[e]
        BY <1>0, <1>1 DEF TypeOK
      <3>2. QED
        BY <1>1, <3>1, OthersKept
    <2>2. FetchOK(c)'
      <3>1. got'[c] = Current(arg[c].key)
        BY <1>0, <1>1 DEF TypeOK
      <3>2. Recent(arg[c].key, got[c], startedAt[c])'
        BY <1>1, <1>2, <3>1 DEF Recent, CurrentAt, Current
      <3>3. QED
        BY <1>0, <1>1, <3>2 DEF FetchOK, Recent, CurrentAt, Current
    <2>3. ArgOK(c)' /\ startedAt'[c] <= now' /\ JoinOK(c)' /\ AnswerOK(c)'
      BY <1>0, <1>1 DEF ArgOK, JoinOK, AnswerOK
    <2>4. QED
      BY <2>1, <2>2, <2>3 DEF CallsOK
  <1>5. EntriesOK' /\ ChangesArePast'
    BY <1>0, <1>1, EntriesKept DEF TypeOK
  <1>6. InFlightOK' /\ FetchesAreFound'
    BY <1>1 DEF IInv, InFlightOK, FetchesAreFound, Unforced
  <1>7. QED
    BY <1>3, <1>4, <1>5, <1>6 DEF IInv

\* A change event drops an entry.
LEMMA InvalidateStep == ASSUME IInv, NEW k \in Key, Invalidate(k) PROVE IInv'
  <1>0. /\ TypeOK /\ store \in Seq(CacheEntry) /\ Len(store) <= MaxEntries /\ MaxEntries \in Nat
        /\ store' = Delete(store, k)
        /\ UNCHANGED <<now, history, inFlight, phase, arg, startedAt, awaits, got, value, endedAt>>
    BY TtlLruCacheAssumption DEF IInv, TypeOK, Invalidate
  <1>1. /\ store' \in Seq(CacheEntry)
        /\ Len(store') = IF Has(store, k) THEN Len(store) - 1 ELSE Len(store)
        /\ \A i \in 1 .. Len(store') : \E j \in 1 .. Len(store) : store'[i] = store[j]
    BY <1>0, DeleteKeeps
  <1>2. Len(store') <= MaxEntries
    BY <1>0, <1>1
  <1>3. TypeOK'
    BY <1>0, <1>1, <1>2 DEF TypeOK, Current
  <1>4. CallsOK'
    <2>1. \A l, v, t : Recent(l, v, t)' <=> Recent(l, v, t)
      BY <1>0, RecentUnchanged
    <2>2. ASSUME NEW c \in Call
          PROVE  ArgOK(c)' /\ startedAt'[c] <= now' /\ FetchOK(c)' /\ JoinOK(c)' /\ AnswerOK(c)'
      <3>1. ArgOK(c) /\ startedAt[c] <= now /\ FetchOK(c) /\ JoinOK(c) /\ AnswerOK(c)
        BY DEF IInv, CallsOK
      <3>2. QED
        BY <1>0, <2>1, <3>1 DEF ArgOK, FetchOK, JoinOK, AnswerOK
    <2>3. QED
      BY <2>2 DEF CallsOK
  <1>5. EntriesOK' /\ ChangesArePast'
    BY <1>0, <1>1, EntriesKept
  <1>6. InFlightOK' /\ FetchesAreFound'
    BY <1>0 DEF IInv, InFlightOK, FetchesAreFound, Unforced
  <1>7. QED
    BY <1>3, <1>4, <1>5, <1>6 DEF IInv

\* A call that has not been made has no arguments, and nobody awaits it.
LEMMA IdleCall ==
  ASSUME IInv, NEW c \in Call, phase[c] = "idle"
  PROVE  /\ arg[c] = NoArg /\ got[c] = 0
         /\ \A k \in Key : arg[c] # [key |-> k, forceFresh |-> TRUE]
         /\ \A k \in Key : inFlight[k] # c
  <1>1. arg[c] = NoArg /\ got[c] = 0
    BY DEF IInv, CallsOK, ArgOK
  <1>2. \A k \in Key : [key |-> k, forceFresh |-> TRUE] \in [key: Key, forceFresh: BOOLEAN]
    OBVIOUS
  <1>3. \A k \in Key : inFlight[k] # c
    BY PipCacheAssumption DEF IInv, InFlightOK
  <1>4. QED
    BY <1>1, <1>2, <1>3, PipCacheAssumption

\* A key without a forced read had none before the call either.
LEMMA UnforcedBefore ==
  ASSUME IInv, NEW c \in Call, phase[c] = "idle",
         \A d \in Call \ {c} : arg'[d] = arg[d],
         NEW l \in Key, \A b \in Call : arg'[b] # [key |-> l, forceFresh |-> TRUE]
  PROVE  Unforced(l)
  <1>1. ASSUME NEW b \in Call PROVE arg[b] # [key |-> l, forceFresh |-> TRUE]
    <2>1. CASE b = c
      BY <2>1, IdleCall
    <2>2. CASE b # c
      <3>1. arg'[b] # [key |-> l, forceFresh |-> TRUE] /\ arg'[b] = arg[b]
        BY <2>2
      <3>2. QED
        BY <3>1
    <2>3. QED
      BY <2>1, <2>2
  <1>2. QED
    BY <1>1 DEF Unforced

\* A hit returns an entry, which is as recent as the invariant says.
LEMMA ResolveHitStep == ASSUME IInv, NEW c \in Call, NEW k \in Key, ResolveHit(c, k) PROVE IInv'
  <1> DEFINE e == Entry(store, k)
  <1>0. /\ TypeOK /\ store \in Seq(CacheEntry) /\ Len(store) <= MaxEntries /\ Len(store) \in Nat
        /\ MaxEntries \in Nat /\ Ttl \in Nat /\ PipTimeout \in Nat /\ now \in 0 .. MaxTime
        /\ phase[c] = "idle"
        /\ Called(c, k, FALSE) /\ Hit(store, k, now) /\ store' = AfterGet(store, k, now)
        /\ phase' = [phase EXCEPT ![c] = "answered"]
        /\ value' = [value EXCEPT ![c] = e.value]
        /\ endedAt' = [endedAt EXCEPT ![c] = now]
        /\ UNCHANGED <<now, history, inFlight, awaits, got>>
    BY TtlLruCacheAssumption, PipCacheAssumption DEF IInv, TypeOK, ResolveHit
  <1>a. /\ arg'[c] = [key |-> k, forceFresh |-> FALSE]
        /\ arg'[c] \in Arg /\ arg'[c].key = k /\ ~ arg'[c].forceFresh
        /\ startedAt'[c] = now /\ now \in Int /\ now <= now
        /\ \A d \in Call \ {c} : arg'[d] = arg[d] /\ startedAt'[d] = startedAt[d]
        /\ arg' \in [Call -> Arg \cup {NoArg}]
        /\ startedAt' \in [Call -> 0 .. MaxTime]
    BY <1>0 DEF TypeOK, Arg
  <1>1. PICK i \in 1 .. Len(store) : e = store[i] /\ e.key = k
    BY <1>0, PositionIs DEF Hit
  <1>2. /\ e \in CacheEntry /\ EntryOK(e) /\ e.expiresAt \in Nat /\ e.value \in Version
        /\ e.expiresAt <= now + Ttl /\ e.expiresAt > now
    <2>1. e \in CacheEntry /\ EntryOK(e)
      BY <1>0, <1>1 DEF IInv, EntriesOK
    <2>2. QED
      BY <1>0, <2>1 DEF Hit, EntryOK, CacheEntry
  <1> HIDE DEF e
  <1>3. Recent(k, e.value, now - Ttl - PipTimeout)
    <2>1. Recent(k, e.value, e.expiresAt - Ttl - PipTimeout)
      BY <1>1, <1>2 DEF EntryOK
    <2>2. QED
      BY <1>0, <1>2, <2>1, RecentEarlier
  <1>4. /\ store' \in Seq(CacheEntry) /\ Len(store') <= Len(store) /\ Len(store') \in Nat
        /\ \A j \in 1 .. Len(store') : \E m \in 1 .. Len(store) : store'[j] = store[m]
    <2>1. /\ store' \in Seq(CacheEntry) /\ Len(store') <= Len(store)
          /\ \A j \in 1 .. Len(store') : \E m \in 1 .. Len(store) : store'[j] = store[m]
      BY <1>0, AfterGetKeeps
    <2>2. QED
      BY <2>1
  <1>5. /\ phase'[c] = "answered" /\ value'[c] = e.value /\ endedAt'[c] = now
        /\ \A d \in Call \ {c} :
             phase'[d] = phase[d] /\ value'[d] = value[d] /\ endedAt'[d] = endedAt[d]
    BY <1>0 DEF TypeOK
  <1>6. TypeOK'
    <2>1. Len(store') <= MaxEntries
      BY <1>0, <1>4
    <2>2. /\ phase' \in [Call -> Phase] /\ value' \in [Call -> 0 .. MaxVersion]
          /\ endedAt' \in [Call -> 0 .. MaxTime]
      BY <1>0, <1>2 DEF TypeOK, Phase, Version
    <2>3. QED
      BY <1>0, <1>4, <2>1, <2>2, <1>a DEF TypeOK, Current
  <1>7. CallsOK'
    <2>1. ASSUME NEW d \in Call \ {c}
          PROVE  ArgOK(d)' /\ startedAt'[d] <= now' /\ FetchOK(d)' /\ JoinOK(d)' /\ AnswerOK(d)'
      BY <1>0, <1>5, <1>a, OthersKept
    <2>2. AnswerOK(c)'
      <3>1. Recent(arg[c].key, value[c], endedAt[c] - Ttl - PipTimeout)'
        BY <1>0, <1>3, <1>5, <1>a DEF Recent, CurrentAt, Current
      <3>2. QED
        BY <1>0, <1>5, <3>1, <1>a DEF AnswerOK
    <2>3. ArgOK(c)' /\ startedAt'[c] <= now' /\ FetchOK(c)' /\ JoinOK(c)'
      BY <1>0, <1>5, <1>a DEF ArgOK, FetchOK, JoinOK
    <2>4. QED
      BY <2>1, <2>2, <2>3 DEF CallsOK
  <1>8. EntriesOK' /\ ChangesArePast'
    BY <1>0, <1>4, EntriesKept
  <1>9. InFlightOK'
    <2> SUFFICES ASSUME NEW l \in Key, inFlight[l] # NoCall
                 PROVE  phase'[inFlight[l]] = "fetching" /\ arg'[inFlight[l]].key = l
      BY <1>0 DEF InFlightOK
    <2>1. inFlight[l] \in Call \ {c}
      BY <1>0, IdleCall DEF TypeOK
    <2>2. QED
      BY <1>5, <1>a, <2>1 DEF IInv, InFlightOK
  <1>10. FetchesAreFound'
    <2> SUFFICES ASSUME NEW d \in Call, phase'[d] = "fetching", Unforced(arg[d].key)'
                 PROVE  inFlight[arg[d].key] = d
      BY <1>0, <1>5, <1>a DEF FetchesAreFound
    <2>1. d # c /\ phase[d] = "fetching" /\ arg'[d] = arg[d] /\ arg[d].key \in Key
      BY <1>0, <1>5, <1>a DEF IInv, CallsOK, ArgOK, Arg
    <2>2. \A b \in Call : arg'[b] # [key |-> arg[d].key, forceFresh |-> TRUE]
      BY <2>1 DEF Unforced
    <2>4. Unforced(arg[d].key)
      BY <1>0, <1>a, <2>1, <2>2, UnforcedBefore
    <2>3. QED
      BY <2>1, <2>4 DEF IInv, FetchesAreFound
  <1>11. QED
    BY <1>6, <1>7, <1>8, <1>9, <1>10 DEF IInv

\* A call joins a fetch that is under way for its key.
LEMMA ResolveJoinStep == ASSUME IInv, NEW c \in Call, NEW k \in Key, ResolveJoin(c, k) PROVE IInv'
  <1>0. /\ TypeOK /\ store \in Seq(CacheEntry) /\ Len(store) <= MaxEntries /\ Len(store) \in Nat
        /\ MaxEntries \in Nat /\ PipTimeout \in Nat /\ now \in 0 .. MaxTime /\ now \in Nat
        /\ phase[c] = "idle"
        /\ Called(c, k, FALSE) /\ inFlight[k] # NoCall
        /\ store' = AfterGet(store, k, now)
        /\ phase' = [phase EXCEPT ![c] = "joined"]
        /\ awaits' = [awaits EXCEPT ![c] = inFlight[k]]
        /\ UNCHANGED <<now, history, got, value, endedAt>>
        /\ UNCHANGED inFlight
    <2>1. /\ TypeOK /\ store \in Seq(CacheEntry) /\ Len(store) <= MaxEntries /\ Len(store) \in Nat
          /\ MaxEntries \in Nat /\ PipTimeout \in Nat /\ now \in 0 .. MaxTime /\ now \in Nat
      BY TtlLruCacheAssumption, PipCacheAssumption DEF IInv, TypeOK
    <2>2. /\ phase[c] = "idle" /\ Called(c, k, FALSE) /\ inFlight[k] # NoCall
          /\ store' = AfterGet(store, k, now)
          /\ phase' = [phase EXCEPT ![c] = "joined"]
          /\ awaits' = [awaits EXCEPT ![c] = inFlight[k]]
          /\ UNCHANGED <<now, history, got, value, endedAt>>
          /\ UNCHANGED inFlight
      BY DEF ResolveJoin
    <2>3. QED
      BY <2>1, <2>2
  <1>1. /\ arg'[c] = [key |-> k, forceFresh |-> FALSE]
        /\ arg'[c] \in Arg /\ arg'[c].key = k /\ ~ arg'[c].forceFresh
        /\ startedAt'[c] = now
        /\ \A d \in Call \ {c} : arg'[d] = arg[d] /\ startedAt'[d] = startedAt[d]
        /\ arg' \in [Call -> Arg \cup {NoArg}]
        /\ startedAt' \in [Call -> 0 .. MaxTime]
    BY <1>0 DEF TypeOK, Arg
  <1>2. /\ phase'[c] = "joined" /\ awaits'[c] = inFlight[k]
        /\ \A d \in Call \ {c} : phase'[d] = phase[d] /\ awaits'[d] = awaits[d]
    BY <1>0 DEF TypeOK
  <1>3. /\ store' \in Seq(CacheEntry) /\ Len(store') <= MaxEntries
        /\ \A j \in 1 .. Len(store') : \E m \in 1 .. Len(store) : store'[j] = store[m]
    <2>1. /\ store' \in Seq(CacheEntry) /\ Len(store') <= Len(store)
          /\ \A j \in 1 .. Len(store') : \E m \in 1 .. Len(store) : store'[j] = store[m]
      BY <1>0, AfterGetKeeps
    <2>2. Len(store') \in Nat
      BY <2>1
    <2>3. Len(store) \in Nat /\ Len(store) <= MaxEntries /\ MaxEntries \in Nat
      BY <1>0
    <2>4. Len(store') <= MaxEntries
      BY <2>1, <2>2, <2>3
    <2>5. QED
      BY <2>1, <2>4
  <1>4. TypeOK'
    <2>1. phase' \in [Call -> Phase] /\ awaits' \in [Call -> Call \cup {NoCall}]
      BY <1>0 DEF TypeOK, Phase
    <2>2. inFlight' \in [Key -> Call \cup {NoCall}]
      BY <1>0 DEF TypeOK
    <2>3. QED
      BY <1>0, <1>1, <1>3, <2>1, <2>2 DEF TypeOK, Current
  <1>5. CallsOK'
    <2>1. ASSUME NEW d \in Call \ {c}
          PROVE  ArgOK(d)' /\ startedAt'[d] <= now' /\ FetchOK(d)' /\ JoinOK(d)' /\ AnswerOK(d)'
      BY <1>0, <1>1, <1>2, OthersKept
    <2>2. inFlight[k] \in Call /\ phase[inFlight[k]] = "fetching" /\ arg[inFlight[k]].key = k
      BY <1>0 DEF IInv, InFlightOK, TypeOK
    <2>3. FetchOK(c)' /\ JoinOK(c)'
      BY <1>0, <1>1, <1>2, <2>2 DEF FetchOK, JoinOK
    <2>4. ArgOK(c)' /\ startedAt'[c] <= now' /\ AnswerOK(c)'
      BY <1>0, <1>1, <1>2 DEF ArgOK, AnswerOK
    <2>5. QED
      BY <2>1, <2>3, <2>4 DEF CallsOK
  <1>6. EntriesOK' /\ ChangesArePast'
    BY <1>0, <1>3, EntriesKept
  <1>7. InFlightOK'
    <2> SUFFICES ASSUME NEW l \in Key, inFlight[l] # NoCall
                 PROVE  phase'[inFlight[l]] = "fetching" /\ arg'[inFlight[l]].key = l
      BY <1>0 DEF InFlightOK
    <2>1. inFlight[l] \in Call \ {c}
      BY <1>0, IdleCall DEF TypeOK
    <2>2. QED
      BY <1>1, <1>2, <2>1 DEF IInv, InFlightOK
  <1>8. FetchesAreFound'
    <2> SUFFICES ASSUME NEW d \in Call, phase'[d] = "fetching", Unforced(arg[d].key)'
                 PROVE  inFlight'[arg'[d].key] = d
      BY DEF FetchesAreFound
    <2>1. \A b \in Call : arg'[b] # [key |-> arg'[d].key, forceFresh |-> TRUE]
      BY DEF Unforced
    <2>2. d # c
      BY <1>2
    <2>3. phase[d] = "fetching" /\ arg'[d] = arg[d] /\ arg[d].key \in Key
      BY <1>1, <1>2, <2>2 DEF IInv, CallsOK, ArgOK, Arg
    <2>4. Unforced(arg[d].key)
      BY <1>0, <1>1, <2>1, <2>3, UnforcedBefore
    <2>5. QED
      BY <1>0, <2>3, <2>4 DEF IInv, FetchesAreFound
  <1>9. QED
    BY <1>4, <1>5, <1>6, <1>7, <1>8 DEF IInv

\* A call starts a fetch for its key, where there was none.
LEMMA ResolveFetchStep == ASSUME IInv, NEW c \in Call, NEW k \in Key, ResolveFetch(c, k) PROVE IInv'
  <1>0. /\ TypeOK /\ store \in Seq(CacheEntry) /\ Len(store) <= MaxEntries /\ Len(store) \in Nat
        /\ MaxEntries \in Nat /\ PipTimeout \in Nat /\ now \in 0 .. MaxTime /\ now \in Nat
        /\ phase[c] = "idle"
        /\ Called(c, k, FALSE) /\ inFlight[k] = NoCall
        /\ store' = AfterGet(store, k, now)
        /\ phase' = [phase EXCEPT ![c] = "fetching"]
        /\ awaits' = [awaits EXCEPT ![c] = c]
        /\ UNCHANGED <<now, history, got, value, endedAt>>
        /\ inFlight' = [inFlight EXCEPT ![k] = c]
    BY TtlLruCacheAssumption, PipCacheAssumption DEF IInv, TypeOK, ResolveFetch
  <1>1. /\ arg'[c] = [key |-> k, forceFresh |-> FALSE]
        /\ arg'[c] \in Arg /\ arg'[c].key = k /\ ~ arg'[c].forceFresh
        /\ startedAt'[c] = now
        /\ \A d \in Call \ {c} : arg'[d] = arg[d] /\ startedAt'[d] = startedAt[d]
        /\ arg' \in [Call -> Arg \cup {NoArg}]
        /\ startedAt' \in [Call -> 0 .. MaxTime]
    BY <1>0 DEF TypeOK, Arg
  <1>2. /\ phase'[c] = "fetching" /\ awaits'[c] = c
        /\ \A d \in Call \ {c} : phase'[d] = phase[d] /\ awaits'[d] = awaits[d]
    BY <1>0 DEF TypeOK
  <1>3. /\ store' \in Seq(CacheEntry) /\ Len(store') <= MaxEntries
        /\ \A j \in 1 .. Len(store') : \E m \in 1 .. Len(store) : store'[j] = store[m]
    <2>1. /\ store' \in Seq(CacheEntry) /\ Len(store') <= Len(store)
          /\ \A j \in 1 .. Len(store') : \E m \in 1 .. Len(store) : store'[j] = store[m]
      BY <1>0, AfterGetKeeps
    <2>2. Len(store') \in Nat
      BY <2>1
    <2>3. Len(store) \in Nat /\ Len(store) <= MaxEntries /\ MaxEntries \in Nat
      BY <1>0
    <2>4. Len(store') <= MaxEntries
      BY <2>1, <2>2, <2>3
    <2>5. QED
      BY <2>1, <2>4
  <1>4. TypeOK'
    <2>1. phase' \in [Call -> Phase] /\ awaits' \in [Call -> Call \cup {NoCall}]
      BY <1>0 DEF TypeOK, Phase
    <2>2. inFlight' \in [Key -> Call \cup {NoCall}]
      BY <1>0 DEF TypeOK
    <2>3. QED
      BY <1>0, <1>1, <1>3, <2>1, <2>2 DEF TypeOK, Current
  <1>5. CallsOK'
    <2>1. ASSUME NEW d \in Call \ {c}
          PROVE  ArgOK(d)' /\ startedAt'[d] <= now' /\ FetchOK(d)' /\ JoinOK(d)' /\ AnswerOK(d)'
      BY <1>0, <1>1, <1>2, OthersKept
    <2>2. got[c] = 0
      BY <1>0, IdleCall
    <2>3. FetchOK(c)' /\ JoinOK(c)'
      BY <1>0, <1>1, <1>2, <2>2 DEF FetchOK, JoinOK
    <2>4. ArgOK(c)' /\ startedAt'[c] <= now' /\ AnswerOK(c)'
      BY <1>0, <1>1, <1>2 DEF ArgOK, AnswerOK
    <2>5. QED
      BY <2>1, <2>3, <2>4 DEF CallsOK
  <1>6. EntriesOK' /\ ChangesArePast'
    BY <1>0, <1>3, EntriesKept
  <1>7. InFlightOK'
    <2> SUFFICES ASSUME NEW l \in Key, inFlight'[l] # NoCall
                 PROVE  phase'[inFlight'[l]] = "fetching" /\ arg'[inFlight'[l]].key = l
      BY DEF InFlightOK
    <2>1. CASE l = k
      BY <1>0, <1>1, <1>2, <2>1 DEF TypeOK
    <2>2. CASE l # k
      <3>1. inFlight'[l] = inFlight[l] /\ inFlight[l] \in Call \ {c}
        BY <1>0, <2>2, IdleCall DEF TypeOK
      <3>2. QED
        BY <1>1, <1>2, <3>1 DEF IInv, InFlightOK
    <2>3. QED
      BY <2>1, <2>2
  <1>8. FetchesAreFound'
    <2> SUFFICES ASSUME NEW d \in Call, phase'[d] = "fetching", Unforced(arg[d].key)'
                 PROVE  inFlight'[arg'[d].key] = d
      BY DEF FetchesAreFound
    <2>1. \A b \in Call : arg'[b] # [key |-> arg'[d].key, forceFresh |-> TRUE]
      BY DEF Unforced
    <2>2. CASE d = c
      BY <1>0, <1>1, <2>2 DEF TypeOK
    <2>3. CASE d # c
      <3>1. phase[d] = "fetching" /\ arg'[d] = arg[d] /\ arg[d].key \in Key
        BY <1>1, <1>2, <2>3 DEF IInv, CallsOK, ArgOK, Arg
      <3>2. Unforced(arg[d].key)
        BY <1>0, <1>1, <2>1, <3>1, UnforcedBefore
      <3>3. inFlight[arg[d].key] = d
        BY <3>1, <3>2 DEF IInv, FetchesAreFound
      <3>4. arg[d].key # k
        BY <1>0, <3>3, PipCacheAssumption
      <3>5. QED
        BY <1>0, <3>1, <3>3, <3>4 DEF TypeOK
    <2>4. QED
      BY <2>2, <2>3
  <1>9. QED
    BY <1>4, <1>5, <1>6, <1>7, <1>8 DEF IInv

\* A forced call starts a fetch that nobody can find.
LEMMA ResolveFreshStep == ASSUME IInv, NEW c \in Call, NEW k \in Key, ResolveFresh(c, k) PROVE IInv'
  <1>0. /\ TypeOK /\ store \in Seq(CacheEntry) /\ Len(store) <= MaxEntries /\ Len(store) \in Nat
        /\ MaxEntries \in Nat /\ PipTimeout \in Nat /\ now \in 0 .. MaxTime /\ now \in Nat
        /\ phase[c] = "idle"
        /\ Called(c, k, TRUE)
        /\ UNCHANGED store
        /\ phase' = [phase EXCEPT ![c] = "fetching"]
        /\ awaits' = [awaits EXCEPT ![c] = c]
        /\ UNCHANGED <<now, history, got, value, endedAt>>
        /\ UNCHANGED inFlight
    BY TtlLruCacheAssumption, PipCacheAssumption DEF IInv, TypeOK, ResolveFresh
  <1>1. /\ arg'[c] = [key |-> k, forceFresh |-> TRUE]
        /\ arg'[c] \in Arg /\ arg'[c].key = k /\ arg'[c].forceFresh
        /\ startedAt'[c] = now
        /\ \A d \in Call \ {c} : arg'[d] = arg[d] /\ startedAt'[d] = startedAt[d]
        /\ arg' \in [Call -> Arg \cup {NoArg}]
        /\ startedAt' \in [Call -> 0 .. MaxTime]
    BY <1>0 DEF TypeOK, Arg
  <1>2. /\ phase'[c] = "fetching" /\ awaits'[c] = c
        /\ \A d \in Call \ {c} : phase'[d] = phase[d] /\ awaits'[d] = awaits[d]
    BY <1>0 DEF TypeOK
  <1>3. /\ store' \in Seq(CacheEntry) /\ Len(store') <= MaxEntries
        /\ \A j \in 1 .. Len(store') : \E m \in 1 .. Len(store) : store'[j] = store[m]
    BY <1>0
  <1>4. TypeOK'
    <2>1. phase' \in [Call -> Phase] /\ awaits' \in [Call -> Call \cup {NoCall}]
      BY <1>0 DEF TypeOK, Phase
    <2>2. inFlight' \in [Key -> Call \cup {NoCall}]
      BY <1>0 DEF TypeOK
    <2>3. QED
      BY <1>0, <1>1, <1>3, <2>1, <2>2 DEF TypeOK, Current
  <1>5. CallsOK'
    <2>1. ASSUME NEW d \in Call \ {c}
          PROVE  ArgOK(d)' /\ startedAt'[d] <= now' /\ FetchOK(d)' /\ JoinOK(d)' /\ AnswerOK(d)'
      BY <1>0, <1>1, <1>2, OthersKept
    <2>2. got[c] = 0
      BY <1>0, IdleCall
    <2>3. FetchOK(c)' /\ JoinOK(c)'
      BY <1>0, <1>1, <1>2, <2>2 DEF FetchOK, JoinOK
    <2>4. ArgOK(c)' /\ startedAt'[c] <= now' /\ AnswerOK(c)'
      BY <1>0, <1>1, <1>2 DEF ArgOK, AnswerOK
    <2>5. QED
      BY <2>1, <2>3, <2>4 DEF CallsOK
  <1>6. EntriesOK' /\ ChangesArePast'
    BY <1>0, <1>3, EntriesKept
  <1>7. InFlightOK'
    <2> SUFFICES ASSUME NEW l \in Key, inFlight[l] # NoCall
                 PROVE  phase'[inFlight[l]] = "fetching" /\ arg'[inFlight[l]].key = l
      BY <1>0 DEF InFlightOK
    <2>1. inFlight[l] \in Call \ {c}
      BY <1>0, IdleCall DEF TypeOK
    <2>2. QED
      BY <1>1, <1>2, <2>1 DEF IInv, InFlightOK
  <1>8. FetchesAreFound'
    <2> SUFFICES ASSUME NEW d \in Call, phase'[d] = "fetching", Unforced(arg[d].key)'
                 PROVE  inFlight'[arg'[d].key] = d
      BY DEF FetchesAreFound
    <2>1. \A b \in Call : arg'[b] # [key |-> arg'[d].key, forceFresh |-> TRUE]
      BY DEF Unforced
    <2>2. d # c
      BY <1>1, <2>1
    <2>3. phase[d] = "fetching" /\ arg'[d] = arg[d] /\ arg[d].key \in Key
      BY <1>1, <1>2, <2>2 DEF IInv, CallsOK, ArgOK, Arg
    <2>4. Unforced(arg[d].key)
      BY <1>0, <1>1, <2>1, <2>3, UnforcedBefore
    <2>5. QED
      BY <1>0, <2>3, <2>4 DEF IInv, FetchesAreFound
  <1>9. QED
    BY <1>4, <1>5, <1>6, <1>7, <1>8 DEF IInv

\* A call that settles, and those that await it, leave the other calls as they
\* were: none of them awaits it.
LEMMA SettleKeeps ==
  ASSUME IInv, NEW c \in Call, phase[c] = "fetching", NEW done \in {"answered", "failed"},
         UNCHANGED <<owner, arg, startedAt, awaits, got>>,
         inFlight' = Forgot(c),
         phase' = [d \in Call |-> IF d \in Awaiting(c) THEN done ELSE phase[d]],
         endedAt' = [d \in Call |-> IF d \in Awaiting(c) THEN now ELSE endedAt[d]],
         \A d \in Call \ Awaiting(c) : value'[d] = value[d]
  PROVE  /\ c \in Awaiting(c) /\ arg[c] \in Arg
         /\ \A d \in Call \ Awaiting(c) :
              ArgOK(d)' /\ startedAt'[d] <= now' /\ FetchOK(d)' /\ JoinOK(d)' /\ AnswerOK(d)'
         /\ \A d \in Awaiting(c) :
              /\ ArgOK(d)' /\ startedAt'[d] <= now' /\ FetchOK(d)' /\ JoinOK(d)'
              /\ phase'[d] = done /\ endedAt'[d] = now
              /\ arg[d].key = arg[c].key
              /\ d = c \/ ~ arg[d].forceFresh
         /\ InFlightOK' /\ FetchesAreFound'
         /\ inFlight' \in [Key -> Call \cup {NoCall}]
         /\ phase' \in [Call -> Phase]
         /\ endedAt' \in [Call -> 0 .. MaxTime]
  <1>0. /\ \A d \in Call : ArgOK(d) /\ startedAt[d] <= now /\ FetchOK(d) /\ JoinOK(d) /\ AnswerOK(d)
        /\ TypeOK /\ NoCall \notin Call
    BY PipCacheAssumption DEF IInv, CallsOK
  <1>1. /\ c \in Awaiting(c) /\ arg[c] \in Arg /\ arg[c].key \in Key
        /\ inFlight' = [inFlight EXCEPT ![arg[c].key] = NoCall]
        /\ \A d \in Call \ Awaiting(c) : phase'[d] = phase[d] /\ endedAt'[d] = endedAt[d]
        /\ \A d \in Awaiting(c) : d \in Call /\ phase'[d] = done /\ endedAt'[d] = now
    BY <1>0 DEF Awaiting, FetchOK, ArgOK, Arg
  <1>2. \A d \in Call : phase[d] = "fetching" /\ d # c => d \notin Awaiting(c)
    BY <1>0 DEF FetchOK, Awaiting
  <1>3. \A k, v, t : Recent(k, v, t)' <=> Recent(k, v, t)
    BY RecentUnchanged
  <1>4. ASSUME NEW d \in Call \ Awaiting(c)
        PROVE  ArgOK(d)' /\ startedAt'[d] <= now' /\ FetchOK(d)' /\ JoinOK(d)' /\ AnswerOK(d)'
    <2>1. ArgOK(d)' /\ startedAt'[d] <= now'
      BY <1>0, <1>1 DEF ArgOK
    <2>2. FetchOK(d)' /\ AnswerOK(d)'
      BY <1>0, <1>1, <1>3 DEF FetchOK, AnswerOK
    <2>3. JoinOK(d)'
      <3>1. CASE phase[d] = "joined"
        <4>1. awaits[d] # c
          BY <3>1 DEF Awaiting
        <4>2. awaits[d] \in Call \ Awaiting(c)
          BY <1>0, <1>2, <3>1, <4>1 DEF JoinOK
        <4>3. QED
          BY <1>0, <1>1, <3>1, <4>2 DEF JoinOK
      <3>2. CASE phase[d] # "joined"
        BY <1>1, <3>2 DEF JoinOK
      <3>3. QED
        BY <3>1, <3>2
    <2>4. QED
      BY <2>1, <2>2, <2>3
  <1>5. ASSUME NEW d \in Awaiting(c)
        PROVE  /\ ArgOK(d)' /\ startedAt'[d] <= now' /\ FetchOK(d)' /\ JoinOK(d)'
               /\ phase'[d] = done /\ endedAt'[d] = now
               /\ arg[d].key = arg[c].key
               /\ d = c \/ ~ arg[d].forceFresh
    <2>1. d \in Call /\ phase[d] \in {"fetching", "joined"} /\ awaits[d] = c
      BY DEF Awaiting
    <2>2. arg[d].key = arg[c].key /\ (d = c \/ ~ arg[d].forceFresh)
      BY <1>0, <2>1 DEF FetchOK, JoinOK
    <2>3. ArgOK(d)' /\ startedAt'[d] <= now' /\ FetchOK(d)' /\ JoinOK(d)'
      BY <1>0, <1>1, <2>1 DEF ArgOK, FetchOK, JoinOK
    <2>4. QED
      BY <1>1, <2>2, <2>3
  <1>6. InFlightOK'
    <2> SUFFICES ASSUME NEW l \in Key, inFlight'[l] # NoCall
                 PROVE  phase'[inFlight'[l]] = "fetching" /\ arg[inFlight'[l]].key = l
      BY DEF InFlightOK
    <2>1. l # arg[c].key /\ inFlight'[l] = inFlight[l] /\ inFlight[l] \in Call
      BY <1>0, <1>1 DEF TypeOK
    <2>2. phase[inFlight[l]] = "fetching" /\ arg[inFlight[l]].key = l
      BY <2>1 DEF IInv, InFlightOK
    <2>3. inFlight[l] \in Call \ Awaiting(c)
      BY <1>2, <2>1, <2>2
    <2>4. QED
      BY <1>1, <2>1, <2>2, <2>3
  <1>7. FetchesAreFound'
    <2> SUFFICES ASSUME NEW d \in Call, phase'[d] = "fetching", Unforced(arg[d].key)'
                 PROVE  inFlight'[arg[d].key] = d
      BY DEF FetchesAreFound
    <2>1. d \notin Awaiting(c) /\ phase[d] = "fetching" /\ d # c
      BY <1>1
    <2>2. Unforced(arg[d].key)
      BY DEF Unforced
    <2>3. inFlight[arg[d].key] = d
      BY <2>1, <2>2 DEF IInv, FetchesAreFound
    <2>4. arg[d].key # arg[c].key
      BY <2>1, <2>2, <2>3 DEF IInv, FetchesAreFound
    <2>5. arg[d].key \in Key
      BY <1>0, <2>1 DEF ArgOK, Arg
    <2>6. QED
      BY <1>0, <1>1, <2>3, <2>4, <2>5 DEF TypeOK
  <1>8. inFlight' \in [Key -> Call \cup {NoCall}]
    BY <1>0, <1>1 DEF TypeOK
  <1>9. phase' \in [Call -> Phase] /\ endedAt' \in [Call -> 0 .. MaxTime]
    BY <1>0 DEF TypeOK, Phase
  <1>10. QED
    BY <1>1, <1>4, <1>5, <1>6, <1>7, <1>8, <1>9

\* A fetch that arrives was sent at most the timeout ago, so that what it brings
\* is recent enough for the cache and for every call that awaits it.
LEMMA FetchOkStep == ASSUME IInv, NEW c \in Call, FetchOk(c) PROVE IInv'
  <1> DEFINE k == arg[c].key
  <1>0. /\ TypeOK /\ store \in Seq(CacheEntry) /\ Len(store) <= MaxEntries
        /\ now \in Nat /\ Ttl \in Nat /\ PipTimeout \in Nat /\ startedAt[c] \in Nat
        /\ startedAt[c] <= now /\ now <= startedAt[c] + PipTimeout
        /\ phase[c] = "fetching" /\ got[c] # 0 /\ Recent(arg[c].key, got[c], startedAt[c])
        /\ arg[c] \in Arg /\ arg[c].key \in Key /\ got[c] \in Version
    BY TtlLruCacheAssumption, PipCacheAssumption
       DEF IInv, TypeOK, CallsOK, FetchOK, FetchOk, ArgOK, Arg, Version
  <1>1. /\ store' = Set(store, k, got[c], now)
        /\ inFlight' = Forgot(c)
        /\ phase' = [d \in Call |-> IF d \in Awaiting(c) THEN "answered" ELSE phase[d]]
        /\ value' = [d \in Call |-> IF d \in Awaiting(c) THEN got[c] ELSE value[d]]
        /\ endedAt' = [d \in Call |-> IF d \in Awaiting(c) THEN now ELSE endedAt[d]]
        /\ UNCHANGED <<owner, arg, startedAt, awaits, got>>
    BY DEF FetchOk
  <1>2. /\ c \in Awaiting(c)
        /\ \A d \in Call \ Awaiting(c) :
             ArgOK(d)' /\ startedAt'[d] <= now' /\ FetchOK(d)' /\ JoinOK(d)' /\ AnswerOK(d)'
        /\ \A d \in Awaiting(c) :
             /\ ArgOK(d)' /\ startedAt'[d] <= now' /\ FetchOK(d)' /\ JoinOK(d)'
             /\ phase'[d] = "answered" /\ endedAt'[d] = now
             /\ arg[d].key = k
             /\ d = c \/ ~ arg[d].forceFresh
        /\ InFlightOK' /\ FetchesAreFound'
        /\ inFlight' \in [Key -> Call \cup {NoCall}]
        /\ phase' \in [Call -> Phase]
        /\ endedAt' \in [Call -> 0 .. MaxTime]
    <2>1. \A d \in Call \ Awaiting(c) : value'[d] = value[d]
      BY <1>1
    <2>2. QED
      BY <1>0, <1>1, <2>1, SettleKeeps
  <1> HIDE DEF k
  <1>3. k = arg[c].key /\ k \in Key
    BY <1>0 DEF k
  <1>4. Recent(k, got[c], now - PipTimeout) /\ Recent(k, got[c], now - Ttl - PipTimeout)
    <2>1. now - PipTimeout \in Int /\ now - Ttl - PipTimeout \in Int /\ startedAt[c] \in Int
      BY <1>0
    <2>2. now - PipTimeout <= startedAt[c] /\ now - Ttl - PipTimeout <= startedAt[c]
      BY <1>0
    <2>3. QED
      BY <1>0, <1>3, <2>1, <2>2, RecentEarlier
  <1>5. \A l, v, t : Recent(l, v, t)' <=> Recent(l, v, t)
    BY <1>1, RecentUnchanged
  <1>6. /\ store' \in Seq(CacheEntry)
        /\ Len(store') <= MaxEntries
        /\ \A i \in 1 .. Len(store') :
             \/ store'[i] = [key |-> k, value |-> got[c], expiresAt |-> now + Ttl]
             \/ \E j \in 1 .. Len(store) : store'[i] = store[j]
    BY <1>0, <1>1, <1>3, SetAdds
  <1>7. TypeOK'
    <2>1. value' \in [Call -> 0 .. MaxVersion]
      BY <1>0, <1>1 DEF TypeOK
    <2>2. QED
      BY <1>0, <1>1, <1>2, <1>6, <2>1 DEF TypeOK, Current
  <1>8. CallsOK'
    <2>1. ASSUME NEW d \in Awaiting(c)
          PROVE  AnswerOK(d)'
      <3>1. d \in Call /\ value'[d] = got[c] /\ endedAt'[d] = now /\ now' = now
            /\ arg'[d] = arg[d] /\ startedAt'[d] = startedAt[d] /\ arg[d].key = k
        BY <1>1, <1>2 DEF Awaiting
      <3>2. Recent(arg[d].key, value[d], endedAt[d] - Ttl - PipTimeout)'
        BY <1>1, <1>4, <3>1 DEF Recent, CurrentAt, Current
      <3>3. arg'[d].forceFresh => Recent(arg[d].key, value[d], startedAt[d])'
        <4>1. CASE d = c
          BY <1>0, <1>1, <3>1, <4>1 DEF Recent, CurrentAt, Current
        <4>2. CASE d # c
          BY <1>2, <3>1, <4>2
        <4>3. QED
          BY <4>1, <4>2
      <3>4. QED
        BY <1>0, <3>1, <3>2, <3>3 DEF AnswerOK
    <2>2. QED
      BY <1>2, <2>1 DEF CallsOK
  <1>9. EntriesOK'
    <2> SUFFICES ASSUME NEW i \in 1 .. Len(store')
                 PROVE  EntryOK(store[i])'
      BY DEF EntriesOK
    <2>1. CASE store'[i] = [key |-> k, value |-> got[c], expiresAt |-> now + Ttl]
      <3>1. now' = now
        BY <1>0, <1>1
      <3>2. store'[i].key = k /\ store'[i].value = got[c] /\ store'[i].expiresAt = now + Ttl
        BY <2>1
      <3>3. Recent(store[i].key, store[i].value, store[i].expiresAt - Ttl - PipTimeout)'
        <4>1. store'[i].expiresAt - Ttl - PipTimeout = now - PipTimeout
          BY <1>0, <3>2
        <4>2. history' = history
          BY <1>1
        <4>3. QED
          BY <1>4, <3>2, <4>1, <4>2 DEF Recent, CurrentAt, Current
      <3>4. QED
        BY <1>0, <3>1, <3>2, <3>3 DEF EntryOK
    <2>2. CASE \E j \in 1 .. Len(store) : store'[i] = store[j]
      <3>1. PICK j \in 1 .. Len(store) : store'[i] = store[j]
        BY <2>2
      <3>2. EntryOK(store[j])
        BY DEF IInv, EntriesOK
      <3>3. QED
        BY <1>1, <1>5, <3>1, <3>2 DEF EntryOK
    <2>3. QED
      BY <1>6, <2>1, <2>2
  <1>10. ChangesArePast'
    BY <1>1 DEF IInv, ChangesArePast
  <1>11. QED
    BY <1>2, <1>7, <1>8, <1>9, <1>10 DEF IInv

\* A fetch that fails answers nobody.
LEMMA FetchFailsStep == ASSUME IInv, NEW c \in Call, FetchFails(c) PROVE IInv'
  <1>0. /\ TypeOK /\ store \in Seq(CacheEntry) /\ phase[c] = "fetching"
        /\ inFlight' = Forgot(c)
        /\ phase' = [d \in Call |-> IF d \in Awaiting(c) THEN "failed" ELSE phase[d]]
        /\ endedAt' = [d \in Call |-> IF d \in Awaiting(c) THEN now ELSE endedAt[d]]
        /\ UNCHANGED <<owner, store, arg, startedAt, awaits, got, value>>
    BY DEF IInv, TypeOK, FetchFails
  <1>1. /\ \A d \in Call \ Awaiting(c) :
             ArgOK(d)' /\ startedAt'[d] <= now' /\ FetchOK(d)' /\ JoinOK(d)' /\ AnswerOK(d)'
        /\ \A d \in Awaiting(c) :
             /\ ArgOK(d)' /\ startedAt'[d] <= now' /\ FetchOK(d)' /\ JoinOK(d)'
             /\ phase'[d] = "failed"
        /\ InFlightOK' /\ FetchesAreFound'
        /\ inFlight' \in [Key -> Call \cup {NoCall}]
        /\ phase' \in [Call -> Phase]
        /\ endedAt' \in [Call -> 0 .. MaxTime]
    <2>1. \A d \in Call \ Awaiting(c) : value'[d] = value[d]
      BY <1>0
    <2>2. QED
      BY <1>0, <2>1, SettleKeeps
  <1>2. \A d \in Awaiting(c) : AnswerOK(d)'
    BY <1>1 DEF AnswerOK
  <1>3. TypeOK'
    BY <1>0, <1>1 DEF TypeOK, Current
  <1>4. CallsOK'
    BY <1>1, <1>2 DEF CallsOK
  <1>5. EntriesOK' /\ ChangesArePast'
    BY <1>0, EntriesKept
  <1>6. QED
    BY <1>1, <1>3, <1>4, <1>5 DEF IInv

\* Every step preserves the invariant.
LEMMA StepIInv == IInv /\ [Next]_vars => IInv'
  <1> SUFFICES ASSUME IInv, [Next]_vars PROVE IInv'
    OBVIOUS
  <1>1. ASSUME NEW c \in Call, Resolve(c) PROVE IInv'
    BY <1>1, ResolveHitStep, ResolveJoinStep, ResolveFetchStep, ResolveFreshStep DEF Resolve
  <1>2. ASSUME NEW c \in Call, PapReads(c) PROVE IInv'
    BY <1>2, PapReadsStep
  <1>3. ASSUME NEW c \in Call, Settle(c) PROVE IInv'
    BY <1>3, FetchOkStep, FetchFailsStep DEF Settle
  <1>4. ASSUME NEW k \in Key, Change(k) \/ Invalidate(k) PROVE IInv'
    BY <1>4, ChangeStep, InvalidateStep
  <1>5. CASE Tick
    BY <1>5, TickStep
  <1>6. CASE UNCHANGED vars
    BY <1>6 DEF vars, IInv, TypeOK, Current, ChangesArePast, CallsOK, ArgOK, FetchOK, JoinOK,
                AnswerOK, EntriesOK, EntryOK, Recent, CurrentAt, InFlightOK, FetchesAreFound, Unforced
  <1>7. QED
    BY <1>1, <1>2, <1>3, <1>4, <1>5, <1>6 DEF Next

-----------------------------------------------------------------------------
(* Theorems *)

\* The invariant holds in every reachable state.
THEOREM InductiveInvariant == Spec => []IInv
  BY InitIInv, StepIInv, PTL DEF Spec

\* The cache never holds more than its capacity, and every variable has its type.
THEOREM TypeCorrect == Spec => []TypeOK
  <1>1. IInv => TypeOK
    BY DEF IInv
  <1>2. QED
    BY <1>1, InductiveInvariant, PTL

\* resolve() never returns a principal that was replaced longer ago than the TTL
\* plus the timeout, whether it comes from the cache, a joined fetch or its own.
THEOREM StalenessIsBounded == Spec => []BoundedStaleness
  <1>1. IInv => BoundedStaleness
    BY DEF IInv, CallsOK, AnswerOK, Recent, BoundedStaleness
  <1>2. QED
    BY <1>1, InductiveInvariant, PTL

\* A forced read returns a principal that was current when the call was made.
THEOREM FreshIsFresh == Spec => []FreshReadsAreFresh
  <1>1. IInv => FreshReadsAreFresh
    BY DEF IInv, CallsOK, AnswerOK, Recent, FreshReadsAreFresh
  <1>2. QED
    BY <1>1, InductiveInvariant, PTL

\* Without forced reads, no key is fetched twice at once.
THEOREM OneFetchPerKey == Spec => []SingleFlightUnlessForced
  <1>1. IInv => SingleFlightUnlessForced
    BY DEF IInv, FetchesAreFound, Unforced, SingleFlightUnlessForced
  <1>2. QED
    BY <1>1, InductiveInvariant, PTL

\* What a call has joined, and what the next can join, is under way for its key.
THEOREM JoinedFetchesLive == Spec => []JoinsAreLive
  <1>1. IInv => JoinsAreLive
    BY DEF IInv, CallsOK, JoinOK, InFlightOK, JoinsAreLive
  <1>2. QED
    BY <1>1, InductiveInvariant, PTL


-----------------------------------------------------------------------------
(* The order of the cache by itself: LruRecency *)

LruEntry == [key: CacheKey, value: Value, expiresAt: Nat]

\* No two entries of one key, and the entries in the order in which their keys were used.
IsInOrder(s, times) == \A i, j \in 1 .. Len(s) : i < j => times[s[i].key] < times[s[j].key]

IsOfModel(entry) ==
  model[entry.key] = [value |-> entry.value, expiresAt |-> entry.expiresAt]

LruInv ==
  /\ clock \in Nat /\ uses \in Nat
  /\ model = [k \in CacheKey |-> model[k]]
  /\ used \in [CacheKey -> 0 .. uses]
  /\ cache \in Seq(LruEntry) /\ Len(cache) <= MaxEntries
  /\ IsInOrder(cache, used)
  /\ \A i \in 1 .. Len(cache) : IsOfModel(cache[i])

\* Parts of a cache stay in order, and so does an entry used after all of them.
Picks(s, t, at) ==
  /\ \A i \in 1 .. Len(t) : at[i] \in 1 .. Len(s) /\ t[i] = s[at[i]]
  /\ \A i, j \in 1 .. Len(t) : i < j => at[i] < at[j]
IsPart(s, t) == t \in Seq(LruEntry) /\ Len(t) <= Len(s) /\ \E at \in [1 .. Len(t) -> Nat] : Picks(s, t, at)

LEMMA DeleteIsPart ==
  ASSUME NEW s \in Seq(LruEntry), NEW k, IsInOrder(s, used), used \in [CacheKey -> 0 .. uses], uses \in Nat
  PROVE  /\ IsPart(s, Delete(s, k))
         /\ \A i \in 1 .. Len(Delete(s, k)) : Delete(s, k)[i].key # k
         /\ Has(s, k) => Len(Delete(s, k)) < Len(s)
         /\ \A i \in 1 .. Len(s) : s[i].key # k => \E j \in 1 .. Len(Delete(s, k)) : Delete(s, k)[j] = s[i]
  <1>0. Len(s) \in Nat
    OBVIOUS
  <1>1. CASE ~ Has(s, k)
    <2>1. Delete(s, k) = s
      BY <1>1 DEF Delete
    <2>2. \A i \in 1 .. Len(s) : s[i].key # k
      BY <1>1 DEF Has
    <2>3. Picks(s, s, [i \in 1 .. Len(s) |-> i])
      BY <1>0 DEF Picks
    <2>4. QED
      BY <1>0, <1>1, <2>1, <2>2, <2>3 DEF IsPart
  <1>2. CASE Has(s, k)
    <2> DEFINE p == Position(s, k)
               d == Delete(s, k)
               at == [i \in 1 .. Len(s) - 1 |-> IF i < p THEN i ELSE i + 1]
    <2>1. /\ d \in Seq(LruEntry) /\ Len(d) = Len(s) - 1
          /\ \A i \in 1 .. Len(s) - 1 : d[i] = s[at[i]]
      BY <1>2, DeleteIs
    <2>2. p \in 1 .. Len(s) /\ s[p].key = k
      BY <1>2, PositionIs
    <2> HIDE DEF p, d
    <2>3. at \in [1 .. Len(s) - 1 -> Nat] /\ \A i \in 1 .. Len(s) - 1 : at[i] \in 1 .. Len(s) /\ at[i] # p
      BY <1>0, <2>2
    <2>4. \A i, j \in 1 .. Len(s) - 1 : i < j => at[i] < at[j]
      BY <1>0, <2>2
    <2>5. \A i \in 1 .. Len(s) : i # p => s[i].key # k
      <3>1. \A i \in 1 .. Len(s) : s[i].key \in CacheKey /\ used[s[i].key] \in Nat
        <4>1. \A i \in 1 .. Len(s) : s[i] \in LruEntry
          OBVIOUS
        <4>2. \A i \in 1 .. Len(s) : s[i].key \in CacheKey
          BY <4>1 DEF LruEntry
        <4>3. \A i \in 1 .. Len(s) : used[s[i].key] \in 0 .. uses
          BY <4>2
        <4>4. QED
          BY <4>2, <4>3
      <3>2. \A i \in 1 .. Len(s) : i < p => used[s[i].key] < used[k]
        BY <2>2 DEF IsInOrder
      <3>3. \A i \in 1 .. Len(s) : p < i => used[k] < used[s[i].key]
        BY <2>2 DEF IsInOrder
      <3>4. \A i \in 1 .. Len(s) : i # p => i < p \/ p < i
        BY <2>2
      <3>5. QED
        BY <3>1, <3>2, <3>3, <3>4, <2>2
    <2>6. \A i \in 1 .. Len(s) : i # p => \E j \in 1 .. Len(s) - 1 : at[j] = i
      <3>1. SUFFICES ASSUME NEW i \in 1 .. Len(s), i # p
                     PROVE  \E j \in 1 .. Len(s) - 1 : at[j] = i
        OBVIOUS
      <3>2. CASE i < p
        BY <1>0, <2>2, <3>2
      <3>3. CASE p < i
        <4>1. i - 1 \in 1 .. Len(s) - 1 /\ at[i - 1] = i
          BY <1>0, <2>2, <3>3
        <4>2. QED
          BY <4>1
      <3>4. QED
        BY <2>2, <3>1, <3>2, <3>3
    <2> HIDE DEF at
    <2>7. IsPart(s, d)
      <3>1. Picks(s, d, at)
        BY <2>1, <2>3, <2>4 DEF Picks
      <3>2. QED
        BY <1>0, <2>1, <2>3, <3>1 DEF IsPart
    <2>8. \A i \in 1 .. Len(d) : d[i].key # k
      BY <2>1, <2>3, <2>5
    <2>9. \A i \in 1 .. Len(s) : s[i].key # k => \E j \in 1 .. Len(d) : d[j] = s[i]
      <3>1. SUFFICES ASSUME NEW i \in 1 .. Len(s), s[i].key # k
                     PROVE  \E j \in 1 .. Len(d) : d[j] = s[i]
        OBVIOUS
      <3>2. i # p
        BY <2>2, <3>1
      <3>3. PICK j \in 1 .. Len(s) - 1 : at[j] = i
        BY <2>6, <3>2
      <3>4. QED
        BY <2>1, <3>3
    <2>10. QED
      BY <1>0, <2>1, <2>7, <2>8, <2>9 DEF d
  <1>3. QED
    BY <1>1, <1>2

\* A part of an ordered cache is ordered, with any entry put after it that is used last.
LEMMA PartIsOrdered ==
  ASSUME NEW s \in Seq(LruEntry), NEW t, IsPart(s, t), used \in [CacheKey -> 0 .. uses], uses \in Nat,
         IsInOrder(s, used), \A i \in 1 .. Len(s) : IsOfModel(s[i])
  PROVE  IsInOrder(t, used) /\ \A i \in 1 .. Len(t) : IsOfModel(t[i])
  <1>1. PICK at \in [1 .. Len(t) -> Nat] : Picks(s, t, at)
    BY DEF IsPart
  <1>2. QED
    BY <1>1 DEF Picks, IsInOrder

LEMMA AppendIsOrdered ==
  ASSUME NEW t \in Seq(LruEntry), NEW e \in LruEntry, NEW times \in [CacheKey -> Nat], IsInOrder(t, times),
         \A i \in 1 .. Len(t) : times[t[i].key] < times[e.key]
  PROVE  /\ Append(t, e) \in Seq(LruEntry) /\ Len(Append(t, e)) = Len(t) + 1
         /\ IsInOrder(Append(t, e), times)
         /\ \A i \in 1 .. Len(t) : Append(t, e)[i] = t[i]
         /\ Append(t, e)[Len(t) + 1] = e
  <1> DEFINE n == Append(t, e)
  <1>1. /\ n \in Seq(LruEntry) /\ Len(n) = Len(t) + 1 /\ Len(t) \in Nat
        /\ \A i \in 1 .. Len(t) : n[i] = t[i]
        /\ n[Len(t) + 1] = e
    BY AppendProperties
  <1> HIDE DEF n
  <1>2. ASSUME NEW i \in 1 .. Len(n), NEW j \in 1 .. Len(n), i < j
        PROVE  times[n[i].key] < times[n[j].key]
    <2>1. i \in 1 .. Len(t) /\ n[i] = t[i]
      BY <1>1, <1>2
    <2>2. CASE j = Len(t) + 1
      BY <1>1, <2>1, <2>2
    <2>3. CASE j # Len(t) + 1
      <3>1. j \in 1 .. Len(t) /\ n[j] = t[j]
        BY <1>1, <2>3
      <3>2. QED
        BY <1>2, <2>1, <3>1 DEF IsInOrder
    <2>4. QED
      BY <2>2, <2>3
  <1>3. IsInOrder(n, times)
    BY <1>2 DEF IsInOrder
  <1>4. QED
    BY <1>1, <1>3 DEF n

\* Use number n of a key comes after all uses so far, and changes no other key's.
LEMMA Reuse ==
  ASSUME NEW t \in Seq(LruEntry), NEW k \in CacheKey, uses \in Nat, used \in [CacheKey -> 0 .. uses],
         IsInOrder(t, used), \A i \in 1 .. Len(t) : t[i].key # k,
         NEW later, later = [used EXCEPT ![k] = uses + 1]
  PROVE  /\ later \in [CacheKey -> 0 .. uses + 1] /\ later \in [CacheKey -> Nat]
         /\ IsInOrder(t, later)
         /\ \A i \in 1 .. Len(t) : later[t[i].key] < later[k]
  <1>1. \A i \in 1 .. Len(t) : t[i] \in LruEntry
    OBVIOUS
  <1>2. \A i \in 1 .. Len(t) : t[i].key \in CacheKey
    BY <1>1 DEF LruEntry
  <1>3. \A i \in 1 .. Len(t) : used[t[i].key] \in 0 .. uses
    BY <1>2
  <1>4. \A i \in 1 .. Len(t) : later[t[i].key] = used[t[i].key]
    BY <1>2
  <1>5. IsInOrder(t, later)
    BY <1>4 DEF IsInOrder
  <1>6. later[k] = uses + 1
    OBVIOUS
  <1>7. \A l \in CacheKey : later[l] \in 0 .. uses + 1
    OBVIOUS
  <1>8. QED
    BY <1>3, <1>4, <1>5, <1>6, <1>7

LEMMA LruDeleteStep ==
  ASSUME LruInv, NEW k \in CacheKey, DeleteKey(k)
  PROVE  LruInv'
  <1>1. /\ cache' = Delete(cache, k) /\ uses' = uses + 1
        /\ model' = [model EXCEPT ![k] = Absent] /\ clock' = clock /\ used' = used
    BY DEF DeleteKey, Counts
  <1>2. /\ clock \in Nat /\ uses \in Nat /\ used \in [CacheKey -> 0 .. uses]
        /\ cache \in Seq(LruEntry) /\ Len(cache) <= MaxEntries /\ IsInOrder(cache, used)
        /\ \A i \in 1 .. Len(cache) : IsOfModel(cache[i])
        /\ model = [l \in CacheKey |-> model[l]]
    BY DEF LruInv
  <1>3. IsPart(cache, cache') /\ \A i \in 1 .. Len(cache') : cache'[i].key # k
    BY <1>1, <1>2, DeleteIsPart
  <1>4. IsInOrder(cache', used) /\ \A i \in 1 .. Len(cache') : IsOfModel(cache'[i])
    BY <1>2, <1>3, PartIsOrdered
  <1>5. \A l \in CacheKey \ {k} : model'[l] = model[l]
    BY <1>1, <1>2
  <1>6. cache' \in Seq(LruEntry) /\ Len(cache') <= MaxEntries
    <2>1. Len(cache) \in Nat /\ MaxEntries \in Nat
      BY <1>2, TtlLruCacheAssumption
    <2>2. Len(cache') \in Nat /\ cache' \in Seq(LruEntry)
      BY <1>3 DEF IsPart
    <2>3. QED
      BY <1>2, <1>3, <2>1, <2>2 DEF IsPart
  <1>7. \A i \in 1 .. Len(cache') : cache'[i].key \in CacheKey \ {k}
    <2>1. \A i \in 1 .. Len(cache') : cache'[i] \in LruEntry
      BY <1>6
    <2>2. QED
      BY <1>3, <2>1 DEF LruEntry
  <1>8. \A i \in 1 .. Len(cache') : IsOfModel(cache[i])'
    BY <1>4, <1>5, <1>7 DEF IsOfModel
  <1>9. used' \in [CacheKey -> 0 .. uses']
    BY <1>1, <1>2
  <1>10. IsInOrder(cache, used)'
    BY <1>1, <1>4 DEF IsInOrder
  <1>11. model' = [l \in CacheKey |-> model'[l]]
    BY <1>1, <1>2
  <1>12. QED
    BY <1>1, <1>2, <1>6, <1>8, <1>9, <1>10, <1>11 DEF LruInv

\* A key that is set, or found, is the last one used.
LEMMA UsedLastStep ==
  ASSUME LruInv, NEW k \in CacheKey, NEW t, NEW e \in LruEntry, e.key = k,
         IsPart(cache, t), Len(t) < MaxEntries, \A i \in 1 .. Len(t) : t[i].key # k,
         cache' = Append(t, e), uses' = uses + 1, used' = [used EXCEPT ![k] = uses'], clock' = clock,
         model' = [model EXCEPT ![k] = [value |-> e.value, expiresAt |-> e.expiresAt]]
  PROVE  LruInv'
  <1>1. /\ clock \in Nat /\ uses \in Nat /\ used \in [CacheKey -> 0 .. uses]
        /\ cache \in Seq(LruEntry) /\ IsInOrder(cache, used)
        /\ \A i \in 1 .. Len(cache) : IsOfModel(cache[i])
        /\ model = [l \in CacheKey |-> model[l]]
    BY DEF LruInv
  <1>2. t \in Seq(LruEntry) /\ IsInOrder(t, used) /\ \A i \in 1 .. Len(t) : IsOfModel(t[i])
    BY <1>1, PartIsOrdered DEF IsPart
  <1>3. used' = [used EXCEPT ![k] = uses + 1]
    OBVIOUS
  <1>4. /\ used' \in [CacheKey -> 0 .. uses + 1] /\ used' \in [CacheKey -> Nat]
        /\ IsInOrder(t, used')
        /\ \A i \in 1 .. Len(t) : used'[t[i].key] < used'[e.key]
    BY <1>1, <1>2, <1>3, Reuse
  <1>5. /\ cache' \in Seq(LruEntry) /\ Len(cache') = Len(t) + 1
        /\ IsInOrder(cache', used')
        /\ \A i \in 1 .. Len(t) : cache'[i] = t[i]
        /\ cache'[Len(t) + 1] = e
    <2>1. PICK times : times = used'
      OBVIOUS
    <2>2. /\ times \in [CacheKey -> Nat] /\ IsInOrder(t, times)
          /\ \A i \in 1 .. Len(t) : times[t[i].key] < times[e.key]
      BY <1>4, <2>1
    <2>3. /\ Append(t, e) \in Seq(LruEntry) /\ Len(Append(t, e)) = Len(t) + 1
          /\ IsInOrder(Append(t, e), times)
          /\ \A i \in 1 .. Len(t) : Append(t, e)[i] = t[i]
          /\ Append(t, e)[Len(t) + 1] = e
      BY <1>2, <2>2, AppendIsOrdered
    <2>4. QED
      BY <2>1, <2>3
  <1>6. Len(t) \in Nat /\ MaxEntries \in Nat
    BY <1>2, TtlLruCacheAssumption
  <1>7. \A i \in 1 .. Len(t) : t[i].key \in CacheKey \ {k}
    <2>1. \A i \in 1 .. Len(t) : t[i] \in LruEntry
      BY <1>2
    <2>2. QED
      BY <2>1 DEF LruEntry
  <1>8. (\A l \in CacheKey \ {k} : model'[l] = model[l]) /\ model' = [l \in CacheKey |-> model'[l]]
    BY <1>1
  <1>9. model'[k] = [value |-> e.value, expiresAt |-> e.expiresAt]
    BY <1>1
  <1>10. ASSUME NEW i \in 1 .. Len(cache')
         PROVE  IsOfModel(cache[i])'
    <2>1. CASE i = Len(t) + 1
      BY <1>5, <1>9, <2>1 DEF IsOfModel
    <2>2. CASE i # Len(t) + 1
      <3>1. i \in 1 .. Len(t) /\ cache'[i] = t[i]
        BY <1>5, <1>6, <2>2
      <3>2. IsOfModel(t[i]) /\ model'[t[i].key] = model[t[i].key]
        BY <1>2, <1>7, <1>8, <3>1
      <3>3. QED
        BY <3>1, <3>2 DEF IsOfModel
    <2>3. QED
      BY <2>1, <2>2
  <1>11. Len(cache') <= MaxEntries
    BY <1>5, <1>6
  <1>12. IsInOrder(cache, used)'
    BY <1>5 DEF IsInOrder
  <1>13. QED
    BY <1>1, <1>4, <1>5, <1>8, <1>10, <1>11, <1>12 DEF LruInv

LEMMA LruGetStep ==
  ASSUME LruInv, NEW k \in CacheKey, GetKey(k)
  PROVE  LruInv'
  <1>1. /\ cache' = AfterGet(cache, k, clock) /\ uses' = uses + 1 /\ clock' = clock /\ model' = model
        /\ used' = IF Hit(cache, k, clock) THEN [used EXCEPT ![k] = uses'] ELSE used
    BY DEF GetKey, Counts
  <1>2. /\ clock \in Nat /\ uses \in Nat /\ used \in [CacheKey -> 0 .. uses]
        /\ cache \in Seq(LruEntry) /\ Len(cache) <= MaxEntries /\ IsInOrder(cache, used)
        /\ \A i \in 1 .. Len(cache) : IsOfModel(cache[i])
        /\ model = [l \in CacheKey |-> model[l]]
    BY DEF LruInv
  <1>3. /\ IsPart(cache, Delete(cache, k))
        /\ \A i \in 1 .. Len(Delete(cache, k)) : Delete(cache, k)[i].key # k
        /\ Has(cache, k) => Len(Delete(cache, k)) < Len(cache)
    BY <1>2, DeleteIsPart
  <1>4. /\ Len(cache) \in Nat /\ MaxEntries \in Nat
        /\ Len(Delete(cache, k)) \in Nat /\ Len(Delete(cache, k)) <= Len(cache)
    BY <1>2, <1>3, TtlLruCacheAssumption DEF IsPart
  <1>5. CASE Hit(cache, k, clock)
    <2> DEFINE e == Entry(cache, k)
    <2>1. Has(cache, k) /\ cache' = Append(Delete(cache, k), e)
      BY <1>1, <1>5 DEF Hit, AfterGet
    <2>2. PICK i \in 1 .. Len(cache) : e = cache[i] /\ e.key = k
      BY <1>2, <2>1, PositionIs
    <2>3. e \in LruEntry /\ IsOfModel(e)
      BY <1>2, <2>2
    <2> HIDE DEF e
    <2>4. model' = [model EXCEPT ![k] = [value |-> e.value, expiresAt |-> e.expiresAt]]
      BY <1>1, <1>2, <2>2, <2>3 DEF IsOfModel
    <2>5. used' = [used EXCEPT ![k] = uses'] /\ Len(Delete(cache, k)) < MaxEntries
      BY <1>1, <1>2, <1>3, <1>4, <1>5, <2>1
    <2>6. QED
      BY <1>1, <1>3, <2>1, <2>2, <2>3, <2>4, <2>5, UsedLastStep
  <1>6. CASE ~ Hit(cache, k, clock)
    <2>1. cache' = Delete(cache, k) /\ used' = used
      BY <1>1, <1>6 DEF AfterGet
    <2>2. IsInOrder(cache', used) /\ \A i \in 1 .. Len(cache') : IsOfModel(cache'[i])
      BY <1>2, <1>3, <2>1, PartIsOrdered
    <2>3. cache' \in Seq(LruEntry) /\ Len(cache') <= MaxEntries
      BY <1>2, <1>3, <1>4, <2>1 DEF IsPart
    <2>4. \A i \in 1 .. Len(cache') : IsOfModel(cache[i])'
      BY <1>1, <2>2 DEF IsOfModel
    <2>5. used' \in [CacheKey -> 0 .. uses']
      BY <1>1, <1>2, <2>1
    <2>6. IsInOrder(cache, used)'
      BY <2>1, <2>2 DEF IsInOrder
    <2>7. QED
      BY <1>1, <1>2, <2>3, <2>4, <2>5, <2>6 DEF LruInv
  <1>7. QED
    BY <1>5, <1>6

\* What set() leaves to make room: all of the cache, all but the key's own entry, or at
\* capacity all but the first.
LEMMA RoomIsPart ==
  ASSUME LruInv, NEW k \in CacheKey
  PROVE  /\ IsPart(cache, Room(cache, k)) /\ Len(Room(cache, k)) < MaxEntries
         /\ \A i \in 1 .. Len(Room(cache, k)) : Room(cache, k)[i].key # k
         /\ \/ \A i \in 1 .. Len(cache) :
                 cache[i].key # k => \E j \in 1 .. Len(Room(cache, k)) : Room(cache, k)[j] = cache[i]
            \/ /\ ~ Has(cache, k) /\ Len(cache) = MaxEntries
               /\ \A i \in 1 .. Len(cache) :
                    i # 1 => \E j \in 1 .. Len(Room(cache, k)) : Room(cache, k)[j] = cache[i]
  <1>1. /\ cache \in Seq(LruEntry) /\ IsInOrder(cache, used) /\ uses \in Nat /\ used \in [CacheKey -> 0 .. uses]
        /\ Len(cache) \in Nat /\ MaxEntries \in Nat \ {0} /\ Len(cache) <= MaxEntries
    BY TtlLruCacheAssumption DEF LruInv
  <1>2. CASE Has(cache, k)
    <2>1. Room(cache, k) = Delete(cache, k)
      BY <1>2 DEF Room
    <2>2. /\ IsPart(cache, Delete(cache, k)) /\ Len(Delete(cache, k)) < Len(cache)
          /\ \A i \in 1 .. Len(Delete(cache, k)) : Delete(cache, k)[i].key # k
          /\ \A i \in 1 .. Len(cache) :
               cache[i].key # k => \E j \in 1 .. Len(Delete(cache, k)) : Delete(cache, k)[j] = cache[i]
      BY <1>1, <1>2, DeleteIsPart
    <2>3. Len(Delete(cache, k)) \in Nat
      BY <2>2 DEF IsPart
    <2>4. QED
      BY <1>1, <2>1, <2>2, <2>3
  <1>3. CASE ~ Has(cache, k) /\ Len(cache) >= MaxEntries
    <2> DEFINE t == Tail(cache)
    <2>1. Room(cache, k) = t
      BY <1>3 DEF Room
    <2>2. cache # << >>
      BY <1>1, <1>3
    <2>3. /\ t \in Seq(LruEntry) /\ Len(t) = Len(cache) - 1
          /\ \A i \in 1 .. Len(t) : t[i] = cache[i + 1]
      BY <1>1, <2>2, HeadTailProperties
    <2> HIDE DEF t
    <2>4. Picks(cache, t, [i \in 1 .. Len(t) |-> i + 1])
      BY <1>1, <2>3 DEF Picks
    <2>5. IsPart(cache, t)
      <3>1. \E at \in [1 .. Len(t) -> Nat] : Picks(cache, t, at)
        <4>1. [i \in 1 .. Len(t) |-> i + 1] \in [1 .. Len(t) -> Nat]
          OBVIOUS
        <4>2. QED
          BY <2>4, <4>1
      <3>2. Len(t) <= Len(cache)
        BY <1>1, <2>3
      <3>3. QED
        BY <2>3, <3>1, <3>2 DEF IsPart
    <2>6. \A i \in 1 .. Len(t) : t[i].key # k
      <3>1. \A i \in 1 .. Len(cache) : cache[i].key # k
        BY <1>1, <1>3 DEF Has
      <3>2. \A i \in 1 .. Len(t) : i + 1 \in 1 .. Len(cache)
        BY <1>1, <2>3
      <3>3. QED
        BY <2>3, <3>1, <3>2
    <2>7. \A i \in 1 .. Len(cache) : i # 1 => \E j \in 1 .. Len(t) : t[j] = cache[i]
      <3>1. \A i \in 1 .. Len(cache) : i # 1 => i - 1 \in 1 .. Len(t) /\ t[i - 1] = cache[i - 1 + 1]
                                              /\ i - 1 + 1 = i
        BY <1>1, <2>3
      <3>2. QED
        BY <3>1
    <2>8. QED
      BY <1>1, <1>3, <2>1, <2>3, <2>5, <2>6, <2>7
  <1>4. CASE ~ Has(cache, k) /\ ~ (Len(cache) >= MaxEntries)
    <2>1. Room(cache, k) = cache
      BY <1>4 DEF Room
    <2>2. \A i \in 1 .. Len(cache) : cache[i].key # k
      BY <1>1, <1>4 DEF Has
    <2>3. Picks(cache, cache, [i \in 1 .. Len(cache) |-> i])
      BY <1>1 DEF Picks
    <2>4. IsPart(cache, cache)
      BY <1>1, <2>3 DEF IsPart
    <2>5. QED
      BY <1>1, <1>4, <2>1, <2>2, <2>4
  <1>5. QED
    BY <1>2, <1>3, <1>4

LEMMA LruSetStep ==
  ASSUME LruInv, NEW k \in CacheKey, NEW v \in Value, SetKey(k, v)
  PROVE  LruInv'
  <1> DEFINE e == [key |-> k, value |-> v, expiresAt |-> clock + Ttl]
             t == Room(cache, k)
  <1>1. /\ cache' = Append(t, e) /\ uses' = uses + 1 /\ clock' = clock
        /\ model' = [model EXCEPT ![k] = [value |-> v, expiresAt |-> clock + Ttl]]
        /\ used' = [used EXCEPT ![k] = uses']
    BY DEF SetKey, Counts, Set
  <1>2. e \in LruEntry /\ e.key = k /\ e.value = v /\ e.expiresAt = clock + Ttl
    BY TtlLruCacheAssumption DEF LruEntry, LruInv
  <1>3. /\ IsPart(cache, t) /\ Len(t) < MaxEntries
        /\ \A i \in 1 .. Len(t) : t[i].key # k
    BY RoomIsPart
  <1> HIDE DEF e, t
  <1>4. QED
    BY <1>1, <1>2, <1>3, UsedLastStep

LEMMA LruStep == LruInv /\ [NextLru]_lruVars => LruInv'
  <1> SUFFICES ASSUME LruInv, [NextLru]_lruVars
               PROVE  LruInv'
    OBVIOUS
  <1>1. CASE Advance
    BY <1>1 DEF Advance, LruInv, IsInOrder, IsOfModel
  <1>2. CASE UNCHANGED lruVars
    BY <1>2 DEF lruVars, LruInv, IsInOrder, IsOfModel
  <1>3. QED
    BY <1>1, <1>2, LruGetStep, LruSetStep, LruDeleteStep DEF NextLru

\* The entries of the cache are what was set last, in the order in which their keys were
\* set or hit.
THEOREM LruInvariant == LruSpec => []LruInv
  <1>1. InitLru => LruInv
    <2>1. << >> \in Seq(LruEntry) /\ Len(<< >>) = 0 /\ MaxEntries \in Nat
      BY EmptySeq, TtlLruCacheAssumption
    <2>2. QED
      BY <2>1 DEF InitLru, LruInv, IsInOrder
  <1>2. QED
    BY <1>1, LruStep, PTL DEF LruSpec

\* A hit is what the last set() of its key left, and before its expiry.
THEOREM HitsAreGenuine == LruSpec => []HitsAreLastSet
  <1>1. LruInv => HitsAreLastSet
    <2> SUFFICES ASSUME LruInv, NEW k \in CacheKey, Hit(cache, k, clock)
                 PROVE  /\ Entry(cache, k).value = model[k].value
                        /\ clock < model[k].expiresAt
      BY DEF HitsAreLastSet
    <2>1. Has(cache, k) /\ Entry(cache, k).expiresAt > clock
      BY DEF Hit
    <2>2. PICK i \in 1 .. Len(cache) : Entry(cache, k) = cache[i] /\ cache[i].key = k
      BY <2>1, PositionIs DEF LruInv
    <2>3. model[k] = [value |-> cache[i].value, expiresAt |-> cache[i].expiresAt]
      BY <2>2 DEF LruInv, IsOfModel
    <2>4. cache[i] \in LruEntry /\ clock \in Nat
      BY DEF LruInv
    <2>5. QED
      BY <2>1, <2>2, <2>3, <2>4 DEF LruEntry
  <1>2. QED
    BY <1>1, LruInvariant, PTL

\* As many keys as entries.
LEMMA KeysCounted ==
  ASSUME LruInv
  PROVE  Cardinality(Keys(cache)) = Len(cache)
  <1> DEFINE K == Keys(cache)
             f == [i \in 1 .. Len(cache) |-> cache[i].key]
  <1>1. /\ cache \in Seq(LruEntry) /\ IsInOrder(cache, used) /\ uses \in Nat /\ used \in [CacheKey -> 0 .. uses]
        /\ Len(cache) \in Nat
    BY DEF LruInv
  <1>2. K = {cache[i].key : i \in 1 .. Len(cache)}
    BY <1>1 DEF Keys
  <1>3. \A i, j \in 1 .. Len(cache) : cache[i].key = cache[j].key => i = j
    <2>1. \A i \in 1 .. Len(cache) : cache[i] \in LruEntry
      BY <1>1
    <2>2. \A i \in 1 .. Len(cache) : used[cache[i].key] \in Nat
      BY <1>1, <2>1 DEF LruEntry
    <2>3. \A i, j \in 1 .. Len(cache) : i < j => cache[i].key # cache[j].key
      BY <1>1, <2>2 DEF IsInOrder
    <2>4. \A i, j \in 1 .. Len(cache) : i < j \/ j < i \/ i = j
      OBVIOUS
    <2>5. QED
      BY <2>3, <2>4
  <1> HIDE DEF K
  <1>4. f \in Bijection(1 .. Len(cache), K)
    BY <1>2, <1>3 DEF Bijection, Injection, Surjection, IsInjective
  <1>5. ExistsBijection(1 .. Len(cache), K)
    BY <1>4 DEF ExistsBijection
  <1>6. IsFiniteSet(1 .. Len(cache)) /\ Cardinality(1 .. Len(cache)) = Len(cache)
    <2>1. 1 \in Int /\ Len(cache) \in Int /\ (1 > Len(cache) => Len(cache) = 0) /\ Len(cache) - 1 + 1 = Len(cache)
      BY <1>1
    <2>2. /\ IsFiniteSet(1 .. Len(cache))
          /\ Cardinality(1 .. Len(cache)) = IF 1 > Len(cache) THEN 0 ELSE Len(cache) - 1 + 1
      BY <2>1, FS_Interval, Zenon
    <2>3. QED
      BY <2>1, <2>2
  <1>7. QED
    BY <1>5, <1>6, FS_Bijection DEF K

LEMMA EvictsFirst ==
  ASSUME LruInv, NEW k \in CacheKey, NEW v \in Value, SetKey(k, v),
         NEW e \in Keys(cache) \ Keys(cache')
  PROVE  /\ \A o \in Keys(cache) : used[e] <= used[o]
         /\ k \notin Keys(cache) /\ Cardinality(Keys(cache)) = MaxEntries
  <1> DEFINE t == Room(cache, k)
             new == [key |-> k, value |-> v, expiresAt |-> clock + Ttl]
  <1>1. /\ cache \in Seq(LruEntry) /\ IsInOrder(cache, used) /\ uses \in Nat /\ used \in [CacheKey -> 0 .. uses]
        /\ Len(cache) \in Nat /\ clock \in Nat
    BY DEF LruInv
  <1>2. cache' = Append(t, new)
    BY DEF SetKey, Set
  <1>3. t \in Seq(LruEntry) /\ new \in LruEntry
    BY <1>1, RoomIsPart, TtlLruCacheAssumption DEF IsPart, LruEntry
  <1> HIDE DEF t
  <1>4. /\ Len(cache') = Len(t) + 1 /\ \A i \in 1 .. Len(t) : cache'[i] = t[i]
        /\ cache'[Len(t) + 1] = new /\ Len(t) \in Nat /\ cache' \in Seq(LruEntry)
    BY <1>2, <1>3, AppendProperties
  <1>5. Keys(cache) = {cache[i].key : i \in 1 .. Len(cache)}
    BY <1>1 DEF Keys
  <1>6. Keys(cache') = {cache'[i].key : i \in 1 .. Len(cache')}
    BY <1>4 DEF Keys
  <1>7. PICK n \in 1 .. Len(cache) : e = cache[n].key
    BY <1>5
  <1>8. e # k
    BY <1>4, <1>6
  <1>9. ~ \E j \in 1 .. Len(t) : t[j] = cache[n]
    <2>1. \A j \in 1 .. Len(t) : t[j].key # e
      BY <1>4, <1>6
    <2>2. QED
      BY <1>7, <2>1
  <1>10. ~ Has(cache, k) /\ Len(cache) = MaxEntries /\ n = 1
    BY <1>7, <1>8, <1>9, RoomIsPart DEF t
  <1>11. ASSUME NEW i \in 1 .. Len(cache)
         PROVE  used[e] <= used[cache[i].key]
    <2>1. used[e] \in Nat /\ used[cache[i].key] \in Nat
      <3>1. cache[i] \in LruEntry /\ cache[n] \in LruEntry
        BY <1>1
      <3>2. QED
        BY <1>1, <1>7, <3>1 DEF LruEntry
    <2>2. CASE i = 1
      BY <1>7, <1>10, <2>1, <2>2
    <2>3. CASE i # 1
      <3>1. 1 \in 1 .. Len(cache) /\ 1 < i
        BY <1>1, <2>3
      <3>2. used[e] < used[cache[i].key]
        BY <1>1, <1>7, <1>10, <3>1 DEF IsInOrder
      <3>3. QED
        BY <2>1, <3>2
    <2>4. QED
      BY <2>2, <2>3
  <1>12. k \notin Keys(cache)
    BY <1>1, <1>5, <1>10 DEF Has
  <1>13. QED
    BY <1>5, <1>10, <1>11, <1>12, KeysCounted

\* set() drops the key used longest ago, and only for a key that is not there and when
\* the cache is full.
THEOREM EvictionIsLru == LruSpec => EvictsLeastRecentlyUsed
  <1>1. LruInv => EvictsInOrder
    <2> SUFFICES ASSUME LruInv, NEW k \in CacheKey, NEW v \in Value, SetKey(k, v)
                 PROVE  LET evicted == Keys(cache) \ Keys(cache')
                        IN  /\ \A e \in evicted, o \in Keys(cache) : used[e] <= used[o]
                            /\ evicted # {} => /\ k \notin Keys(cache)
                                               /\ Cardinality(Keys(cache)) = MaxEntries
      BY DEF EvictsInOrder, Evicts
    <2>1. \A e \in Keys(cache) \ Keys(cache') :
            /\ \A o \in Keys(cache) : used[e] <= used[o]
            /\ k \notin Keys(cache) /\ Cardinality(Keys(cache)) = MaxEntries
      BY EvictsFirst
    <2>2. QED
      BY <2>1
  <1>2. LruInv /\ [NextLru]_lruVars => [EvictsInOrder]_lruVars
    BY <1>1
  <1>3. QED
    BY <1>2, LruInvariant, PTL DEF LruSpec, EvictsLeastRecentlyUsed
=============================================================================
