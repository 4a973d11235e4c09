--------------------------- MODULE ChainReplayProofs ---------------------------
(***************************************************************************)
(* Proofs about ChainReplay: the verdict of the loop and what it is worth, *)
(* for tables of any length, any number of damages and any events.         *)
(***************************************************************************)
EXTENDS ChainReplay, SequenceTheorems, FiniteSetTheorems, TLAPS

\* One-line abbreviations, expanded throughout.
USE DEF LinkBroken, ContentModified, RowsRead, StartLoop, Damage, replay

-----------------------------------------------------------------------------
(* The inductive invariant *)

\* A row is inserted with the hash of its own event on the head before it.
InsertedOK ==
  /\ IsFiniteSet(written)
  /\ \A w \in written : w.recordHash = RecordHash(w.prevHash, w.event)

SameHash(r, q) == r.recordHash = q.recordHash

\* A row's hash is one that was inserted, or that a damage wrote.
HashesKnown(t) == \A k \in DOMAIN t : t[k].recordHash \in InsertedHash \cup rewritten

\* The loop stands behind records that passed both tests.
Passed ==
  /\ prevHash = IF next = 1 THEN Genesis ELSE records[next - 1].recordHash
  /\ \A k \in 1 .. next - 1 : LinkHolds(records, k) /\ ContentHolds(records, k)

\* How the loop ended says where it stands and what the record there is like.
EndedWhere ==
  /\ verdict = "valid" => next = Len(records) + 1
  /\ verdict \in {"link", "content"} => next <= Len(records)
  /\ verdict = "link" => ~ LinkHolds(records, next)
  /\ verdict = "content" => LinkHolds(records, next) /\ ~ ContentHolds(records, next)

\* The row an insert leaves in the table.
Stored(w) == [w EXCEPT !.event = AsStored(w.event)]

\* The rows of an undamaged table are linked, and as they were inserted.
AsInserted(t) ==
  \A k \in DOMAIN t :
    LinkHolds(t, k) /\ \E w \in written : t[k] = Stored(w)

UndamagedIsAsInserted == damage = 0 => AsInserted(table) /\ AsInserted(records)

IInv ==
  /\ TypeOK
  /\ InsertedOK
  /\ HashesKnown(table)
  /\ HashesKnown(records)
  /\ ReplayedPrefix
  /\ Passed
  /\ EndedWhere
  /\ UndamagedIsAsInserted

-----------------------------------------------------------------------------
(* The table *)

\* The head of a table of rows is a digest.
LEMMA TableHeadType == ASSUME table \in Seq(Row) PROVE TableHead \in Digest
  <1>1. CASE table = << >>
    BY <1>1, EmptySeq DEF TableHead, Genesis, Digest
  <1>2. CASE table # << >>
    <2>1. Len(table) \in 1 .. Len(table)
      BY <1>2, EmptySeq
    <2>2. table[Len(table)] \in Row
      BY <2>1, ElementOfSeq
    <2>3. QED
      BY <1>2, <2>2 DEF TableHead, Row
  <1>3. QED
    BY <1>1, <1>2

LEMMA StoredIsEvent ==
  /\ \A e \in Event : AsStored(e) \in Event
  /\ StoredEvent \subseteq Event
  BY DEF AsStored, StoredEvent, Event, Spelling

\* An insert adds one row at the end, linked to the head.
LEMMA InsertAdds ==
  ASSUME TypeOK, InsertedOK, NEW e \in Event, Insert(e)
  PROVE  \E row \in Row :
           /\ row.prevHash = TableHead
           /\ row.event = e
           /\ row.recordHash = RecordHash(TableHead, e)
           /\ Stored(row) \in Row
           /\ table' = Append(table, Stored(row))
           /\ written' = written \cup {row}
           /\ UNCHANGED <<rewritten, damage, records, next, prevHash, verdict>>
  <1> DEFINE row == [seq |-> Cardinality(written) + 1, event |-> e,
                     prevHash |-> TableHead, recordHash |-> RecordHash(TableHead, e)]
  <1>1. Cardinality(written) \in Nat
    BY FS_CardinalityType DEF InsertedOK
  <1>2. TableHead \in Digest /\ AsStored(e) \in Event
    BY TableHeadType, StoredIsEvent DEF TypeOK
  <1>3. RecordHash(TableHead, e) \in Digest
    BY <1>2, AppendProperties DEF RecordHash, Digest
  <1>4. row \in Row /\ Stored(row) = [row EXCEPT !.event = AsStored(e)] /\ Stored(row) \in Row
    BY <1>1, <1>2, <1>3 DEF Row, Stored
  <1>5. QED
    BY <1>4 DEF Insert

Damaged ==
  \/ \E k \in DOMAIN table, e \in StoredEvent : Alter(k, e)
  \/ \E k \in DOMAIN table : Lose(k)
  \/ \E k, l \in DOMAIN table : k < l /\ Exchange(k, l)
  \/ \E k \in DOMAIN table, link \in Hashes :
       \E hash \in Hashes \cup {RecordHash(link, table[k].event)} : Rewrite(k, link, hash)

\* A damage leaves rows with hashes that were there before, or that it wrote.
LEMMA DamageLeaves ==
  ASSUME TypeOK, Damaged
  PROVE  /\ table' \in Seq(Row)
         /\ \A k \in DOMAIN table' : \/ \E j \in DOMAIN table : SameHash(table'[k], table[j])
                                     \/ table'[k].recordHash \in rewritten'
         /\ damage' \in 1 .. MaxDamage
         /\ rewritten \subseteq rewritten' /\ rewritten' \subseteq Digest
         /\ UNCHANGED <<written, records, next, prevHash, verdict>>
  <1>0. table \in Seq(Row) /\ damage \in 0 .. MaxDamage /\ rewritten \subseteq Digest
    BY DEF TypeOK
  <1>1. /\ damage' \in 1 .. MaxDamage
        /\ UNCHANGED <<written, records, next, prevHash, verdict>>
    <2>1. Damage
      BY DEF Damaged, Alter, Lose, Exchange, Rewrite
    <2>2. QED
      BY <1>0, <2>1, ChainReplayAssumption
  <1>2. ASSUME NEW k \in DOMAIN table, NEW e \in StoredEvent, Alter(k, e)
        PROVE  /\ table' \in Seq(Row)
               /\ \A i \in DOMAIN table' : \E j \in DOMAIN table : SameHash(table'[i], table[j])
    <2> DEFINE row == [table[k] EXCEPT !.event = e]
    <2>1. table' = [table EXCEPT ![k] = row]
      BY <1>2 DEF Alter
    <2>2. table[k] \in Row /\ e \in Event
      BY <1>0, StoredIsEvent
    <2>3. row \in Row /\ SameHash(row, table[k])
      BY <2>2 DEF Row, SameHash
    <2>4. table' \in Seq(Row) /\ DOMAIN table' = DOMAIN table
      BY <1>0, <2>1, <2>3
    <2>5. ASSUME NEW i \in DOMAIN table
          PROVE  SameHash(table'[i], table[i]) \/ SameHash(table'[i], table[k])
      BY <1>0, <2>1, <2>3 DEF SameHash
    <2>6. QED
      BY <2>4, <2>5
  <1>3. ASSUME NEW k \in DOMAIN table, Lose(k)
        PROVE  /\ table' \in Seq(Row)
               /\ \A i \in DOMAIN table' : \E j \in DOMAIN table : SameHash(table'[i], table[j])
    <2> DEFINE s == SubSeq(table, 1, k - 1)
               t == SubSeq(table, k + 1, Len(table))
    <2>1. k \in 1 .. Len(table) /\ Len(table) \in Nat /\ DOMAIN table = 1 .. Len(table)
      BY <1>0
    <2>2. /\ s \in Seq(Row) /\ Len(s) = k - 1
          /\ \A i \in 1 .. k - 1 : s[i] = table[i]
      BY <1>0, <2>1, SubSeqProperties
    <2>3. /\ t \in Seq(Row) /\ Len(t) = Len(table) - k
          /\ \A i \in 1 .. Len(table) - k : t[i] = table[k + i]
      <3>1. \A i \in k + 1 .. Len(table) : table[i] \in Row
        BY <1>0, <2>1
      <3>2. /\ t \in Seq(Row)
            /\ Len(t) = IF k + 1 <= Len(table) THEN Len(table) - (k + 1) + 1 ELSE 0
            /\ \A i \in 1 .. Len(table) - (k + 1) + 1 : t[i] = table[k + 1 + i - 1]
        BY <2>1, <3>1, SubSeqProperties
      <3>3. QED
        BY <2>1, <3>2
    <2> HIDE DEF s, t
    <2>4. /\ s \o t \in Seq(Row)
          /\ Len(s \o t) = Len(s) + Len(t)
          /\ \A i \in 1 .. Len(s) + Len(t) : (s \o t)[i] = IF i <= Len(s) THEN s[i] ELSE t[i - Len(s)]
      BY <2>2, <2>3, ConcatProperties
    <2>9. Len(s) + Len(t) = Len(table) - 1
      BY <2>1, <2>2, <2>3
    <2>5. ASSUME NEW i \in 1 .. Len(table) - 1
          PROVE  \E j \in DOMAIN table : (s \o t)[i] = table[j]
      <3>1. CASE i <= k - 1
        <4>1. i \in 1 .. Len(s) + Len(t) /\ i <= Len(s) /\ i \in 1 .. k - 1 /\ i \in DOMAIN table
          BY <2>1, <2>2, <2>9, <3>1
        <4>2. QED
          BY <2>2, <2>4, <4>1
      <3>2. CASE ~ (i <= k - 1)
        <4>1. (s \o t)[i] = t[i - (k - 1)]
          BY <2>1, <2>2, <2>3, <2>4, <3>2
        <4>2. i - (k - 1) \in 1 .. Len(table) - k
          BY <2>1, <3>2
        <4>3. t[i - (k - 1)] = table[k + (i - (k - 1))] /\ k + (i - (k - 1)) \in DOMAIN table
          BY <2>1, <2>3, <4>2
        <4>4. QED
          BY <4>1, <4>3
      <3>3. QED
        BY <3>1, <3>2
    <2>6. table' = s \o t
      BY <1>3 DEF Lose, s, t
    <2>7. DOMAIN table' = 1 .. Len(table) - 1
      <3>1. table' \in Seq(Row) /\ Len(table') = Len(table) - 1
        BY <2>4, <2>9, <2>6
      <3>2. QED
        BY <3>1
    <2>8. QED
      BY <2>4, <2>5, <2>6, <2>7 DEF SameHash
  <1>4. ASSUME NEW k \in DOMAIN table, NEW l \in DOMAIN table, k < l, Exchange(k, l)
        PROVE  /\ table' \in Seq(Row)
               /\ \A i \in DOMAIN table' : \E j \in DOMAIN table : SameHash(table'[i], table[j])
    <2> DEFINE rk == [table[l] EXCEPT !.seq = table[k].seq]
               rl == [table[k] EXCEPT !.seq = table[l].seq]
    <2>1. table' = [table EXCEPT ![k] = rk, ![l] = rl]
      BY <1>4 DEF Exchange
    <2>2. table[k] \in Row /\ table[l] \in Row
      BY <1>0
    <2>3. rk \in Row /\ SameHash(rk, table[l]) /\ rl \in Row /\ SameHash(rl, table[k])
      BY <2>2 DEF Row, SameHash
    <2>4. table' \in Seq(Row) /\ DOMAIN table' = DOMAIN table
      BY <1>0, <2>1, <2>3
    <2>5. ASSUME NEW i \in DOMAIN table
          PROVE  \/ SameHash(table'[i], table[i])
                 \/ SameHash(table'[i], table[k])
                 \/ SameHash(table'[i], table[l])
      BY <1>0, <2>1, <2>3 DEF SameHash
    <2>6. QED
      BY <2>4, <2>5
  <1>5. ASSUME NEW k \in DOMAIN table, NEW link \in Hashes,
               NEW hash \in Hashes \cup {RecordHash(link, table[k].event)}, Rewrite(k, link, hash)
        PROVE  /\ table' \in Seq(Row)
               /\ \A i \in DOMAIN table' : \/ \E j \in DOMAIN table : SameHash(table'[i], table[j])
                                           \/ table'[i].recordHash \in rewritten'
               /\ rewritten' = rewritten \cup {hash} /\ hash \in Digest
    <2> DEFINE row == [table[k] EXCEPT !.prevHash = link, !.recordHash = hash]
    <2>1. /\ table' = [table EXCEPT ![k] = row]
          /\ rewritten' = rewritten \cup {hash}
      BY <1>5 DEF Rewrite
    <2>2. table[k] \in Row /\ \A j \in DOMAIN table : table[j] \in Row
      BY <1>0
    <2>3. Hashes \subseteq Digest
      BY <2>2, EmptySeq DEF Hashes, Row, Genesis, Digest
    <2>4. hash \in Digest
      <3>1. link \in Seq(Event) /\ table[k].event \in Event
        BY <2>2, <2>3 DEF Row, Digest
      <3>2. RecordHash(link, table[k].event) \in Digest
        BY <3>1, AppendProperties DEF RecordHash, Digest
      <3>3. QED
        BY <2>3, <3>2
    <2>5. row \in Row /\ row.recordHash = hash
      BY <2>2, <2>3, <2>4 DEF Row
    <2>6. table' \in Seq(Row) /\ DOMAIN table' = DOMAIN table
      BY <1>0, <2>1, <2>5
    <2>7. ASSUME NEW i \in DOMAIN table
          PROVE  SameHash(table'[i], table[i]) \/ table'[i].recordHash \in rewritten'
      BY <1>0, <2>1, <2>5 DEF SameHash
    <2>8. QED
      BY <2>1, <2>4, <2>6, <2>7
  <1>6. CASE \E k \in DOMAIN table, e \in StoredEvent : Alter(k, e)
    BY <1>0, <1>1, <1>2, <1>6 DEF Alter
  <1>7. CASE \E k \in DOMAIN table : Lose(k)
    BY <1>0, <1>1, <1>3, <1>7 DEF Lose
  <1>8. CASE \E k, l \in DOMAIN table : k < l /\ Exchange(k, l)
    BY <1>0, <1>1, <1>4, <1>8 DEF Exchange
  <1>9. CASE \E k \in DOMAIN table, link \in Hashes :
               \E hash \in Hashes \cup {RecordHash(link, table[k].event)} : Rewrite(k, link, hash)
    BY <1>0, <1>1, <1>5, <1>9
  <1>10. QED
    BY <1>6, <1>7, <1>8, <1>9 DEF Damaged

-----------------------------------------------------------------------------
(* The loop *)

\* Two lists grown by one event are the same only if they were, and the events are.
LEMMA AppendsEqual ==
  ASSUME NEW s \in Seq(Event), NEW t \in Seq(Event), NEW d \in Event, NEW e \in Event,
         Append(s, d) = Append(t, e)
  PROVE  s = t /\ d = e
  <1>1. /\ Len(Append(s, d)) = Len(s) + 1 /\ Append(s, d)[Len(s) + 1] = d
        /\ \A i \in 1 .. Len(s) : Append(s, d)[i] = s[i]
        /\ Len(Append(t, e)) = Len(t) + 1 /\ Append(t, e)[Len(t) + 1] = e
        /\ \A i \in 1 .. Len(t) : Append(t, e)[i] = t[i]
    BY AppendProperties
  <1>2. Len(s) = Len(t) /\ d = e
    BY <1>1
  <1>3. s = t
    BY <1>1, <1>2, SeqEqual
  <1>4. QED
    BY <1>2, <1>3

\* What Next amounts to.
LEMMA NextCases ==
  [Next]_vars <=>
    \/ UNCHANGED vars
    \/ \E e \in Event : Insert(e)
    \/ Damaged
    \/ Begin
    \/ CheckRecord
    \/ Finish
  BY DEF Next, Damaged

\* Where the loop moves on, the record passed both tests and its hash covers one
\* event more than the hash before it.
LEMMA RecordPasses ==
  ASSUME IInv, CheckRecord, next' # next
  PROVE  /\ next \in 1 .. Len(records) /\ next' = next + 1
         /\ LinkHolds(records, next) /\ ContentHolds(records, next)
         /\ prevHash' = records[next].recordHash
         /\ Lists(prevHash', next)
         /\ UNCHANGED <<table, written, rewritten, damage, records, verdict>>
  <1>1. /\ next \in 1 .. Len(records) /\ next' = next + 1 /\ verdict = "running"
        /\ records[next].prevHash = prevHash
        /\ RecordHash(prevHash, records[next].event) = records[next].recordHash
        /\ prevHash' = records[next].recordHash
        /\ UNCHANGED <<table, written, rewritten, damage, records, verdict>>
    BY DEF IInv, TypeOK, CheckRecord
  <1>2. LinkHolds(records, next)
    BY <1>1 DEF LinkHolds, IInv, Passed
  <1>3. ContentHolds(records, next)
    BY <1>1 DEF ContentHolds
  <1>4. Lists(prevHash', next)
    <2>1. records[next] \in Row /\ prevHash \in Digest
      BY <1>1, ElementOfSeq DEF IInv, TypeOK
    <2>2. prevHash' = Append(prevHash, records[next].event) /\ records[next].event \in Event
      BY <1>1, <2>1 DEF RecordHash, Row
    <2>3. /\ Len(prevHash') = Len(prevHash) + 1
          /\ \A i \in 1 .. Len(prevHash) : prevHash'[i] = prevHash[i]
          /\ prevHash'[Len(prevHash) + 1] = records[next].event
      BY <2>1, <2>2, AppendProperties DEF Digest
    <2>4. Len(prevHash) = next - 1 /\ \A i \in 1 .. next - 1 : prevHash[i] = records[i].event
      BY DEF IInv, ReplayedPrefix, Lists
    <2>5. QED
      BY <1>1, <2>3, <2>4 DEF Lists
  <1>5. QED
    BY <1>1, <1>2, <1>3, <1>4

\* A record that fails a test ends the loop where it stands.
LEMMA RecordFails ==
  ASSUME IInv, CheckRecord, next' = next
  PROVE  /\ next <= Len(records)
         /\ verdict' \in {"link", "content"}
         /\ verdict' = "link" => ~ LinkHolds(records, next)
         /\ verdict' = "content" => LinkHolds(records, next) /\ ~ ContentHolds(records, next)
         /\ UNCHANGED <<table, written, rewritten, damage, records, next, prevHash>>
  <1>1. /\ next \in 1 .. Len(records)
        /\ UNCHANGED <<table, written, rewritten, damage, records, next, prevHash>>
        /\ \/ verdict' = "link" /\ records[next].prevHash # prevHash
           \/ /\ verdict' = "content" /\ records[next].prevHash = prevHash
              /\ RecordHash(prevHash, records[next].event) # records[next].recordHash
    BY DEF IInv, TypeOK, CheckRecord
  <1>2. LinkHolds(records, next) <=> records[next].prevHash = prevHash
    BY <1>1 DEF LinkHolds, IInv, Passed
  <1>3. ContentHolds(records, next) <=>
          records[next].recordHash = RecordHash(records[next].prevHash, records[next].event)
    BY DEF ContentHolds
  <1>4. QED
    BY <1>1, <1>2, <1>3

-----------------------------------------------------------------------------
(* The invariant is inductive *)

LEMMA InitIInv == Init => IInv
  <1> SUFFICES ASSUME Init PROVE IInv
    OBVIOUS
  <1>1. TypeOK
    BY ChainReplayAssumption, EmptySeq DEF Init, TypeOK, Verdicts, Genesis, Digest
  <1>2. InsertedOK
    BY FS_EmptySet DEF Init, InsertedOK
  <1>3. HashesKnown(table) /\ HashesKnown(records) /\ UndamagedIsAsInserted
    BY DEF Init, HashesKnown, UndamagedIsAsInserted, AsInserted
  <1>4. ReplayedPrefix /\ Passed /\ EndedWhere
    BY DEF Init, ReplayedPrefix, Lists, Genesis, Passed, EndedWhere
  <1>5. QED
    BY <1>1, <1>2, <1>3, <1>4 DEF IInv

\* An insert: the new row continues the table.
LEMMA InsertStep == ASSUME IInv, NEW e \in Event, Insert(e) PROVE IInv'
  <1>1. PICK row \in Row :
           /\ row.prevHash = TableHead
           /\ row.event = e
           /\ row.recordHash = RecordHash(TableHead, e)
           /\ Stored(row) \in Row
           /\ table' = Append(table, Stored(row))
           /\ written' = written \cup {row}
           /\ UNCHANGED <<rewritten, damage, records, next, prevHash, verdict>>
    BY InsertAdds DEF IInv
  <1>a. Stored(row).prevHash = TableHead /\ Stored(row).recordHash = row.recordHash
    BY <1>1 DEF Row, Stored
  <1>2. /\ table \in Seq(Row) /\ table' \in Seq(Row)
        /\ Len(table') = Len(table) + 1
        /\ \A i \in 1 .. Len(table) : table'[i] = table[i]
        /\ table'[Len(table) + 1] = Stored(row)
        /\ Len(table) \in Nat
        /\ DOMAIN table = 1 .. Len(table)
        /\ DOMAIN table' = 1 .. Len(table) + 1
    <2>1. table \in Seq(Row) /\ Len(table) \in Nat /\ DOMAIN table = 1 .. Len(table)
      BY DEF IInv, TypeOK
    <2>2. QED
      BY <1>1, <2>1, AppendProperties
  <1>3. TypeOK'
    BY <1>1, <1>2 DEF IInv, TypeOK
  <1>4. InsertedOK'
    <2>1. IsFiniteSet(written')
      BY <1>1, FS_AddElement DEF IInv, InsertedOK
    <2>2. \A w \in written' : w.recordHash = RecordHash(w.prevHash, w.event)
      BY <1>1 DEF IInv, InsertedOK
    <2>3. QED
      BY <2>1, <2>2 DEF InsertedOK
  <1>5. HashesKnown(table)' /\ HashesKnown(records)'
    <2>1. InsertedHash' = InsertedHash \cup {row.recordHash}
      BY <1>1 DEF InsertedHash
    <2>2. QED
      BY <1>1, <1>a, <1>2, <2>1 DEF IInv, HashesKnown
  <1>6. ReplayedPrefix' /\ Passed' /\ EndedWhere'
    BY <1>1 DEF IInv, ReplayedPrefix, Lists, Passed, EndedWhere, LinkHolds, ContentHolds
  <1>7. ASSUME damage' = 0
        PROVE  AsInserted(table)' /\ AsInserted(records)'
    <2>1. AsInserted(table) /\ AsInserted(records)
      BY <1>1, <1>7 DEF IInv, UndamagedIsAsInserted
    <2>2. ASSUME NEW k \in 1 .. Len(table)
          PROVE  LinkHolds(table', k)
      <3>1. k = 1 \/ k - 1 \in 1 .. Len(table)
        BY <1>2
      <3>2. QED
        BY <1>2, <2>1, <3>1 DEF AsInserted, LinkHolds
    <2>3. LinkHolds(table', Len(table) + 1)
      <3>1. CASE table = << >>
        BY <1>a, <1>2, <3>1 DEF LinkHolds, TableHead
      <3>2. CASE table # << >>
        <4>1. Len(table) # 0
          BY <1>2, <3>2, EmptySeq
        <4>2. Len(table) \in 1 .. Len(table)
          BY <1>2, <4>1
        <4>3. QED
          BY <1>a, <1>2, <3>2, <4>1, <4>2 DEF LinkHolds, TableHead
      <3>3. QED
        BY <3>1, <3>2
    <2>4. \A k \in DOMAIN table' :
            \E w \in written' : table'[k] = Stored(w)
      <3>1. \A k \in 1 .. Len(table) :
              \E w \in written : table'[k] = Stored(w)
        BY <1>2, <2>1 DEF AsInserted
      <3>2. row \in written' /\ written \subseteq written'
        BY <1>1
      <3>3. QED
        BY <1>2, <3>1, <3>2
    <2>5. AsInserted(table)'
      <3>1. \A k \in DOMAIN table' : k \in 1 .. Len(table) \/ k = Len(table) + 1
        BY <1>2
      <3>2. QED
        BY <2>2, <2>3, <2>4, <3>1 DEF AsInserted
    <2>6. AsInserted(records)'
      BY <1>1, <2>1 DEF AsInserted, LinkHolds
    <2>7. QED
      BY <2>5, <2>6
  <1>8. QED
    BY <1>3, <1>4, <1>5, <1>6, <1>7 DEF IInv, UndamagedIsAsInserted

\* A damage: the hashes are known, and the replay under way does not see it.
LEMMA DamageStep == ASSUME IInv, Damaged PROVE IInv'
  <1>1. /\ table' \in Seq(Row)
        /\ \A k \in DOMAIN table' : \/ \E j \in DOMAIN table : SameHash(table'[k], table[j])
                                    \/ table'[k].recordHash \in rewritten'
        /\ damage' \in 1 .. MaxDamage
        /\ rewritten \subseteq rewritten' /\ rewritten' \subseteq Digest
        /\ UNCHANGED <<written, records, next, prevHash, verdict>>
    BY DamageLeaves DEF IInv
  <1>2. TypeOK'
    BY <1>1, ChainReplayAssumption DEF IInv, TypeOK
  <1>3. InsertedOK' /\ HashesKnown(table)' /\ HashesKnown(records)'
    BY <1>1 DEF IInv, InsertedOK, HashesKnown, SameHash, InsertedHash
  <1>4. ReplayedPrefix' /\ Passed' /\ EndedWhere'
    BY <1>1 DEF IInv, ReplayedPrefix, Lists, Passed, EndedWhere, LinkHolds, ContentHolds
  <1>5. UndamagedIsAsInserted'
    BY <1>1 DEF UndamagedIsAsInserted
  <1>6. QED
    BY <1>2, <1>3, <1>4, <1>5 DEF IInv

\* A replay starts on the table as it stands.
LEMMA BeginStep == ASSUME IInv, Begin PROVE IInv'
  <1>1. /\ records' = table /\ next' = 1 /\ prevHash' = Genesis /\ verdict' = "running"
        /\ UNCHANGED <<table, written, rewritten, damage>>
    BY DEF Begin
  <1>2. TypeOK'
    <2>1. Len(table) \in Nat /\ Genesis \in Digest
      BY EmptySeq DEF IInv, TypeOK, Genesis, Digest
    <2>2. QED
      BY <1>1, <2>1 DEF IInv, TypeOK, Verdicts
  <1>3. InsertedOK' /\ HashesKnown(table)' /\ HashesKnown(records)' /\ UndamagedIsAsInserted'
    BY <1>1 DEF IInv, InsertedOK, HashesKnown, UndamagedIsAsInserted, AsInserted, LinkHolds,
             InsertedHash
  <1>4. ReplayedPrefix' /\ Passed' /\ EndedWhere'
    BY <1>1 DEF ReplayedPrefix, Lists, Genesis, Passed, EndedWhere
  <1>5. QED
    BY <1>2, <1>3, <1>4 DEF IInv

\* One turn of the loop.
LEMMA CheckStep == ASSUME IInv, CheckRecord PROVE IInv'
  <1>0. next \in 1 .. Len(records) /\ records \in Seq(Row) /\ Len(records) \in Nat
        /\ verdict = "running"
    BY DEF IInv, TypeOK, CheckRecord
  <1>1. CASE next' = next
    <2>1. TypeOK'
      BY <1>1, RecordFails DEF IInv, TypeOK, Verdicts
    <2>2. ReplayedPrefix' /\ Passed'
      BY <1>1, RecordFails DEF IInv, ReplayedPrefix, Lists, Passed, LinkHolds, ContentHolds
    <2>3. EndedWhere'
      BY <1>1, RecordFails DEF EndedWhere, LinkHolds, ContentHolds
    <2>4. InsertedOK' /\ HashesKnown(table)' /\ HashesKnown(records)' /\ UndamagedIsAsInserted'
      BY <1>1, RecordFails
         DEF IInv, InsertedOK, HashesKnown, UndamagedIsAsInserted, AsInserted, LinkHolds,
             InsertedHash
    <2>5. QED
      BY <2>1, <2>2, <2>3, <2>4 DEF IInv
  <1>2. CASE next' # next
    <2>1. TypeOK'
      <3>1. records[next].recordHash \in Digest
        <4>1. records[next] \in Row
          BY <1>0
        <4>2. QED
          BY <4>1 DEF Row
      <3>2. QED
        BY <1>0, <1>2, <3>1, RecordPasses DEF IInv, TypeOK
    <2>2. ReplayedPrefix'
      <3>1. \A k \in 1 .. next : Lists(records[k].recordHash, k)
        BY <1>0, <1>2, RecordPasses DEF IInv, ReplayedPrefix
      <3>2. QED
        BY <1>0, <1>2, <3>1, RecordPasses DEF ReplayedPrefix, Lists
    <2>3. Passed'
      <3>1. \A k \in 1 .. next : LinkHolds(records, k) /\ ContentHolds(records, k)
        BY <1>0, <1>2, RecordPasses DEF IInv, Passed
      <3>2. QED
        BY <1>0, <1>2, <3>1, RecordPasses DEF Passed, LinkHolds, ContentHolds
    <2>4. EndedWhere'
      BY <1>0, <1>2, RecordPasses DEF EndedWhere
    <2>5. InsertedOK' /\ HashesKnown(table)' /\ HashesKnown(records)' /\ UndamagedIsAsInserted'
      BY <1>2, RecordPasses
         DEF IInv, InsertedOK, HashesKnown, UndamagedIsAsInserted, AsInserted, LinkHolds,
             InsertedHash
    <2>6. QED
      BY <2>1, <2>2, <2>3, <2>4, <2>5 DEF IInv
  <1>3. QED
    BY <1>1, <1>2

\* The loop has run out of records.
LEMMA FinishStep == ASSUME IInv, Finish PROVE IInv'
  <1>1. next = Len(records) + 1 /\ verdict' = "valid"
        /\ UNCHANGED <<table, written, rewritten, damage, records, next, prevHash>>
    BY DEF IInv, TypeOK, Finish
  <1>2. TypeOK'
    BY <1>1 DEF IInv, TypeOK, Verdicts
  <1>3. InsertedOK' /\ HashesKnown(table)' /\ HashesKnown(records)' /\ UndamagedIsAsInserted'
    BY <1>1 DEF IInv, InsertedOK, HashesKnown, UndamagedIsAsInserted, AsInserted, LinkHolds,
             InsertedHash
  <1>4. ReplayedPrefix' /\ Passed' /\ EndedWhere'
    BY <1>1 DEF IInv, ReplayedPrefix, Lists, Passed, EndedWhere, LinkHolds, ContentHolds
  <1>5. QED
    BY <1>2, <1>3, <1>4 DEF IInv

LEMMA StepIInv == IInv /\ [Next]_vars => IInv'
  <1> SUFFICES ASSUME IInv, [Next]_vars PROVE IInv'
    OBVIOUS
  <1>1. CASE UNCHANGED vars
    BY <1>1 DEF vars, IInv, TypeOK, InsertedOK, HashesKnown, ReplayedPrefix, Lists, Passed,
                EndedWhere, UndamagedIsAsInserted, AsInserted, LinkHolds, ContentHolds, InsertedHash
  <1>2. QED
    BY <1>1, NextCases, InsertStep, DamageStep, BeginStep, CheckStep, FinishStep

-----------------------------------------------------------------------------
(* Theorems *)

\* What the table, the rows read by a replay and its loop hold in every reachable state.
THEOREM InductiveInvariant == Spec => []IInv
  BY InitIInv, StepIInv, PTL DEF Spec

\* The loop index never leaves the records, whatever happens to the table.
THEOREM TypeCorrect == Spec => []TypeOK
  <1>1. IInv => TypeOK
    BY DEF IInv
  <1>2. QED
    BY <1>1, InductiveInvariant, PTL

\* The head hash a replay has reached lists exactly the events it has read, in
\* order, for a table of any length with any damages: so does every row's hash.
THEOREM HeadHashCertifiesPrefix == Spec => []ReplayedPrefix
  <1>1. IInv => ReplayedPrefix
    BY DEF IInv
  <1>2. QED
    BY <1>1, InductiveInvariant, PTL

\* No valid verdict covers an altered or foreign row, but where a damage wrote the row's
\* hash too, and one no insert had written.
THEOREM ValidIsGenuine == Spec => []ValidRowsAreGenuine
  <1>1. IInv => ValidRowsAreGenuine
    <2> SUFFICES ASSUME IInv, verdict = "valid", NEW k \in DOMAIN records,
                        records[k].recordHash \notin rewritten \ InsertedHash
                 PROVE  \E w \in written : [w EXCEPT !.seq = records[k].seq] = records[k]
      BY DEF ValidRowsAreGenuine
    <2>1. k \in 1 .. next - 1 /\ records[k] \in Row
      BY DEF IInv, TypeOK, EndedWhere
    <2>2. PICK w \in written : w.recordHash = records[k].recordHash
      BY DEF IInv, HashesKnown, InsertedHash
    <2>3. w \in Row /\ w.recordHash = RecordHash(w.prevHash, w.event)
      BY DEF IInv, TypeOK, InsertedOK
    <2>4. Append(w.prevHash, w.event) = Append(records[k].prevHash, records[k].event)
      BY <2>1, <2>2, <2>3 DEF IInv, Passed, ContentHolds, RecordHash
    <2>5. w.event = records[k].event /\ w.prevHash = records[k].prevHash
      <3>1. /\ w.prevHash \in Seq(Event) /\ w.event \in Event
            /\ records[k].prevHash \in Seq(Event) /\ records[k].event \in Event
        BY <2>1, <2>3 DEF Row, Digest
      <3>2. QED
        BY <2>4, <3>1, AppendsEqual
    <2>6. [w EXCEPT !.seq = records[k].seq] = records[k]
      BY <2>1, <2>2, <2>3, <2>5 DEF Row
    <2>7. QED
      BY <2>6
  <1>2. QED
    BY <1>1, InductiveInvariant, PTL

\* The early-exit loop computes the global verdict VerifyChain.
THEOREM LoopComputesVerdict == Spec => []BlameIsExact
  <1>1. IInv => BlameIsExact
    <2> SUFFICES ASSUME IInv PROVE BlameIsExact
      OBVIOUS
    <2> DEFINE broken == {i \in DOMAIN records :
                            ~ LinkHolds(records, i) \/ ~ ContentHolds(records, i)}
               first == CHOOSE i \in broken : \A j \in broken : i <= j
    <2>0. /\ DOMAIN records = 1 .. Len(records) /\ Len(records) \in Nat
          /\ next \in 1 .. Len(records) + 1
          /\ \A k \in 1 .. next - 1 : k \notin broken
      BY DEF IInv, TypeOK, Passed
    <2>1. CASE verdict = "valid"
      <3>1. broken = {}
        BY <2>0, <2>1 DEF IInv, EndedWhere
      <3>2. QED
        BY <2>1, <3>1 DEF BlameIsExact, VerifyChain
    <2>2. CASE verdict \in {"link", "content"}
      <3>1. next \in broken
        BY <2>0, <2>2 DEF IInv, EndedWhere
      <3>2. \A j \in broken : next <= j
        BY <2>0
      <3>3. \A i \in broken : (\A j \in broken : i <= j) => i = next
        BY <2>0, <3>1, <3>2
      <3>4. first = next
        BY <3>1, <3>2, <3>3
      <3>5. broken # {}
        BY <3>1
      <3>6. VerifyChain(records) =
              [valid |-> FALSE, brokenAt |-> records[first].seq,
               reason |-> IF LinkHolds(records, first) THEN "content" ELSE "link"]
        BY <3>5 DEF VerifyChain
      <3>7. (IF LinkHolds(records, next) THEN "content" ELSE "link") = verdict
        BY <2>2 DEF IInv, EndedWhere
      <3>8. QED
        BY <2>2, <3>4, <3>6, <3>7 DEF BlameIsExact
    <2>3. CASE verdict \notin {"valid", "link", "content"}
      BY <2>3 DEF BlameIsExact
    <2>4. QED
      BY <2>1, <2>2, <2>3
  <1>2. QED
    BY <1>1, InductiveInvariant, PTL

\* In a log nobody damaged, however it grows under the replay, the verdict of the loop is
\* never a broken link, and it blames the content of a row only for how its event was sent.
THEOREM UndamagedBlameIsForRespelling == Spec => []UndamagedBlamesOnlyRespelled
  <1>1. IInv => UndamagedBlamesOnlyRespelled
    <2> SUFFICES ASSUME IInv, damage = 0, verdict \in {"link", "content"}
                 PROVE  /\ verdict = "content"
                        /\ \E w \in written : /\ w.seq = records[next].seq
                                              /\ records[next].event = AsStored(w.event)
                                              /\ AsStored(w.event) # w.event
      BY DEF UndamagedBlamesOnlyRespelled
    <2>1. next \in DOMAIN records
      BY DEF IInv, TypeOK, EndedWhere
    <2>2. LinkHolds(records, next)
      BY <2>1 DEF IInv, UndamagedIsAsInserted, AsInserted
    <2>3. verdict = "content" /\ ~ ContentHolds(records, next)
      BY <2>2 DEF IInv, EndedWhere
    <2>4. PICK w \in written : records[next] = Stored(w)
      BY <2>1 DEF IInv, UndamagedIsAsInserted, AsInserted
    <2>5. w \in Row /\ w.recordHash = RecordHash(w.prevHash, w.event)
      BY DEF IInv, TypeOK, InsertedOK
    <2>6. /\ records[next].seq = w.seq /\ records[next].event = AsStored(w.event)
          /\ records[next].prevHash = w.prevHash /\ records[next].recordHash = w.recordHash
      BY <2>4, <2>5 DEF Row, Stored
    <2>7. AsStored(w.event) # w.event
      BY <2>3, <2>5, <2>6 DEF ContentHolds
    <2>8. QED
      BY <2>3, <2>6, <2>7
  <1>2. QED
    BY <1>1, InductiveInvariant, PTL

==============================================================================
