------------------------------ MODULE ChainReplay ------------------------------
(***************************************************************************)
(* GET /v1/audit/verify: VerifyChainUseCase walks the rows one by one in   *)
(* seq order, over a table that goes on growing and whose stored rows may  *)
(* have been damaged: a field altered, a row lost (say in a restore), two  *)
(* rows put in each other's place, a row's hashes written over.            *)
(***************************************************************************)
EXTENDS HashChain

CONSTANTS
  MaxRows,     \* rows ever inserted
  MaxDamage    \* damages ever done

ASSUME ChainReplayAssumption == MaxRows \in Nat /\ MaxDamage \in Nat

VARIABLES
  table,     \* the rows in seq order
  written,   \* history: every row inserted, with its event as it was sent
  rewritten, \* history: every record hash a damage wrote
  damage,    \* damages so far
  records,   \* what listAllInChainOrder returned to the replay
  next,      \* index of the record the loop looks at
  prevHash,  \* the loop's prevHash
  verdict    \* "running", or how the replay ended

vars == <<table, written, rewritten, damage, records, next, prevHash, verdict>>
replay == <<records, next, prevHash, verdict>>

StoredEvent == {AsStored(e) : e \in Event}

Init ==
  /\ table = << >>
  /\ written = {}
  /\ rewritten = {}
  /\ damage = 0
  /\ records = << >>
  /\ next = 1
  /\ prevHash = Genesis
  /\ verdict = "idle"

-----------------------------------------------------------------------------
(* The table between two replays *)

TableHead == IF table = << >> THEN Genesis ELSE table[Len(table)].recordHash

\* TypeOrmAuditEventRepository.append, one atomic step here (see AuditLog): what is hashed
\* is the event as it was sent.
Insert(e) ==
  LET row == [seq |-> Cardinality(written) + 1, event |-> e,
              prevHash |-> TableHead, recordHash |-> RecordHash(TableHead, e)]
  IN  /\ Cardinality(written) < MaxRows
      /\ \A k \in DOMAIN table : table[k].event.id # e.id    \* uq_audit_events_id
      /\ table' = Append(table, [row EXCEPT !.event = AsStored(e)])
      /\ written' = written \cup {row}
      /\ UNCHANGED <<rewritten, damage, replay>>

Damage ==
  /\ damage < MaxDamage
  /\ damage' = damage + 1
  /\ UNCHANGED <<written, replay>>

\* A signed field of the k-th row reads differently.
Alter(k, e) ==
  /\ Damage
  /\ table[k].event # e
  /\ table' = [table EXCEPT ![k].event = e]
  /\ UNCHANGED rewritten

\* The k-th row is gone.
Lose(k) ==
  /\ Damage
  /\ table' = SubSeq(table, 1, k - 1) \o SubSeq(table, k + 1, Len(table))
  /\ UNCHANGED rewritten

\* Two rows trade places.
Exchange(k, l) ==
  /\ Damage
  /\ table' = [table EXCEPT ![k] = [table[l] EXCEPT !.seq = table[k].seq],
                            ![l] = [table[k] EXCEPT !.seq = table[l].seq]]
  /\ UNCHANGED rewritten

\* The hashes of the k-th row are written over: with others, or so that they fit it.
Hashes == {Genesis} \cup {table[j].recordHash : j \in DOMAIN table}
Rewrite(k, link, hash) ==
  /\ Damage
  /\ table' = [table EXCEPT ![k].prevHash = link, ![k].recordHash = hash]
  /\ rewritten' = rewritten \cup {hash}

-----------------------------------------------------------------------------
(* VerifyChainUseCase.execute *)

\* listAllInChainOrder: ORDER BY seq ASC.
RowsRead == table

\* The loop starts at the first record from genesis.
StartLoop == prevHash' = Genesis /\ next' = 1

Begin ==
  /\ verdict # "running"
  /\ records' = RowsRead
  /\ StartLoop
  /\ verdict' = "running"
  /\ UNCHANGED <<table, written, rewritten, damage>>

\* The two tests of the loop body, and the first left out.
LinkIgnored(record) == FALSE
LinkBroken(record) == record.prevHash # prevHash

ContentModified(record) == RecordHash(prevHash, record.event) # record.recordHash

CheckRecord ==
  /\ verdict = "running"
  /\ next <= Len(records)
  /\ LET record == records[next]
     IN  \/ /\ LinkBroken(record)
            /\ verdict' = "link"
            /\ UNCHANGED <<next, prevHash>>
         \/ /\ ~ LinkBroken(record)
            /\ ContentModified(record)
            /\ verdict' = "content"
            /\ UNCHANGED <<next, prevHash>>
         \/ /\ ~ LinkBroken(record)
            /\ ~ ContentModified(record)
            /\ prevHash' = record.recordHash
            /\ next' = next + 1
            /\ UNCHANGED verdict
  /\ UNCHANGED <<table, written, rewritten, damage, records>>

\* Every record passed.
Finish ==
  /\ verdict = "running"
  /\ next > Len(records)
  /\ verdict' = "valid"
  /\ UNCHANGED <<table, written, rewritten, damage, records, next, prevHash>>

Next ==
  \/ \E e \in Event : Insert(e)
  \/ \E k \in DOMAIN table, e \in StoredEvent : Alter(k, e)
  \/ \E k \in DOMAIN table : Lose(k)
  \/ \E k, l \in DOMAIN table : k < l /\ Exchange(k, l)
  \/ \E k \in DOMAIN table, link \in Hashes :
       \E hash \in Hashes \cup {RecordHash(link, table[k].event)} : Rewrite(k, link, hash)
  \/ Begin
  \/ CheckRecord
  \/ Finish

Spec == Init /\ [][Next]_vars

-----------------------------------------------------------------------------
(* Properties *)

Verdicts == {"idle", "running", "valid", "link", "content"}

TypeOK ==
  /\ table \in Seq(Row)
  /\ written \in SUBSET Row
  /\ rewritten \in SUBSET Digest
  /\ damage \in 0 .. MaxDamage
  /\ records \in Seq(Row)
  /\ next \in 1 .. Len(records) + 1
  /\ prevHash \in Digest
  /\ verdict \in Verdicts

\* d lists the events of the first n records read, in their order.
Lists(d, n) == Len(d) = n /\ \A i \in 1 .. n : d[i] = records[i].event

\* Where the loop has come, every record's hash covers exactly the events read so
\* far in the order read, and so does the head hash the replay returns: whoever
\* kept an earlier head hash can tell from it alone that nothing before it is
\* missing, altered or out of place.
ReplayedPrefix ==
  /\ Lists(prevHash, next - 1)
  /\ \A k \in 1 .. next - 1 : Lists(records[k].recordHash, k)

InsertedHash == {w.recordHash : w \in written}

\* A valid verdict certifies every row it read: but for the seq, which no hash covers,
\* each is field by field a row that was inserted, unless its own hash is one that no
\* insert but a damage wrote.
ValidRowsAreGenuine ==
  verdict = "valid" =>
    \A k \in DOMAIN records :
      \/ \E w \in written : [w EXCEPT !.seq = records[k].seq] = records[k]
      \/ records[k].recordHash \in rewritten \ InsertedHash

\* The loop's verdict is the one of a global look at the rows read: the record
\* blamed is the first that does not belong there, and a broken link is reported
\* before a modified content.
BlameIsExact ==
  LET blamed == VerifyChain(records)
  IN  /\ verdict = "valid" => blamed.valid
      /\ verdict \in {"link", "content"} =>
           blamed = [valid |-> FALSE, brokenAt |-> records[next].seq, reason |-> verdict]

\* In an undamaged log, also while it grows under the replay, no link is called broken,
\* and the record called modified is one whose event was not sent as it is stored.
UndamagedBlamesOnlyRespelled ==
  damage = 0 =>
    /\ verdict # "link"
    /\ verdict = "content" =>
         \E w \in written : /\ w.seq = records[next].seq
                            /\ records[next].event = AsStored(w.event)
                            /\ AsStored(w.event) # w.event
==============================================================================
