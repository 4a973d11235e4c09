---------------------------- MODULE AuditLogProofs ----------------------------
(***************************************************************************)
(* Proofs about AuditLog for any number of posts, client ids and retries:  *)
(* its types, the safety of the chain and that it implements AuditChain.   *)
(***************************************************************************)
EXTENDS AuditLog, FiniteSetTheorems, TLAPS

\* One-line abbreviations of AuditLog, expanded throughout.
USE DEF PrevHash, Collides, Spent, LastAttempt, Rethrown

-----------------------------------------------------------------------------
(* The inductive invariant, beyond the properties themselves. *)

Drawn(p) == pc[p] \in {"drawn", "inserted"}

\* BIGSERIAL: every seq in use was drawn.
SeqsWereDrawn ==
  /\ \A r \in rows : r.seq < nextSeq
  /\ \A p \in Post : Drawn(p) => pending[p].seq < nextSeq

OneRowPerSeq == \A r, q \in rows : r.seq = q.seq => r = q

\* A table with rows has a last one (it is finite, but this says it in first order).
HasHead(table) == table # {} => \E r \in table : IsHead(r, table)

AttemptsLeft == \A p \in Post : pc[p] # "done" => attempt[p] < MaxAppendRetries

\* What a transaction sees was committed before, and the row it inserts links to
\* the head it sees with a seq beyond all it sees.
TransactionOK(p) ==
  /\ InTransaction(p) => snap[p] \subseteq rows /\ HasHead(snap[p])
  /\ Drawn(p) => /\ pending[p] \in Row
                 /\ pending[p] = RowOn(PrevHash(p), p, pending[p].seq)
                 /\ \A r \in snap[p] : r.seq < pending[p].seq

TransactionShape == \A p \in Post : TransactionOK(p)

\* The unique index on id: a row that passed it is the only one with its id,
\* committed or not.
PassedUniqueIndex ==
  \A p \in Post : pc[p] = "inserted" =>
    /\ \A r \in rows : r.event.id # pending[p].event.id
    /\ \A q \in Post : pc[q] = "inserted" /\ pending[q].event.id = pending[p].event.id
                         => q = p

\* Nobody has the id generated for a post before the post is through.
GeneratedIdsAreFresh ==
  \A p \in Post : sent[p].id = NoId /\ pc[p] # "done" => \A r \in rows : r.event.id # p

\* Every event a digest lists is the event of a row.
DigestsListRows ==
  \A r \in rows : \A i \in DOMAIN r.recordHash :
    \E q \in rows : q.event.id = r.recordHash[i].id

IInv ==
  /\ TypeOK
  /\ SeqsWereDrawn
  /\ OneRowPerSeq
  /\ HasHead(rows)
  /\ AttemptsLeft
  /\ TransactionShape
  /\ PassedUniqueIndex
  /\ GeneratedIdsAreFresh
  /\ DigestsListRows
  /\ ChainLinked
  /\ OneRowPerEvent
  /\ AnswersTellTheTruth

-----------------------------------------------------------------------------
(* Lemmas on the operators *)

\* The content of a post's event is an event, and so is what its row stores.
LEMMA EventOfType ==
  ASSUME NEW p \in Post, sent \in [Post -> Request]
  PROVE  /\ EventOf(p) \in Event
         /\ AsStored(EventOf(p)) \in Event
         /\ AsStored(EventOf(p)).id = EventOf(p).id
  BY AuditLogAssumption DEF EventOf, Event, AsStored, Request, Spelling

\* The head of a table without two rows of one seq is the row IsHead describes.
LEMMA HeadHashIs ==
  ASSUME NEW table, NEW r \in table, IsHead(r, table),
         \A q \in table : q.seq \in Nat,
         \A q \in table : q.seq = r.seq => q = r
  PROVE  HeadHash(table) = r.recordHash
  <1>1. IsHead(CHOOSE q \in table : IsHead(q, table), table)
    BY DEF IsHead
  <1>2. (CHOOSE q \in table : IsHead(q, table)) = r
    BY <1>1 DEF IsHead
  <1>3. QED
    BY <1>2 DEF HeadHash

\* A row whose seq exceeds all others becomes the head.
LEMMA HeadHashGrows ==
  ASSUME NEW table, NEW n,
         \A q \in table : q.seq \in Nat,
         n.seq \in Nat,
         \A q \in table : q.seq < n.seq
  PROVE  HeadHash(table \cup {n}) = n.recordHash
  <1>1. IsHead(n, table \cup {n})
    BY DEF IsHead
  <1>2. \A q \in table \cup {n} : q.seq \in Nat /\ (q.seq = n.seq => q = n)
    OBVIOUS
  <1>3. QED
    BY <1>1, <1>2, HeadHashIs

\* The head hash of a table of rows is a digest.
LEMMA HeadHashType ==
  ASSUME NEW table \in SUBSET Row, HasHead(table)
  PROVE  HeadHash(table) \in Digest
  <1>1. CASE table = {}
    BY <1>1 DEF HeadHash, Genesis, Digest
  <1>2. CASE table # {}
    <2>1. (CHOOSE r \in table : IsHead(r, table)) \in table
      BY <1>2 DEF HasHead
    <2>2. QED
      BY <1>2, <2>1 DEF HeadHash, Row
  <1>3. QED
    BY <1>1, <1>2

\* A row built on a digest is a row.
LEMMA RowOnType ==
  ASSUME NEW p \in Post, sent \in [Post -> Request],
         NEW h \in Digest, NEW s \in Nat \ {0}
  PROVE  /\ RowOn(h, p, s) \in Row
         /\ RowOn(h, p, s).seq = s
         /\ RowOn(h, p, s).prevHash = h
         /\ RowOn(h, p, s).recordHash = RecordHash(h, EventOf(p))
         /\ RowOn(h, p, s).event.id = EventOf(p).id
  BY EventOfType DEF RowOn, Row, RecordHash, Digest

-----------------------------------------------------------------------------
(* Type correctness *)

\* Every step keeps the variables in their types.
LEMMA TypeStep ==
  TypeOK /\ HasHead(rows) /\ AttemptsLeft /\ TransactionShape /\ [Next]_vars => TypeOK'
  <1> SUFFICES ASSUME TypeOK, HasHead(rows), AttemptsLeft, TransactionShape, [Next]_vars
               PROVE  TypeOK'
    OBVIOUS
  <1>0. CASE UNCHANGED vars
    BY <1>0 DEF TypeOK, vars
  <1>1. ASSUME NEW p \in Post, RejectMalformed(p)
        PROVE  TypeOK'
    BY <1>1 DEF TypeOK, RejectMalformed, Answer, tx, Phase, Reply
  <1>2. ASSUME NEW p \in Post, LookUp(p)
        PROVE  TypeOK'
    BY <1>2 DEF TypeOK, LookUp, Answer, tx, Phase, Reply
  <1>3. ASSUME NEW p \in Post, Build(p)
        PROVE  TypeOK'
    <2>1. HeadHash(rows) \in Digest
      BY HeadHashType DEF TypeOK
    <2>2. QED
      BY <1>3, <2>1 DEF TypeOK, Build, tx, Phase
  <1>4. ASSUME NEW p \in Post, BeginAttempt(p)
        PROVE  TypeOK'
    BY <1>4 DEF TypeOK, BeginAttempt, Phase
  <1>5. ASSUME NEW p \in Post, DrawSeq(p)
        PROVE  TypeOK'
    <2>1. HeadHash(snap[p]) \in Digest
      BY <1>5, HeadHashType
         DEF TypeOK, TransactionShape, TransactionOK, DrawSeq, InTransaction
    <2>2. RowOn(PrevHash(p), p, nextSeq) \in Row
      BY <2>1, RowOnType DEF TypeOK
    <2>3. QED
      BY <1>5, <2>2 DEF TypeOK, DrawSeq, Phase
  <1>6. ASSUME NEW p \in Post, InsertRow(p)
        PROVE  TypeOK'
    BY <1>6 DEF TypeOK, InsertRow, Answer, Phase, Reply
  <1>7. ASSUME NEW p \in Post, Commit(p)
        PROVE  TypeOK'
    BY <1>7 DEF TypeOK, Commit, TransactionShape, TransactionOK, Drawn, Answer, Phase, Reply
  <1>8. ASSUME NEW p \in Post, SerializationFailure(p)
        PROVE  TypeOK'
    BY <1>8, AuditLogAssumption
       DEF TypeOK, AttemptsLeft, SerializationFailure, InTransaction, Answer, Phase, Reply
  <1>9. ASSUME NEW p \in Post, Fail(p)
        PROVE  TypeOK'
    BY <1>9 DEF TypeOK, Fail, Answer, Phase, Reply
  <1>10. QED
    BY <1>0, <1>1, <1>2, <1>3, <1>4, <1>5, <1>6, <1>7, <1>8, <1>9 DEF Next, Step

-----------------------------------------------------------------------------
(* What a commit adds *)

\* COMMIT is the only step that touches the table.
LEMMA OnlyCommitWrites ==
  [Next]_vars => UNCHANGED rows \/ \E p \in Post : Commit(p)
  BY DEF Next, Step, vars, RejectMalformed, LookUp, Build, BeginAttempt, DrawSeq,
         InsertRow, SerializationFailure, Fail

\* The committed row lies beyond all others, links to the head and is the only
\* one with its id.
LEMMA CommittedRow ==
  ASSUME IInv, NEW p \in Post, Commit(p)
  PROVE  /\ rows' = rows \cup {pending[p]}
         /\ pending[p] \in Row
         /\ \A r \in rows : r.seq < pending[p].seq
         /\ pending[p].prevHash = HeadHash(rows)
         /\ pending[p].recordHash = RecordHash(HeadHash(rows), EventOf(p))
         /\ pending[p].event.id = EventOf(p).id
         /\ \A r \in rows : r.event.id # pending[p].event.id
  <1>1. snap[p] = rows /\ rows' = rows \cup {pending[p]} /\ pc[p] = "inserted"
    BY DEF Commit, Serializable
  <1>2. /\ pending[p] \in Row
        /\ pending[p] = RowOn(HeadHash(rows), p, pending[p].seq)
        /\ \A r \in rows : r.seq < pending[p].seq
    BY <1>1 DEF IInv, TransactionShape, TransactionOK, Drawn
  <1>3. HeadHash(rows) \in Digest /\ pending[p].seq \in Nat \ {0}
    BY <1>2, HeadHashType DEF IInv, TypeOK, Row
  <1>4. /\ pending[p].prevHash = HeadHash(rows)
        /\ pending[p].recordHash = RecordHash(HeadHash(rows), EventOf(p))
        /\ pending[p].event.id = EventOf(p).id
    BY <1>2, <1>3, RowOnType DEF IInv, TypeOK
  <1>5. \A r \in rows : r.event.id # pending[p].event.id
    BY <1>1 DEF IInv, PassedUniqueIndex
  <1>6. QED
    BY <1>1, <1>2, <1>4, <1>5

\* The new row is the head, and no two rows share a seq or an id.
LEMMA CommitKeepsOrder ==
  ASSUME IInv, NEW p \in Post, Commit(p)
  PROVE  /\ IsHead(pending[p], rows')
         /\ HasHead(rows)'
         /\ OneRowPerSeq'
         /\ OneRowPerEvent'
         /\ HeadHash(rows') = pending[p].recordHash
  <1>1. \A r \in rows : r.seq \in Nat
    BY DEF IInv, TypeOK, Row
  <1>2. pending[p].seq \in Nat
    BY CommittedRow DEF Row
  <1>3. IsHead(pending[p], rows')
    BY <1>1, <1>2, CommittedRow DEF IsHead
  <1>4. HasHead(rows)'
    BY <1>3, CommittedRow DEF HasHead
  <1>5. OneRowPerSeq'
    BY <1>1, <1>2, CommittedRow DEF IInv, OneRowPerSeq
  <1>6. OneRowPerEvent'
    BY CommittedRow DEF IInv, OneRowPerEvent
  <1>7. HeadHash(rows') = pending[p].recordHash
    <2>1. \A r \in rows : r.seq < pending[p].seq
      BY CommittedRow
    <2>2. HeadHash(rows \cup {pending[p]}) = pending[p].recordHash
      BY <1>1, <1>2, <2>1, HeadHashGrows
    <2>3. rows' = rows \cup {pending[p]}
      BY CommittedRow
    <2>4. QED
      BY <2>2, <2>3
  <1>8. QED
    BY <1>3, <1>4, <1>5, <1>6, <1>7

\* The new row follows on the old head, and the others keep their predecessors.
LEMMA CommitKeepsLinks ==
  ASSUME IInv, NEW p \in Post, Commit(p)
  PROVE  ChainLinked'
  <1> DEFINE n == pending[p]
  <1>1. \A r \in rows : r.seq \in Nat
    BY DEF IInv, TypeOK, Row
  <1>2. n.seq \in Nat
    BY CommittedRow DEF Row
  <1>3. ASSUME NEW r \in rows
        PROVE  Linked(r, rows')
    <2>1. Linked(r, rows)
      BY DEF IInv, ChainLinked
    <2>2. CASE r.prevHash = Genesis /\ \A q \in rows : r.seq <= q.seq
      BY <1>1, <1>2, <2>2, CommittedRow DEF Linked
    <2>3. CASE \E q \in rows : /\ q.seq < r.seq
                               /\ q.recordHash = r.prevHash
                               /\ \A o \in rows : o.seq <= q.seq \/ r.seq <= o.seq
      BY <1>1, <1>2, <2>3, CommittedRow DEF Linked
    <2>4. QED
      BY <2>1, <2>2, <2>3 DEF Linked
  <1>4. Linked(n, rows')
    <2>1. CASE rows = {}
      <3>1. n.prevHash = Genesis
        BY <2>1, CommittedRow DEF HeadHash
      <3>2. \A q \in rows' : n.seq <= q.seq
        BY <1>2, <2>1, CommittedRow
      <3>3. QED
        BY <3>1, <3>2 DEF Linked
    <2>2. CASE rows # {}
      <3>1. PICK h \in rows : IsHead(h, rows)
        BY <2>2 DEF IInv, HasHead
      <3>2. HeadHash(rows) = h.recordHash
        BY <1>1, <3>1, HeadHashIs DEF IInv, OneRowPerSeq
      <3>3. /\ h \in rows' /\ h.seq < n.seq /\ h.recordHash = n.prevHash
            /\ \A o \in rows' : o.seq <= h.seq \/ n.seq <= o.seq
        BY <1>1, <1>2, <3>1, <3>2, CommittedRow DEF IsHead
      <3>4. QED
        BY <3>3 DEF Linked
    <2>3. QED
      BY <2>1, <2>2
  <1>5. QED
    BY <1>3, <1>4, CommittedRow DEF ChainLinked

\* Every event the head's digest lists is the event of a row.
LEMMA HeadListsRows ==
  ASSUME IInv, NEW i \in DOMAIN HeadHash(rows)
  PROVE  \E q \in rows : q.event.id = HeadHash(rows)[i].id
  <1>1. CASE rows = {}
    BY <1>1 DEF HeadHash, Genesis
  <1>2. CASE rows # {}
    <2>1. PICK r \in rows : IsHead(r, rows)
      BY <1>2 DEF IInv, HasHead
    <2>2. HeadHash(rows) = r.recordHash
      BY <2>1, HeadHashIs DEF IInv, TypeOK, Row, OneRowPerSeq
    <2>3. QED
      BY <2>2 DEF IInv, DigestsListRows
  <1>3. QED
    BY <1>1, <1>2

\* The new digest lists the events of the head's digest and the new row's.
LEMMA CommitKeepsDigests ==
  ASSUME IInv, NEW p \in Post, Commit(p)
  PROVE  DigestsListRows'
  <1> DEFINE n == pending[p]
             h == HeadHash(rows)
  <1>1. h \in Digest
    BY HeadHashType DEF IInv, TypeOK
  <1>2. \A i \in DOMAIN h : \E q \in rows : q.event.id = h[i].id
    BY HeadListsRows
  <1>3. EventOf(p) \in Event
    BY EventOfType DEF IInv, TypeOK
  <1>4. n.recordHash = Append(h, EventOf(p))
    BY CommittedRow DEF RecordHash
  <1>5. ASSUME NEW i \in DOMAIN n.recordHash
        PROVE  \E q \in rows' : q.event.id = n.recordHash[i].id
    <2>1. i \in 1 .. Len(h) + 1
      BY <1>1, <1>3, <1>4 DEF Digest
    <2>2. CASE i = Len(h) + 1
      <3>1. n.recordHash[i] = EventOf(p)
        BY <1>1, <1>3, <1>4, <2>2 DEF Digest
      <3>2. QED
        BY <3>1, CommittedRow
    <2>3. CASE i \in 1 .. Len(h)
      <3>1. n.recordHash[i] = h[i] /\ i \in DOMAIN h
        BY <1>1, <1>3, <1>4, <2>3 DEF Digest
      <3>2. QED
        BY <1>2, <3>1, CommittedRow
    <2>4. QED
      BY <1>1, <2>1, <2>2, <2>3 DEF Digest
  <1>6. QED
    BY <1>5, CommittedRow DEF IInv, DigestsListRows

-----------------------------------------------------------------------------
(* The invariant is inductive *)

\* Only a failed attempt counts, and the last one ends the post.
LEMMA AttemptsStep == TypeOK /\ AttemptsLeft /\ [Next]_vars => AttemptsLeft'
  <1> SUFFICES ASSUME TypeOK, AttemptsLeft, [Next]_vars
               PROVE  AttemptsLeft'
    OBVIOUS
  <1>1. ASSUME NEW p \in Post, SerializationFailure(p)
        PROVE  AttemptsLeft'
    BY <1>1, AuditLogAssumption
       DEF TypeOK, AttemptsLeft, SerializationFailure, InTransaction, Answer
  <1>2. ASSUME NEW p \in Post, UNCHANGED attempt,
               \A q \in Post : pc'[q] # "done" => pc[q] # "done"
        PROVE  AttemptsLeft'
    BY <1>2 DEF AttemptsLeft
  <1>3. CASE UNCHANGED vars
    BY <1>3 DEF AttemptsLeft, vars
  <1>4. ASSUME NEW p \in Post, Step(p) \/ Fail(p), ~ SerializationFailure(p)
        PROVE  /\ UNCHANGED attempt
               /\ \A q \in Post : pc'[q] # "done" => pc[q] # "done"
    BY <1>4 DEF TypeOK, Step, RejectMalformed, LookUp, Build, BeginAttempt, DrawSeq,
                InsertRow, Commit, Fail, Answer, tx
  <1>5. QED
    BY <1>1, <1>2, <1>3, <1>4 DEF Next

\* nextval moves past every seq it hands out.
LEMMA SeqStep == IInv /\ [Next]_vars => SeqsWereDrawn'
  <1> SUFFICES ASSUME IInv, [Next]_vars
               PROVE  SeqsWereDrawn'
    OBVIOUS
  <1> USE DEF SeqsWereDrawn, Drawn
  <1>0. \A r \in rows : r.seq \in Nat
    BY DEF IInv, TypeOK, Row
  <1>1. ASSUME NEW p \in Post, DrawSeq(p)
        PROVE  SeqsWereDrawn'
    <2>1. RowOn(PrevHash(p), p, nextSeq).seq = nextSeq
      BY DEF RowOn
    <2>2. \A q \in Post : Drawn(q) => pending[q].seq \in Nat
      BY DEF IInv, TransactionShape, TransactionOK, Row
    <2>3. QED
      BY <1>0, <1>1, <2>1, <2>2 DEF IInv, TypeOK, DrawSeq
  <1>2. ASSUME NEW p \in Post, Commit(p)
        PROVE  SeqsWereDrawn'
    BY <1>2 DEF IInv, TypeOK, Commit, Answer
  <1>3. ASSUME NEW p \in Post, Step(p) \/ Fail(p), ~ DrawSeq(p), ~ Commit(p)
        PROVE  /\ UNCHANGED <<rows, nextSeq>>
               /\ \A q \in Post : Drawn(q)' => Drawn(q) /\ pending'[q] = pending[q]
    BY <1>3 DEF IInv, TypeOK, Step, RejectMalformed, LookUp, Build, BeginAttempt, InsertRow,
                SerializationFailure, Fail, Answer, tx
  <1>4. CASE UNCHANGED vars
    BY <1>4 DEF IInv, vars
  <1>5. QED
    BY <1>1, <1>2, <1>3, <1>4 DEF Next, IInv

\* A transaction keeps its snapshot and its row; the table it sees a part of grows.
LEMMA TransactionStep == IInv /\ [Next]_vars => TransactionShape'
  <1> SUFFICES ASSUME IInv, [Next]_vars
               PROVE  TransactionShape'
    OBVIOUS
  <1>0. rows \subseteq rows'
    BY OnlyCommitWrites DEF Commit
  <1>1. UNCHANGED sent
    BY DEF Next, Step, vars, RejectMalformed, LookUp, Build, BeginAttempt, DrawSeq,
           InsertRow, Commit, SerializationFailure, Fail
  <1>2. ASSUME NEW q \in Post,
               InTransaction(q)' => InTransaction(q) /\ snap'[q] = snap[q],
               Drawn(q)' => Drawn(q) /\ snap'[q] = snap[q] /\ pending'[q] = pending[q]
        PROVE  TransactionOK(q)'
    <2>1. TransactionOK(q)
      BY DEF IInv, TransactionShape
    <2>2. Drawn(q)' => RowOn(HeadHash(snap[q]), q, pending[q].seq)'
                         = RowOn(HeadHash(snap[q]), q, pending[q].seq)
      BY <1>1, <1>2 DEF RowOn, EventOf
    <2>3. QED
      BY <1>0, <1>2, <2>1, <2>2 DEF TransactionOK, HasHead
  <1>3. ASSUME NEW p \in Post, BeginAttempt(p)
        PROVE  TransactionShape'
    <2>1. TransactionOK(p)'
      BY <1>3 DEF IInv, TypeOK, TransactionOK, InTransaction, Drawn, BeginAttempt
    <2>2. ASSUME NEW q \in Post, q # p
          PROVE  TransactionOK(q)'
      BY <1>2, <1>3, <2>2 DEF IInv, TypeOK, InTransaction, Drawn, BeginAttempt
    <2>3. QED
      BY <2>1, <2>2 DEF TransactionShape
  <1>4. ASSUME NEW p \in Post, DrawSeq(p)
        PROVE  TransactionShape'
    <2> DEFINE n == RowOn(PrevHash(p), p, nextSeq)
    <2>1. /\ pc[p] = "inTx" /\ pc'[p] = "drawn"
          /\ pending'[p] = n /\ UNCHANGED <<rows, snap, sent>>
      BY <1>4 DEF IInv, TypeOK, DrawSeq
    <2>2. snap[p] \subseteq rows /\ HasHead(snap[p])
      BY <2>1 DEF IInv, TransactionShape, TransactionOK, InTransaction
    <2>3. n \in Row /\ n.seq = nextSeq
      BY <2>2, HeadHashType, RowOnType DEF IInv, TypeOK
    <2>4. \A r \in snap[p] : r.seq < nextSeq
      BY <2>2 DEF IInv, SeqsWereDrawn
    <2>5. pending'[p] = RowOn(PrevHash(p), p, pending[p].seq)'
      BY <2>1, <2>3 DEF RowOn, EventOf
    <2>6. TransactionOK(p)'
      BY <2>1, <2>2, <2>3, <2>4, <2>5 DEF TransactionOK, InTransaction, Drawn, HasHead
    <2>7. ASSUME NEW q \in Post, q # p
          PROVE  TransactionOK(q)'
      BY <1>2, <1>4, <2>7 DEF IInv, TypeOK, InTransaction, Drawn, DrawSeq
    <2>8. QED
      BY <2>6, <2>7 DEF TransactionShape
  <1>5. ASSUME NEW p \in Post, Step(p) \/ Fail(p), ~ BeginAttempt(p), ~ DrawSeq(p),
               NEW q \in Post
        PROVE  TransactionOK(q)'
    BY <1>2, <1>5
       DEF IInv, TypeOK, Step, RejectMalformed, LookUp, Build, InsertRow, Commit,
           SerializationFailure, Fail, Answer, tx, InTransaction, Drawn
  <1>6. CASE UNCHANGED vars
    BY <1>2, <1>6 DEF vars, TransactionShape, InTransaction, Drawn
  <1>7. QED
    BY <1>3, <1>4, <1>5, <1>6 DEF Next, TransactionShape

\* A row passes the unique index only when no row, committed or waiting for its
\* commit, has its id; from then on others with that id wait or are turned away.
LEMMA UniqueIndexStep == IInv /\ [Next]_vars => PassedUniqueIndex'
  <1> SUFFICES ASSUME IInv, [Next]_vars
               PROVE  PassedUniqueIndex'
    OBVIOUS
  <1>1. ASSUME NEW p \in Post, InsertRow(p)
        PROVE  PassedUniqueIndex'
    BY <1>1 DEF IInv, TypeOK, PassedUniqueIndex, InsertRow, Blocked, Answer
  <1>2. ASSUME NEW p \in Post, Commit(p)
        PROVE  PassedUniqueIndex'
    <2>1. rows' = rows \cup {pending[p]} /\ pc[p] = "inserted"
      BY <1>2 DEF Commit
    <2>2. \A q \in Post : pc'[q] = "inserted" =>
            q # p /\ pc[q] = "inserted" /\ pending'[q] = pending[q]
      BY <1>2 DEF IInv, TypeOK, Commit, Answer
    <2>3. QED
      BY <2>1, <2>2 DEF IInv, PassedUniqueIndex
  <1>3. ASSUME NEW p \in Post, Step(p) \/ Fail(p), ~ InsertRow(p), ~ Commit(p)
        PROVE  /\ UNCHANGED rows
               /\ \A q \in Post : pc'[q] = "inserted" =>
                    pc[q] = "inserted" /\ pending'[q] = pending[q]
    BY <1>3 DEF IInv, TypeOK, Step, RejectMalformed, LookUp, Build, BeginAttempt, DrawSeq,
                SerializationFailure, Fail, Answer, tx
  <1>4. ASSUME UNCHANGED rows,
               \A q \in Post : pc'[q] = "inserted" =>
                    pc[q] = "inserted" /\ pending'[q] = pending[q]
        PROVE  PassedUniqueIndex'
    BY <1>4 DEF IInv, PassedUniqueIndex
  <1>5. CASE UNCHANGED vars
    BY <1>4, <1>5 DEF vars
  <1>6. QED
    BY <1>1, <1>2, <1>3, <1>4, <1>5 DEF Next

\* Only a post's own commit brings a row with the id generated for it.
LEMMA FreshIdStep == IInv /\ [Next]_vars => GeneratedIdsAreFresh'
  <1> SUFFICES ASSUME IInv, [Next]_vars
               PROVE  GeneratedIdsAreFresh'
    OBVIOUS
  <1>1. ASSUME NEW p \in Post, Step(p) \/ Fail(p)
        PROVE  UNCHANGED sent /\ \A q \in Post : pc'[q] # "done" => pc[q] # "done"
    <2>1. pc \in [Post -> Phase]
      BY DEF IInv, TypeOK
    <2>2. UNCHANGED sent
      BY <1>1 DEF Step, RejectMalformed, LookUp, Build, BeginAttempt, DrawSeq,
                  InsertRow, Commit, SerializationFailure, Fail
    <2>3. \A q \in Post : pc'[q] # "done" => pc[q] # "done"
      BY <1>1, <2>1 DEF Step, RejectMalformed, LookUp, Build, BeginAttempt, DrawSeq,
                  InsertRow, Commit, SerializationFailure, Fail, Answer, InTransaction
    <2>4. QED
      BY <2>2, <2>3
  <1>2. ASSUME NEW p \in Post, Commit(p)
        PROVE  GeneratedIdsAreFresh'
    <2>1. pc'[p] = "done"
      BY <1>2 DEF IInv, TypeOK, Commit, Answer
    <2>2. pending[p].event.id \in ClientId \cup {p}
      BY <1>2, CommittedRow DEF IInv, TypeOK, Request, EventOf
    <2>3. rows' = rows \cup {pending[p]}
      BY <1>2, CommittedRow
    <2>4. QED
      BY <1>1, <1>2, <2>1, <2>2, <2>3, AuditLogAssumption DEF IInv, GeneratedIdsAreFresh, Step
  <1>3. CASE UNCHANGED rows
    <2>1. UNCHANGED sent /\ \A q \in Post : pc'[q] # "done" => pc[q] # "done"
      BY <1>1 DEF Next, vars
    <2>2. QED
      BY <1>3, <2>1 DEF IInv, GeneratedIdsAreFresh
  <1>4. QED
    BY <1>2, <1>3, OnlyCommitWrites

\* An answer is given on what is in the table, and the table keeps it.
LEMMA AnswersStep == IInv /\ [Next]_vars => AnswersTellTheTruth'
  <1> SUFFICES ASSUME IInv, [Next]_vars
               PROVE  AnswersTellTheTruth'
    OBVIOUS
  <1>1. rows \subseteq rows'
    BY OnlyCommitWrites DEF Commit
  <1>2. UNCHANGED sent /\ \A p \in Post : EventOf(p)' = EventOf(p)
    BY DEF Next, Step, vars, RejectMalformed, LookUp, Build, BeginAttempt, DrawSeq,
           InsertRow, Commit, SerializationFailure, Fail, EventOf
  <1> DEFINE Told(p) ==
               /\ reply[p] = "created" =>
                    \E r \in rows : r.recordHash = RecordHash(r.prevHash, EventOf(p))
               /\ reply[p] = "conflict" => \E r \in rows : r.event.id = sent[p].id
  <1>3. ASSUME NEW p \in Post, reply'[p] \in {reply[p], "none", "invalid", "error"}
        PROVE  Told(p)'
    BY <1>1, <1>2, <1>3 DEF IInv, AnswersTellTheTruth, RecordHash
  <1>4. ASSUME NEW p \in Post, LookUp(p)
        PROVE  Told(p)'
    BY <1>2, <1>3, <1>4 DEF IInv, TypeOK, LookUp, Answer
  <1>5. ASSUME NEW p \in Post, InsertRow(p)
        PROVE  Told(p)'
    <2>1. CASE \E r \in rows : r.event.id = pending[p].event.id
      <3>1. /\ pc[p] = "drawn" /\ reply'[p] = "conflict" /\ UNCHANGED rows
        BY <1>5, <2>1 DEF IInv, TypeOK, InsertRow, Answer
      <3>2. pending[p] = RowOn(PrevHash(p), p, pending[p].seq)
        BY <3>1 DEF IInv, TransactionShape, TransactionOK, Drawn
      <3>3. pending[p].event.id = EventOf(p).id
        BY <3>2 DEF RowOn, AsStored
      <3>4. EventOf(p).id = sent[p].id
        BY <2>1, <3>1, <3>3 DEF IInv, GeneratedIdsAreFresh, EventOf
      <3>5. QED
        BY <1>2, <2>1, <3>1, <3>3, <3>4
    <2>2. CASE ~ \E r \in rows : r.event.id = pending[p].event.id
      BY <1>3, <1>5, <2>2 DEF InsertRow
    <2>3. QED
      BY <2>1, <2>2
  <1>6. ASSUME NEW p \in Post, Commit(p)
        PROVE  Told(p)'
    <2>1. pending[p] \in rows' /\ reply'[p] \in {"created", "error"}
      BY <1>6 DEF IInv, TypeOK, Commit, Answer
    <2>2. pending[p].recordHash = RecordHash(pending[p].prevHash, EventOf(p))
      BY <1>6, CommittedRow
    <2>3. QED
      BY <1>2, <2>1, <2>2 DEF RecordHash
  <1>7. ASSUME NEW p \in Post, Step(p) \/ Fail(p), NEW q \in Post,
               ~ (q = p /\ (LookUp(p) \/ InsertRow(p) \/ Commit(p)))
        PROVE  Told(q)'
    BY <1>3, <1>7
       DEF IInv, TypeOK, Step, RejectMalformed, LookUp, Build, BeginAttempt, DrawSeq,
           InsertRow, Commit, SerializationFailure, Fail, Answer
  <1>8. CASE UNCHANGED vars
    BY <1>3, <1>8 DEF vars, AnswersTellTheTruth
  <1>9. QED
    BY <1>4, <1>5, <1>6, <1>7, <1>8 DEF Next, AnswersTellTheTruth

-----------------------------------------------------------------------------
(* Theorems *)

\* The empty table satisfies the invariant, and every step preserves it.
LEMMA InitIInv == Init => IInv
  BY AuditLogAssumption
     DEF Init, IInv, TypeOK, SeqsWereDrawn, OneRowPerSeq, HasHead, AttemptsLeft,
         TransactionShape, TransactionOK, PassedUniqueIndex, GeneratedIdsAreFresh,
         DigestsListRows, ChainLinked, OneRowPerEvent, AnswersTellTheTruth,
         InTransaction, Drawn, Phase, Reply, Genesis, Digest

LEMMA StepIInv == IInv /\ [Next]_vars => IInv'
  <1> SUFFICES ASSUME IInv, [Next]_vars
               PROVE  IInv'
    OBVIOUS
  <1>1. TypeOK' /\ AttemptsLeft'
    BY TypeStep, AttemptsStep DEF IInv
  <1>2. SeqsWereDrawn' /\ TransactionShape' /\ PassedUniqueIndex'
        /\ GeneratedIdsAreFresh' /\ AnswersTellTheTruth'
    BY SeqStep, TransactionStep, UniqueIndexStep, FreshIdStep, AnswersStep
  <1>3. OneRowPerSeq' /\ HasHead(rows)' /\ DigestsListRows' /\ ChainLinked' /\ OneRowPerEvent'
    <2>1. CASE UNCHANGED rows
      BY <2>1 DEF IInv, OneRowPerSeq, HasHead, IsHead, DigestsListRows, ChainLinked, Linked,
                  OneRowPerEvent
    <2>2. CASE \E p \in Post : Commit(p)
      BY <2>2, CommitKeepsOrder, CommitKeepsLinks, CommitKeepsDigests
    <2>3. QED
      BY <2>1, <2>2, OnlyCommitWrites
  <1>4. QED
    BY <1>1, <1>2, <1>3 DEF IInv

\* The strengthened invariant holds of every reachable state.
THEOREM InductiveInvariant == Spec => []IInv
  BY InitIInv, StepIInv, PTL DEF Spec

\* The variables keep their types, so no attempt is counted beyond the bound.
THEOREM TypeCorrect == Spec => []TypeOK
  <1>1. IInv => TypeOK
    BY DEF IInv
  <1>2. QED
    BY <1>1, InductiveInvariant, PTL

\* For any number of racing posts the committed rows form one linked chain: no two
\* appends extend the same head.
THEOREM ChainIsSound == Spec => []ChainLinked
  <1>1. IInv => ChainLinked
    BY DEF IInv
  <1>2. QED
    BY <1>1, InductiveInvariant, PTL

\* One row per event, however the lookup, the unique index and the retries of posts of
\* one id interleave.
THEOREM EventsStayUnique == Spec => []OneRowPerEvent
  <1>1. IInv => OneRowPerEvent
    BY DEF IInv
  <1>2. QED
    BY <1>1, InductiveInvariant, PTL

\* A 201 or a 409 tells the client what is in the log, for good.
THEOREM AnswersStayTrue == Spec => []AnswersTellTheTruth
  <1>1. IInv => AnswersTellTheTruth
    BY DEF IInv
  <1>2. QED
    BY <1>1, InductiveInvariant, PTL

\* The log is append-only, and a row never appears behind one already there.
THEOREM AppendOnly == Spec => GrowsAtTheEnd
  <1>1. IInv /\ [Next]_vars =>
          [/\ rows \subseteq rows'
           /\ \A n \in rows' \ rows, r \in rows : r.seq < n.seq]_vars
    BY OnlyCommitWrites, CommittedRow
  <1>2. QED
    BY <1>1, InductiveInvariant, PTL DEF Spec, GrowsAtTheEnd

\* The SERIALIZABLE append with its retries implements the abstract chain: a commit
\* is one Record step, everything else is a stutter.
THEOREM Implementation == Spec => ImplementsChain
  <1>1. Init => Chain!Init
    BY DEF Init, Chain!Init, HeadHash, Genesis
  <1>2. IInv /\ [Next]_vars => [Chain!Next]_(HeadHash(rows))
    <2> SUFFICES ASSUME IInv, [Next]_vars
                 PROVE  [Chain!Next]_(HeadHash(rows))
      OBVIOUS
    <2>1. CASE UNCHANGED rows
      BY <2>1 DEF HeadHash, IsHead
    <2>2. ASSUME NEW p \in Post, Commit(p)
          PROVE  Chain!Record(EventOf(p))
      <3>1. HeadHash(rows)' = Append(HeadHash(rows), EventOf(p))
        BY <2>2, CommittedRow, CommitKeepsOrder DEF RecordHash
      <3>2. ASSUME NEW i \in DOMAIN HeadHash(rows)
            PROVE  HeadHash(rows)[i].id # EventOf(p).id
        BY <2>2, HeadListsRows, CommittedRow
      <3>3. QED
        BY <3>1, <3>2 DEF Chain!Record
    <2>3. ASSUME NEW p \in Post
          PROVE  EventOf(p) \in Event
      BY EventOfType DEF IInv, TypeOK
    <2>4. QED
      BY <2>1, <2>2, <2>3, OnlyCommitWrites DEF Chain!Next
  <1>3. QED
    BY <1>1, <1>2, InductiveInvariant, PTL DEF Spec, ImplementsChain, Chain!Spec


-----------------------------------------------------------------------------
(* A replay of the log *)

\* The rows up to one, and their number.
UpTo(r, table) == {q \in table : q.seq <= r.seq}
Rank(r, table) == Cardinality(UpTo(r, table))

\* A table that can be put in order: finite, its seqs natural numbers, no two the same.
IsOrdered(table) ==
  /\ IsFiniteSet(table)
  /\ \A r \in table : r.seq \in Nat
  /\ \A r, q \in table : r.seq = q.seq => r = q

LEMMA RankType ==
  ASSUME NEW table, IsOrdered(table), NEW r \in table
  PROVE  Rank(r, table) \in 1 .. Cardinality(table)
  <1>1. IsFiniteSet(table) /\ Cardinality(table) \in Nat
    BY FS_CardinalityType DEF IsOrdered
  <1>2. IsFiniteSet(UpTo(r, table)) /\ Rank(r, table) <= Cardinality(table)
    BY <1>1, FS_Subset DEF UpTo, Rank
  <1>3. r \in UpTo(r, table)
    BY DEF IsOrdered, UpTo
  <1>4. Rank(r, table) \in Nat /\ Rank(r, table) # 0
    BY <1>2, <1>3, FS_CardinalityType, FS_EmptySet DEF Rank
  <1>5. QED
    BY <1>1, <1>2, <1>4

LEMMA RankGrows ==
  ASSUME NEW table, IsOrdered(table), NEW r \in table, NEW q \in table, r.seq < q.seq
  PROVE  Rank(r, table) < Rank(q, table)
  <1>1. UpTo(r, table) \subseteq UpTo(q, table) /\ q \in UpTo(q, table) /\ q \notin UpTo(r, table)
    BY DEF IsOrdered, UpTo
  <1>2. IsFiniteSet(UpTo(q, table))
    BY FS_Subset DEF IsOrdered, UpTo
  <1>3. /\ Cardinality(UpTo(r, table)) <= Cardinality(UpTo(q, table))
        /\ Cardinality(UpTo(r, table)) # Cardinality(UpTo(q, table))
    BY <1>1, <1>2, FS_Subset
  <1>4. Rank(r, table) \in Nat /\ Rank(q, table) \in Nat
    BY RankType
  <1>5. QED
    BY <1>3, <1>4 DEF Rank

\* InChainOrder has every row at its rank.
LEMMA ChainOrder ==
  ASSUME NEW table, IsOrdered(table), NEW i \in DOMAIN InChainOrder(table)
  PROVE  /\ i \in 1 .. Cardinality(table)
         /\ InChainOrder(table)[i] \in table /\ Rank(InChainOrder(table)[i], table) = i
  <1> DEFINE n == Cardinality(table)
             rank == [r \in table |-> Rank(r, table)]
  <1>1. i \in 1 .. n
    BY DEF InChainOrder
  <1>2. n \in Nat
    BY FS_CardinalityType DEF IsOrdered
  <1>3. rank \in [table -> 1 .. n]
    BY RankType
  <1>4. ASSUME NEW r \in table, NEW q \in table, rank[r] = rank[q]
        PROVE  r = q
    <2>1. r.seq \in Nat /\ q.seq \in Nat
      BY DEF IsOrdered
    <2>2. Rank(r, table) \in Nat /\ Rank(q, table) \in Nat
      BY RankType
    <2>3. ~ (r.seq < q.seq) /\ ~ (q.seq < r.seq)
      BY <1>4, <2>2, RankGrows
    <2>4. r.seq = q.seq
      BY <2>1, <2>3
    <2>5. QED
      BY <2>4 DEF IsOrdered
  <1>5. rank \in Injection(table, 1 .. n)
    BY <1>3, <1>4 DEF Injection, IsInjective
  <1>6. IsFiniteSet(1 .. n) /\ Cardinality(1 .. n) = n
    BY <1>2, FS_Interval
  <1>7. rank \in Surjection(table, 1 .. n)
    BY <1>5, <1>6, FS_Injection
  <1>8. PICK r \in table : Rank(r, table) = i
    BY <1>1, <1>7 DEF Surjection
  <1>9. InChainOrder(table)[i] = CHOOSE q \in table : Rank(q, table) = i
    BY <1>1 DEF InChainOrder, Rank, UpTo
  <1>10. QED
    BY <1>1, <1>8, <1>9


LEMMA NatMin ==
  ASSUME NEW T \in SUBSET Nat, T # {}
  PROVE  \E x \in T : \A y \in T : x <= y
  <1> DEFINE R == OpToRel(<, Nat)
  <1>1. IsWellFoundedOn(R, Nat)
    BY NatLessThanWellFounded
  <1>2. \A x, y \in Nat : y < x => <<y, x>> \in R
    BY DEF OpToRel
  <1> HIDE DEF R
  <1>3. PICK x \in T : \A y \in T : ~ (<<y, x>> \in R)
    BY <1>1, WFMin, Zenon
  <1>4. ASSUME NEW y \in T
        PROVE  ~ (y < x)
    BY <1>2, <1>3
  <1>5. QED
    BY <1>4

\* Beyond IInv: the table is finite, and each row is one of the posts' own.
Written(r) ==
  \E p \in Post : /\ r.event = AsStored(EventOf(p))
                  /\ r.recordHash = RecordHash(r.prevHash, EventOf(p))
RowsWritten == IsFiniteSet(rows) /\ \A r \in rows : Written(r)

LEMMA WrittenStep == IInv /\ RowsWritten /\ [Next]_vars => RowsWritten'
  <1> SUFFICES ASSUME IInv, RowsWritten, [Next]_vars
               PROVE  RowsWritten'
    OBVIOUS
  <1>1. UNCHANGED sent
    BY DEF Next, Step, vars, RejectMalformed, LookUp, Build, BeginAttempt, DrawSeq,
           InsertRow, Commit, SerializationFailure, Fail
  <1>2. ASSUME NEW r, Written(r)
        PROVE  Written(r)'
    BY <1>1, <1>2 DEF Written, EventOf
  <1>3. CASE UNCHANGED rows
    BY <1>2, <1>3 DEF RowsWritten
  <1>4. ASSUME NEW p \in Post, Commit(p)
        PROVE  RowsWritten'
    <2>1. PICK n : n = pending[p]
      OBVIOUS
    <2>2. rows' = rows \cup {n} /\ pc[p] = "inserted"
      BY <1>4, <2>1, CommittedRow DEF Commit
    <2>3. Written(n)
      <3>1. n = RowOn(PrevHash(p), p, n.seq)
        BY <2>1, <2>2 DEF IInv, TransactionShape, TransactionOK, Drawn
      <3>2. n.event = AsStored(EventOf(p)) /\ n.recordHash = RecordHash(n.prevHash, EventOf(p))
        BY <3>1 DEF RowOn
      <3>3. QED
        BY <3>2 DEF Written
    <2>4. IsFiniteSet(rows')
      BY <2>2, FS_AddElement DEF RowsWritten
    <2>5. QED
      BY <1>2, <2>2, <2>3, <2>4 DEF RowsWritten
  <1>5. QED
    BY <1>3, <1>4, OnlyCommitWrites

\* In chain order, each row follows on the one before, and the first on genesis.
LEMMA LinksHold ==
  ASSUME IInv, RowsWritten, NEW i \in DOMAIN InChainOrder(rows)
  PROVE  LinkHolds(InChainOrder(rows), i)
  <1> DEFINE n == Cardinality(rows)
  <1>0. PICK records, r : records = InChainOrder(rows) /\ r = records[i]
    OBVIOUS
  <1>1. IsOrdered(rows) /\ n \in Nat
    BY FS_CardinalityType DEF IInv, TypeOK, Row, OneRowPerSeq, RowsWritten, IsOrdered
  <1>2. \A j \in 1 .. n : records[j] \in rows /\ Rank(records[j], rows) = j
    <2>1. DOMAIN records = 1 .. n
      BY <1>0 DEF InChainOrder
    <2>2. QED
      BY <1>0, <1>1, <2>1, ChainOrder
  <1>3. i \in 1 .. n /\ r \in rows /\ Rank(r, rows) = i
    <2>1. i \in 1 .. n
      BY <1>1, ChainOrder
    <2>2. QED
      BY <1>0, <1>2, <2>1
  <1>4. /\ \A q \in rows : q.seq \in Nat /\ Rank(q, rows) \in 1 .. n
        /\ \A q, o \in rows : q.seq < o.seq => Rank(q, rows) < Rank(o, rows)
    BY <1>1, RankType, RankGrows DEF IsOrdered
  <1>5. Linked(r, rows)
    BY <1>3 DEF IInv, ChainLinked
  <1>6. CASE i = 1
    <2>1. \A q \in rows : ~ (q.seq < r.seq)
      BY <1>1, <1>3, <1>4, <1>6
    <2>2. r.prevHash = Genesis
      BY <1>5, <2>1 DEF Linked
    <2>3. QED
      BY <1>0, <1>6, <2>2 DEF LinkHolds
  <1>7. CASE i # 1
    <2>1. PICK a \in rows : a = records[i - 1] /\ Rank(a, rows) = i - 1
      BY <1>1, <1>2, <1>3, <1>7
    <2>2. a.seq < r.seq
      <3>1. r.seq # a.seq
        BY <1>1, <1>3, <2>1 DEF IsOrdered
      <3>2. ~ (r.seq < a.seq)
        BY <1>1, <1>3, <1>4, <2>1
      <3>3. QED
        BY <1>3, <1>4, <2>1, <3>1, <3>2
    <2>3. PICK q \in rows : /\ q.seq < r.seq /\ q.recordHash = r.prevHash
                            /\ \A o \in rows : o.seq <= q.seq \/ r.seq <= o.seq
      BY <1>3, <1>4, <1>5, <2>1, <2>2 DEF Linked
    <2>4. ~ (a.seq < q.seq)
      BY <1>1, <1>3, <1>4, <2>1, <2>3
    <2>5. a.seq = q.seq
      BY <1>3, <1>4, <2>1, <2>2, <2>3, <2>4
    <2>6. a = q
      BY <1>1, <2>1, <2>3, <2>5 DEF IsOrdered
    <2>7. QED
      BY <1>0, <1>7, <2>1, <2>3, <2>6 DEF LinkHolds
  <1>8. QED
    BY <1>6, <1>7

\* The record a replay blames was sent with its uuids in upper case.
LEMMA BlamedIsRespelled ==
  ASSUME IInv, RowsWritten
  PROVE  VerifyBlamesOnlyRespelled
  <1>0. PICK records : records = InChainOrder(rows)
    OBVIOUS
  <1> DEFINE broken == {i \in DOMAIN records : ~ LinkHolds(records, i) \/ ~ ContentHolds(records, i)}
             first == CHOOSE i \in broken : \A j \in broken : i <= j
             verdict == VerifyChain(records)
  <1>1. \A i \in DOMAIN records : LinkHolds(records, i) /\ records[i] \in rows /\ i \in Nat
    <2>1. IsOrdered(rows)
      BY DEF IInv, TypeOK, Row, OneRowPerSeq, RowsWritten, IsOrdered
    <2>2. \A j \in 1 .. Cardinality(rows) : j \in Nat
      BY <2>1, FS_CardinalityType DEF IsOrdered
    <2>3. QED
      BY <1>0, <2>1, <2>2, ChainOrder, LinksHold
  <1>2. CASE broken = {}
    <2>1. verdict.valid
      BY <1>2 DEF VerifyChain
    <2>2. QED
      BY <1>0, <2>1 DEF VerifyBlamesOnlyRespelled
  <1>3. CASE broken # {}
    <2>1. \E i \in broken : \A j \in broken : i <= j
      BY <1>1, <1>3, NatMin
    <2>2. first \in broken
      BY <2>1
    <2>3. LinkHolds(records, first) /\ ~ ContentHolds(records, first) /\ first \in DOMAIN records
      BY <1>1, <2>2
    <2>4. verdict.brokenAt = records[first].seq /\ verdict.reason = "content"
      BY <1>3, <2>3 DEF VerifyChain
    <2> HIDE DEF verdict, first, broken
    <2>5. PICK r \in rows : r = records[first]
      BY <1>1, <2>3
    <2>6. PICK p \in Post : /\ r.event = AsStored(EventOf(p))
                            /\ r.recordHash = RecordHash(r.prevHash, EventOf(p))
      BY DEF RowsWritten, Written
    <2>7. AsStored(EventOf(p)) # EventOf(p)
      BY <2>3, <2>5, <2>6 DEF ContentHolds
    <2>8. sent[p].spelling = "upper"
      <3>1. sent[p].spelling \in {"lower", "upper"}
        BY DEF IInv, TypeOK, Request, Spelling
      <3>2. sent[p].spelling # "lower"
        BY <2>7 DEF AsStored, EventOf
      <3>3. QED
        BY <3>1, <3>2
    <2>9. r.seq = verdict.brokenAt
      BY <2>4, <2>5
    <2>10. QED
      BY <1>0, <2>4, <2>6, <2>8, <2>9 DEF VerifyBlamesOnlyRespelled, verdict
  <1>4. QED
    BY <1>2, <1>3

\* A replay never sees a broken link in a log nobody touched, and calls a record modified
\* only if its uuids were sent in upper case, for a log of any length.
THEOREM BlameIsForRespelling == Spec => []VerifyBlamesOnlyRespelled
  <1>1. Init => RowsWritten
    BY FS_EmptySet DEF Init, RowsWritten
  <1>2. IInv /\ RowsWritten => VerifyBlamesOnlyRespelled
    BY BlamedIsRespelled
  <1>3. QED
    BY <1>1, <1>2, WrittenStep, InductiveInvariant, PTL DEF Spec
=============================================================================
