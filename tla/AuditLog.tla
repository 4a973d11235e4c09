------------------------------- MODULE AuditLog -------------------------------
(***************************************************************************)
(* POST /v1/audit/events under concurrency: RecordAuditEventUseCase and    *)
(* the append loop of TypeOrmAuditEventRepository, each await a step of    *)
(* its own, against a PostgreSQL table with a BIGSERIAL key, a unique      *)
(* index on id and SERIALIZABLE transactions.                              *)
(*                                                                         *)
(* A post is one HTTP request.  A client that retries an event sends       *)
(* another post with the same id.                                          *)
(***************************************************************************)
EXTENDS HashChain

CONSTANTS
  Post,         \* the requests
  ClientId,     \* event ids a client may name
  NoId,         \* no id in the body: the service generates one
  NoRow,        \* no row built yet
  MaxAppendRetries  \* MAX_APPEND_RETRIES

ASSUME AuditLogAssumption ==
  /\ EventId = ClientId \cup Post        \* a post's generated id is named by the post
  /\ ClientId \cap Post = {}
  /\ NoId \notin EventId
  /\ NoRow \notin Row
  /\ MaxAppendRetries \in Nat \ {0}

VARIABLES
  rows,      \* the committed rows of audit_events
  nextSeq,   \* next value of the BIGSERIAL, which no rollback gives back
  sent,      \* the body of each post
  pc,        \* where each post is
  builtOn,   \* the head hash the use case built the event on, read outside any tx
  attempt,   \* append attempts that ended in a serialization failure
  snap,      \* the rows the post's transaction sees
  pending,   \* the row the post's transaction is inserting
  reply      \* what the client was told

vars == <<rows, nextSeq, sent, pc, builtOn, attempt, snap, pending, reply>>
tx == <<attempt, snap, pending>>

Phase == {"received", "building", "append", "inTx", "drawn", "inserted", "done"}
Reply == {"none", "created", "conflict", "invalid", "error"}
Request == [id: ClientId \cup {NoId}, spelling: Spelling, body: Body,
            wellFormed: BOOLEAN]

\* AuditEvent.record: the content of p's event; an absent id is generated.
EventOf(p) ==
  [id       |-> IF sent[p].id = NoId THEN p ELSE sent[p].id,
   spelling |-> sent[p].spelling,
   body     |-> sent[p].body]

\* A relinked record that keeps the hash the use case computed.
RowOnKeepingHash(headHash, p, seq) ==
  [seq        |-> seq,
   event      |-> AsStored(EventOf(p)),
   prevHash   |-> headHash,
   recordHash |-> RecordHash(builtOn[p], EventOf(p))]

\* toOrm, with prevHash and recordHash replaced against the head hash given.
RowOn(headHash, p, seq) ==
  [seq        |-> seq,
   event      |-> AsStored(EventOf(p)),
   prevHash   |-> headHash,
   recordHash |-> RecordHash(headHash, EventOf(p))]

InTransaction(p) == pc[p] \in {"inTx", "drawn", "inserted"}

-----------------------------------------------------------------------------
Init ==
  /\ rows = {}
  /\ nextSeq = 1
  /\ sent \in [Post -> Request]
  /\ pc = [p \in Post |-> "received"]
  /\ builtOn = [p \in Post |-> Genesis]
  /\ attempt = [p \in Post |-> 0]
  /\ snap = [p \in Post |-> {}]
  /\ pending = [p \in Post |-> NoRow]
  /\ reply = [p \in Post |-> "none"]

Answer(p, r) ==
  /\ pc' = [pc EXCEPT ![p] = "done"]
  /\ reply' = [reply EXCEPT ![p] = r]

\* A decision outside the enum or an occurredAt that is no date: 400.
RejectMalformed(p) ==
  /\ pc[p] = "received"
  /\ ~ sent[p].wellFormed
  /\ Answer(p, "invalid")
  /\ UNCHANGED <<rows, nextSeq, sent, builtOn, tx>>

\* findById, only when the client named an id; a committed row of that id is a 409.
LookUp(p) ==
  /\ pc[p] = "received"
  /\ sent[p].wellFormed
  /\ IF \E r \in rows : r.event.id = sent[p].id
     THEN Answer(p, "conflict")
     ELSE /\ pc' = [pc EXCEPT ![p] = "building"]
          /\ UNCHANGED reply
  /\ UNCHANGED <<rows, nextSeq, sent, builtOn, tx>>

\* chainHead() and AuditEvent.record, which hashes against that head.
Build(p) ==
  /\ pc[p] = "building"
  /\ builtOn' = [builtOn EXCEPT ![p] = HeadHash(rows)]
  /\ pc' = [pc EXCEPT ![p] = "append"]
  /\ UNCHANGED <<rows, nextSeq, sent, tx, reply>>

\* An attempt opens a SERIALIZABLE transaction; its first statement, readHead,
\* fixes what the transaction sees.
BeginAttempt(p) ==
  /\ pc[p] = "append"
  /\ snap' = [snap EXCEPT ![p] = rows]
  /\ pc' = [pc EXCEPT ![p] = "inTx"]
  /\ UNCHANGED <<rows, nextSeq, sent, builtOn, attempt, pending, reply>>

\* A head that is not read again inside the transaction.
PrevHashOfUseCase(p) == builtOn[p]

\* The head the attempt links to.
PrevHash(p) == HeadHash(snap[p])

\* The INSERT first evaluates nextval: the seq is gone whatever becomes of the row.
DrawSeq(p) ==
  /\ pc[p] = "inTx"
  /\ pending' = [pending EXCEPT ![p] = RowOn(PrevHash(p), p, nextSeq)]
  /\ nextSeq' = nextSeq + 1
  /\ pc' = [pc EXCEPT ![p] = "drawn"]
  /\ UNCHANGED <<rows, sent, builtOn, attempt, snap, reply>>

\* An uncommitted row of the same id makes the unique index wait for its owner.
Blocked(p) ==
  \E q \in Post \ {p} : pc[q] = "inserted" /\ pending[q].event.id = pending[p].event.id

\* No unique index on id.
NeverCollides(p) == FALSE

\* uq_audit_events_id against the committed rows.
Collides(p) == \E r \in rows : r.event.id = pending[p].event.id

\* The index accepts the row, or raises 23505, which becomes a 409.
InsertRow(p) ==
  /\ pc[p] = "drawn"
  /\ ~ Blocked(p)
  /\ IF Collides(p)
     THEN /\ Answer(p, "conflict")
          /\ pending' = [pending EXCEPT ![p] = NoRow]
          /\ snap' = [snap EXCEPT ![p] = {}]
     ELSE /\ pc' = [pc EXCEPT ![p] = "inserted"]
          /\ UNCHANGED <<pending, snap, reply>>
  /\ UNCHANGED <<rows, nextSeq, sent, builtOn, attempt>>

\* READ COMMITTED: nothing stops the commit.
ReadCommitted(p) == TRUE

\* Serializable snapshot isolation: every append reads the head another append
\* changes, so one that overlaps a committed append cannot commit.
Serializable(p) == rows = snap[p]

\* COMMIT.  The connection may drop after it, and then the client sees an error.
Commit(p) ==
  /\ pc[p] = "inserted"
  /\ Serializable(p)
  /\ rows' = rows \cup {pending[p]}
  /\ \E r \in {"created", "error"} : Answer(p, r)
  /\ pending' = [pending EXCEPT ![p] = NoRow]
  /\ snap' = [snap EXCEPT ![p] = {}]
  /\ UNCHANGED <<nextSeq, sent, builtOn, attempt>>

\* Attempts ended once the current one fails, and a retry nobody counts.
SpentUncounted(p) == attempt[p]
Spent(p) == attempt[p] + 1

\* The loop's bound, and one that lets an attempt too many through.
OneAttemptTooMany(p) == attempt[p] = MaxAppendRetries
LastAttempt(p) == Spent(p) = MaxAppendRetries

\* What lastError becomes for the client, and a classification that takes it for
\* a duplicate.
RethrownAsConflict(p) == "conflict"
Rethrown(p) == "error"

\* 40001 or 40P01, possible from any statement while another append overlaps:
\* roll back, try again, and after the last attempt rethrow the error (500).
SerializationFailure(p) ==
  /\ InTransaction(p)
  /\ ~ Serializable(p) \/ \E q \in Post \ {p} : InTransaction(q)
  /\ attempt' = [attempt EXCEPT ![p] = Spent(p)]
  /\ pending' = [pending EXCEPT ![p] = NoRow]
  /\ snap' = [snap EXCEPT ![p] = {}]
  /\ IF LastAttempt(p)
     THEN Answer(p, Rethrown(p))
     ELSE /\ pc' = [pc EXCEPT ![p] = "append"]
          /\ UNCHANGED reply
  /\ UNCHANGED <<rows, nextSeq, sent, builtOn>>

\* Any other error (process killed, connection lost): the database rolls back.
Fail(p) ==
  /\ pc[p] # "done"
  /\ Answer(p, "error")
  /\ pending' = [pending EXCEPT ![p] = NoRow]
  /\ snap' = [snap EXCEPT ![p] = {}]
  /\ UNCHANGED <<rows, nextSeq, sent, builtOn, attempt>>

Step(p) ==
  \/ RejectMalformed(p)
  \/ LookUp(p)
  \/ Build(p)
  \/ BeginAttempt(p)
  \/ DrawSeq(p)
  \/ InsertRow(p)
  \/ Commit(p)
  \/ SerializationFailure(p)

Next == \E p \in Post : Step(p) \/ Fail(p)

Spec == Init /\ [][Next]_vars

\* A handler that has started runs on: the event loop and the database answer.
FairSpec == Spec /\ \A p \in Post : WF_vars(Step(p))

-----------------------------------------------------------------------------
(* Properties *)

TypeOK ==
  /\ rows \in SUBSET Row
  /\ nextSeq \in Nat \ {0}
  /\ sent \in [Post -> Request]
  /\ pc \in [Post -> Phase]
  /\ builtOn \in [Post -> Digest]
  /\ attempt \in [Post -> 0 .. MaxAppendRetries]
  /\ snap \in [Post -> SUBSET Row]
  /\ pending \in [Post -> Row \cup {NoRow}]
  /\ reply \in [Post -> Reply]

\* r follows on the row before it in seq order, or on genesis when there is none.
Linked(r, table) ==
  \/ r.prevHash = Genesis /\ \A q \in table : r.seq <= q.seq
  \/ \E q \in table : /\ q.seq < r.seq
                      /\ q.recordHash = r.prevHash
                      /\ \A o \in table : o.seq <= q.seq \/ r.seq <= o.seq

\* However appends race, every committed row links to the row that precedes it in
\* seq order: two appends never extend the same head (the class comment of
\* TypeOrmAuditEventRepository).
ChainLinked == \A r \in rows : Linked(r, rows)

\* One row per event id, whatever the clients re-send and in whatever order the
\* lookup, the unique index and the retries of two posts interleave.
OneRowPerEvent == \A r, q \in rows : r.event.id = q.event.id => r = q

\* A 201 means the post's own event is in the log; a 409 means some event of that
\* id is, so a client may stop retrying on either.
AnswersTellTheTruth ==
  \A p \in Post :
    /\ reply[p] = "created" =>
         \E r \in rows : r.recordHash = RecordHash(r.prevHash, EventOf(p))
    /\ reply[p] = "conflict" =>
         \E r \in rows : r.event.id = sent[p].id

\* The log only grows, and only past its end: a reader that pages by seq and has
\* seen a seq never has to look behind it for a row that committed late.
GrowsAtTheEnd ==
  [][/\ rows \subseteq rows'
     /\ \A n \in rows' \ rows, r \in rows : r.seq < n.seq]_vars

\* A replay (GET verify) never sees a broken link in a log nobody touched, and
\* calls a record modified only if its uuids were sent in upper case.
VerifyBlamesOnlyRespelled ==
  LET verdict == VerifyChain(InChainOrder(rows))
  IN  \/ verdict.valid
      \/ /\ verdict.reason = "content"
         /\ \E p \in Post, r \in rows :
              /\ r.seq = verdict.brokenAt
              /\ r.recordHash = RecordHash(r.prevHash, EventOf(p))
              /\ sent[p].spelling = "upper"

\* Every post is answered: the retry loop is bounded and the wait on the unique
\* index ends.
EveryPostAnswered == \A p \in Post : <>(pc[p] = "done")

\* The log implements the abstract chain; the head's digest lists what it holds.
Chain == INSTANCE AuditChain WITH chain <- HeadHash(rows)
ImplementsChain == Chain!Spec

-----------------------------------------------------------------------------
(* Claims of comments and docs *)

\* A log nobody touched verifies: "if serialization varied, re-verification would
\* ... produce false tamper alarms" (hash-chain.ts).
UntouchedLogVerifies == VerifyChain(InChainOrder(rows)).valid
==============================================================================
