------------------------------ MODULE HashChain ------------------------------
(***************************************************************************)
(* The pure half of the audit service: what a record hash covers, what a   *)
(* stored row holds and how a replay of the chain judges a table.          *)
(*                                                                         *)
(* SHA-256 is taken to be free of collisions, so a digest is identified    *)
(* with what it digests: the list of events from genesis to the record it  *)
(* belongs to.  Two digests are equal exactly when those lists are.        *)
(***************************************************************************)
EXTENDS Integers, Sequences, FiniteSets

CONSTANTS
  EventId,   \* identities of events: those the clients name and the generated ones
  Body       \* the other signed fields of an event (actor, action, decision, ...)

\* How the text of the uuid fields (id, tenant_id) is written by the sender.
\* Both spellings pass the request's @IsUUID and the entity's guard.
Spelling == {"lower", "upper"}

\* CanonicalAuditEvent: the content a record hash covers.
Event == [id: EventId, spelling: Spelling, body: Body]

\* A digest, see above.
Digest == Seq(Event)

\* GENESIS_HASH, which no record has.
Genesis == << >>

\* A canonical form that leaves fields out.
RecordHashOfIds(prevHash, event) ==
  Append(prevHash, [event EXCEPT !.body = CHOOSE b \in Body : TRUE])

\* computeRecordHash(prevHash, canonicalizeEvent(event)).
RecordHash(prevHash, event) == Append(prevHash, event)

\* What a row gives back of an event: the uuid columns return lower-case text.
AsStored(event) == [id |-> event.id, spelling |-> "lower", body |-> event.body]

\* A row of audit_events.
Row == [seq: Nat \ {0}, event: Event, prevHash: Digest, recordHash: Digest]

\* readHead: the row with the highest seq, whose hash the next record links to.
IsHead(r, table) == r \in table /\ \A q \in table : q.seq <= r.seq

HeadHash(table) ==
  IF table = {} THEN Genesis
                ELSE (CHOOSE r \in table : IsHead(r, table)).recordHash

\* listAllInChainOrder: the rows by ascending seq.
InChainOrder(table) ==
  [i \in 1 .. Cardinality(table) |->
     CHOOSE r \in table : Cardinality({q \in table : q.seq <= r.seq}) = i]

-----------------------------------------------------------------------------
(* VerifyChainUseCase.execute *)

\* LINK: the stored prevHash is the recordHash of the record before.
LinkHolds(records, i) ==
  records[i].prevHash = IF i = 1 THEN Genesis ELSE records[i - 1].recordHash

\* CONTENT: hashing the record's own fields again gives the stored recordHash.
ContentHolds(records, i) ==
  records[i].recordHash = RecordHash(records[i].prevHash, records[i].event)

\* The verdict: the first failing record is reported, LINK before CONTENT.
VerifyChain(records) ==
  LET broken == {i \in DOMAIN records :
                   ~ LinkHolds(records, i) \/ ~ ContentHolds(records, i)}
  IN  IF broken = {}
      THEN [valid |-> TRUE, brokenAt |-> 0, reason |-> "none"]
      ELSE LET first == CHOOSE i \in broken : \A j \in broken : i <= j
           IN  [valid    |-> FALSE,
                brokenAt |-> records[first].seq,
                reason   |-> IF LinkHolds(records, first) THEN "content" ELSE "link"]

==============================================================================
