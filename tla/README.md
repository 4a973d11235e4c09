# A formal model of the multi-tenant access control platform

TLA+ modules, TLC configurations and TLAPS proofs about the services in this
repository: who may append to the audit log and what it then says, when a policy
decision may rest on attributes that are out of date, what the decision point
enforces while policies are published, what the tables of grants, roles and org units
look like after requests that raced, on what an approval that took effect was decided,
for whom and for how long a service acts on a token, and what a browser shows of an
earlier session.

Paths below are relative to the repository root. `tlc -config X.cfg M` checks a run,
`tlapm M.tla` a module of proofs.

## 1. The system

A monorepo of NestJS services with one React client. A request enters through the
gateway, which limits the rate, verifies the access token against the identity
service's published key and forwards the call with an identity it signs itself; a
service's policy enforcement point (PEP, `packages/authz`) takes the principal from
that identity, resolves its roles at the policy information point (PIP, an endpoint of
authz-admin), asks Cerbos (the PDP) and posts each decision to the audit service.
authz-admin keeps tenants, org units, roles, assignments and policies in PostgreSQL and
writes the policies to the directory Cerbos watches. Each service runs on Node.js: one
event loop per process, several processes, so that two requests interleave at every
`await` and meet in the database.

| component | state it keeps | operations | what is hard |
|---|---|---|---|
| audit: append path (`apps/audit`) | `audit_events` (hash chain, append only) | `POST /v1/audit/events` | concurrent appends to one head, retries of aborted transactions, clients that re-send, a commit whose answer is lost |
| audit: verification | none (reads all rows) | `GET /v1/audit/events/verify` | judging a table that grows meanwhile; what a replay can and cannot notice |
| PIP client (`packages/authz/src/pip`) | TTL/LRU cache of principals, in-flight map | `resolve`, `invalidate` | a stale value returned or written back after it was invalidated, callers sharing a fetch, the real bound on staleness |
| PEP guard, PDP client, audit sink (`packages/authz/src/pep`, `pdp`, `audit`) | none | one authorization per request | order of the checks, resource loaded before and changed after the decision, a record posted once |
| PEP identity middleware and context guards | none | one principal per request | the client's own header fields, services with and without the shared secret |
| policy publishing (`apps/authz-admin/src/modules/policy`) | policy versions (staged, active), files Cerbos watches | publish, activate, rollback | two stores without a common transaction, files written before the commit, one directory for all tenants, stubs that overwrite |
| policy compiler (`packages/authz/src/policy`) | none | rules to Cerbos rules | a scope's policy overrides the base, and with it its guardrail |
| org units (`.../org-unit`) | a tree with materialised paths | create, move | concurrent moves under READ COMMITTED |
| roles, permissions, assignments (`.../role`, `.../permission`, `.../role-assignment`) | roles, grants with validity | create, add, remove, assign, revoke | check then insert, duplicate grants, changes of a copy |
| tenants, principals (`.../tenant`, `.../principal`) | tenants; none | create, suspend; resolve | grants that come in no order, depth of the scope chain, expiry |
| per-request transaction (`.../shared/infrastructure/database`) | one transaction per request, tenant setting of RLS | begin, commit after the handler | side effects before the commit, optimistic locking |
| expense (`apps/expense`) | expense reports with a version | approve, list (no route submits or rejects one) | double approval, decision on a stale resource, a cursor coarser than the column |
| gateway: rate limiter (`apps/gateway`) | one window per client key | consume | window boundaries |
| gateway: verifier | a cache of published keys, one fetch underway | verify | key rotation, callers sharing a fetch |
| gateway: proxy | none | route, forward | which header fields survive; a path that is parsed again after it was routed |
| identity (`apps/identity`) | users, refresh tokens in memory, one key | password grant, refresh grant, publish the key | a token consumed before its replacement exists, restarts |
| web (`apps/web`) | the session, what three screens hold, calls underway | log in and out, approve, revoke, grant, load | answers out of order, and answers of the session before |
| kernel, contracts, configuration, deployment | none | | |

What makes each part correct, in a sentence:

- audit: the committed events form one linked chain with one row per event, a client
  is told the truth about its event, a replay that says "valid" certifies what it read;
- PIP client: a principal returned by `resolve` was current at most a known time ago, a
  forced read is never answered from before the call, callers never share a dead fetch;
- policies: a tenant's versions of a scope are numbered without gaps or duplicates, a
  version is activated by one request, what a publish writes for the PDP is newer than all
  its tenant had of that scope, no policy of a scope lets a principal reach another tenant;
- org units: one unit per path, paths follow the parents, no update is lost, no cycles;
- IAM tables: keys are unique, no acknowledged change is lost or made twice, a
  principal resolves to exactly the roles that count;
- expense: an approval takes effect once, on roles that were current, after its
  decision was recorded; a listing shows what was allowed and reaches every row;
- gateway and identity: no more than a quota, a good key is refused only for a cause,
  behind the identity middleware a service acts only for whom the token was issued to,
  a refresh token is spent once;
- web: a session shows nothing that was read for another.

## 2. Modules

| module | models | state and actions |
|---|---|---|
| `HashChain` | `hash-chain.ts`, the loop of `VerifyChainUseCase`, as operators | A digest is what was digested, so SHA-256 is collision free. `VerifyChain` is a global statement of what the loop should find. |
| `AuditChain` | what an audit log promises | one sequence that grows at its end |
| `AuditLog` | `RecordAuditEventUseCase` and `TypeOrmAuditEventRepository.append` | `rows` is the committed table; per post a phase, the request it sent, the head it read and the row it is inserting. `LookUp`, `Build`, `BeginAttempt`, `DrawSeq`, `InsertRow`, `Commit`, `SerializationFailure`, `Fail` are the awaits in order. |
| `ChainReplay` | `GET /verify` over a table that grows and may be damaged | `table`, the `records` read by the replay, the loop's position and verdict. `Insert` (the service, of an event in either spelling), `Damage` (anything else: `Alter`, `Lose`, `Exchange`, and `Rewrite` of a row's hashes), `Begin`, `CheckRecord`, `Finish`. |
| `TtlLruCache` | `ttl-lru-cache.ts` as operators on a sequence of entries, the least recently used first, as a JavaScript `Map` orders them | `AfterGet`, `Set`, `Delete` |
| `LruRecency` | calls of that cache against a history of when each key was last used | `GetKey`, `SetKey`, `DeleteKey`, `Advance` |
| `PipCache` | `HttpPipClient.resolve` and `invalidate`, the PAP that answers and the owner that changes principals | cache, in-flight map, one record per call; `ResolveHit`, `ResolveJoin`, `ResolveFetch`, `ResolveFresh`, `PapReads`, `FetchOk`, `FetchFails`, `Invalidate`, `Tick` |
| `VersionHistory` | what a table of policy versions promises | a history per tenant and scope: append a version, activate one |
| `PolicyPublish` | publish, activate, rollback | `rows` is the committed table, of which a request sees its tenant's rows, `files` the directory all tenants share, `policy` and `todo` the request's aggregate and the documents it has still to write. `Save` inserts inside the transaction, `WriteFile` writes one file, `WriteShared` two in one temporary file, `Commit` and `Abort` end it. |
| `OrgTree` | create and move of org units | `rows` is the committed table, `req` what each request has in memory: `LoadNode`, `LoadNewParent`, `LoadParentOfNew`, `FindDescendants`, `CheckFree`, `Save`. |
| `Aggregates` | the entities of roles, grants, tenants and permissions | what each operation makes of a row, as a set: empty where the aggregate throws |
| `Registers` | what the tables promise of each row | one row per id, inserted once and then edited from its present value |
| `ScopeChain` | the PIP's order of roles and choice of department | `Best` and `Deepest` are the loops over the grants in the order they come, `Sorted` the stable sort |
| `IamTables` | every operation that changes a role, an assignment, a tenant or a permission; `ResolvePrincipalUseCase` | `rows` is the committed content of the four tables, `req` the aggregate a request has in memory. A use case `Drafts` one, `Save` writes it or `Refuse` turns it away, `Commit` or `Abort` ends it. `Seed` is what `seed.ts` writes. |
| `PolicyRules` | `packages/authz/src/policy`, `cerbos-policy-mapper.ts`, and Cerbos as the code uses it | a condition is the set of cases it holds of; `Compile`, `Guarded`, `Stub`, `Decision` |
| `ExpenseApi` | the guarded expense service while an administrator acts | `rows`, the PDP's `files`, the `grants` the PAP would answer, one record per request: `RequestApproval`, `Resolve`, `Check`, `FindById`, `Save`; `List`, `CanRead`, `AnswerPage`; `GrantsChange`, `PublishPolicy` |
| `RateLimiter` | `fixed-window-rate-limiter.ts` and the middleware that asks it | a window per client key, and as history the calls let through and the times of those refused; `Use` (`ConsumeQuota`), `Advance` |
| `IdentityService` | both grants, the refresh token store, the key set | `store` (refresh tokens), `pairs` (history of what was issued), `signing` (which key); `IssueToken`, `RefreshToken`, `Restart` |
| `Forwarding` | route table, forwarded header fields, minted identity; the identity middleware and the context guards of each service | operators: `ResolveRoute`, `Sent` (the call as fetch sends it, dot segments taken out), `BuildForwardedHeaders`, `Principal`, `HasMiddleware` (the audit ingest and the PIP endpoints have none), `Context` |
| `Edge` | the gateway's verifier and forwarding, with the identity service before it and the services behind | `cache`, `inflight`, one record per call: `TurnAway`, `Arrive`, `ArriveWith`, `JwksServed`, `FetchAnswered`, `FetchFails`, `Handle`, `HandleGrant`, `ForwardFails` |
| `WebClient` | `apps/web`: session, screens, `api.ts` | `token`, `session`, `screens`, and the `calls` underway; what the user does, `Serve` and `Fails` (services and network), `Deliver` (what the client does with an answer) |

`MC...` modules give the values of a configuration; `...Proofs` modules hold theorems.
`PipCacheProofs` is also about `LruRecency`, whose operators it shares, `EdgeProofs` about
`RateLimiter`, and `ExpenseApiProofs` about `WebClient`, the expense service's client: each
extends both modules, so the smaller one's names say what they are of (`InitLru`, `NextLru`,
`LruSpec`). They are not composed; every theorem is about one specification.

How they compose: `AuditLog` and `ChainReplay` share `HashChain`; `PipCache` is built
on the operators of `TtlLruCache`, which `LruRecency` checks by themselves; `IamTables`
is built on `Aggregates` and `ScopeChain`; `Edge` extends `IdentityService` and
`Forwarding`; `ExpenseApi` extends `PolicyRules`, and takes of the PIP client what
`PipCache` shows of it: a forced answer is what the PAP held after the call
(`FreshReadsAreFresh`), any other what it held at some time. It publishes
a policy by one step, the leaf and the stubs together, because the PDP loads nothing
while a file of the chain is missing; `PolicyPublish` says what becomes of them one by
one. Three detailed modules implement an abstract
one, by an `INSTANCE` at their end: `AuditLog` implements `AuditChain`, `PolicyPublish`
implements `VersionHistory`, `IamTables` implements `Registers`.

Every model interleaves at the `await`s of the code and nowhere else. A statement of
PostgreSQL is a step; what one transaction wrote is seen by others when it commits.
Where the rows and keys a transaction wrote stay locked until it commits, and nothing
can be seen in between, write and commit are one step (`OrgTree!Save`,
`ExpenseApi!Save`); where something else happens in between (the policy files), or
where the wait for a lock is itself in question (`IamTables!IsLocked`), they are two.

Data is abstracted to what the properties tell apart: an event is an id, a body and the
spelling in which its uuids were sent; a principal is its version, or its set of roles;
a policy condition is the set of cases it holds of; an org path or a scope is a sequence
of labels; a header field's value is what it stands for. `OrgTree` and `IamTables` hold
the rows of one tenant, because no SQL statement of authz-admin crosses tenants. The policy
directory does: its file names have no tenant in them, so `PolicyPublish` has as many
tenants as there are, and so have `ExpenseApi` and `Edge`, where isolation is at stake.
Tenant ids are those the context guards let pass, that is, UUIDs.

## 3. Runs

| run | question | instance | why it is enough |
|---|---|---|---|
| `audit_log` | do racing posts leave one chain, hear the truth about it, and end? | two posts, one or two client ids or generated ones, three attempts | the code sees other posts only as rows that are there or not and as a transaction that wins; three attempts: one that fails, one that fails again and the last |
| `chain_replay` | what does a verdict say about the table? | three rows over three ids, two damages | a first, a middle and a last row, each sent in either spelling; two damages can try to hide each other, a forged hash one that is altered |
| `pip_cache` | how old is what `resolve` returns? who waits for whom? does every call end? | two calls, each made once, two keys with room for one, TTL 2, timeout 1, clock to 4 | a fetch, a call that joins it or forces its own, an invalidation in between, an eviction; the clock passes one TTL plus a timeout. A third call is out of TLC's reach in the time a run may take; section 4 has any number |
| `lru_recency` | is it an LRU with a TTL? | three keys, two entries, six calls, clock to 3 | one key more than fits, and time to expire |
| `policy_publish` | are histories what readers are promised, files in order, and all requests answered? | three requests of two tenants, a scope and one in it, two resources, three versions | two of a tenant race for a number while another tenant publishes the same scope; a rule and a stub, two tenants, and two resources (`expense` in `acme.acme`, `expense.acme` in `acme`) that meet in one file |
| `org_tree` | do racing creates and moves leave a tree? | two clients that keep requesting, three units, three levels, three moves | a subtree of two moved below a third unit, two moves that overlap and one before or after them; any number of creates |
| `iam_tables` | are keys unique, are changes lost, what does a principal resolve to? | two requests, two seeded roles and a grant, two further rows, three versions of a row, clock to 1 | a request races with one other; two grants of one user at two depths besides the seeded one, one of them temporary, one of a role that does not exist |
| `iam_active_grants` | (violation) section 6 | as above | |
| `expense` | on what was an approval that took effect decided? what is listed? | two requests, five expenses of two tenants, pages of two, two policy bodies, two database time units in a millisecond | two approvals of one expense; two pages, with a tie that a cursor splits, and one it does not reach; policies that allow and that deny |
| `edge` | for whom does a service act, and who is refused? | two calls at a time, of six: a privileged write and a read that bring identity fields of the client's own, a post to the audit log, a path with dot segments to a PIP endpoint, a refresh, a path without a route; two users, three keys of which two share a kid, two token pairs, clock to 3, cache life 1, access life 2 | a caller that joins another's fetch, a rotation under a new kid and under the same one, a token that outlives its key; each way a service makes a context, but the expense service's, which is the simplest |
| `rate_limiter` | what gets through, and who is refused? | two clients, quota 2, window 3, clock to 5 | the end of a window and the whole of the next one's start |
| `web` | does a session show what was read for another? | two users, one expense, two logins, twelve calls, of which three underway at once | the two loads of a session's screens and a third call; an approval, a grant or a revocation of the first session that is answered in the second, the loads it starts there, and their answers, beside those of the second session's own loads |

Bounds: `MaxVersion`, `MaxMoves`, `MaxTime`, `MaxNow`, `MaxClock`, `MaxUses`, `MaxRows`,
`MaxDamage`, `MaxPairs`, `MaxCalls`, `MaxUnderway` and `MaxSession` bound the models and stand in guards;
`MaxAppendRetries`, `MaxEntries`, `MaxDepth`, `Ttl`, `PipTimeout`, `PageLimit`,
`Quota`, `WindowMs`, `CacheTtl`, `AccessTtl` and `RefreshTtl` are the code's own limits
made small. Deadlock is not checked where the system may stop: when every call has ended
or a bound is reached. Symmetry is used in safety runs only, over values nothing orders.

In `edge` one tick is longer than an internal token's life and than the time an upstream
has, so these constants are 0 there; the clock is one, which the `Tolerance` of
the code allows for; one service has the shared secret and verifies the gateway's
signature, the others take the identity fields at their word, as they do outside
production unless they are configured with one (in production they refuse to start
without it).

### Properties

The comment before each definition says what it is about. The ones to read first:

- `AuditLog`: `ChainLinked`, `OneRowPerEvent` and `AnswersTellTheTruth` together say what
  a client may conclude from an answer, whichever of the lookup, the unique index or the
  serialization check caught the race. `VerifyBlamesOnlyRespelled` says which rows a
  replay of an undamaged log can blame: those whose uuids were sent in another spelling.
- `ChainReplay`: `ValidRowsAreGenuine` and `BlameIsExact` say what a verdict is worth. The
  first says it of rows whose own hash no damage wrote: the chain has no key, so whoever
  writes the hashes too can forge a tail that verifies (section 6).
- `PipCache`: `BoundedStaleness` is the bound the code really gives, TTL plus timeout.
- `PolicyPublish`: `PublishNeverGoesBack` holds although files are written outside the
  order of the database: the unique key serializes a tenant's publishes of a scope, and the
  files are written while it is held. It says nothing between tenants, nor of stubs,
  because there the code promises nothing (section 6).
- `OrgTree`: `PathsFollowParents` with the history variable `calm` says exactly how much
  concurrency the tree survives: racing creates, and anything that does not overlap a
  move. `OneUnitPerPath` and `WritesCount` hold whatever overlaps.
- `IamTables`: `ImplementsRegisters` says that requests that work on copies still change
  each row one after another, so a revoked grant is revoked once and a permission added
  by one request is not undone by another. `ResolvesExactly` compares what the
  loops and the sort make of the rows, in every order they may come, with what "granted at the scope or above, neither
  revoked nor expired" means.
- `ExpenseApi`: `ApprovedByOne` relates the table to what every client was told,
  `ApprovedOnPresentRoles` says how far a revocation reaches, `EffectsWereAudited` that
  nothing happens or is shown before its decision is posted, `CrossTenantDenied` that
  the guardrail compiled into every policy replaces that of the base it overrides,
  `MissesOnlyTies` what a client that follows the cursor may miss: only rows of the
  last row's millisecond.
- `Edge`: `AccessIsBounded` and `RefusedForCause` are the two sides of the key cache: how
  long a replaced key is still good, and when a good one is refused. The first also says
  that the identity fields a service is sent are those of the token's user, or none,
  whatever fields the client sends, and that behind the identity middleware a service acts
  for that user, in the user's tenant. Two surfaces have no such middleware and act in the
  tenant the client names: the audit service's ingest and the PIP endpoints (section 6).
  `SessionsAreLinear` says that a refresh token is spent once, through restarts too.
- `RateLimiter`: `AtMostTwiceTheQuota` and `RefusedOnlyAtQuota` bound from both sides what a
  fixed window does to any span of a window's length.
- `WebClient`: `ShownIsGenuine` over the calls of an earlier session that are still underway
  when the next user has logged in, including those whose handlers load again with the
  token there is then, and the answers to these.

### Fairness

`AuditLog!FairSpec`, `PolicyPublish!FairSpec`, `ExpenseApi!FairSpec`: weak fairness of the
steps of each request that has started. Node.js runs a handler on as soon as what it
awaits settles, and PostgreSQL ends every statement; a wait for a lock is a step that is
disabled until the holder ends. Nothing makes a client of `PolicyPublish` or `ExpenseApi`
send a request, nor an administrator stop, and no fairness is assumed of failures.
`PipCache!FairSpec`: calls are made, and each fetch settles, because the abort timer ends
the one the network does not. Progress never rests on strong fairness. No liveness is
stated of the other modules: a request of `IamTables`, `OrgTree` or `Edge` waits for one
lock or one bounded fetch and for nothing else, and `WebClient` is driven by its user.

## 4. Proofs

TLAPS checks eight modules of theorems. They hold for any number of posts, requests,
calls, rows, units, users and keys and for any value of the limits and bounds, from the
named assumptions of each module only. Those say that constants are of their types and
that model values differ, and besides:

- `IamTables`: the seed's rows are new and meet the unique indexes (`SeedAssumption`);
- `ExpenseApi`: there are finitely many expenses, and their ids are numbers, so that
  they are ordered; a published rule
  names an action and a role (`WellFormed`, the validation of `policy-rule-body.ts`); with
  a scope come the scopes above it;
- `IamTables`: a table has finitely many rows, and a scope has a label;
- `PolicyPublish`: with a scope come the scopes above it;
- `RateLimiter`: the quota and the window are at least 1.

Every argument has the same form: the property is not inductive; `IInv` strengthens it by
what the requests under way hold in memory, and how that relates to the table they will
write to; `InitIInv` and one lemma per action show that it is kept; the property follows.
Each `IInv`, and each invariant named below in its place, was checked by TLC on the
instance of its run before it was proved.

- **AuditLog.** The row a transaction is about to commit must link to the head it will
  find. `IInv` adds that a transaction still valid under SERIALIZABLE has read the present
  head (`TransactionShape`), that a row waiting to commit passed the unique index against
  every committed row (`PassedUniqueIndex`), that generated ids are nobody else's, that
  seqs are drawn in increasing order, and that the digest of a row lists the rows before
  it (`DigestsListRows`), which makes the mapping to `AuditChain` a sequence that grows.
  From it: `TypeCorrect`, `ChainIsSound`, `EventsStayUnique`, `AnswersStayTrue`,
  `AppendOnly`, `Implementation`. `BlameIsForRespelling` needs more: the table is finite
  and each row was written by a post (`RowsWritten`), so reading in seq order gives every
  row at its rank, each link holds, and a digest that does not match is one of an event
  sent in another spelling.
- **ChainReplay.** The strengthening says that every digest in the table or in the rows
  read is one the service computed or a damage wrote (`HashesKnown`), what the loop has
  established about the rows it passed (`Passed`), and that undamaged rows are as they were
  inserted (`UndamagedIsAsInserted`). A digest determines what was digested, so a chain
  of matching links determines the rows. From it: `HeadHashCertifiesPrefix`,
  `ValidIsGenuine`, `LoopComputesVerdict`, `UndamagedBlameIsForRespelling`.
- **PipCache.** The strengthening bounds the age of everything on the way to a caller:
  cache entries by their expiry, answers under way by the start of their fetch, joined
  calls by the call they wait for; and it keeps the in-flight map exact
  (`FetchesAreFound`). From it: `StalenessIsBounded`, `FreshIsFresh`, `OneFetchPerKey`,
  `JoinedFetchesLive`.
- **LruRecency**, in `PipCacheProofs`. Entries stand in the order in which their keys were
  last used, so no key twice, and each is what was last set under its key (`LruInv`).
  Deleting an entry leaves a part of the sequence in its order (`DeleteIsPart`), and what
  is added comes after it with a later use. From it: `EvictionIsLru`, the action property
  that a set which drops another key drops the one unused longest, and `HitsAreGenuine`.
- **IamTables.** A draft is one edit of the row at its id unless that row has changed
  since, or inserts under an id nobody else uses (`DraftOK`); what is written and not yet
  committed won its compare-and-set, passed the unique index and keeps row and key to
  itself (`SavedOK`, which is what the locks of PostgreSQL are for). From it:
  `KeysStayUnique`, `TypeCorrect`, and the refinement `RowsAreRegisters`: every commit
  maps to one change of one register, made from its present value.
  `PrincipalsResolveExactly` needs of the tables only their types; what it takes is in
  the loops and the sort. A recursive function exists because each of its finite
  beginnings does, by the least index at which one would not (`LoopEnds`); its values then
  have a property that each step keeps (`UpTo`). So the first loop notes each role once, at
  its deepest grant (`Notes`, `BestNotesAll`), the second ends with a grant than which
  none is deeper (`DeepestIs`). A place in the sorted order counts the entries before, so
  places differ, and as many as there are entries they are all taken (`SortedPlaces`).
- **ExpenseApi.** A request holds the roles its user had at some time since it began
  (`OnPresentRoles`), the posts its next effect needs are already made (`IsAudited`), and
  an expense is as it was created until exactly one request has taken it (`TakenOnce`):
  the compare-and-set can be won from the first version only. From it: `OneApproval`,
  `PresentRolesApprove`, `PostedBeforeEffect`. `TenantIsolation` rests on what the
  compiler makes of any well formed body: each policy in the directory carries the
  guardrail's denial, so no case of another tenant is allowed at any scope.
  `OnlyTiesAreMissed` has an invariant of its own (`ListInv`): of the rows a listing has
  not read, each shares its millisecond with a newer row it has read, or is one the
  cursor will reach. It is kept because a page holds the newest rows after its cursor
  (`PageIsFirst`) and ends at its oldest (`LastIsOldest`), and because what is older than
  that row and not in its millisecond comes after a cursor cut to it (`CursorReaches`).
- **WebClient**, in `ExpenseApiProofs`. A call of the present session is its user's, an
  answer was read for whom it says within that session, an approval that was answered was
  made by its user, and at most one login is under way (`WebInv`). From it:
  `WebShownIsGenuine`, for any number of users, sessions and late answers.
- **PolicyPublish.** The versions of each tenant's scope have no gaps, a saved version is
  nobody else's until its transaction ends, each document a publish has still to write is
  followed by those of the scopes above (`IsChained`), and a rule in a file came with the
  versions before it in its tenant's table (`FilesOK`), so a later publish has a higher
  number than any rule of its tenant and scope that it overwrites. What two publishers of one
  temporary file do is a write by one of them and a failure of the other (`RenameStep`).
  From it: `TypeCorrect`, `ChainsStayComplete`, `NeverGoesBack`, and the refinement
  `TableIsHistory`.
- **OrgTree.** What a request has read is still true when it saves, as long as no move has
  overlapped another request: the subtree it drafted is the whole subtree, rebased as it
  stands (`IsSubtreeMoved`), and a unit to be created will hang below its parent
  (`WillHang`). With overlaps there remains that a save goes through the unique index and
  from the version drafted. From it: `TypeCorrect`, `PathsStayUnique`, `TreeMatchesPaths`,
  `NoLostUpdate`; and `CalmTreesHaveNoCycles`, by the unit of shortest path in a
  supposed cycle (section 6 says what overlapping moves do).
- **Edge.** The tokens of the store are each there once and of the session of their pair
  (`StoreOK`); the keys cached, and those a fetch will bring, were published when the
  fetch was sent or later (`CacheOK`, `FetchOK`); a forwarded call carries header fields
  minted for the user of its token while that was good (`IsMinted`). From it:
  `SessionsStayLinear` (of the identity service within `Edge`, through restarts),
  `AccessStaysBounded`, and `RefusalsHaveCause`, over the whole route table, any
  path with or without dot segments, and every combination of the client's own header fields.
- **RateLimiter**, in `EdgeProofs`. For each client (`LimitOK`), its window counts what was
  let through since it opened, nothing was let through later than its end, and at most
  the quota in the length of a window before it opened. A span of a window's length then
  lies in the present window and that stretch before it, or ended earlier. From it:
  `TwiceTheQuota` and `RefusedAtQuota`.

Some definitions were changed because a proof could not use them as they stood. Two arms
of the CASE in `Forwarding!Context` overlapped, so that TLA+ did not say which applies.
`OrgTree!NoCycles` relied on how a tool reads `SUBSET S \ T`. Types and assumptions of
`IamTables`, `OrgTree`, `PolicyRules` and `ExpenseApi` were made exact. `RateLimiter`
counted calls by sums, and `ExpenseApi` sorted its pages: their histories and pages are sets
now, and their properties count with `Cardinality`. `ScopeChain` folded and sorted with
library operators of which nothing can be proved, and has recursive functions and places
instead. `IamTables!HasRole` was made to say that an assignment's role is a row of the
table of roles, as the join does. TLC finds the same of all of them.

Every invariant and every action property that a run checks has a theorem, except the
one a run refutes. Only model-checked is liveness: `AuditLog!EveryPostAnswered`,
`PipCache!EveryCallEnds`, and `EveryRequestEnds` of `PolicyPublish` and of `ExpenseApi`.
The prover has no rule for ENABLED, on which fairness rests.

## 5. Not modelled

- Reads that change nothing and decide nothing: getting one row, listing roles, tenants,
  policies or org units, the subtree of a unit. The audit listing is modelled as far as
  whose decisions a caller is shown (`Forwarding`); its page is one query by `seq`.
- The setting row level security reads (`set_config` on the request's connection): what it
  hides is the operator `ExpenseApi!Visible`, not a state of pooled connections.
- Single file system calls of the policy publisher. A file appears by a rename, as one
  step; of two writers that share the name of a temporary file (`WriteShared`), the states
  in which the PDP could read half a document are left out.
- The transport of a decision record from the sink to the audit service: `ExpenseApi` says
  that it was posted, `AuditLog` what becomes of one that arrives.
- Kernel, contracts, configuration and start-up: base classes, type declarations, the
  validation of the environment, wiring. No state, nothing concurrent.
- Rendering in the web client, formatting of errors and responses, logging.
- Deployment. Replication, backups and the anchoring of the chain head outside the
  database do not exist in the code.

## 6. Where code and comments disagree

Shown by a run:

- `iam_active_grants`: assigning a role "enforces uniqueness of the active (user, role,
  scope) triple" (`assign-role.use-case.ts`); two overlapping requests each find no
  active assignment and each insert one, so revoking one leaves the role effective.

Stated as a definition under "Claims of comments", which no configuration checks; added
as an INVARIANT (or PROPERTY) to the configuration of its module, TLC refutes each:

- `AuditLog!UntouchedLogVerifies`: an event whose uuids are sent in upper case is hashed
  as sent (`audit-event.entity.ts`) and read back in lower case; the replay calls it
  modified.
- `OrgTree!NoCycles`: two overlapping moves each pass the cycle guard of
  `move-org-unit.use-case.ts` and leave two units each below the other. Without such an
  overlap the comment is right (`CalmTreesHaveNoCycles`).
- `PolicyPublish!StubsOnlyWhereMissing`: the stubs "for every missing ANCESTOR scope"
  (`cerbos-policy-mapper.ts`) are written for every ancestor, and replace the rules of
  one that was published.
- `PolicyPublish!SourceOfTruthFirst`: files are written before the transaction commits
  (`rls.interceptor.ts` commits after the handler), and stay when it does not.
- `PolicyPublish!OneTenantsFile`: a published rule is said to become effective
  (`fs-cerbos-policy.publisher.ts`); the file of a scope is named for the resource and the scope
  (`cerbos-policy-mapper.ts`), while the versions are numbered per tenant, and nothing ties
  a scope to the tenant that publishes it. Another tenant's version 1 of the same scope
  replaces a tenant's version 3, and the PDP then enforces that. A resource with a dot in
  its name can meet the file of another resource in the same way.
- `Edge!AuditRouteOnlyReads`: the route of `/v1/audit` is called a "Read-only decision log"
  (`route-table.ts`); it takes every method, so the audit service's ingest is reached
  through it, which has no identity middleware (the audit service's `app.module.ts`) and
  takes the tenant from the body.
- `Edge!OnlyKnownPathsAreServed`: "unknown paths 404 at the edge" (`route-table.ts`); the
  route is found by the path as it was received, and the URL built of it
  (`proxy-request.use-case.ts`) is parsed again by fetch, which takes dot segments out. The
  path that is served may have no route, or another one.

Read in the code while modelling, visible in the models, and not given a run of their own:

- `seq` is called gap-free (`audit-event.response.ts`); an aborted attempt has drawn its
  BIGSERIAL value (`AuditLog!DrawSeq`).
- the unique index on `record_hash` is called a backstop against a duplicated link
  (`typeorm-audit-event.repository.ts`); two different events on one head have different
  hashes. The serialization check is what prevents it (`AuditLog!Serializable`).
- deleting any record is said to be detectable by a replay (`hash-chain.ts`); losing the
  newest rows leaves a shorter chain that verifies (`ChainReplay!Lose`), and so does a
  row whose hash was written over to fit it, if it is the last (`ChainReplay!Rewrite`).
- a decision record is posted once, and without an id (`http-audit.sink.ts`): what is lost
  stays lost, and what is repeated is a new event (`AuditLog!Build` draws its id).
- the TTL is called the guaranteed bound on staleness (`ttl-lru-cache.ts`); it counts
  from the arrival of an answer the PAP may have computed a timeout earlier.
- single flight is said to dedupe misses of a key (`http-pip.client.ts`); a forced read
  that settles forgets another call's fetch (`PipCache!Forgot`).
- a staged version is called not yet enforced and the active one the only one enforced
  (`policy.entity.ts`); publishing writes the staged rules, and activating leaves the
  version that was active before it active.
- a failure of the PDP is said to become a ForbiddenError (`cerbos-pdp.client.ts`); the
  guard lets the error pass, and the answer is 500 (`ExpenseApi!Fail`). It still denies.
- a decision is said to be emitted after it is enforced (`http-audit.sink.ts`); the guard
  posts before it answers or lets the handler run (`ExpenseApi!Check`).
- the cursor is said to make paging stable (`typeorm-expense.repository.ts`); it holds
  milliseconds of a column that has microseconds, so a page may skip rows created in the
  same millisecond as the last one (`ExpenseApi!NextCursor`).
- a rotation is described as minting under a new kid while the old key stays published
  (`apps/identity/src/config/config.schema.ts`); the key set holds one key
  (`IdentityService!Jwks`), so a rotation refuses every older token.
- the limiter's key is called the authenticated subject or else the source address
  (`fixed-window-rate-limiter.ts`); it is the first address of X-Forwarded-For or the
  peer's.
- the gateway expects the issuer `http://localhost:3200` unless configured, the identity
  service signs as `http://localhost:3100`; the model takes them to agree.
- the configured users of a fresh identity service belong to a tenant named `acme`, which
  is no UUID, so the context guards of the services answer them 401.
- the web client's parts are said to re-fetch and stay consistent (`App.tsx`); nothing
  orders the loads of a screen, and an older list may overwrite a newer one.

## 7. Plan

Done: the models, and the proofs of section 4, which cover every safety property of the
runs. What is left, in order:

1. a model of the tenant setting on pooled connections (`set_config` and the connection's
   return to the pool), which `ExpenseApi!Visible` takes for granted;
2. the order of the web client's loads of one screen, once the code has one.
