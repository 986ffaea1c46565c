# ops-gateway-mcp: a verification project

The gateway lets an AI agent, over MCP or REST, read from databases, Linux hosts
and Kubernetes clusters, and *prepare* writes that a person then confirms in the
Web console. This directory holds TLA+ models of the parts that make that safe,
TLC configurations that check them on small instances, and TLAPS proofs of the
most important results for instances of any size. `PROJECT.json` is the index:
components, runs, the lines of code behind every definition, hazards, findings
and theorems.

## 1. Inventory

| Component | Code | State it keeps | Operations |
|---|---|---|---|
| Policy | `internal/policy` | none | `EvaluateSQLForEnvironment`, `EvaluateActionForEnvironment` |
| Audit store | `internal/audit` | tables `operations`, `pending_operations`, `pending_actions` | `Record`, `Prepare`, `PrepareAction`, `ClaimBy`, `CompleteResult`, reads |
| Operation service | `internal/service/service.go` | none of its own | `EvaluateSQL`, `PrepareAction`, `ConfirmSQL`, `ConfirmAction`, `QuerySQL` |
| Client cache | `internal/service/resources.go`, the three `Manager`s | `Service.revisions`, `resourceMu`, one map of clients per manager | `syncResource`, `Get`, `Remove`, idle replacement |
| Recording of calls | `server/mcp.go`, `server/audit_rest.go`, `QuerySQL` | audit rows | MCP middleware, REST middleware, deferred record |
| Storage | `internal/storage` | schema version of the SQLite file, snapshots beside it | `Open`, `migrate`, `backup` |
| API tokens | `internal/auth`, `middleware/auth.go` | table `api_tokens` | `Upsert`, `Authenticate` |
| Resource store and observer | `internal/resources` | resource tables (edited from outside), `Store.state` | `Get`, `List`, `Observe` |
| Process life | `cmd/ops-gateway-mcp/main.go` | goroutines and handles of one run | start, baseline, observe every 5 s, serve, shut down |
| HTTP handlers, search, pagination | `internal/server`, `internal/pagination`, `audit/query.go` | none | read and render |
| Remote adapters | `internal/database`, `linux`, `kubernetes` | connections, one reader goroutine per SSH command | commands, queries, logs and files, each with a limit on its output |
| Observability | `internal/observability`, `middleware/logging.go` | log file of the day, counters | append |
| Web console | `web/src` | the URL, the answer shown, requests under way | lists, paging, detail, confirm, refresh |

How they meet. A handler runs in a goroutine of its own. It asks the service for
a client (`Database`, `LinuxClient`, `KubernetesClient`): the service takes
`resourceMu`, reads the resource row, drops the cached client when the revision
changed, releases `resourceMu`, and only then asks the manager, which has a mutex
of its own and opens a client from *another* read of the row. Writes are
evaluated by the policy, frozen in the audit store, and confirmed by a later
request that re-reads everything and claims the row with one conditional UPDATE.
The resource tables have no write API: they are edited with SQL, at any moment.
Everything durable is in one SQLite file with one connection.

What is hard here:

* requests, edits, the clock and restarts between any two reads of a confirmation;
* failures that do not tell what happened (a remote call that timed out);
* three layers that can record the same call, and clients that leave meanwhile;
* starts that crash or fail half way through migrations or tokens;
* a background observer that compares tables read at different moments;
* one connection and five mutexes that everything above queues for;
* output that stops arriving: because it is complete, too long, cut or late;
* a browser that shows answers in the order they arrive.

`PROJECT.json` lists each of these hazards at its line, with the property that
covers it, or the reason why none does yet.

## 2. Modules

| Module | Models |
|---|---|
| `Policy` | `policy.go`: every branch, the `Create` and `Alter` prefixes included. SQL texts are classes, at least one for every case of the two switches; the two parsers are tables from class to AST node (`PgNode`, `MySQLNode`, external) |
| `PolicyCheck` | every question that can be put to the policy, the answer, and its properties |
| `AuditStore` | the three audit tables; one operator per statement or transaction |
| `ClientCache` | `syncResource` and `Manager.Get/Remove`, stage by stage |
| `ClientUse` / `MCClientUse` | requests that only get a client, use it, let it go |
| `StorePool` / `MCStorePool` | the same lock by lock, with the one-connection pool, `Store.Observe` and transactions beside it; implements `ClientUse` |
| `RemoteCall` | one command, query, log or file: remote end, connection, time limit, limit of output, reader goroutine |
| `GuardedCall` | composes `PolicyCheck` and `RemoteCall`: what is denied never becomes a call |
| `OperationService` | composes `AuditStore`, `ClientCache`, `Policy`: the whole life of a write |
| `OperationSafety` / `MCOperations` | its properties / its instances |
| `OperationLifecycle` | the abstract promise of one operation, which `OperationService` implements |
| `CallAudit` | who records a call, when, and with which status |
| `Migration` | schema version and snapshots |
| `TokenStore` | `api_tokens` |
| `ResourceObserver` | `Store.Observe` |
| `Gateway` | composes the last three: `run()` of `main.go` with its goroutine |
| `GatewaySafety` / `MCGateway` | its properties / its instances |
| `Console` | the page of one operation, and the two handlers it talks to; the server keeps the promise of `OperationLifecycle` |
| `AuditList` | `Search` with its paging, and the list page that walks through it |
| `MCAudit` | the two pages of the console for TLC |
| `ClientCache_proofs`, `ClientUse_proofs`, `StorePool_proofs`, `RemoteCall_proofs`, `OperationService_proofs`, `CallAudit_proofs`, `Gateway_proofs`, `AuditPage_proofs` | lemmas and theorems |

Definitions whose comment says "A bug" are not part of the behaviour: each is a
plausible mistake in the definition after it (a dropped guard, a missing reset),
listed under `mutants` with the property that catches it.

### State and actions against the code

*OperationService.* `req[r].pc` is where goroutine `r` is inside `EvaluateSQL`,
`PrepareAction`, `ConfirmSQL` or `ConfirmAction`. Each step ends at the next
access to something shared:

| Step | Code (`service.go`) |
|---|---|
| `BeginPrepare`, client stages, `EvaluateSQL`, `Freeze` / `RecordEvaluated` | 85-127 |
| `BeginPrepare`, `PrepareAction`, client stages, `Freeze` | 242-293 |
| `BeginConfirm` | 364-376 |
| `CheckStatus`, `ReadRow`, `Expire` / `CheckResource`, client stages, `Claim`, `Run`, `Complete` | 183-240 |
| `ReadRow`, `Expire` / `CheckResource`, `Claim`, client stages, `Run` / `RunWithoutClient`, `Complete` | 295-362 |
| `StoreError` | every `return err` after a statement on SQLite |
| `Restart` | the process dies anywhere and comes back with the tables only |

The order of client and claim differs between SQL and restarts, and is kept. The
remote call is `Run`, with the outcomes "ran, told", "ran, not told" and "did not
run"; a client that another request closed does not run (Kubernetes clients hold
no connection and still do). `runs` and `ranOn` are history: what the remote
system did, which no gateway table knows.

*ClientCache.* A configuration is identified with `Revision()`. `call[r].stage`
goes `sync` (waiting for `resourceMu`), `apply` (holding it, row read), `fetch`
(outside, manager next), then `done` or `failed`. `seen[r]` is history: the
configurations its resource had since the request began. A manager's `Get` holds
the manager's mutex throughout. It is one step (`FetchCached`, `FetchNew`,
`FetchFails`), or two when it first closes an idle client (`CloseIdle`): one that
nobody asked for in ten minutes, whether or not a call still holds it. The call
then holds a closed client.

*StorePool.* The same request, with every lock taken in a step of its own:

| Step | Code |
|---|---|
| `SyncLock`, `SyncConnect`, `SyncRead`, `SyncTimeout` | `resources.go` 33-39: `resourceMu`, the connection, the row, or an error |
| `SyncRemove`, `SyncNote` | `resources.go` 40-58: `Manager.Remove` under `resourceMu`, the revision, the unlock |
| `GetCached`, `GetMiss`, `ResolveConnect`, `Resolve`, `Dialled` | `Manager.Get` and the resolvers of `main.go` 98-126; `GetMiss` also closes an idle client, under its holders too (`CloseClient`) |
| `ObserveLock` ... `Observed`, `ObserveFails` | `store.go` 196-247: `Store.mu`, one query per table, one INSERT per change |
| `TxStart` ... `TxFails` | any transaction, or a single statement (`audit.go`, `query.go`, `store.go`) |

`owner[l]` says who holds lock `l`, with the connection as one of the locks.
`Wanted(w)` is the lock goroutine `w` cannot go on without. `unread` is history:
resources of which a `syncResource` could not read the row. Dialling is one step;
whether it succeeds is settled with the row, since nobody sees it earlier.

*RemoteCall.* `pc` is the caller, `reader` the goroutine of `Client.run` and
`done` its channel; `remote` is the far end, which writes unit by unit and ends
well, badly, or is never heard of again. A unit is a byte of a command, log or
file and a row of a query. A stream that ends says nothing of why:
`Session.Wait`, `Rows.Err` and the body of a log do. The exec stream of a file
only tells how `cat` ended: a cut connection may read as success (`CutUnseen`),
and a chunk that `limitedBuffer.Write` refuses (`CopyChunk`) ends the copying, not
the call. `spilled` says that this happened.

*Console.* `op`, `busy` are the states of `OperationDetail`; `read` is the request
of its effect (a new one aborts the one before), `posts` are the confirmations
with the GET that follows each. A request is `sent`, `half` (the operation was
read, its frozen row not yet), `back`. `reviewed` is history: operations this
browser has shown as pending together with their statement. `key={selected}`
makes the page of another operation a new one, so `Open` empties it.

*AuditList.* `table` is the set of audit rows; `lists` the requests of `useList`
under way, with `live` false once aborted. `Orders` are the orders SQLite may
return rows in: all that agree with ORDER BY. `begun` and `seen` are history: the
rows there were when page 1 was answered, and those shown since.

*CallAudit.* Tools and routes differ by how they are recorded only: `read`,
`query`, `submit`; through MCP or REST. `hurt` notes that a write of the call's
row failed or that the process died, which is what excuses a missing row.

*Migration.* `version` is the schema version of the file and `tables` whether it
has tables (`storage.go` 61-66 counts them): every version above 0 has, a file of
version 0 may. `Gateway` remembers both of the file it found in `began`.

*Gateway.* `main` follows `run()`: `check`, `backup`, `up` (storage.Open),
`baseline` (first Observe), `tokens`, `serve`, `drain` (deferred calls). `step` is
where the current Observe is. `trail` is history: the first state, brought up to
date by every audit row since; `torn` collects the keys that an Observe had
reported when it failed.

## 3. Runs

| Run | Expect | Shows |
|---|---|---|
| `ClientCacheRevert` | violation | A-B-A: a reverted edit leaves the intermediate client in the cache |
| `SqlOperations` | pass | one SQL operation under every fault: nine promises and the refinement of `OperationLifecycle` |
| `OperationLiveness` | pass | claimed operations are closed, requests end, for SQL and restarts |
| `ConfigChangedUnderConfirm` | violation | the statement can run on a configuration it was not approved for |
| `CallAudit` | pass | exactly-once recording, before data is handed out, with the right outcome |
| `GatewayStart` | pass | upgrades, backups (of files of another origin, too) and tokens across crashed and failing starts |
| `GatewayServe` | pass | the observer's trail, shutdown order, lasting edits are noticed |
| `TokenReuse` | violation | distinct tokens of one start are refused because of earlier rows |
| `StorePool` | pass | no circle of waits, every wait ends without a time-out, no stale client unless the store failed, and `StorePool` implements `ClientUse` |
| `GuardedCalls` | pass | all questions to the policy: prod is never weaker than dev, destructive or unscoped SQL is denied everywhere, the documented table is the coded one but for twelve named statements; behind it: only complete output is data (but for files that are cut or too large), limits are exact, calls end |
| `AuditPage` | pass | nobody confirms what they were not shown, a successful confirmation shows the final state, a walk through the pages shows every row |

Deadlock is checked in every run. `CallAudit`, `RemoteCall` and `GuardedCall` have
an explicit final stuttering step once everything is answered; nothing else ever
has to stop. A leftover reader goroutine is not final: a state in which it could
never go on would be reported.

### Bounds, and why they are enough

* Two requests (`Requests`): the races here are between two confirmations, or a
  confirmation and an expiry. The proofs hold for any number.
* One operation id: operations interact only through the client cache, which
  `StorePool` explores on its own. Proofs: any number.
* One resource (two in `OperationLiveness`, one per kind): all state of the cache
  is by resource except `resourceMu`, which both resources of that run share.
* Two configurations (development/production, and PostgreSQL/MySQL in
  `SqlOperations`). `Edits` is the
  relation of allowed edits: forwards only, forwards and back, or also deletion
  and re-creation.
* `Statements` of `SqlOperations` is one class that is confirmable everywhere
  (`update_where`) and one whose decision depends on dialect and environment
  (`create_index`: MySQL confirm in dev, denied in prod and in PostgreSQL).
* Faults: `store` (SQLite answers with an error), `remote`, `idle` (ten minutes
  since the last `Get` of a client), `crash`, `leave` (the client of a call goes away).
* `Target`/`Newest`: this program's schema version and the newest of any, 2 and 3
  in `GatewayStart`, so that older, intermediate, current and newer files occur.
* `MaxFaults` bounds failing statements over a whole behaviour of `Gateway` (1 in
  both passing runs, 0 in `TokenReuse`); crashes are not bounded.
* Two secrets for three names in `GatewayStart`, so that collisions occur; the
  resource tables are left out there and the tokens in `GatewayServe`, which share
  no state.
* `StorePool`: two requests for one resource and one other goroutine, so that
  every pair of the three kinds (request, observer, transaction) waits for the
  other. `Tables` 1 and `MaxChanges` 1 let the observer read and report,
  `MaxStatements` 2 lets a transaction hold the connection over a statement. The
  edit goes forward only: with a way back `FreshClient` fails, see
  `ClientCacheRevert`. The theorem holds for any numbers.
* `RemoteCall`: `Limit` 2 and `MaxSize` 4 give outputs below, at, one over and two
  over the limit. The theorems hold for any numbers.
* `Console`: two operations and two confirmations under way (one of an unmounted
  page); others confirm at the server without bound. `AuditList`: three rows on
  pages of one (`PageSize`), two clock readings, so that two rows share a time and
  one is inserted behind another; `MaxRequests` 2, the aborted one included.
* Symmetry (`SqlOperations`): requests are interchangeable; the run checks safety
  only.
* No counter is unbounded. Clocks are reduced to the facts the code asks for:
  `overdue` (ten minutes passed), `idle`, and ticks.

### Fairness

* Operations: a goroutine that can proceed does (weak fairness of `Proceed`,
  `Advance`). For the remote call inside it this is an assumption: queries,
  statements and cluster requests have a time limit, commands have one once they
  have started (`CallsEnd`), but opening an SSH session has none, see 5.6.
* `SyncRead` is strongly fair: `sync.Mutex` hands over to a waiter after 1 ms
  (starvation mode), so a request cannot be passed over for ever.
* `StorePool`: whoever holds what it needs goes on (statements end, a dial has its
  ten seconds), and whoever waits is strongly fair, since mutexes hand over and
  the pool gives a returned connection to a waiter. No time-out, failure, edit or
  tick is relied upon.
* `RemoteCall`: goroutines of the gateway go on when they can and the clock runs
  for calls that have a limit; nothing is assumed of the remote end, the network,
  or the host's answer to `NewSession` and `Start`.
* `Gateway`: the ticker keeps ticking, a step of Observe ends, and a shutdown that
  waits for the goroutine goes on once it has ended. Nothing is assumed of starts,
  edits, crashes or signals.
* `CallAudit`: the steps around the handler are fair, the handler itself is not:
  what is shown is that a read whose handler has returned gets its final row.
  Clients need not leave, nor the process crash.
* `Console`, `AuditList`: safety only, no fairness.

## 4. Proofs

| Theorem | Property | Inductive invariant |
|---|---|---|
| `ClientUseSafety` | `CacheTypeOK`, `NoLeakedClient`, `MutexHeldInside` | `CacheInv` |
| `ServiceTypeOK` | `TypeOK` | `IInv` |
| `RunsAtMostOnce` | `AtMostOnce` | `IInv` |
| `RecordsAreTrue`, `SucceededRanThm` | `RunIsOnRecord`, `SucceededRan` | `IInv` |
| `RowsAreFinalThm` | `RowsAreFinal` | `IInv` |
| `FrozenWhileUnfinishedThm` | the same name | `IInv`, `FrozenInv` |
| `DeadlineHonouredThm`, `ApprovedConfigSeenThm` | the same names | `IInv`, `MineInv` |
| `OnlyWhatIsConfirmable` | `FrozenIsConfirmable` | `IInv`, `FrozenInv`, `MineInv`, `PolicyInv` |
| `RunsInItsDialectThm` | `RunsInItsDialect` | the same, and `ClientInv` |
| `ImplementsLifecycle` | `KeepsLifecycle` (refinement) | `IInv` |
| `NoUnrecordedDataThm`, `RecordedOnceThm`, `RowTellsAnswerThm`, `AskedOnRecordThm`, `AnsweredIsRecordedThm` | the same names | `IInv` of `CallAudit_proofs` |
| `GatewayTypeOK` | `TypeOK` of `Gateway` | `TypeInv`, `TokenInv` |
| `ServesItsVersionThm`, `UpgradeKeepsACopyThm` | the same names | `FileInv` |
| `OneIdentityThm`, `ConfiguredTokensHoldThm` | the same names | `TokenInv` |
| `TrailAgreesThm`, `StoreOpenWhileUsedThm`, `NoRepeatedRowThm` | the same names | `ObserverInv` |
| `NoCircleOfWaits` | `LockOrder` | `PoolInv` |
| `FreshClientThm` | `FreshClient`, where edits have no way back | `PoolInv`, `HeldInv`, `FreshInv` |
| `UsesClientsThm` | `UsesClients` (refinement) | `PoolInv`, `HeldInv`, `UseInv` |
| `ReturnsWholeData`, `LimitsAreExact` | `DataIsWhole`, `LimitIsExact` of `RemoteCall` | `CallInv` |
| `GuardedReturnsWholeData`, `GuardedLimitsAreExact` | the same two of `GuardedCall` | `CallInv` |
| `ProdIsStricterThm`, `DestructiveIsDeniedThm`, `DocumentedDecisionThm` | the same names | `AskedInv` |
| `ConfirmsWhatItShowsThm`, `TrueStateAfterwardsThm` | the same names | `DetailInv` |
| `WalkShowsAllThm` | `WalkShowsAll` | `ListInv` |

Every invariant, action property and refinement that a passing run checks has its
theorem here; only the liveness properties do not.

They hold for all values of the constants under the named assumptions
(`NoneIsFresh`, `EditsTyped`, `ConstantsTyped`, `VersionsTyped`, `SettingsDiffer`,
`KindsTyped`, `BuiltinTyped`, `MaxFaultsTyped`, `PoolTyped`, `SizesTyped`,
`SizesArePositive`), which only say that the special values differ from the
ordinary ones and that parameters are typed. TLC evaluates every one of them in a
passing run. Finiteness of the sets is not assumed; of the audit table it is
proved, since it begins empty and grows row by row. `FreshClientThm` alone has a
hypothesis of its own, explained below.

*At most once.* `AtMostOnce` is not inductive: it says nothing of a request that
is about to run. `IInv` adds `ClaimInv`: a request past the claim is the one
`confirmed_by` names (`OwnerInv`), an operation on which nobody is past the claim
and that waits or was only evaluated has not run, and one that is about to run has
not run yet. `RequestsWellFormed` and `CallsSettled` say which fields of a request
are meaningful where, and `CacheInv` types the client a request runs through.
One lemma per action, most of them instances of `MoveKeeps` (a request moves on
and the tables stay) or `DoneKeeps` (a request ends). The argument is that the
conditional UPDATE is the only way to become an owner, that no step makes a row
"pending" again, and that a restart forgets owners but not rows.

*Rows and confirmations.* `AuditStep` sorts the steps of the service: one submission, claim or closing of one row, or no change of the
tables; `SubmitsRow`, `ClaimsRow` and `ClosesRow` say what each does to its row.
`RowsAreFinal` and `FrozenInv` (frozen exactly while unfinished) follow from these.
What a confirmation goes through needs `MineInv`, what each request knows: that its
configuration, and the revision of its row once compared, were in force at some
moment since it began; that it was not late when it read the clock; that what it
freezes was decided "confirm", in the dialect of the client it holds; that the
client it runs through has the dialect of the row. A request that moves changes
nothing another one knows (`OneMoves`). `PolicyInv` and `ClientInv` then carry
these facts over to the rows.

*Refinement.* `LifecycleStep` says, operation by operation, what a step may do to
the status, the confirmation and the run: at most one operation changes, and by
one step of the promise. `StepMaps` and `SameMaps` carry this over to the
functions `OperationLifecycle` is written with.

*Recording of calls.* A step concerns one call and its row. `CallInv` says of each
place a call can be what its row looks like and what the handler has learned
(`BeforeInv`, `AfterInv`, `DoneInv`): before the handler only a REST read has a
row, saying "executing"; between handler and middleware a query has recorded
itself and a read has not; once answered, the row is missing only where nobody
was told data, or a write failed. The five properties are read off the last
place. One lemma per action shows the moved call, the rest do not change.

*Files and tokens.* `FileInv` ties `began` to the version and the tables of the
file until the first migration, says that a file found with tables has its copy
when migrations begin, and keeps `version <= Target` afterwards. `TokenInv` says that two rows never
share a secret and that every variable handled so far is in force: what later
`Upsert`s write is a different row.

*Observer.* `TrailInv` describes a half-reported Observe: reported keys agree with
what it read, the others with the state before, except torn ones. `PhaseInv` ties
the observer to the phases in which the file is open.

*Waits.* `LockOrder` alone is not inductive: it does not know where a lock was
taken. `PoolInv` adds for every actor and lock the places where the actor may
hold it (`OwnerInv`), that a request on its way has a resource, and that a job has
something left to do. One lemma per action, all through `RequestMoves` or
`OtherMoves`: the one that moves must be where it may hold what it holds, all
others are where they were. The order resourceMu and Store.mu, managers,
connection then follows place by place.

*Fresh clients.* `FreshClient` is false if an edit can be reverted
(`ClientCacheRevert`), and also if a resource can be removed and created again:
somebody still holds the client of its first life. So the theorem has the
hypothesis `NoWayBack(age)`: configurations have an age that every edit raises, and a
resource only comes to life from an absence older than all its configurations.
The edits of the `StorePool` run are of that kind; resources edited forwards, or
created, or removed all are, in any number. Under it, `FreshInv` says: whatever a
resource was seen as is not newer than what it is (`SeenInv`); a client that is
open or being dialled is, to every request of its resource, one of the
configurations it has seen or older than all of them (`OpenInv`); and unless a
`syncResource` failed to read the row, no such client is older than the revision
noted for its resource or read by a request on its way to the manager
(`FloorInv`), which rules out the second case for a request that is given it. That is
what `syncResource` is for: it drops the client before it notes the revision,
both under `resourceMu`. `HeldInv`, that who is inside a lock holds it, gives that
nobody is between another's drop and note.

*Lock by lock against the client cache.* `UsesClients` maps the places of a request
in `StorePool` to the stages of `ClientUse`; a read that times out behind a lock is
the read of `ClientUse` that the store does not answer. Taking locks and the
connection are stutters; reading the row, dropping and noting, an idle client
closed, a client opened are the steps. `Ready` adds to `PoolInv` and `HeldInv`
what the map needs (`UseInv`): a request without a client has left no trace in
the map, an entry is only written by the holder of the manager's mutex
(`MissInv`), and while somebody holds an open client the map has one
(`OpenKept`): whoever forgets a client closes it, for a changed configuration as
for an idle one, so that closing is what `ClientUse` sees of both. One lemma per action says which step of `ClientUse` it is.

*Remote calls.* `CallInv` ties the reader, the channel and the caller together: a
result in the channel is the one the reader saw, `got` never passes what was
written, and a reader that has stopped below the limit stopped at the end of the
stream. `remote.wrote = remote.size` when the remote end ended well. Of a file it
says that chunks are only thrown away when more than the limit was written.

*Behind the policy.* A guarded call is a call (`GuardedCallInvariant`): a refused
question moves its caller, no more. `AskedInv` says that a question and its answer
stay what they were, so that what remains is the decision itself: a case analysis
of both parsers' node tables, of the prefixes and of the branches of `policy.go`,
statement class by statement class (`DestructiveDecision`, `PostgresTable`, `MySQLTable`).
`EvaluationIsGraded` reduces the answers of the dialects to the four forms there
are, on which `EvaluateSQLForEnvironment` can be seen never to answer more mildly
for prod.

*The detail of an operation.* `DetailInv` rests on names: an answer names the
operation asked for (`ReadInv`, `PostInv`), and what counts was asked for the
operation of the URL, since opening another page aborts what was under way. What
is shown as pending has therefore been reviewed (`ShownInv`), and only that can be
confirmed. For `TrueStateAfterwards` the invariant adds that an accepted
confirmation left its operation final, and that the GET after it finds that or
an error (`Rereads`): the server never makes a final operation pending again.

*The walk through the list.* The rank of a row is the number of rows before it in
the order of the list. Rows are added and keep their time, so ranks never fall
(`RanksGrow`), for any table: that is what an `OFFSET` needs. `PlaceIsRank` says
that a row's place in any order SQLite may answer with is its rank, and
`SearchBrings` that a page brings all rows of its ranks. `WalkInv` then says that
rows of the walk not shown yet are behind the pages shown, `ReplyInv` the same of
an answer on its way, and `DoneInv` that nothing is left after the last page.

Only model-checked: `ClaimedIsClosed`, `RequestsEnd`, `ReadsAreCompleted`,
`ShutdownEnds`, `ChangesNoticed`, `WaitsEnd` and `CallsEnd`. They are liveness
properties, and the fairness they rest on speaks of ENABLED, which TLAPS does not
reason about here.

## 5. Where the code and its documents disagree

Items 1, 3 and 4 are violation runs (`ConfigChangedUnderConfirm`,
`ClientCacheRevert`, `TokenReuse`) and findings in `PROJECT.json`. The others were
met while modelling.

1. `.specs/safety.md:7` asks for a new submission after any change of the
   resource. `ConfirmSQL` compares revisions before it fetches the client, and
   `ConfirmAction` before it claims: an edit in between is not seen. What does
   hold is `ApprovedConfigSeen`: the approved configuration was in force at some
   moment of the confirmation.
2. A row can read "expired" although the operation ran: `CompleteResult` also
   closes executing rows, so a second confirmation that comes after the deadline
   closes the row of one that is running, whose own completion is then refused.
   No document says otherwise ("Submit it again.", `i18n.ts:195`, is only shown for
   rows that are still pending, `OperationDetail.tsx:109-111`), so no run refutes
   anything. What holds: `confirmed_by` names who ran it (`RunIsOnRecord`), the row
   stays as it was closed (`RowsAreFinal`), and it never runs twice (`AtMostOnce`).
3. `.specs/config.md:27` and the comment on `syncResource`: an edit that is
   reverted leaves a client of the intermediate configuration in use. If
   configurations never return to an earlier value, `FreshClient` holds.
4. `.specs/config.md:31`: tokens exchanged between names, or a token of a revoked
   row given to another name, are refused and the start ends half way.
5. `.specs/safety.md:5` decides by the first word of a statement, the code by the
   node it parses to. In dev and test twelve pairs of dialect and statement differ
   (`Undocumented`). PostgreSQL denies `CREATE INDEX` and `CREATE VIEW` (`IndexStmt`,
   `ViewStmt`), `ALTER ... RENAME` (`RenameStmt`), `DESC` (its parser does not know
   it) and `EXPLAIN` of a write. MySQL denies `CREATE VIEW`, `CREATE ROLE`, `CREATE
   FUNCTION`, `ALTER VIEW`, `ALTER ROLE` (not among its nodes, or unknown to the
   parser) and `SELECT ... INTO`. All of these are stricter than the document; only
   MySQL `DROP INDEX`, which parses to an `ALTER TABLE`, is milder: CONFIRM for DENY.
   `DocumentedDecision` compares every statement the table names and lists these.
6. `.specs/linux.md:9` says that the SSH handshake and the fixed commands have time
   limits. `Client.run` looks at its context only after `NewSession` and `Start`
   (`linux/client.go:128`, `138`) have returned, and the deadline of the connection
   is lifted after the handshake (`118`): a host that stops answering without
   closing the connection holds the request. `CallsEnd` therefore begins where the
   command has started. The file of a pod has no limit of its own either, only its
   caller's. Such a request may hold its client for more than ten minutes; the
   next `Get` then closes it under the request, which `ClientCache` allows.
7. A second way to a stale client: a `syncResource` that times out behind another
   request counts as a missing row and forgets the revision
   (`resources.go:51`), while a request past its own check opens a client of the
   configuration before an edit. `StorePool` shows that it takes such a failure:
   `FreshClient` excludes resources that could not be read.
8. `.specs/frontend.md:31`, "the true state is read when the confirmation is done":
   it is read and shown (`TrueStateAfterwards`), but a refresh sent earlier and
   answered later overwrites it with the older state (`OperationDetail.tsx:32`). A
   second click is then refused by the server.
9. A walk through a list filtered by status can miss rows: a row that leaves the
   filter moves all later ones up by one, and `OFFSET` skips one of them. Without a
   status filter no row is missed (`WalkShowsAll`), since rows are never deleted.
10. The file of a pod can be returned incomplete, as data and without an error.
   client-go logs the error with which `limitedBuffer.Write` refuses what is over
   16 MiB (`kubernetes/client.go:215-220`), drains the stream and returns nil; and a
   connection that was cut reads like one that ended. No document claims more of
   it. `DataIsWhole` says what holds: a file that is not larger than the limit and
   whose connection was not cut is whole.
11. Smaller ones seen on the way: PostgreSQL `SELECT ... INTO` and MySQL
   `UNION ... INTO` are classed as reads; `db_query` calls whose arguments the SDK
   rejects, and REST submissions that fail, leave no audit row; a row left "executing" by a crash is closed as
   expired by a later confirmation of it (restarts only, where the status is not
   checked first); after a failed Observe the trail may say "added" of a resource
   that is gone; a late 401 of a request with an old token ends the new session of
   the console (`lib/api.ts:10`).

## 6. Not modelled

* Remote protocols and the quoting of arguments. The single-request reads of the
  adapters (lists, pods, columns, pings) are outcomes in `CallAudit`.
* The filters of `Search` other than the status, `Summary`, `FilterOptions`, and
  filters and sort clauses of the resource lists: predicates over one snapshot.
* How long waits take: `StorePool` shows that they end, for one resource of one
  kind. That a request of one kind waits behind the manager of another, through
  `resourceMu`, is not in the run; `NoCircleOfWaits` covers any number of managers.
* The deferred `Close` of the managers and of the metrics listener in the shutdown
  of `main.go`: `Gateway` drains the observer and closes the store.
* Logging, metrics, rendering, paths, the metrics listener: nothing is decided by
  them. That `DailyWriter` keeps a closed file when the next one cannot be opened
  is listed as a hazard.
* Of the Web console: the session (`useAuth`), the pages other than Audit, which
  read with the same hook, and all rendering.
* Text: identifiers, hashes, reasons and timestamps appear only where something
  is decided by them. The hash check of `ConfirmSQL` compares a frozen statement
  with its own hash and always succeeds on rows nobody edits by hand.

## 7. Plan

Done so far, in this order: policy; audit store, client cache and operation
service with the lifecycle refinement; recording of calls; start, migrations,
tokens and observer; locks and the connection pool with the refinement of the
client cache; remote calls; the Audit page; the proofs above.

Next, most important first:

1. The session of the console: `useAuth.ts` with late answers and 401s.
2. `RequestsEnd` and `WaitsEnd` on larger instances, since no proof covers them.

## 8. Checking

    tlc -workers 2 -config SqlOperations.cfg MCOperations
    tlapm OperationService_proofs.tla

The long runs are `GatewayServe` (343,000 states with liveness), `SqlOperations`
(466,000 states under symmetry), `AuditPage` (1,100,000), `GuardedCalls` and
`StorePool` (70,000 each, the latter with liveness and a refinement) and
`OperationLiveness` (123,000), a minute or two each.
