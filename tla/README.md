# Verification of SpiceDB

SpiceDB stores relationships and a schema in one of several databases and answers
permission questions at a revision of that data. This project models the parts
whose correctness rests on the order in which things happen, or on an algorithm that
a handful of tests does not exhaust: the Postgres, MySQL and memory datastores with
their revisions, watches and garbage collection, the way from a request's consistency
to what it reads, the schema caches, the dispatchers, the evaluation of checks and
lookups, and the task runners under them. `PROJECT.json` lists every part of the
system, the lines each definition translates, the hazards, the runs and the theorems;
a part that is not modelled is listed with its main files.

## Contents

1. The system: parts, state, interactions
2. What is hard in it
3. Modules
4. Runs, bounds, fairness
5. Disagreements between the code and its documentation
6. Proofs
7. Only model-checked, and not modelled
8. Plan

## 1. The system: parts, state, interactions

A request passes through these layers.

| Part | State | Operations that change it | Talks to |
|---|---|---|---|
| API services (`internal/services`) | none between requests | - | consistency middleware, dispatch, data layer |
| Consistency middleware (`pkg/middleware/consistency`) | the revision of one request | picks head, optimized or a token's revision | data layer |
| Dispatch (`internal/dispatch`) | calls in flight, cached answers, hedged requests | join or begin a call, cache, cancel | itself on other nodes, graph |
| Graph (`internal/graph`, `internal/cursorediterator`, `internal/taskrunner`) | goroutines, channels, membership sets | schedule, map, yield, cancel | dispatch, data layer |
| Data layer (`pkg/datalayer`) | schema cache by hash, loads in flight, hash observed last | read, `ReadWriteTx` with a schema precondition | datastore |
| Datastore proxies (`internal/datastore/proxy`) | schema watch cache, singleflight, checked revisions | watch updates, fallback to primary | datastore |
| Datastores (`internal/datastore/{postgres,crdb,mysql,spanner,memdb}`) | rows with creation and deletion ids, transactions, revisions | `ReadWriteTx`, heartbeat, watch, garbage collection | the database |

**Postgres datastore.** Every row carries the id of the transaction that created
it and of the one that deleted it. A revision is a Postgres snapshot (xmin, xmax and
the ids in progress), and reading at it means comparing the two ids of each row
with it. `ReadWriteTx` returns the snapshot of its own transaction with its own id
marked complete. `HeadRevision` returns the current snapshot. `OptimizedRevision`
returns the revision of a transaction chosen by quantized time, and a heartbeat
makes sure there is a recent one. `Watch` polls for transactions its own revision
does not show. Garbage collection deletes rows dead before a watermark, on every
node, one node at a time. `CheckRevision` says whether a revision may still be read.

**MySQL datastore.** The same two ids per row, but a revision is one id, compared as
a number. Replicas follow the primary; a proxy reads from one that has the id.

**Memory datastore.** One write transaction at a time, the others waiting on a
condition variable; a snapshot of the whole database per revision; revisions are times.

**Data layer.** The schema is stored as one value with a hash. Schemas are cached
by hash; a missing one is loaded once for all callers that want it. A write asks
the datastore to check that the stored hash is still the one it expects, validates
against the cached schema, and starts again with a fresh hash when it is not.

**Schema watch cache.** Definitions are kept by the interval of revisions in which they
are valid, by a supervisor that follows the schema watch; readers beyond its checkpoint
go to a second cache or to the datastore.

**Dispatch.** A check is a problem with subproblems, each dispatched from the first
dispatcher on: looked up in a cache, joined to a flight of the same key, or worked on.
A Bloom filter of the problems on the way keeps a call from joining a flight of its own
ancestors. Between nodes a request may be hedged: secondary dispatchers and, after a
delay, the primary, of which the first to have something to say answers.

**Evaluation.** A check walks the rewrites of a schema for several resources at once and
may return on the first answers; lookups of subjects and expansions wait for all;
lookups of resources walk backwards along the reachability graph and return pages.

**Task runners.** A fixed number of goroutines takes tasks from a queue; tasks
schedule more tasks; the first error or a cancelled context empties the queue.
`CursoredProducerMapperIterator` runs a producer and its mappers on such a runner
and yields mapped chunks in the producer's order.

## 2. What is hard in it

- Ids are assigned in one order and transactions commit in another, so revisions are
  only partly ordered. Code that compares ids, or the ends of snapshots, is easily
  wrong by one transaction.
- The snapshot of a transaction is taken before its id is assigned, and others run
  in between. The ids in this gap must be listed by `markComplete`.
- Attempts fail and are retried, commits succeed without acknowledgement, watchers
  are disconnected in the middle of a batch, collectors stop between statements.
- The schema is checked at one time and relied on at another, through caches that
  are filled by readers of old revisions, by a watch that lags behind, and by
  transactions that may yet roll back.
- Answers are shared: with the callers that joined a flight whose leader goes away, with
  later callers through a cache, with a client that reads the stream of one of several
  dispatchers. An answer cut short must not be shared as a whole one.
- A pool of connections, a semaphore or a channel is full, or a flight is waited for,
  while the one who would end the wait waits too.

The correctness properties wanted of the modelled parts: reads at a revision are
repeatable; a revision is exactly what its transaction saw and did; head is never
behind a revision handed out; a replica that serves a revision has all of it; one
living row per relationship; nothing commits against a schema it was not validated
against; watch skips nothing; collection spares the readable; caches answer with what
their key names; an answer is the one the schema and the relationships define, whoever
computed it; errors have a cause; work accepted is work done; waits end.

## 3. Modules

| Module | Models | Extends |
|---|---|---|
| `RevisionedStore` | the contract of `pkg/datastore/datastore.go` | - |
| `PgSnapshot` | `postgres/snapshot.go`, the guard of `strictreader.go` | - |
| `PgDatastore` | `postgres.go`, `readwrite.go`, `revisions.go`, `storedschema.go` | `PgSnapshot` |
| `PgStore` | the refinement mapping of `PgDatastore` to `RevisionedStore` | `PgDatastore` |
| `PgWatch` | `watch.go` with the relationship part of `common/changes.go` | `PgDatastore` |
| `PgGC` | `gc.go`, `pkg/datastore/gc.go`, `locks.go`, `CheckRevision` | `PgDatastore` |
| `MySQL` | `internal/datastore/mysql` | - |
| `ReadPath` | consistency middleware, `revisions/optimized.go`, singleflight and checking replicated proxies | `MySQL` |
| `DataLayer` | `pkg/datalayer/hashcache.go`, `impl.go` | - |
| `MemDB` | `internal/datastore/memdb`, with its mapping to `RevisionedStore` | - |
| `SchemaWatchCache` | `internal/datastore/proxy/schemacaching` | - |
| `MemDBCache` | the watching cache over MemDB | `MemDB`, `SchemaWatchCache` |
| `Dispatch` | caching, singleflight and local dispatchers of one node | - |
| `ClusterDispatch` | hedging in `dispatch/remote/cluster.go` | - |
| `SubjectSets` | `internal/datasets`, how `internal/caveats` combines expressions | - |
| `Permissions` | the reference: what a permission means | `SubjectSets` |
| `CheckEval` | `graph/check.go`, `membershipset.go` | `Permissions` |
| `LookupEval` | `graph/lookupsubjects.go`, `expand.go` | `CheckEval` |
| `Reachability` | `pkg/schema/reachabilitygraph.go` | `Permissions` |
| `LookupResources2`, `LookupResources3` | both forms of `LookupResources` with their cursors | `Reachability`, `LookupEval` |
| `Evaluation` | one request over relationships written before | `LookupResources3` |
| `TaskRunner` | `internal/taskrunner/taskrunner.go` | - |
| `PreloadedTaskRunner` | `internal/taskrunner/preloadedtaskrunner.go` | `TaskRunner` |
| `ProducerMapper` | `CursoredProducerMapperIterator` of `cursorediterator/blocks.go` | `TaskRunner` |
| `MCPgDatastore`, `MCPgWatch`, `MCPgGC`, `MCDataLayer`, `MCServing`, `MCEvaluation`, `MCReadPath` | instances for TLC: symmetry, mixes of calls, parts, scripts, schemas | see section 4 |
| `PgDatastoreSteps`, `PgDatastoreProofs`, `PgGCProofs`, `PgWatchProofs`, `DataLayerProofs`, `MemDBProofs`, `DispatchProofs`, `TaskRunnerProofs` | proofs | see section 6 |

Definitions whose name ends in `_Something` and whose comment begins with "Mutant"
are plausible errors of the definition that follows them. They are used by no
specification; putting one in place of its original must break the property
`PROJECT.json` pairs it with.

**PgSnapshot.** A snapshot is a record of xmin, xmax and the set of ids in progress
(the code's sorted list without duplicates). `compare`, `otherHasMoreInfo`,
`markComplete` and `replicaContainsRevision` follow the code; `Visible` is what they
are measured against.

**PgDatastore.** Postgres is external: ids that are active and settle, snapshots,
row locks, the unique index on living rows. A call of `ReadWriteTx` is `BeginTx`
(its timestamp), `TakeSnapshot`, `AssignXid` (both `createNewTransaction`), any
number of `WriteCreate`, `WriteTouch`, `WriteDelete`, `assertSchemaHash` and
`WriteStoredSchema`, then `Commit`, `CommitUnacknowledged`, `SerializationError`
(retried while attempts remain), `FinalError`, or `EarlyError` before it has an id.
`HeadRevision` and `optimizedRevisionFunc` hand out revisions; `tokens` is the set of
all revisions clients hold. A relationship's caveat is its value; the schema is one
more row whose value is its hash.

**RevisionedStore and PgStore.** A store is the set of the transactions that have
committed, and the views handed out: what each shows and what it reads. A step commits
transactions, publishes a view, or both; a view shows committed transactions only, the
committing one among them, and views that show the same read the same. In `PgStore`
what has committed is the commit log, and a view is a token with its content read
anew in every state, so that a token whose content changed would be a view removed.

**PgWatch.** One watcher and one client. The loop of `Watch` is `getNewRevisions`,
`loadChanges`, `sendChange` for each change, and `Advance`; `Disconnect` ends it
anywhere, and the client watches again from the last revision it received. The
client applies events to a copy of the relationships. A change is its transaction
with the relationships it touched and deleted.

**PgGC.** Collectors of several nodes: `LockForGCRun`, `Now`, `TxIDBefore`, then
`DeleteRows` and `DeleteTxs` batch by batch; `GCFails` between any two. `issued`
remembers what each revision showed when it was handed out.

**MySQL.** MySQL is external: an auto-increment id given at the start, serializable
transactions that lock what they read, deadlocks that end an attempt. Tables are one
set of rows. Calls, the head and optimized revisions, the watch (load, stage, send,
checkpoint, resume) and the collector's statements are actions; `handed` remembers for
each revision handed out what it read and which ids below it were open then. The
timestamp of a transaction and its id are given in one step.

**ReadPath.** A request arrives with a consistency and a token. `CachedRevision`,
`JoinComputation`, `SharedQuery`, `SharedReturns`, `DirectQuery` are the cache of
optimized revisions with its shared computation and its retry after a timeout;
`SharedHeadLoads` and `SharedHeadPairs` the shared head revision; `SnapshotReader`,
`FirstRead`, `LaterRead` the choice between replica and primary. A replica, external,
applies commits in their order.

**DataLayer.** A schema stands for its own hash. The datastore is external and kept
to its versions, a lock and a pool of connections; it pairs revisions and hashes
exactly (for Postgres see section 5). `GetOrLoad`, `FlightBegins`, `FlightLoads`,
`FlightFails`, `SingleflightTimeout` and `Fallback` are the branches of `GetOrLoad`;
`StartTx` to `Refresh` are `ReadWriteTx`. `Set` stores the latest entry and the
cache entry in one step: both carry the same hash and schema, and `get` looks at
either by hash. `left` marks hashes whose load was left behind in a transaction.

**MemDB, SchemaWatchCache, MemDBCache.** Regions under the mutex are one step. go-memdb
is external: a map from objects to values of which a transaction has a copy. `TxSrc`
opens the transaction or waits; `CommitTx`, `AbortTx` and `UnusedTx` end it and signal.
`Watch` is load, send, wait. The cache takes its datastore as a parameter: its
revisions, their order, its head and its events; `MemDBCache` gives it MemDB's.

**Dispatch.** A problem is a dispatch key; the data is a graph of problems and the
problems that have the subject directly. A call is named by the problems on its way, so
a call and its ancestors are prefixes. `CacheGet`, `Singleflight`, `CheckDirect`,
`Union_`, `WorkReturns` and the cancellations `ClientLeaves`, `WaitCanceled`, `WorkEnds`
are steps. Dispatched work is a union: the operators and caveats are in `CheckEval`.

**ClusterDispatch.** One request: who takes part, what each has received, who won, what
was published, who was cancelled. The two forms are `dispatchSyncRequest` and
`dispatchStreamingRequest`.

**Evaluation.** An expression of a caveat is the set of contexts in which it holds. A
check has a set of possible answers, one for each order in which its branches can
answer; so have lookups of resources, for the order in which entrypoints race.
`Permissions` defines who has a permission, over paths of more steps than a path
without a repetition takes, and `Evaluation` compares every possible answer with it.

**TaskRunner and PreloadedTaskRunner.** One step is what happens under the lock, or
one operation on the channel of slots. `Schedule` is two steps, `addTask` and
`spawnIfAvailable`, as in the code. A runner loops through `RunnerLoop`,
`selectTask`, then `ReleaseSlot`, or `TaskReturns` and `TaskDone`.

**ProducerMapper.** The producer task yields chunks, holds and errors as its script
says, puts chunks on the ordered channel and schedules a mapper for each; the
consumer receives and yields, and may stop; the context may end.

## 4. Runs, bounds, fairness

| Run | Shows | Bounds |
|---|---|---|
| `pg_datastore` | safety of revisions, rows and the schema precondition; `PgDatastore` implements `RevisionedStore` | three calls, every kind of write, one relationship with two caveats, two schema hashes, ids 2 to 4, two revisions read, a clock that stands still |
| `pg_watch` | no change is passed over, every one is sent, the client's copy is right while nothing was repeated | two writers and a heartbeat, two caveats, one tick, one disconnection |
| `pg_gc` | later revisions are spared; the staleness of the optimized revision is bounded | two writers; with two collectors, batches of one, two ticks and no window; or without collectors, with one retry each, heartbeats and one tick |
| `data_layer` | cache, reads and validation agree with the stored schema; every call ends | three calls in three mixes, two schemas, two connections, two attempts, one inner retry |
| `serving` | MemDB implements `RevisionedStore`, loses no wakeup and is watched exactly; the watching cache reads exactly; shared, cached and hedged answers are right, and calls do not wait for each other | two writers, two relationships, one definition, three ticks, one restart of the cache, one reader; two requests over three problems (a triangle, with a member or none, and a cycle); two secondaries, streams of two results |
| `evaluation` | checks, lookups and expansions tell the truth; the task runners tell the truth, end, and yield in order | ten scenarios of up to four relationships from their pools, chunks of two, depth 5; four tasks, two slots, errors and cancellation; every script of up to three values over a channel of two places |
| `read_path` | MySQL's revisions, precondition, collection and watch; what a request is given and reads | two calls, one retry, two relationships, one definition, ids to 3, one collector, one broken stream; two requests, two replicas, five ticks, the write beside them begun in the first three |
| `pg_datastore_hash`, `pg_watch_copy`, `pg_gc_check`, `check_skips_caveat`, `lookup_pages` | see section 5 | the smallest that show it |

`serving`, `evaluation` and `read_path` hold several machines. A behaviour is one of a
part, chosen at the start, while the others stay as they began; the parts are described
in `MCServing`, `MCEvaluation` and `MCReadPath`.

**Why the bounds are enough.** The interesting cases of `PgDatastore` need an id
below another one's that commits later, and a third transaction that sees one and
not the other: three calls and three free ids. One relationship suffices because
calls on different relationships share only ids and snapshots. Revisions that reads
hand out are bounded by `MaxTokens`, while commits always add theirs. In `PgGC`
batches of one make every prefix of a deletion a state. In `DataLayer` the pool must
be smaller than the number of calls, for the wait the singleflight timeout is there
for, and hold two transactions, for the lock between them; a fixed mix of kinds of
call replaces a free choice, and `MaxInner` bounds the retries of all calls
together. In `MySQL` two calls are enough for one to overtake the other, which is the
only way its revisions differ from versions. In `Dispatch` the triangle has a problem
that two calls of one request share and another request joins, and the cycle is what
the traversal filter is there for. In `ClusterDispatch` two secondaries and the primary
give a winner, a loser that is cancelled and one that comes too late. One caveat
context `c` suffices for evaluation: every operation acts in each context by itself,
and an expression either holds in it or does not. In `TaskRunner` more tasks than slots,
and tasks scheduled both by the caller and by tasks, give every interleaving of a spawn
and a runner that ends. What the bounds leave out for safety is covered by the theorems
of section 6 where there are any.

**Deadlock** is not checked where the system may really stop: calls are made once
and ids are bounded, and a runner whose task was lost (section 5) stops. `DataLayer`
has a step of its own for the state in which every call has its answer, and
everything else there is checked for deadlock.

**Fairness** is weak and only for steps the code takes by itself: a goroutine that
can take its next step takes it, a query or a transaction ends, a timer fires, a
watcher polls again and a disconnected client comes back. Errors, cancellation,
eviction and new calls are never promised. In `PgWatch` writers are not fair: a
transaction may stay open for ever, and what was committed is sent all the same. In
`ProducerMapper` the consumer keeps asking until it has enough. The liveness
runs use no symmetry.

Three liveness properties state what they except. `WaitEndsForOneTask` is about
callers that schedule one task themselves and whose parent context is not cancelled, as
the callers in the repository do. `IterationEnds` excepts a behaviour that stays
`Starved`, with a task queued and no runner but that of the waiting producer, and
`GoroutinesEnd` the goroutine that sends the producer's error on a full channel. The
channel of the run has two places, for 1000 of `blocks.go`, so that producers do find it
full. All three exceptions are needed: section 5 says what happens without them.

## 5. Disagreements between the code and its documentation

- `pg_datastore_hash`: the schema hash returned with an optimized revision is chosen
  by comparing ids, the revision by snapshot; the hash need not be the one active at
  the revision, as `RevisionWithSchemaHash` says it is.
- `pg_watch_copy`: the watcher's revision after a batch is that of the batch's last
  transaction, which need not see the batch before. The older change is sent again,
  and a client that applies events in order ends with an outdated copy.
- `pg_gc_check`: `CheckRevision` accepts a revision that is concurrent with the oldest
  valid one although rows it shows were collected.
- `check_skips_caveat`: `checkDirect` decides whether to read relationships without
  their caveats by comparing two counts that count different relations; where a type is
  allowed only with a caveat beside a relation of it without one, the caveat is left out.
- `lookup_pages`: in `LookupResources2` the offset in a cursor counts in a list that
  depends on which entrypoint won a subject; on the next page another may win, and a
  resource is on no page.

`PROJECT.json` quotes the lines. Other things met while modelling are kept out of the
passing properties by a condition, or are left out of the model:

- In `DataLayer` a transaction that stops waiting for the load it leads leaves the load
  running in its own transaction while others wait for it; if that load is so late that
  it runs after the transaction wrote a schema, the new schema is cached under the old
  hash. The properties leave such hashes (`left`) out.
- A task scheduled between a runner's finding the queue empty and its freeing its slot
  gets no runner, and `Wait` does not return; `WaitEndsForOneTask` leaves out the callers
  that can meet this. In `ProducerMapper` the same window leaves a mapper task without a
  runner while the producer waits for room on the channel or in a hold (`Starved`), and
  the iteration does not end unless its context does.
- The producer's error is sent without a look at the context (`blocks.go`): with the channel full and the consumer gone that goroutine
  stays. `GoroutinesEnd` excepts it.
- Of an all-arrow over the relationships of several resources, `Check` and
  `LookupSubjects` and-together the caveats of all these relationships and apply them to
  each resource asked about together (`SharedCaveats`).
- `LookupSubjects` passes over a subject of an all-arrow whose type lacks the relation,
  where a check counts it as not found (`SidePassedOver`).
- `LookupSubjects` finds a resource by `self` whatever subject type and relation is asked
  for (`SelfOfAnother`).
- The union of two wildcards keeps what both exclude, also where a caveat may take one of
  them away (`CaveatedWildcard`), for `LookupSubjects` and `Expand`. `AnswersAreTrue`
  excepts these four, each for the requests it concerns; the scenarios of the run have all
  of them, and each exception is needed there.
- The comment in `cluster.go` says that after a failure of the primary "we'll return
  after *all* the secondaries have run"; the code returns the primary's error at once, and
  its `select` may take it although a secondary's answer is ready. The doc comment of
  `dispatchStreamingRequest` describes dispatchers tried one after the other, which run in
  parallel. `ErrorsAreEarned` states the rule of the code.
- A request that joins a `HeadRevision` in flight may be given a head from before its own
  arrival; `RequestsReadAsAsked` asks for what its token stands for.
- The comment on `writeTxReady` of `memdb.go` says that it is broadcast at the end of a
  transaction; the code signals one waiter, which `NoLostWakeup` shows to be enough while
  the datastore is open.
- MySQL's ids are given before the commit, so a revision may read differently once a
  lower id commits, and `Watch` skips that id. `SettledReads`, `WatchedIsRead` and
  `RequestsReadAsAsked` speak of what holds until then.
- A replica whose highest id is the revision's may lack a lower one that commits late.
- `checkingreplicated.go` returns the error of its one choice of a source to the first
  call only; the next one finds no reader (`LaterRead`).
- Two requests that walk a cycle of the data in opposite order may wait for each other
  until their contexts end: `NoRecursiveCallDeadlock` speaks of circles only where
  the data has none.
- A stream cut by the overall timeout of the cluster dispatcher may end without an error;
  `OneStreamAnswers` asks for the whole stream only while there was time.

## 6. Proofs

All proofs are for every value of the constants, from the assumptions named in the
modules that declare them and evaluated by TLC on every run:

- `PgAssumption`, `InitialValAssumption`: bounds are naturals, the quantum is positive,
  the schema's key is not a relationship, a schema is stored at the start;
- `GCAssumption`, `WatchAssumption`: window, batch size and number of resumptions are
  naturals, a batch is not empty;
- `DataLayerAssumption`: at least one connection and one attempt;
- `MemAssumption`: every relationship has a resource type, the limits are positive;
- `DispatchAssumption`: the problems are finitely many and subproblems are problems,
  requests ask for problems with a depth and a filter; `ClusterAssumption`: the primary
  is none of the secondaries;
- `TaskRunnerAssumption`: a positive limit, finitely many goroutines;
  `ProducerMapperAssumption`: the producer is a task of the caller that may fail, chunks
  are numbered tasks that it schedules, the channel has room for one, and a script makes
  no more chunks than there are.

The constants that bound a run (`MaxXid`, `MaxClock`, `MaxTokens`, ...) are any naturals.
Each inductive invariant was checked with TLC on the instance of the run before it was
proved. Each stands at the end of the module it is about, in named parts.

**Snapshots and kinds of steps (`PgDatastoreSteps`).** `otherHasMoreInfo` counts ids in a
range instead of looking at them. `CountInRange` shows that the count decides whether
some id of the range is settled, and `MoreInfoIsVisibility` that the test decides whether
the other snapshot shows something this one hides. From it follow
`CompareDecidesInclusion` (`compare` is inclusion of what the snapshots show),
`MarkCompleteAddsOne` (marking an id complete shows that id and changes nothing else) and
`ReplicaGuardIsSound` (a replica that passes the strict-read guard is missing nothing).
The rest of the module sorts the steps of `PgDatastore` into kinds (`StepHasKind`): a call
of a writer, a good write, a commit, a rollback, a read, a heartbeat, a tick.

**The datastore (`PgDatastoreProofs`).** The properties are not inductive: that reads are
repeatable rests on no snapshot in use showing an id that can still write, and that one
living row remains rests on what transactions in flight are about to do. `Inv` adds

- `IdsInv`: an open transaction has an unsettled id of its own below the next one;
- `ShownInv`: every snapshot in use is well formed and shows settled ids only;
- `RowsInv`: what is to be deleted is living, what is to be inserted carries its
  transaction's id, and no two transactions have changes of one key;
- `ReplacesInv`: an insertion replaces every living row of its key;
- `SchemaInv`: a schema is stored, a lock keeps others from changing it, an asserted
  hash is a locked one.

Each part of `Inv` has one lemma with one step per kind, and `DatastoreInvariant` puts
them together. From it follow `HeadIsFresh`, `LivingRowsAreUnique`,
`AssertedSchemaStays`, `ReadsAreRepeatable`, `CommitsAreExact` and, with the theorems on
snapshots, `RevisionsCompareByContent` and `StrictReadsHaveAll`.

`OptimizedLagIsBounded` needs the clock: `TimesInv` says that what had committed before
a transaction began is in its snapshot, whatever the clock did between its start, its
snapshot and its commit. `optimizedRevisionFunc` picks the first transaction that began
at or after the quantized time, so everything committed before that time is in it.

`PostgresImplementsStore` is the refinement. A commit adds its id to what has committed
and, when it is acknowledged, one view; a read adds one view; every other step changes
neither, because views show settled ids only and rows of settled ids do not change.
`CommitInv` relates the commit log to the rows. That views that show the same
transactions read the same is where rows must be of committed transactions only: two
snapshots may differ in ids that rolled back.

**Collection (`PgGCProofs`).** `DeleteRows` compares the id that deleted a row with one
number, the end of the watermark's snapshot. A revision is spared if every row removed is
dead in it. So `GCInv` adds to `Inv` that a snapshot which shows a transaction shows all
that the transaction's own snapshot shows (`ClosedInv`, for all revisions, transactions in
flight, and rows of the transaction table or with a collector), and that a collector
deletes by a settled transaction that is one of the watermarks (`RunsInv`). `GCInvariant`
also shows that collection leaves the datastore's own invariant, `LaterRevisionsAreSpared`
that a revision which shows all watermarks reads as it did, wherever runs stopped.

**Watch (`PgWatchProofs`).** `WatchInv` adds the commit order (`LogInv`: a transaction
comes after those its snapshot shows), and for the batch at hand that what one of its
transactions shows is shown already or comes before it in the batch (`BatchInv`), and that
changes up to each are sent or queued (`EventsInv`). This is what lets `cur` and
`received` move to the revision of a change just sent. `ChangesAreNotSkipped` follows. The
batch is any sequence that orders the new transactions by commit; that one exists is
not needed.

**Data layer (`DataLayerProofs`).** `Inv` counts the connections (`PoolInv`), says who may
hold which lock (`LocksInv`), that an asserted hash stays the stored one under the lock
(`TxInv`), whose hash a load in flight has (`FlightInv`), what a call was given
(`GotInv`), and how many schema writes each further attempt has seen (`AttemptInv`). Then
`SchemaCacheIsFaithful`, `SchemaReadsAreExact`, `PreconditionErrorsEarned` and, as an
action property, `CommitsValidated`.

**Memory datastore (`MemDBProofs`).** `MemInv`: snapshots and changelog go together in
strictly increasing order, the open transaction is the active writer's and its revision
is above all others, and a settled revision reads as it did, the same as every other that
shows the same transactions. `WakeupsAreNotLost`: a waiting writer waits for a
transaction in progress or for a writer already woken, so one `Signal` per transaction is
enough. `MemDBImplementsStore` is the refinement, for the revisions of `ReadWriteTx` and
`HeadRevision`.

**Dispatchers (`DispatchProofs`).** `ClusterInv` says that the winner alone has results
and has published all but the one at hand (`ResultsInv`), that the winner is not cancelled
and that a dispatcher which ends without an error has published the stream or lost
(`EndsInv`). `StreamIsOfOneDispatcher` and `HedgedErrorsAreEarned` follow.

`DispatchInv` says that calls are named by chains of subproblems and made by work that
runs (`TreeInv`), that a flight is that of its key and somebody waits for it
(`FlightInv`), that the filter of a call has the key of every flight its ancestors lead
(`WaitInv`), that what calls, work, unions in progress and the cache hold is exact
(`AnswerInv`), and that work ends by cancellation only when nobody waits for it or with
the call it works for (`CancelInv`). Membership is reachability, defined as the least set
closed under subproblems, since what a recursive definition computes cannot be proved
here; a problem is reached exactly if it is the problem itself or reached from one of its
subproblems (proved once). `DispatchAnswersAreExact` and `CancellationIsLocal` are parts
of the invariant. `CallsDoNotDeadlock` argues over a circle of waiting calls: each waits
for a call whose problem is a subproblem of its own, so problems reached from there
become fewer along the circle, and over acyclic data some set of them would be least.

**Task runner (`TaskRunnerProofs`).** `Inv` says that the WaitGroup counts exactly
the tasks queued and running, that an accepted task is queued, running or finished
until an error is stored, and that a WaitGroup seen at zero stays there, since only
running tasks schedule more. `WaitIsComplete` and `LimitHolds` follow.
`StartAndWaitIsComplete` shows the same `Inv` preserved by the steps of the preloaded
runner. Two of them differ: a runner that finds no task ends and keeps its slot
(`NoTaskMoves`), and `Start` under a cancelled context empties the queue and stores the
error (`EmptiedForCancel`).

`OrderInv` is about the mapper over that runner: the channel holds, in order, the chunks
sent and not yet taken, only its last entry is no chunk, and the chunk being mapped is the
one after those yielded. Where the chunk's task stands does not matter to it, so
`ChunksAreInOrder` needs nothing of `Inv`: the order comes from the channel alone, however
the mappers are interleaved.

## 7. Only model-checked, and not modelled

*Out of the prover's reach.* Liveness under fairness (`ChangesAreSent`, `CallsEnd`,
`WaitEndsForOneTask`, `StartAndWaitEnds`, `IterationEnds`, `GoroutinesEnd`).
`AnswersAreTrue`, whose model and reference are recursive over schemas and relationships.
`CopyIsCheckpoint` and `WatchedIsRead`, where the client's copy is the result of
applying a sequence of changes of any length.

*Not proved yet.* `WatchedCopyIsSnapshot` and `CachedReadsAreExact` (`MemDB` with its
watch and the cache over it), and the other properties of `MySQL` and `ReadPath`:
`SettledReads`, `AssertedHashStays`, `CollectedIsUnreadable`, `RequestsReadAsAsked`,
`OptimizedIsRecent`.

*Not modelled in the parts above.* Relationship counters, bulk load, expiration, the
tables of the older schema storage, repair, and the text and protobuf encodings of
revisions (Postgres); schema content and the byte limit of a watch; collection of
namespaces and expired relationships, and the collector's backoff; counters, expiration,
readiness and the collector's lock (MySQL); `DisableRetries`, a precondition given by the
caller, and the legacy schema modes (data layer); counters, caveat contexts, expiration
and filters of reads (MemDB); reads of several names and transactions through the schema
watch cache; streamed dispatches and query plans (dispatch); the tracking of supported
relations and the digests that set the delay (cluster); debug traces, metadata, the order
of streams, the request hash of cursors, and the chunk cache of
`LookupResources3` (evaluation); items and cursors in `ProducerMapper`. `InitialVal` is
stored before the first step: the first schema write of an empty database is not modelled.

*Parts not modelled at all* are listed in `PROJECT.json` with the reason: CockroachDB and
Spanner with the remote clock, the whole of `Changes`, revision encodings, the query
planner, the schema language, migrations, services, servers and tools.

## 8. Plan

Proofs, in this order:

1. `MemDB`: `WatchedCopyIsSnapshot` from an invariant that pairs the watcher's position in
   the changelog with its copy, and on it `CachedReadsAreExact`.
2. `MySQL`: `SettledReads`, `AssertedHashStays` and `CollectedIsUnreadable`, along the
   argument of `PgDatastoreProofs`; then `RequestsReadAsAsked`.
3. The pairing of revisions and hashes that `DataLayer` assumes, as a second contract
   beside `RevisionedStore`.

Models: `Changes` with its limit, the remote clock and the retrying pool and changefeed of
CockroachDB, revision encodings, the strict replicated proxy, migrations.
