# Formal model of the event-sourcing testbed

TLA+ modules, TLC configurations and TLAPS proofs for the Rust program under
`src/rust-app`: a testbed that uses PostgreSQL, MongoDB and KurrentDB as event
stores and measures them. The two event stores are the core of this project:
their append transactions, outbox relays, subscriptions and leases are where
concurrency and failure meet. The benchmarks are modelled where tasks race, wait
for each other, or keep a second copy of what the stream holds.

Paths below are relative to `src/rust-app/src`.

## 1. The system

| Component | State | Operations | Talks to |
|---|---|---|---|
| PostgreSQL event store, append and rehydrate (`postgres/event_store.rs`) | tables `events`, `integration_outbox`, `stream_versions`, the identity of `global_position`; a pool of 16 connections | `append`, `append_with_outbox`, `rehydrate` | callers; relay and subscription read its tables |
| PostgreSQL relay | `integration_outbox.dispatched`, row locks | `relay_next_integration_event`, `run_relay_loop` | the outbox; the broker through a callback |
| PostgreSQL subscription | `checkpoints`, a LISTEN session | `catch_up_subscribe`, `save_checkpoint`, `load_checkpoint` | `events`, its notify trigger; the handler |
| PostgreSQL lease | one advisory lock per group, owned by a session | `try_acquire_lease`, `release_lease` | the pool |
| Bootstrap, upcasting | schema; a registry of functions | `bootstrap`; `UpcastRegistry` | - |
| MongoDB event store (`mongodb/event_store.rs`) | collections `events`, `_integration_outbox`, `_stream_versions`, `_global_seq`, `_checkpoints`, `_competing_consumers` | as above | as above |
| Bench clients (`*/client.rs`) | `bench_events` and counters; collections; streams | versioned, explicit-version, plain and batch appends, reads, polls | all benchmarks |
| Contention benchmarks (`*/hot_stream_contention_bench.rs`) | `hot_rev` per hot stream, semaphore, counters | baseline phase, contention phase, report | bench clients |
| Rate benchmarks (`*/benchmark.rs`) | semaphore, counters, the remembered revisions (KurrentDB) | timed loop, single or batch writes, drain | bench clients |
| Projection benchmarks (`projection_bench.rs`) | the stream, a view in a mutex, a `watch` counter | seed, live appends; subscribe, replay, poll, push | clients; writer and projector through the counter |
| Search benchmark (`search_bench.rs`) | the stream, the indexer's buffer, table `search_index`, a `watch` counter | as projection, with `index_batch` | clients, PostgreSQL |
| Hot/cold views (`kurrentdb/hot_cold_view_bench.rs`) | a cold and a capped hot stream, a `watch` and an `mpsc` channel | seed, read, replay, subscribe, wait for a lag at most 5 s | KurrentDB |
| Caches (`hot_cache_bench.rs`, `memcache_bench.rs`) | a ring buffer; a value in Memcached and the writer's own tail | load, push, evict, write through, read | clients, Memcached |
| Snapshots (`kurrentdb/snapshot_demo.rs`) | event and snapshot streams, live state | write windows, take snapshots, rehydrate, verify | KurrentDB |
| Scale benchmark (`scale_bench.rs`) | none of its own | one measurement after another | clients |
| Command line (`main.rs`), RabbitMQ client, event types | - | one command per process; demos, `produce_loop`, `publish` | everything |

An append writes the event, the counter and the outbox row in one transaction.
The relay reads the outbox some time later and publishes; subscribers read the
events by position, then follow notifications. Nothing but the tables connects
these parts, so each is modelled over the table contents it meets, which
`EventLog` describes.

**What is hard.** Appends to one stream race for its counter, and all appends of
a MongoDB database for one document. Positions are taken before the commit, so
PostgreSQL makes events visible out of position order. A COMMIT may succeed and
its answer be lost. A relay publishes before it can record that it has. A
subscription changes from a query to notifications while events arrive. An
advisory lock belongs to a session the caller does not choose, and anybody on that
session can give a level of it back. A rehydration passes over events it cannot
read, and its version does not show it. The tasks of the
contention benchmark share a hint that may be stale when it is stored. The
MongoDB relay locks nothing, and its lease is an expiry date that several processes
read with delayed calls. Where nothing locks, a process may die between creating a
collection and creating its unique index.

In the benchmarks a writer waits, with or without a timeout, for a counter that
another task may never advance: because it died, because an event fell between a
query and a subscription, or because it waits for more events itself. Overlapping
writes to one stream number their batches in one call and insert them in another,
or append at a revision that somebody else has just moved. Caches and snapshots are
a second copy of a stream, written after it.

**What makes each part correct.**

- Append: versions of a stream are 0, 1, 2, ...; event, counter and outbox change
  together; an answer tells the truth; every call returns.
- Rehydrate: goes through a whole prefix of the stream and returns the version of
  its last event; of the prefix it has applied exactly the events that the upcasters
  and the aggregate know.
- Relay: every entry reaches the broker, is marked only afterwards, is repeated
  only after a failed attempt (MongoDB: or once per worker), and is overtaken only
  while someone is at it.
- Subscription: the checkpoint trails the handler, one run repeats nothing,
  streams are handled in order, history past the checkpoint is replayed.
- Lease: one process at a time, unless a session was lost or a consumer without the
  lease has released it (MongoDB: one unexpired grant).
- Contention benchmark: retries make no holes and no duplicates, and the report
  balances: every task is in it, and exactly the failures counted twice are twice.
- Rate benchmark: a version is given to one row, batches or not; the remembered
  revision is the stream's; the report counts what was stored.
- Projection, search and hot/cold benchmarks: the view is the tail of the stream, a
  recorded lag is that of its event, the event is then in the view or the index, and
  the run ends.
- Caches: a reader gets the tail of the stream, or the one before the write under way.
- Snapshots: any snapshot plus the events after it is the replay of the stream.
- Bootstrap: Ok means that the schema is there.

## 2. Modules

| Module | Models | Correspondence |
|---|---|---|
| `EventLog` | what a store promises | one step appends an event at the next version of its stream, with the outbox row; positions are unique, not ordered |
| `PgEventStore` | PostgreSQL append and rehydrate | one action per statement (`Begin`, `BumpVersion`, `InsertEvent`, `InsertOutbox`, `Commit`), `Fail` for any error or dropped future; locks and unique keys as operators over the calls in flight; `Rehydrate` is one SELECT, which passes over the events of the calls in `Unreadable` |
| `PgRelay` | PostgreSQL relay workers | `Select` (FOR UPDATE SKIP LOCKED), `Publish`, `Mark`, `Commit`, `Abort`, and the loop: `FindNothing`, `Wake`, `Shutdown` |
| `PgSubscription` | one consumer id | the two phases step by step, the trigger's NOTIFY in `CommitAndNotify`, `LoseConnection`, `Crash` |
| `PgLease` | the advisory lock | sessions are (process, connection) pairs; `TryAcquire` and `Release` pick any session of the caller's pool and may be called whatever the consumer was told before |
| `PgDelivery` | the three together with the appends | extends them over `EventLog`; an append commits at any free position, as `PgEventStore` justifies |
| `MongoEventStore` | MongoDB append and rehydrate | snapshot reads, write conflicts that abort (`Refuse`), late aborts (`Reap`), a cursor read document by document, which passes over the events of the calls in `Unreadable` |
| `MongoRelay` | MongoDB relay workers | `Find`, `Publish`, `Mark` as three calls with nothing held in between; `Abort`, `FindNothing`, `Wake`, `Shutdown` |
| `MongoSubscription` | one consumer id | the cursor batch by batch (`FetchBatch`), `Watch`, the change stream (`Receive`), `Saved`, `Crash` |
| `MongoLease` | the lease document | `Ask` reads the clock, `Acquire` or `Reject` is the update at the server, `Release` |
| `MongoDelivery` | the three together with the appends | extends them over `EventLog`, at the next position, as `MongoEventStore` justifies |
| `HotStream` | the three contention benchmarks | the variable `backend` chooses the program; a worker is a permit; `Load`, `TakePosition`, `Append`/`LoseAck`/`Conflict`/`Fail`, `Win`, `Reread`, `StoreHint`/`FailReread`, `Report` |
| `Projection` | the three projection benchmarks | writer (`Seed`, `Spawn`, `AppendLive`, `StopWaiting`) and projector (`Replay`, `Watch`, `Receive`, `Connect`, `Poll`, `PushRow`, `Die`) around `Push` into the view; `backend` chooses the program |
| `SearchIndex` | the three search benchmarks | extends `Projection` and keeps its writer; the indexer (`ReceiveEvent`, `ReadCursor`, `PollForIndexing`, ...) fills a buffer, `IndexBatch` writes it and may be refused, `CountBatch` counts it |
| `RateBench` | the three rate benchmarks and the clients' batch appends | `StartWrite`, `Numbering` (the counter), `Store`, `Refuse`, `Skip`, `FailWrite`, `Acknowledge`, `TimeIsUp`, `ReportRate`; a write in flight is a record that holds a permit |
| `RecentEventsCache` | both cache benchmarks | `SeedStream`, `LoadTail`, `SetTail`, then per live write `WriteThrough`, `PushEvent`, `SetTail` again; `DropKey`, `Expire`, `CacheFails` |
| `HotColdView` | hot/cold views | sections A, B and C in order; the projector as a task with its channel (`ReplayEvent`, `SendLag`, `ProjectorDies`), `TimeOut` of a wait |
| `SnapshotDemo` | snapshots | `WriteWindow`, `TakeSnapshot`, `Restart`, `Rehydrate`, `DemoFails`; the loops that fold events into a state as a recursive function (`Folded`) |
| `Bootstrap` | both bootstraps | several processes run the row of statements; `Execute`, `CutShort`, and MongoDB's early return |
| `Benchmarks` | one run of the program | `program` names the command; the steps of the other commands' modules are disabled |
| `MC*` | - | instances and symmetry for TLC |
| `SequenceLemmas` | - | facts about sequences and finite sets that the proofs share (appending, taking the head, joining, counting) |
| `*_proofs` | - | the theorems, one module per specification that has its own (`Benchmarks_proofs`: one section per command) |

Definitions named `Name_Variant` are wrong versions of `Name`. No specification
uses them; each shows a property failing when the code is changed that way (the
pairs are listed in `PROJECT.json`).

### Abstractions

- Ids, streams and workers are model values; payloads, names, times and latencies
  are left out. An event is its id, stream, version and position.
- The upcasters and the aggregate are the caller's: which events they do not know
  (`Unrecognised`, or a payload that does not deserialise) is a constant of the
  stores, `Unreadable`, a set of calls. What they make of a known event is left out.
- A database statement is one step, executed at the server, its answer included,
  unless the loss of the answer matters (COMMIT, the benchmark's appends).
- PostgreSQL: READ COMMITTED; a row lock lasts to the end of its transaction; an
  identity value is never given back. MongoDB: a transaction reads the snapshot of
  its first operation and is aborted by a write conflict; the unique indexes exist.
  KurrentDB: an append with `StreamRevision(r)` succeeds exactly if r is the last
  revision. These are assumptions about products outside this repository.
- The relay's `publish` is external: Ok means the broker has the message; an error
  may hide a success. The RabbitMQ client does not wait for confirms, so its Ok is
  weaker than that.
- The batch a subscription has fetched is the set of positions it still has to hand
  out; it is sorted by position, so the next one is the least.
- The relay's query and its row lock are one step: that PostgreSQL may lock a row a
  moment after choosing it, and skip one freed meanwhile, is not distinguished.
- A statement whose answer was lost is not executed later than the answer.
- MongoDB change streams resume after a lost connection without loss. The clocks of
  the consumers of a lease agree, and each consumer id is used by one process.

## 3. Runs

| Run | Instance | Question |
|---|---|---|
| `pg_store` | 3 calls, one of which makes an unreadable event, 2 streams, pool of 2 | Do streams stay gapless, outbox and answers right, and do all calls return, with failures everywhere? What has a rehydration applied, and what passed over? Do the transactions implement `EventLog`? |
| `pg_delivery` | 3 entries on 2 streams, positions to 3, of which one entry is there at the start; 2 relay workers with 1 abandoned attempt per entry; 2 runs of the subscription; 2 processes of 2 consumers and 2 connections, lock depth 4 | Is an entry repeated only after an abandoned attempt, overtaken only while busy, and is every entry dispatched? Does the checkpoint trail the handler, is history replayed, in stream order, under crashes at every step? Are processes exclusive, whatever connection each call runs on and whoever releases? |
| `pg_relay_exactly_once` | the same | The documented exactly-once dispatch; violated: publish, then fail before COMMIT. |
| `pg_subscription_gap` | the same | Is nothing missed once live? Violated: a commit between the query and LISTEN. |
| `pg_lease_single_active` | the same | One consumer at a time; violated: two consumers of one pool. |
| `mongo_store` | 3 calls, one of which makes an unreadable event, 2 streams | As `pg_store` without the pool; also that positions are gapless at every moment, so visible in order, and that some call always gets through. |
| `mongo_delivery` | 2 relay workers, 3 entries of 1 stream, 1 abandoned attempt per entry; batches of 1, 2 runs; 2 lease consumers, TTL 1, time to 3 | Are duplicates bounded by workers and failures, is every entry dispatched, does a run ascend, is anything but the gap skipped, is there one unexpired grant? |
| `hot_stream` | 3 tasks, 3 permits, 1 retry, 2 baseline appends, leftover counter 0 or 1, all three backends | Is the hint ever ahead, do retries make holes or duplicates, do positions follow versions, does the report balance? |
| `benchmarks` | every other command, all backends; sizes below | Is the view a tail, is a recorded lag that of its event, and the event then in the index? Is a version used once, the revision known, the total right? Is the cache recent, a restored state the replayed one, the schema complete? Does a benchmark end, or hang only for a known reason? |
| `projection_replay_order` | the same | The documented replay in insertion order; violated for MongoDB. |
| `search_every_write_measured` | the same | Is every live write measured? Violated: KurrentDB's indexer waits for a full buffer. |
| `rate_conflicts` | the same | The documented absence of conflicts; violated: writes to one stream overlap. |

**Bounds.** Three calls are enough for two to race for one stream while a third
holds another, or fails between them; a pool of two makes the third wait. One
unreadable event is first, in the middle or last in its stream, or alone in it. Two
relay workers and two entries give overtaking; a third worker repeats the
argument of the second. Three events on two streams let two commit out of
position order on one side of the checkpoint and one on the other. Three tasks
on the hot stream are needed for a stale store: one reads, one moves the hint on,
one uses what the first stores. In `pg_delivery` and `mongo_delivery` the relay, the
subscription and the lease are explored one at a time (`MCInit` stops the others):
they share only the log, which they do not write, so their products say nothing
new. Two lease consumers and three ticks give expiry, takeover, late release and
renewal.

`benchmarks` uses, for projection and search, a seed of 5 in batches of 2, 3 live
events, polls of 2 rows, a flush at 2 (the code's 200), views of 0 to 3 and 0 to 2
leftover events: a seed of two and a half batches, and more live events than a poll
returns, reach the remainders; views of fewer entries than events make the view
evict. Hot/cold: a seed of 3, 4 writes with a lag, 0 to 2 old events; four waits let
a late lag meet the next wait, and the one after. Rate: 2 streams and permits,
batches of 1 and 2, 4 writes, so that a stream has two writes in flight and two
after them. Caches: sizes 1 to 3 against 4 seeded (by 3) and 3 live events and up to
3 earlier ones. Snapshots: 5 events, one every 2, two quantities. Bootstrap: 2
processes. Named bounds: `MaxPos` (the identity), `MaxAborts`, `MaxRuns`,
`MaxCount`, `MaxBaseline`, `MaxTasks`, `MaxLeftover`, `MaxClock`, `MaxOldCold`,
`MaxWrites`, `MaxOld`, `MaxPrior`. Retries are bounded in the code itself
(`MaxRetries` is `config.max_retries`).

The type invariants (`TypeOK` and its likes) describe the state; they, or the parts of
them that the argument needs, belong to the invariants of section 4 and are proved with
them.

**Deadlock** is checked in `hot_stream` (the program ends in `Done`), in the stores
(`Rehydrate` stays possible, so what it would show is shown by
`EveryCallReturns`) and in `benchmarks`, where `Ended` names the states in which
a command may stop; for those that may hang, `WaitsEndOrHaveAReason` says when.
It is off for the relays and the subscriptions, which really stop: workers that
were shut down, a consumer that is not started again.

**Fairness.** `pg_store`: weak fairness of the next statement of each call; the
server executes what it is sent and grants a free lock or connection. No failure
is fair. `pg_delivery`: weak fairness of a worker's own steps, as the runtime polls
it; strong fairness of `Select`, as `FindNothing` (an empty answer or a failed
query) may come first again and again but not for ever. Shutting down is not
prevented: `EveryEntryDispatched` excuses only the case that all workers were
stopped. Weak fairness of the running subscription (`Advance`).
`mongo_delivery`: as the relay of `pg_delivery`, with `Find` for `Select`. `benchmarks`:
weak fairness of the main task and of the spawned one, which the runtime polls;
strong fairness of a poll, which may fail again and again but not for ever.

### What the violations say

- `pg_relay_exactly_once`: dispatch is at least once. The module's table promises
  exactly once (`postgres/event_store.rs:26`).
- `pg_subscription_gap`: the subscription queries, then listens, and does not query
  again. An event committed in between is not seen in that run; a later live event
  moves the checkpoint past it, so it may never be seen.
- `pg_lease_single_active`: the advisory lock is re-entrant and the session is
  whichever the pool hands out.
- `projection_replay_order`: the MongoDB replay sorts by `_id`, which is a random
  UUID, so the view holds arbitrary events after the replay, not the newest.
- `search_every_write_measured`: the KurrentDB indexer writes its buffer, and counts
  it, at 200 events, and the writer waits for its event after each live write. The
  default seed of 50 000 is 250 full buffers, so the first live write is the only
  event in the next one, and both wait for ever (`search_bench.rs:373`, against the
  300 measured writes of lines 14-15).
- `rate_conflicts`: a write goes to stream `seq % concurrency` while up to
  `concurrency` others are in flight, so two to one stream overlap and expect the
  same revision. Besides, the revision remembered at the start is 0, which an empty
  stream does not have: with `event_store_mode` all appends to a new KurrentDB stream
  are refused (`kurrentdb/benchmark.rs:234`, against `src/README.md:139-140`).

## 4. Proofs

Every safety property that a passing run checks is proved too, so it holds for every number of streams, calls, workers, processes, connections,
tasks and events, and every size of a batch, buffer, cache or view. Each module has
one inductive invariant (or one per part that does not need the others), a lemma for
each action or group of actions that preserves it, and theorems that follow from it.

- `PgEventStore_proofs`. `Inv` adds to the properties what makes them inductive: at
  most one call holds the counter of a stream (`OneHolder`) and the version it has
  read is still the committed one (`HolderIsCurrent`); positions in flight are
  fresh (`PositionsFresh`); every event belongs to a call that committed
  (`EventsOfCalls`). `Commit` is the only action that touches the tables. Results:
  `TypeCorrect`, `GaplessStreams`, `ConflictNeverReported`, `NoDualWrite`,
  `TruthfulAnswers`, `RehydratedPrefix`, and `Refinement` (every step is an `EventLog`
  append or a stutter).
- `MongoEventStore_proofs`. No lock holds a second writer up: the write conflict
  aborts it. So the same shape holds of two counters (`OneWriter`, `WriterIsCurrent`;
  `OneSequencer`, `SequencerIsCurrent`), with snapshots that are of the past
  (`SnapshotsArePast`) and, for `NotAllLose`, somebody to blame for each refusal
  (`SomeoneToBlame`). A cursor that reads document by document goes through
  a prefix because `StreamsGapless` holds in every state it meets.
- `PgRelay_proofs`. `HeldRows` (a held row is pending and held by one worker) and
  `Attempted` (deliveries against abandoned attempts plus the one in flight) give
  `OneHolderPerEntry`, `BoundedDuplicates`, `AtLeastOnce`. `Order` (the entries of a
  stream are touched from the oldest on, because a younger one is selected only past
  locked or dispatched ones) gives `NoSilentOvertaking`.
- `PgDelivery_proofs`. The composition implements the specifications of the relay and
  of the lease (`RelayRefined`, `LeaseRefined`), so what is proved of them holds in it
  (`RelayIsSafe`). The lease: unless its process has lost a session, or has given a
  level away for a consumer without the lease (`Excused`), every active
  consumer is covered by one level of the lock that its own pool holds (`Covered`, a
  statement about the number of active consumers and the depth of the lock), whence
  `ProcessesExclude`. The subscription: `Sorted` relates what was handled, what is in
  hand, the batch and the queue of notifications, but only for events of one stream,
  because positions of different streams do become visible out of order; it gives
  `StreamsInOrder`, and `Handled` gives `CheckpointsAreHandled`.
- `MongoDelivery_proofs`. The relay locks nothing, so `FewDeliveries` counts: the
  deliveries of an entry, and the workers that are still at it, against the finite
  set of workers and the abandoned attempts (`PaidFor`, `FewLeft`). The subscription:
  whatever lies at or below the position in hand was handled or committed in the gap,
  and whatever lies above it is in the cursor's batch, unread, or in the change
  stream (`Accounted`); hence `OnlyTheGapIsSkipped`, and `RunsAscend` from `Ahead` and
  `Behind`. The lease: an unexpired grant is covered by a document of its holder that
  expires no earlier, given that a consumer's later call has read a later clock
  (`Covered`, `CallsInOrder`); hence `OneGrant`.
- `HotStream_proofs`, in layers, each from those before it: `Basic` (types and phases);
  `NeverAhead` (neither the hint nor what a task has made of it is past the stream,
  however stale the store) gives `HintSafe`; `Covered` (a version below the last one is
  stored, given up, left over or about to be stored) gives `HolesAreOld`; `Owned` gives
  `TasksStoreOnce`; `Placed`, of positions that are taken before the append, gives
  `PositionsAgree`; `Balanced`, of the counters against the tasks that have still to be
  counted, gives `ReportAddsUp`.
- `Benchmarks_proofs`. A step of the program is a step of one command or leaves its
  variables alone (`StepsOfCommands`), so each command has an invariant of its own.
  Bootstrap: whoever is past a statement has executed it or met its object
  (`HasPassed`, `IndexesToCome`). Rate: the ranges of versions held by writes in flight
  or lost, and the rows, divide what the counter has passed (`Numbers`), a stored
  write without an acknowledgement is the last of its stream (`Revisions`), and the
  total counts the rows nobody is at (`Totals`). Hot/cold: the lags in the channel
  come after all that were recorded (`Waiting`, `Taken`). Projection and search: what
  was pushed and what is in the batch form one line in which each place of the log is
  at most once (`InLine`), so that a count identifies an event; it gives
  `ViewsAreTails` and `MeasuredAreProcessed`. Caches: the program holds the tail of the
  stream, or of the stream before the event it has just written, and Memcached holds
  one of the two or nothing (`CacheInv`). Snapshots: there is one row of states, one
  after each event of the stream, and the program's own state, every snapshot and the
  restored state are on it (`Shows`); `RestoredAreReplayed` follows because two rows
  that agree at a place agree from there on. That, and that the recursion defines a row
  at all, would be inductions; each is argued from the least place where it would fail
  (`LeastOfThem`), which is a fact about finite sets.

**Assumptions.** Next to the types of the constants: the PostgreSQL pool is not empty
(`PoolAssumption`); workers, calls, processes and relays, where they are counted, are
finite sets; sizes that the code divides by or waits for (batches, polls, flushes,
caches) are at least 1, and there is at least one to choose from. Names of nobody
(`None`, `Nobody`) are not names of somebody. TLC evaluates all of them.

**Only model-checked.** Liveness (`EveryCallReturns`, `EveryEntryDispatched`,
`HistoryIsReplayed`, `WaitsEndOrHaveAReason`), which the prover does not reach. The
properties of the violation runs are false. `RowHeldOnce` and the invariants of the
proof modules belong to no run.

## 5. Observations

- `append` never returns `ConcurrencyConflict`, the error its documentation gives
  for a lost race (`NoConflict`, proved for PostgreSQL; `SomeoneWins` says it of MongoDB): the PostgreSQL counter lock
  makes callers wait, the MongoDB counters answer with a write conflict, which
  surfaces as `Io`.
- `rehydrate` of both stores passes over an event that the upcasters answer
  `Unrecognised` for, without a word, and over one that does not deserialise, with a
  warning (`postgres/event_store.rs:537` and `:551`, `mongodb/event_store.rs:595` and
  `:609`). The version it returns has then advanced all the same: the caller gets the
  version of the last event and a state that may lack some before it, and cannot tell
  (`RehydrateSeesPrefix`).
- `release_lease` of PostgreSQL asks nothing and reports nothing: the call takes one
  level off the lock if the session it runs on happens to hold it, and succeeds in any
  case (`postgres/event_store.rs:703-711`). So a consumer that was told `false`, or has
  already released, can end the lease of another consumer of its process, who is not
  told; then a consumer of another process gets it too. `ExclusiveAcrossProcesses`
  excepts processes where that has happened (`stray`), and those that have lost the
  session. The demo acquires twice, releases once and looks at neither answer
  (`main.rs:1396-1405`); the second level stays with the session until the pool drops
  it.
- In the contention benchmark `retry_count` counts a retry twice when the task
  succeeds in the end (each conflict adds one, the success adds `attempt` again),
  and `failed_writes` counts a hot task twice that an error other than a conflict
  ended (`postgres/hot_stream_contention_bench.rs:286` and `:294`, and so in the other
  two), so successes and failures can be more than the tasks; `ReportIsComplete`
  states the exact balance, with a count of such tasks (`brokeOff`) that the program
  does not keep. The PostgreSQL program empties
  `bench_events` and keeps `stream_versions`, so a second run on the same database
  starts with versions above free ones (`leftover`).

- The MongoDB subscription skips what is committed between the end of its cursor and
  `watch()`, for good once a later event moves the checkpoint; its documentation says
  that no events are skipped (`SkippedOnlyInTheGap` shows that nothing else is). Two
  MongoDB relay workers deliver an entry twice without any failure
  (`DeliveriesAreBounded` has the number of workers in it), against the "exactly-once"
  of its documentation.
- `try_acquire_lease` of MongoDB documents `false` when another consumer holds the
  lease. The filter then matches nothing, the upsert tries to insert the same `_id`,
  and the caller gets an error. A holder is not told when its lease expires.
- In the projection benchmark: the KurrentDB stream is not emptied, so events of an
  earlier run end the writer's waits early (`leftover`); the PostgreSQL seed rows have
  a `seq` one below their payload's (`SeedNumber`); a view of capacity 0 is never
  trimmed; an event that falls between cursor and change stream hangs the run;
  and so does a projector that dies, as the PostgreSQL one does when it cannot connect
  (`projection_bench.rs:561-563`, `search_bench.rs:685-687`): the writer is not told.
- The search benchmark drops the result of `index_batch` and counts the events anyway
  (`search_bench.rs:374`): a measured event need not be searchable
  (`MeasuredIsProcessed` excepts exactly those batches).
- The hot/cold benchmark's waits time out after 5 s; a lag that comes later is taken
  for that of the next write, and shifts all that follow (`LagsBelongToWrites` says
  how far). Its cold stream is never emptied, so that "full `seed_events` events" is
  true of a first run only.
- A batch of the PostgreSQL and MongoDB clients that fails after it was numbered
  leaves a hole as long as the batch (`NumbersAreUsedOnce`); positions of batches need
  not follow their versions. A lost acknowledgement leaves the KurrentDB program's
  remembered revision behind for good (`RevisionIsKnown`).
- The ring buffer with capacity 0 never evicts; sizes of at least 1 are assumed.
  The Memcached program ignores a failed delete at its start and overwrites the key
  when it has loaded its tail.
- The snapshot demo takes a snapshot after every window, the last and shorter one
  included; its documentation leaves the final ten events without one. With
  `snapshot_every` 0 its loop does not advance; at least 1 is assumed.
- MongoDB's `bootstrap` (and the bench client's `ensure_collection_event_store`) returns
  early when the collection exists. After a crash between collection and indexes,
  the unique index is never created, and every later `bootstrap` answers Ok
  (`OkMeansSchema` excepts this case), although it is "safe to call on every startup".
- The scale benchmark reads the MongoDB "tail" in the order of random `_id`s and never
  empties its KurrentDB stream.

## 6. Not modelled, and the plan

Still worth stating: that the MongoDB composition implements the specifications of its
relay and of its lease, as `PgDelivery_proofs` shows for PostgreSQL (their safety is
proved in the composition itself), and the type invariants of the delivery modules as
theorems by name.

Left out:

- The scale benchmark: one task that calls, one after another, client operations
  modelled elsewhere; no state of its own, nothing runs beside it.
- The produce loop: it writes to KurrentDB, then to RabbitMQ, and only logs a failure
  of either. Nothing in the code relates the two writes, reads them back or retries,
  so there is no promise to state; the demos call the stores sequentially.
- What upcasting makes of an event: a lookup and a call of the caller's pure function.
- The query phase of the search benchmark, the view reads, latencies, histograms, rates
  and reports; argument parsing and printing.
- RabbitMQ's topology, ping, Kubernetes manifests, Docker and CI files, shell tests
  and dashboards (no program state); the servers' storage.
