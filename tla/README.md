# A verification development of sync-state

`docker-structs-pg` is a PostgreSQL image with `sync-state`, a Go program that
follows a CometBFT chain and keeps an index of it in the database. This
directory holds TLA+ modules that model the parts of `sync-state` that are hard
to test, TLC configurations that check them on small instances, and TLAPS proofs
of what matters most for every instance. All paths below are relative to
`src/sync-state/internal/` unless they start otherwise.

## 1. The system

| Component | State it keeps | Operations | Made hard by | Must hold |
|---|---|---|---|---|
| Ingest loop (`sync/syncer.go`, `sync/block.go`, `sync/bulkwindow.go`, `sync/retry.go`) | `next`, `projectionsStale`, one prefetched window; in the database the cursor, the block log and everything derived from blocks | one iteration of `Run`: status, plan, fetch, apply; recovery | transactions whose commit answer is lost, asynchronous commits, a prefetch planned earlier, windows that fail half way | each block applied exactly once, in order, eventually |
| Startup (`sync/subcmd.go`) | none | writer lock, `CheckReorg`, `ResolveStart`, `GuardReplay`, genesis, sweeps, coverage gate, projection gate | restarts at every point, start overrides, databases of older releases | never starts where blocks would be applied twice or left out |
| Economy coverage (`db/economy_coverage.go`) | a watermark in the database | record a block, require at start | replays, gaps | no hole below the watermark |
| Writer lock (`db/pool.go`) | a session advisory lock on its own connection | acquire at start, released with the session | Postgres restarts under the process | one writer |
| Read models (`readmodel/`) | `api_*` tables, `api_refresh_state`, drift batches | recompute dirty rows, rebuild, invalidate, consume drift | deferral over windows, repairs outside the loop, restarts | stamped means fresh |
| Native staking (`sync/native.go`, `staking/`) | per address the required height and the evidence with its source height, exposure, invalidation watermarks, unbonding receipts | seed, request, fetch from the LCD, publish, retry later, reconcile receipts | a worker concurrent with the loop, answers of a height that is no longer the cursor | evidence that counts as complete is the claim of the indexed height |
| RPC client (`rpc/client.go`, `rpc/bundle.go`, the workers of `fetchWindow`) | per endpoint the last `/status` and the last error with their age; the window being fetched, its workers and the blocks kept back | `/status`, `Block`, `BlockResults` with retries and fail over; fetch a window in parallel | endpoints that fail, lag or serve another chain; answers in any order; cached answers that steer later requests | blocks handed on once, in order, and all of them in the end |
| Tip notifier (`rpc/notifier.go`) | the connection, a channel with one place | dial, subscribe, publish, watch for silence, rotate | a consumer that is busy, a node that takes the subscription while it syncs | a published block is followed by a `/status` |
| Event order (`rpc/event_order.go`) | none | flatten the phases of a block | malformed phase marks | the order of execution |
| Router (`events/router.go`) | handler table, unknown-key counters | dispatch, snapshot and restore of the buffer, drain of the counters | panics, partial writes, a flush that fails after a drain | a failed handler leaves nothing behind |
| Event handlers (`events/`) | game tables | one per event type | attributes that arrive in several events | consistency across tables |
| Bank ledger (`bank/`, `buffers/`) | the append-only ledger | match transfers with their causes | events without identity | legs balance |
| Genesis (`genesis/`) | genesis rows of the ledger, `genesis_log` | wipe and import | a crash between import and first block | imported once |
| Sweeps (`backfill/`) | none | compare an LCD snapshot with the tables | a snapshot at another height than the cursor | repairs only at a matching boundary |
| Reprocessing (`reprocess/`, `sync/reconcile.go`) | `handler_error_log` | replay events, reconcile a block | running beside other commands | an error is resolved only by its own replay |
| Verify, doctor, schema checks | none | reports | nothing | not modelled: read-only |
| `src/update-cache`, `src/scripts`, `src/sync-state/sql` | a cache table; the container's start-up | page an LCD store; migrate and start | start-up order | not modelled |

How they interact: startup hands a start height to the loop and decides whether
the loop begins with stale projections. The loop applies a block in one
transaction, which calls the router and its handlers, the bank ledger, the row
buffers, the staking invalidation, the coverage watermark, the read models and
the cursor. The native staking worker runs as a goroutine of the loop and only
shares the database with it. The RPC pool and the tip notifier are called by
the loop. Sweeps, reprocessing and reconciliation are separate transactions
that invalidate or rebuild the read models.

## 2. Modules

| Module | What it is |
|---|---|
| `Ingest` | the ingest process: startup, the loop, both kinds of transaction, recovery, crashes of the process, of Postgres and of the host |
| `IndexedChain` | what it promises: an index that one writer extends from its own place, and that misses only blocks that were written and lost |
| `NativeStaking` | the native evidence: the refresh worker, the staking store, and the block transactions that invalidate what the worker published |
| `ChainEvents` | what the chain's operations emit and what they do to balances (external) |
| `BankLedger` | the order of a block's events and the ledger and receipt rows they become |
| `BlockEvents` | router, handlers, buffers, error and unknown-key logs, raw mirror, and the three commands that apply events; EXTENDS `BankLedger` |
| `ReadModel` | the projections: marks, their expansion, recomputation, stamps, deferral, drift and the repairs |
| `RpcClient` | endpoints, the client's cached answers, `/status`, and the parallel fetch of a window |
| `TipNotifier` | the subscription that wakes the loop |
| `MCIngest`, `MCNativeStaking`, `MCBlockEvents`, `MCReadModel`, `MCRpcClient`, `MCTipNotifier` | fault sets, chains and inherited databases of the runs |
| `IngestProofs` | the theorems about `Ingest`: the index and the coverage; the projections, and what restarts of Postgres leave |
| `NativeProofs`, `ReceiptProofs` | the theorems about `NativeStaking`: the evidence; the receipts |
| `BlockProofs` | the theorems about `BlockEvents`: timelines, error rows, inventory, raw mirror |
| `LedgerProofs` | more about `BlockEvents`: what ledger, infusions and commission revisions hold once no error is left; EXTENDS `BlockProofs` |
| `ReadModelProofs`, `RpcProofs`, `NotifierProofs` | the theorems about `ReadModel`, `RpcClient` and `TipNotifier` |

How they fit together: `RpcClient` is the inside of `Ingest`'s fetch step, and
`TipNotifier` the inside of its wait; `Ingest` takes from the first only that
blocks come in order or not at all (`DeliveredInOrder`, `CatchesUp`) and
from the second only that the loop goes on. `BlockEvents` and `ReadModel` are
the inside of one transaction: what `Ingest` calls `rows`, and what it calls
`fresh`. `NativeStaking` takes over where a transaction names an address whose
evidence it invalidates. Each module keeps its own cursor, so that each can be
checked with the failures that matter to it.

### Ingest

A block is its height: the chain is final and a height has one content, so
hashes and reorganisations are left out. The database is one record, `db`:

- `cursor`, `status`, `tip`: the `sync_cursor` row (`db/cursor.go`);
- `rows[h]`: how often the append-only rows of block `h` were committed (ledger,
  activity, statistics). `block_log` has a row for `h` exactly when it is
  positive;
- `coverage`: the `economy_contract` watermark;
- `stamp`, `fresh`: the height every model of `api_refresh_state` is stamped
  with, and a ghost that says whether the projections really follow from the
  indexed blocks;
- `genesis`: whether `genesis_log` has a row.

`disk` is the image a crash of Postgres falls back to. A commit with
`synchronous_commit = off` leaves it behind, any later synchronous commit or the
WAL writer (`FlushLog`) brings it up to `db`.

The process is at one of these points (`pc`):

| `pc` | Code | Actions |
|---|---|---|
| `off` | not running; `runIngest` up to the genesis gate | `Boot` |
| `sweep` | the sweeps of `runIngest` | `Sweep` |
| `projections` | coverage gate and projection gate | `PrepareProjections`, `RefuseCoverage` |
| `status` | top of the loop, `/status` | `ReadStatus`, `StatusFails` |
| `plan` | target, idle branch, mode, window | `RebuildProjections`, `IdleAtTip`, `Finish`, `BeginWindow` |
| `fetch` | consume the prefetch or fetch, start the next prefetch | `FetchBulkWindow`, `FetchFails`, `PrefetchFailed` |
| `apply` | `applyBulkWindow` | `ApplyBulkWindow` |
| `stream` | `fetchWindow` in streaming mode, one `applyBlock` per block | `StreamBlock` |
| `recover` | the end of `recoverFromTransient` | `RereadCursor`, `CursorUnreadable` |
| `done` | `Run` returned nil | |

`TransactionFails`, `CommitUnknown`, `FatalError`, `CoverageGap` and the crashes
cut across them. A transaction is one step, for everything in it commits
together; a rebuild is one step because nothing else moves the cursor between
its read and its transaction (`BackfillInTx` refuses if something does). A lost
commit answer is the interesting failure: the transaction is in, and the process
takes it for failed.

Abstracted: waiting (`TipNotifier`), the parallel fetch within a window
(`RpcClient`), what handlers write (`BlockEvents`, `ReadModel`), the
outcome of a sweep (it may or may not change a row), the native staking worker
(`NativeStaking`), pruning by the node (`Earliest` is fixed),
`-genesis-auto-apply=false`. `recoverFromTransient` is two steps, so that
the world may change while it sleeps.

Each fault takes one unit of `MaxFaults`. `Faults` says which kinds a run has.

### IndexedChain

The writer has a `place`, the height it goes on with. `Append(hi)` writes every
block from there to `hi` once more, and the place moves behind them. `Lose(lo)`
takes the blocks above `lo` back; the writer may go back for them, or go on from
where it was, but not behind the end of the index. `Restart` puts it at the end.
`Ingest` implements it with `last <- db.cursor`, `copies <- db.rows` and the greater
of `next` and the height after the cursor as `place`. What this adds to the
invariants is that it still holds when Postgres restarts under the process, where
`IndexedExactlyOnce` does not: a block that is missing was written and lost, and
was not jumped over by a retry, a prefetched window or a restart.

### NativeStaking

The chain is part of this model, for the question is whether the database agrees
with it. `chain[h]` holds what block `h` names (addresses and validators of
staking events, a change nobody can attribute, recorded unbondings, moved liquid
coins) and the state after it: which validators an address is exposed to, its
unbonding groups, and the *version* of its claim, the height at which the claim
last changed. Amounts are left out; two claims are equal when their versions
are. A block holds one event.

| State | Code |
|---|---|
| `db.row[a]` | the row of `native_staking_snapshot`: `required_height`, `source_height`, the totals (`version`), `receipts_pending`, `positions_complete`. No row is `required = 0` |
| `db.exposure`, `db.watermark` | `native_staking_exposure`, `native_staking_invalidation` |
| `db.receipts` | `structs.defusion` |
| `db.shown`, `db.deferred`, `db.authority` | the current claims in `api_inventory`, whether bulk windows deferred them, and `inventory_authority`, without which a publication leaves inventories alone |
| `db.retry`, `due` | `retry_after` as an order, and which of them have passed |
| `durable` | what a crash leaves: bulk windows may commit asynchronously, everything else brings it up to `db` |
| `next`, `stale` | of `Run`: the height the loop goes on with, which a restart of Postgres does not move, and whether it owes a rebuild |
| `seeded`, `batch`, `at`, `answer` | `startNativeRefresh`, `refreshNativeBatch` and the result of `Fetch` |

`Stream` and `BulkWindow` are the block transactions (`Indexed` is `Invalidate`
followed by `flushDefusion`; all but a deferring window recompute what is dirty). They
take block `next`, whatever the cursor says: after `PostgresCrash` the two may
differ, and then the loop leaves a block out, unless the coverage refuses the block
(`CoverageAccepts`) and the process ends (`CoverageGap`). The ghost `db.whole` says that
none was left out. `Rebuild` is the rebuild of deferred projections. `Seed`, `SelectBatch`,
`FetchSucceeds`/`FetchFails`, `Publish`, `Postpone` and `WriteFails` are
the worker, one step per transaction or query, with blocks and crashes between
any two. `Reprocess` and `Reconcile` are the two commands that repeat events; they
need the writer lock and so run only while the ingest process does not.

The generated column `pending`, the view `native_staking_claim` and the function
`api_inventory_current_claims` belong to migrations outside this repository; they
are modelled from how the Go code and its tests use them.

Abstracted: amounts and their arithmetic (`positions.go`), decoding and paging (a
query answers whole at its height, or fails), the ten seconds of a batch (it may
end after any item), redelegation receipts, whose group is matched by endpoints
and not by height, several events in one block, windows of more than one block, a
cursor row that does not exist yet, and what the loop and the worker do about a
restart of Postgres other than to go on with what they have in memory.

### ChainEvents, BankLedger and BlockEvents

`ChainEvents` stands for the chain: an operation (mine, refine, infuse, send,
delegate, redelegate, unbond, ...) has the events it emits, and an effect on
balances that is written down independently of them (`Balance`). It is external,
read off the event streams that the handlers and their tests expect.

`BankLedger` is pure. `OrderedEvents` is `rpc/event_order.go` (phases, positions,
the refusal of wrong metadata); `ProcessBlock` and `ProcessDefusion` are
`bank/`: grouping by message, the correlation that keeps one movement from being
written twice, the legs and indexes of each event type, the validation of coins.
Processing a block is all or nothing, so validity is a predicate and the rows
are a set.

`BlockEvents` runs the events of a block through the router. State:

| State | Code |
|---|---|
| `chain`, `feed` | the chain being read, and what the node serves of each block |
| `db` | the committed tables: ledger, inventory, receipts, infusion, grid, statistics, revisions, positions, timeline with its counters, raw mirror, cursor |
| `errorLog`, `unknownLog` | `handler_error_log`, `unknown_event_log` |
| `unknown` | the router's deltas since the last flush |
| `proc` | the running command: its transaction, the errors it has to report, the rows it replays |

`BeginWindow`, `ApplyBlock`, `Commit`, `WriteHandlerError`, `ErrorsWritten` and
`FlushUnknowns` are ingest, with a block or a window per transaction and with
error rows that are written one by one after it. `StartReprocess`, `ReplayHeight`,
`ResolveError` and `HeightReplayed` are `reprocess/`; `ReconcileCurrentBlock` is
`sync/reconcile.go`. The three hold the writer lock in turn, so one runs at a time,
and `Crash` may end each of them between any two steps. A handler that fails
(`trip`) does so on its way to the database; its savepoint takes its rows and its
marks back. The invalidation of the native evidence may fail and the block with it
(`InvalidateNative`). The reconciliation refuses a block whose
legacy positions are not proven, or whose rows differ from those that are there
(`Validated`); the databases of the run reach the first refusal, not the second.

Four assumptions about the constants say what the environment is trusted with; TLC
evaluates them on the chains and databases of the run:

- `FeedAssumption`, of a served block: a list of events, each at a coordinate of its
  own, with whole amounts.
- `PlaceAssumption`: an event ran in one of the four phases, a commission revision
  names a reactor, and a bank row has the coordinate of a bank event, which no
  handler is registered for.
- `ShownAssumption`: the events of the first `n` blocks show the fuel and the
  revisions that the operations of those blocks left, by the newest infusion of a
  funder and by the revisions after the last reset. It is about the chain alone:
  `EconomyIsNewest` and `InfusionIsNewest` speak of operations, the handlers see
  events.
- `InheritAssumption`: an older release that kept no infusion positions has lost no
  infusion of the block it ended with. The code cannot tell (`events/infusion.go:85-87`:
  "the intra-block position is unknown, so the whole block counts as applied"), and a
  lost one would be skipped in its replay.

A database an older release left behind is built from a block that was really
applied, the event that release did not know left out (`OlderWork`); commands that
replay take the unresolved rows in the order of their ids (`AllIds`).

Abstracted: amounts beyond small numbers, the columns that only one event writes
and nothing reads, statistics beyond the fact that they are flushed.

### ReadModel

A row of a projection is the tuple of the inputs its SQL statement reads, so that
a row is stale exactly when one of them changed. `base` are the canonical tables,
`api` the projections, `Expected(base)` what a rebuild from nothing gives. One
action per handler that marks entities; `Expand` follows `readmodel/project.go`
statement by statement (addresses, grid objects, players, holders of a guild's
token, before the inventory deltas are applied), `Recomputed` is `recompute` and
`Rebuilt` is `BackfillInTx`. Transactions are blocks, windows, sweeps, the
reconciliation and the reprocessing of a height; `Start` and `Prepare` are the
projection gate of a start, `NightlyReconcile` is the database job that records
drift, external like the error it finds (`RowGoesWrong`).

Abstracted: `api_work`, which a database function diffs by itself; the row values
as numbers; the locking, since the writer lock excludes a second writer; a
transaction holds at most `MaxEvents` events.

### RpcClient

Nodes have a tip and may be down; `cache` is what the client remembers of each
endpoint, with one bit for "within `statusTTL`" (`Age` lets the time pass). `AskFrom`
is the order of `get` with its two skip rules. `Status` and `RefreshStatus` are
`statusFromAny`, one endpoint per step, so that the nodes and time move between
two. `Launch`, `Answer`, `Complete` and `Receive` are the
workers of `fetchWindow`: two requests per height, each answered by an endpoint of
its own, `Receive` keeps blocks back until their turn. A node may answer for another
chain ("foreign", refused by `ValidateBundle`) or refuse a height ("refused").
`Restart` is the supervisor.

Abstracted: the retries of one host are one answer; an error is "net" if
`isTransientInfraErr` recognises its text and "other" if not, and an aggregate error
carries those of the endpoints that were passed over.

### TipNotifier

The connection (`notifier`: dial, open, backoff), a frame on its way (`inbox`), the
channel with one place (`wake`), the loop that asks `/status`, works and waits.
`unseen` is a ghost: a block was published since the last `/status` began. A node
that syncs accepts the subscription and announces nothing; `FallsQuiet` and
`SilenceWatchdog` are `silenceTimeout`. The length of the backoff, pings and the
choice between the poll timer and the channel when both are ready are left out.

## 3. Properties

Ingest:

- `IndexedExactlyOnce`: the rows of a block are there once up to the cursor and
  not at all beyond it.
- `AppliedOnce`: the weaker half, for fault sets under which blocks may be lost.
- `CursorNeverRewinds`: the cursor goes back only in a crash that takes the
  process along, and then to the durable image.
- `ImplementsIndexedChain`: the refinement; a block below the cursor is missing only if
  it was committed and lost.
- `NoBlockLeftOut`: none is missing, which does not hold (section 5).
- `ReadyMeansFresh`: when the projection gate of the next start would find
  nothing to rebuild, the projections do follow from the indexed blocks.
- `CoverageHasNoHole`: the coverage watermark.
- `DoneMeansReady`: what a one-shot or bounded run leaves.
- `CatchesUp`, `ProjectionsReturn`: liveness.

Native staking:

- `EvidenceIsCurrent`: evidence that counts as complete is the claim of the
  indexed height, though it was fetched at an older one. `ShownIsCurrent` says the
  same of what inventories show.
- `EvidenceNeverAhead`: nothing in the store is of a height above the cursor, also
  when a crash takes the cursor back under the running worker.
- `RetiredMeansGone`, `OpenMeansHeld`: a retired receipt has no unbonding group on
  the chain; an open one has, once the evidence is complete.
- `ReceiptsAreRequested`: an open receipt has a request that will reconcile it
  (`missing_requests` of `verify/receipts.go`).
- `ReplayKeepsNewerEvidence`: repeating an old event leaves newer evidence alone.

  `EvidenceIsCurrent`, `ShownIsCurrent` and `OpenMeansHeld` speak of an index without a
  gap (`Gapless`): below the activation height the loop goes on behind a window that
  Postgres lost, and what the window would have invalidated stays as it was (section
  5). With the activation at block 2 nothing can be left out, and they hold in every
  state.
- `EvidenceReturns`: every address that can be queried gets its evidence.

Block events. Most say "once no error is left to replay", because an error row is
the code's own admission that something is missing:

- `LedgerMatchesChain`: the ledger of every address and denomination sums to what
  the chain's operations did. This compares two independent descriptions, and a
  wrong correlation, a double replay or a lost row breaks it.
- `InventoryIsLedger`: the inventory, moved by deltas, is the sum of the ledger.
- `InfusionIsNewest`, `EconomyIsNewest`: a late replay never overwrites a newer
  snapshot, nor brings back what a reset removed.
- `SequencesAreDense`: a planet's timeline is numbered without gap or repetition.
- `TimelineComplete`, `ResolvedTookEffect`: an event that failed is not forgotten,
  and its row is resolved only after it took effect.
- `RawMirrorWhole`: mirrored blocks are mirrored whole, without a gap.

Read models: `ReadyMeansExact` (models stamped at the cursor are what a rebuild
would give), `DriftRepaired` (consuming drift leaves every dependent model exact).

Node access: `DeliveredInOrder`, `WindowAccounted` (the receiver never waits for a
height that nobody fetches), `CatchesUp` in `RpcClient`; `NoLostWakeup`,
`AnnouncedIsAsked`, `NotifierFindsSeed` in `TipNotifier`.

## 4. Runs

Ingest runs: a chain of 8 blocks (6 in the violation runs), a streaming
batch of 2, bulk windows of 3 and a bulk threshold of 3. A catch-up then takes two
bulk windows, the second prefetched, and ends in bulk or with a streamed rest;
prefetched windows are used, fail and are discarded. The activation height is 4,
so windows before, across and after it occur; it is 6 in the liveness run, for a
database that an older release left above the activation is refused for good. Up to
three faults occur in one behaviour: a lost answer, the failure that hides it,
and a crash on top.

| Run | Question | Faults |
|---|---|---|
| `IngestExactlyOnce` | exactly once, no rewind | all but an unreadable cursor and a Postgres crash under the process; the endpoint may lag |
| `IngestProjections` | stamped means fresh, never twice, no block left out but a lost one, no hole in the coverage; also on older databases | all, Postgres restarts included, but a lost commit answer and an unreadable cursor |
| `IngestLiveness` | catches up, projections return, what a bounded run leaves | faults that pass |
| `IngestUnreadableCursor` | (violation) a block applied twice | a lost answer, an unreadable cursor |
| `IngestLostWindow` | (violation) a lost window that nothing indexes again | a Postgres crash under the process |
| `NativeEvidence` | is complete evidence current, ever ahead, and are receipts requested, retired and kept rightly | crashes of the host and of Postgres, stops, failed writes and seeds, an unacknowledged seed, reprocessing, reconciliation |
| `NativeReturns` | does evidence return | stops, failed writes and seeds, an address whose queries fail for ever |
| `BlockEvents` | do ledger, inventory, snapshots, timelines, error rows and mirror end up as the chain says | a failing handler, commit, fetch or log row, a crash; two runs of the maintenance commands |
| `RpcClient` | in order, once, nothing forgotten; is every block handed on in the end | one of: a node fails, answers for another chain, refuses; the preferred one may stay down |
| `TipNotifier` | is a published block asked for without the poll timer, is the seed found | two of: a node fails, a connection breaks |
| `ReadModel` | are stamped models exact, does drift repair | one of: a crash, a sweep, a reconciliation, a reprocessing, a wrong row |
| `ReadModelReprocessed` | (violation) stamped models that nobody rebuilt | a crash and a reprocessing |

Why the bounds are enough:

- *NativeStaking*: three blocks. The shortest race needs a query at `h`, a block
  `h+1` that changes the pool, and the publication; `MaxLag = 2` leaves an unindexed
  block behind the next one. `NativeEvidence` has two validators, so that a
  watermark of the wrong one is not enough, and one address, because no
  condition of the store relates two. The activation height is 2, so a loop that
  finds a window lost stops at the coverage; where it would not, `Gapless` makes the
  three properties about evidence say nothing. `NativeReturns` has two addresses in one
  batch, which may end after the first, so that the broken one competes with
  the other.
- *BlockEvents*: two chains of three blocks. `Economy` has every movement of coins
  with its staking states and one message that wraps two redelegations from the
  same validator; `World` has generators, grid, timelines, revisions with a reset
  and unknown keys. Three heights give an old block, the block of the cursor
  and one to come; windows of two put a boundary inside and outside a window.
  `Inherits` are databases of an older release that lost nothing, or one event,
  and positions written before phases were recorded.
- *ReadModel*: two guilds, two players, three addresses; any two events in any
  split over blocks and windows. Dependencies are at most guild, holder,
  player, guild long, and two worlds start from memberships, holdings and pools that
  make each of them reachable.
- *RpcClient*: two endpoints, two blocks, two workers. Reordering needs two heights in
  one window; failover two endpoints; one fault, because the cached answers it
  leaves steer all requests after it.
- *TipNotifier*: two endpoints, three blocks, two faults: a publication while another
  waits in the channel, and a rotation there and back.

Deadlock is checked except where the system may stop: `GuardReplay` may refuse
to start, a bounded run ends, and in the modules that follow a bounded chain it
ends and nothing is left to do.

Fairness. `Ingest`: weak fairness of the process's own steps and of the prefetch.
The Go runtime schedules both, each wait in the loop has a timer, and the
container's supervisor starts a process that ended. Commits, `/status` and
fetches may fail `MaxFaults` times in all, not for ever; handler errors and
bundles that the node rejects come back with their block and would stop the index
for good, so the liveness run leaves them out.
`NativeStaking`: weak fairness of the block transactions and of the rebuild (the
loop runs on), of the seed, of selecting a batch and of the steps of an item (the
worker wakes every second), of `Expire` (time passes) and of `Start`; strong
fairness of a successful query, per address that is not broken: a gateway that
is asked again and again answers once.
`RpcClient`: weak fairness of the loop and of each worker, of the nodes that are up,
and of the return of the last endpoint only; no other node has to come back.
`TipNotifier`: weak fairness of the notifier's timers and of the loop *without* its
poll timer, so that the liveness does not rest on polling.

Behaviours left out of passing runs. For the first two the code's comments promise
more than it does, and the models show what happens instead:

- an asynchronously committed window lost in a restart of Postgres that the
  process survives. `sync/syncer.go:152-153` says that operators expect ingest to
  heal by itself across such restarts, `sync/bulkwindow.go:80-81` that the next start
  replays lost windows from the cursor. But `next` only moves forward
  (`sync/syncer.go:176`), so the window stays out until the coverage watermark refuses
  a block behind it, from the activation height on. `IngestLostWindow` shows it
  (section 5). `IndexedExactlyOnce` and `CursorNeverRewinds` are checked without it;
  `AppliedOnce`, `ImplementsIndexedChain` and `CoverageHasNoHole` with it; the native
  evidence with it, where the coverage has begun;
- a commit whose answer is lost while projections are deferred: the deferral is
  remembered after an acknowledged commit (`sync/bulkwindow.go:164-167`), and the loop
  goes on as if its projections were current, although such a failure is one that
  `recoverFromTransient` is there for. The next streaming block stamps the models
  over rows that nobody rebuilt, and the projection gate of the next start finds them
  current. `ReadyMeansFresh` and `ProjectionsReturn` are checked without lost answers;
- a seed whose commit fails: `return true, tx.Commit(ctx)` (`sync/native.go:84`)
  counts it as done until the process restarts. Nothing was written, so no candidate
  gets a row by it, and receipts of an earlier release get no bound. No property
  promises the rows; the safety of the evidence and of the receipts is checked with
  the fault, `EvidenceReturns` speaks of addresses that have a row;
- players deleted while they are members (`DeleteMembers = FALSE`): `EventDelete` of a
  player marks the player alone (`events/delete.go:116-120`), and its guild and
  substation keep their counts until the next event that marks them. Whether the
  chain ever deletes a member cannot be seen from this repository;
- an infusion that a release without positions lost in the last block it indexed:
  its replay is skipped, for the whole block counts as applied
  (`events/infusion.go:85-88`), and its error row is resolved. `InheritAssumption`
  excludes it;
- an endpoint that answers requests but whose tip stays old in the cache: every
  answer renews the age of the cached `/status` (`rpc/client.go:194-210`), so that a
  seed may be passed over for a height (`skipForHeight`) for as long as it is
  asked for older ones. `CatchesUp` shows that the next `/status` ends it.

## 5. Findings

The violation runs show behaviours that contradict what the code's own
comments and runbooks say.

1. *A block applied twice* (`IngestUnreadableCursor`). A commit goes through, its
   answer is lost, and the cursor cannot be read after the backoff
   (`sync/syncer.go:176`): `next` stays, and nothing afterwards compares it with
   the cursor again.
2. *Stamped without a rebuild* (`ReadModelReprocessed`). `replayHeight` stamps every
   model at the cursor (`reprocess/reprocess.go:272`) though it recomputed only what
   its events marked. After a crash of a catch-up with deferred projections the
   next start finds all stamps current and streams on rows nobody rebuilt; the
   reprocessing command does what `readmodel/drift.go:119-120` says a partial repair
   must not.
3. *A lost window* (`IngestLostWindow`). Postgres restarts between two windows and loses
   the one it committed last. The process survives, finds the cursor behind its `next`
   and keeps `next` (`sync/syncer.go:173-178`). Below the activation height nothing
   refuses the next window; it moves the cursor past the lost one, and the next start
   begins behind it, too. `sync/syncer.go:152-153` and `sync/bulkwindow.go:80-81` say that
   lost windows are indexed again.

## 6. Proofs

`IngestProofs` proves, from `IngestAssumption` (the constants are numbers, sizes
are positive, `-start` is not below what the node serves, inherited cursors are
heights it serves):

- `TypeCorrect`: `Spec => []TypeOK`. The inductive invariant adds where a window
  lies (`WindowOK`): `next` is positive while the process runs, a planned window
  does not end before it begins, the streaming position is inside its window.
- `ExactlyOnce`, `NeverRewinds`, for a reliable process
  (`Reliable`: no replay, the cursor can be read, Postgres does not restart under
  the process). `IndexedExactlyOnce` is not inductive: a step that applies
  `[next..end]` keeps it only if `next` is the height after the cursor. `Position`
  says so for each point of the loop, with `next <= Following(db)` in recovery,
  where a commit may be in that the process does not know of; and `disk` has to be
  exact as well, because a crash of the host brings it back (`IndexInv`). Every
  step changes the index in one of three ways (`IndexChange`), which gives the
  action property.
- `CoverageComplete`: `Spec => []CoverageHasNoHole` without any assumption about
  faults, and for deliberate replays (`SYNC_ALLOW_REPLAY` with a start override),
  which no run has. `CoverageInv` covers both images of the database; the heart is
  `ApplyBlocksCovered`: a window accepted by `RecordEconomyCoverage` reaches the
  watermark or begins at the activation, even when it starts below the cursor.

The second half of the module goes on from there:

- `NeverTwice`: `AppliedOnce` with Postgres restarting under the process, for a
  process that finds its place again (`FindsItsPlace`: no replay, a readable
  cursor). Committed windows may then be lost, so that nothing exact holds of the
  index; `OnceInv` keeps, for both images, that nothing above the cursor was
  applied, and that `next` is above both cursors wherever it is about to be used.
- `ImplementsChain`: `Spec => ImplementsIndexedChain`, under the same hypothesis, Postgres
  restarts included. `PlaceInv` adds to `OnceInv` what makes the greater of `next` and
  the height after the cursor the writer's place at every point of the loop: the
  window it is about to apply begins there. `PlaceStep` then maps each step to an
  `Append`, a `Lose`, a `Restart` or a stutter.
- `ReadyIsFresh`: `ReadyMeansFresh`, if no lost commit answer hides a deferral
  (`DeferralsAnswered`, the gap named in section 4). A stamp at the cursor is not
  enough for an inductive statement, because a crash of Postgres goes back to another
  image, and because the loop decides by its own `stale`, not by the table.
  `ReadyInv` says that a stamp at the cursor means fresh in both images, that the
  image a crash falls back to is stamped whenever the tables are, and that a loop
  past the projection gate that knows of no deferral has stamped tables.
- `DoneIsReady`: `DoneMeansReady`, with `Reached` (what `Finish` tests stays true,
  for nothing but the process writes) beside `IndexInv` and `ReadyInv`.

`NativeProofs` proves, from `NativeAssumption` (finite sets of addresses and
validators, positive bounds) and for every fault and every kind of block:

- `TypeCorrect`: `Spec => []TypeOK`.
- `EvidenceCurrent`, `InventoriesCurrent`, `NeverAhead`: `EvidenceIsCurrent`,
  `ShownIsCurrent`, `EvidenceNeverAhead`, the first two in states without a gap
  (`Gapless`), which is part of their statement. `EvidenceIsCurrent` is not inductive: it
  speaks of the chain at the cursor, and the store only keeps heights. `Inv`
  connects the two. `Attributed`, of the chain: a claim that no block touches
  between two heights is the same at both (`NextBlocksName`, for every kind of
  block). `Sound`, of both images of the database: evidence is the state of the
  chain at its source (`Sourced`); every indexed event left its height in a
  requirement (`Named`) or a watermark (`Marked`); evidence that satisfies its
  requirement (`Fresh`), and evidence that is shown (`Shown`), is untouched up to the
  cursor; nothing is above the cursor (`Behind`). `Shown` is its own conjunct
  because receipts raise a requirement without making what is shown wrong. The
  two steps that matter are `NextHeld` and `StreamSound`, where a new block either
  leaves a claim untouched or raises its requirement, and `PublishedSound`, where
  the conditions of the `UPDATE` and `Named` and `Marked` say that nothing between
  the fetched height and the cursor touched the claim. All other steps only
  invalidate (`Invalidates`: know no more, require no less).

What the environment is trusted with is in `Names`: a block's events name what it
changes, or say that they cannot.

`ReceiptProofs` adds to `Inv` of `NativeProofs`:

- `RequestsStand`, `RetiredForGood`, `OpenReceiptsHeld`: `ReceiptsAreRequested`,
  `RetiredMeansGone`, `OpenMeansHeld`. `ReceiptInv` relates a receipt to the
  chain's unbonding groups at the heights where the two met (`Settled`, of both
  images): its bound, which the row requires; the source of the row's evidence,
  where the chain had the group if the receipt is open and nothing is asked for;
  its retirement, where the chain had it no more. `GroupsKept`, of the chain,
  carries this to the cursor: a group that is gone does not come back, and none
  changes that no event names. The step that matters is `Publish`, which compares
  a receipt with an answer that may be older or newer than the receipt's block.
- `ReplayKeeps`: `ReplayKeepsNewerEvidence`, an action property: the invalidation of
  an old height raises no requirement above it.

`ReadModelProofs` proves, from `ReadModelAssumption` (disjoint finite sets of
identifiers, inherited tables of the right type):

- `TypeCorrect`: `Spec => []TypeOK`.
- `StampedModelsExact`, `DriftIsRepaired`: `ReadyMeansExact` and `DriftRepaired`, if
  players are not deleted while they are members (`~DeleteMembers`) and
  nothing is reprocessed on projections that were left behind
  (`~ReprocessUnready`): the two settings that sections 4 and 5 are about.
  `ReadyMeansExact` speaks of the state between transactions. `Exact` says what holds
  inside one: the marks cover every row whose inputs differ between the committed
  tables and the transaction's own (`Covers`), and the inventory deltas are what
  the ledger moved by (`Booked`). Each handler keeps both (the lemmas `...Tracked`):
  this is where a forgotten mark would show. `ExpandReach` says that `Expand` reaches
  every row that reads a marked one, through addresses, guilds and holders, and
  `RecomputedNear` that recomputing those rows gives what `Expected` gives. Outside
  of transactions stamped models are `Near`: exact but for rows that went wrong
  by themselves and the rows that depend on these, which is what lets drift
  and ordinary blocks interleave.

`RpcProofs` proves, from `NodeAssumption` (a positive number of workers, blocks and
endpoints):

- `TypeCorrect`: `Spec => []TypeOK`.
- `WindowIsAccounted`, `DeliveryInOrder`: `WindowAccounted` and `DeliveredInOrder`. The
  inductive invariant `Inv` says where each height of the window is: not yet
  launched, with exactly one worker, put aside, or handed on (`Progress`); that
  nothing is left of a window when none is fetched (`AtRest`); and that what was
  handed on is `1..LastDelivered` in order. Order alone is not inductive: an
  answer put aside twice, or launched again after it was handed on, would break
  it one step later.

`NotifierProofs` proves, from `NotifierAssumption` (positive bounds), for any number
of endpoints:

- `TypeCorrect`: `Spec => []TypeOK`; the part worth having is that a frame on its way
  and a silent subscription belong to an open connection.
- `NoWakeupLost`: `Spec => []NoLostWakeup`. It is inductive beside the types: `Publish`
  sets both sides, only `TipWake` empties the channel, and it goes straight to a
  `/status`; a full channel absorbs a publication without losing it.

`BlockProofs` proves, from `BlockAssumption`, `FeedAssumption` and
`ChainAssumption` (a positive number of micro coins to the coin), for every chain,
every fault and all three commands:

- `TypeCorrect`: `Spec => []TypeOK`; `MirrorIsWhole`: `RawMirrorWhole`.
- `TimelinesAreDense`: `SequencesAreDense`. A handler that fails halfway and is rolled
  back, a replay of a height that is there already and the shift of positions
  that carry no phase neither skip a number nor use one twice.
- `InventoryIsSummed`: `InventoryIsLedger`, for every ledger and every set of flushed
  rows, the ones that are there already included.
- `AttacksAreRecorded`, `ResolvedMeansDone`: `TimelineComplete` and
  `ResolvedTookEffect`. Neither is inductive. The first speaks of a log without
  open errors, so the invariant has to say what an open error stands for: every
  attack of an indexed block is on its timeline or has a row in the error log
  (`CoveredOrLogged`), and a row is resolved only when its event took effect
  (`LogOK`). Error rows are written after the commit, one by one, and rows are
  resolved after the replay's commit, so both reach into the running command:
  what its transaction holds beyond the tables (`InWindow`), and that the events
  of the ids it still has to resolve took effect already (`CommandOK`).

`Inv` is the conjunction of these (`CommittedOK`, `CommandOK`, `WindowOK`). The steps
that matter are `ReplayHeightInv`, where a replay that ends without an error makes the
events of its rows take effect, and `ReconcileInv`, where a block that is there is
applied again. A block is a fold over its events, and an inventory is a sum
over a set of rows; the library's induction theorems take an operator, which the
provers cannot instantiate. The proofs use well-founded induction over a *set* of
numbers instead: `FoldExists` shows that the recursive function of a fold over the
first `n` events exists, `FoldChain` that its values are a chain of single steps, and
an invariant of a step is then an invariant of the block. `SumOrder` and `TotalUnion`
do the same for sums.

`LedgerProofs` goes on, from `PlaceAssumption`, `InheritAssumption` and
`ShownAssumption` besides, for every chain, older database, fault and command:

- `EconomyNewest`, `InfusionNewest`: `EconomyIsNewest` and `InfusionIsNewest`.
- `BooksKept`: once no error is left, every balance of the ledger is `Booked`: the sum
  of the rows that the bank processing and the handlers write for each indexed
  block, each counted once, and the fuel of the newest infusion. Whatever failed, was
  rolled back, retried, replayed or reconciled leaves nothing out and doubles nothing.
- `LedgerMatches`: `LedgerMatchesChain`, for every chain that satisfies `BooksMatch`:
  the rows of its blocks come to what its operations did to balances. This is a
  statement about the constants, how bank rows and handler rows share one movement
  (`TransferOverlap`), in which no error, replay or crash occurs any more. It is a
  hypothesis and not an assumption of the module, for it is what the code has to get
  right: the mutant of `LedgerMatchesChain` breaks `BooksMatch`. On the chains of the
  run the two say the same: the run reaches clean states at every cursor, where by
  `BooksKept` the ledger is `Booked`, and finds it equal to the chain's balances.

These properties speak of tables without open errors and say nothing about the steps
that lead there; the inductive invariant is `Stock` (`StockHolds`), beside `Inv`.
TLC checked it on all states of the `BlockEvents` run before it was proved. It
says, of the committed tables (`StoreOK`):

- everything comes from an event (`Good`): a revision in force is the one its stored
  position names and lies after the watermark of resets; the fuel of a funder is that
  of an event at the stored position, also where an older release wrote it without a
  phase or not at all (`Anchor`), and the funder's rows sum to it; a ledger row is one
  of a bank event, of a handler, or of an infusion that was taken in;
- every event of an indexed block was taken in (`Took`) or has an error row
  (`FullOrLogged`). To be taken in does not mean to be stored: a revision is taken in
  when it, or a later one, or a later reset is there. This is what a replay that
  arrives late needs, and why skipping it is right;
- the event of a resolved row was taken in (`Settles`).

Rows are resolved one by one after the replay's commit, so `SettlingOK` says the last
of the ids still to resolve; a window's transaction holds more than the tables, so
`GrowingOK` says it of the transaction, and that it forgets nothing that the tables
had taken in (`Keeps`). Each handler keeps `Good`, keeps what was taken in, and takes
in its own event, or reports an error and changes nothing; the fold over a block,
the flush and the commands carry that. The steps that matter are `InfusionEntered`
(the rows of a new snapshot are the difference to the stored one, so sums stay
equal to the fuel whatever was skipped), `ResetEconomy` (a reset removes what is
before it and leaves a watermark that keeps old revisions away) and `AnchorSame` (the
stored fuel has one event, whatever form its position has). In a clean
state no error row is open, so `CleanTables` turns `FullOrLogged` into "every event
was taken in", and the newest of them is what is stored.

Model-checked only: the liveness properties, which are out of reach of the prover,
and `BooksMatch`, of each chain, as said above. `BooksMatch` sums over recursive folds of
operations (`OpsUpTo`, `Balance`); to prove it for every chain takes an induction over
the operations of a block, through the events they emit and the correlation of all
those of one message.

## 7. Not modelled

- The writer lock and the pool (`db/pool.go`): an advisory lock of Postgres excludes
  a second writer while its session lives. The models assume one writer;
  a session that is lost while the process goes on is not modelled.
- Payload parsing (`payload/`), decoding and paging of the LCD client: no state.
- `verify`, `doctor`, schema checks: read-only reports and idempotent DDL.
- SQL schema, fixtures and repair scripts, migrations: modelled where Go code uses
  them, as external definitions.
- `src/update-cache` and the container scripts: separate programs that start things
  in order and share no state with `sync-state`.
- `api_work`, which a database function refreshes; the rows of the genesis document
  (the gate and its crash are in `Ingest`); the comparison of a sweep with the LCD
  snapshot; dry runs.
- Handlers that upsert one row from one event, on which no other state depends
  (struct, fleet, planet, permission and others).
- The matching of redelegation receipts by endpoint, and the arithmetic of totals
  (`staking/positions.go`).

## 8. Plan

1. `BooksMatch` for every chain: a lemma per kind of operation, that the rows of its
   events sum to its effect on balances, and that operations of different messages do
   not disturb each other's correlation.
2. The boundary check of the sweeps, and redelegation receipts.
3. The writer lock with sessions that break.
