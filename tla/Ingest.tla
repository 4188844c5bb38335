------------------------------- MODULE Ingest -------------------------------
(***************************************************************************)
(* The ingest process of sync-state (src/sync-state/internal/sync): the    *)
(* startup gates of runIngest, the loop of Syncer.Run with its streaming   *)
(* and bulk windows and its one-deep prefetch, the per-block and           *)
(* per-window transactions, recovery from transient failures, and the      *)
(* crashes of the process, of Postgres and of the host.                    *)
(*                                                                         *)
(* A block is its height: the chain is final, so a height has one content. *)
(* The database is the record db; disk is the image that a crash of        *)
(* Postgres falls back to, behind db only after a window that committed    *)
(* with synchronous_commit = off.                                          *)
(***************************************************************************)
EXTENDS Integers

CONSTANTS
    MaxHeight,             \* bound: the highest block the chain produces
    Earliest,              \* the first height the node still serves
    TipSkew,               \* how far the endpoint that answers /status may lag
    StartHeight,           \* -start override, 0 = none
    Inherited,             \* cursors of the databases an older release left
    StopHeight,            \* -stop, 0 = none
    OneShot,               \* -one-shot
    AllowReplay,           \* SYNC_ALLOW_REPLAY
    BatchSize,             \* -batch, blocks per streaming window
    BulkEnabled,           \* -bulk-enabled
    BulkWindow,            \* -bulk-window
    BulkLagThreshold,      \* -bulk-lag-threshold
    BulkAsyncCommit,       \* -bulk-async-commit
    BulkDeferProjections,  \* -bulk-defer-projections
    SyncingLag,            \* the lag above which ComputeStatus says catching_up
    Activation,            \* protocol.V022TestnetHeight
    Faults,                \* the kinds of fault the environment may inject
    MaxFaults,             \* bound: faults injected in one behaviour
    MaxCopies              \* bound: copies of a block when AllowReplay is unset

FaultKinds == { "status_fails", "rpc_fails", "rpc_rejects", "tx_fails",
                "commit_unknown", "handler_error", "cursor_unreadable",
                "process_crash", "postgres_crash", "host_crash" }

ASSUME IngestAssumption ==
    /\ MaxHeight \in Nat \ {0}
    /\ Earliest \in 1..MaxHeight
    /\ StartHeight \in 0..MaxHeight
    /\ StartHeight = 0 \/ StartHeight >= Earliest
    /\ Inherited \subseteq {0} \cup Earliest..MaxHeight
    /\ StopHeight \in 0..MaxHeight
    /\ BatchSize \in Nat \ {0}
    /\ BulkWindow \in Nat \ {0}
    /\ BulkLagThreshold \in Nat
    /\ SyncingLag \in Nat
    /\ Activation \in Nat \ {0}
    /\ TipSkew \in Nat
    /\ MaxFaults \in Nat
    /\ MaxCopies \in Nat
    /\ {OneShot, AllowReplay, BulkEnabled, BulkAsyncCommit, BulkDeferProjections}
           \subseteq BOOLEAN
    /\ Faults \subseteq FaultKinds

VARIABLES
    tip,     \* the newest block of the chain
    db,      \* what the database shows to a reader
    disk,    \* what a crash of Postgres preserves
    pc,      \* where the process is, "off" when it is not running
    next,    \* Run: the next height to index
    seen,    \* the tip of the last /status answer
    stale,   \* Syncer.projectionsStale
    win,     \* the window being fetched or applied
    pre,     \* the prefetched window
    faults   \* faults injected so far

vars == <<tip, db, disk, pc, next, seen, stale, win, pre, faults>>

-----------------------------------------------------------------------------
(* The database. rows[h] counts how often the append-only rows of block h  *)
(* were committed; block_log has a row for h exactly when it is positive.  *)
(* stamp is the height at which every api_* model is marked refreshed, and *)
(* fresh says that the projections really follow from the indexed state.   *)

Heights == 1..MaxHeight
NoStamp == -1
Statuses == {"none", "current", "syncing", "catching_up", "stalled"}

Database ==
    [cursor : 0..MaxHeight, status : Statuses, tip : 0..MaxHeight,
     rows : [Heights -> Nat], coverage : 0..MaxHeight,
     stamp : {NoStamp} \cup 0..MaxHeight, fresh : BOOLEAN, genesis : BOOLEAN]

\* where indexing of an empty database starts
First == IF StartHeight > 0 THEN StartHeight ELSE Earliest

\* The database at startup: empty, or indexed up to c by a release that kept
\* neither the economy coverage nor the stamps.
InitialDatabase(c) ==
    [cursor   |-> c,
     status   |-> IF c = 0 THEN "none" ELSE "current",
     tip      |-> c,
     rows     |-> [h \in Heights |-> IF h \in First..c THEN 1 ELSE 0],
     coverage |-> 0, stamp |-> NoStamp, fresh |-> FALSE, genesis |-> c > 0]

\* the height that follows the indexed blocks
Following(d) == IF d.cursor = 0 THEN First ELSE d.cursor + 1

\* block_log reaches above the cursor
LoggedBeyondCursor(d) == \E h \in Heights : h > d.cursor /\ d.rows[h] > 0

ComputeStatus(height, t) ==
    IF t - height <= 1 THEN "current"
    ELSE IF t - height <= SyncingLag THEN "syncing"
    ELSE "catching_up"

\* an UPDATE of the cursor row: nothing to update before the first block
SetStatusOnly(d, status, t) ==
    IF d.cursor = 0 THEN d ELSE [d EXCEPT !.status = status, !.tip = t]

\* readmodel.Backfill at the cursor
Backfilled(d) == [d EXCEPT !.stamp = d.cursor, !.fresh = TRUE]

\* readmodel.NeedsBackfill at the cursor
NeedsBackfill(d) == d.stamp # d.cursor

\* an out-of-band repair of projection inputs: readmodel.Invalidate
Invalidated(d) == [d EXCEPT !.stamp = NoStamp, !.fresh = FALSE]

V022Active(h) == h >= Activation

\* slip: coverage records whatever block comes
AnyCoverage(covered, h) == TRUE

\* db.RecordEconomyCoverage: coverage starts at the activation block and
\* moves on one block at a time, or stays on a repeated block
CoverageAccepts(covered, h) ==
    V022Active(h) => IF covered = 0 THEN h = Activation ELSE covered \in {h - 1, h}

\* the coverage row that block h of the transaction lo..hi reads
CoverageBefore(covered, lo, h) ==
    IF h > lo /\ V022Active(h - 1) THEN h - 1 ELSE covered

WindowCovered(d, lo, hi) ==
    \A h \in lo..hi : CoverageAccepts(CoverageBefore(d.coverage, lo, h), h)

\* the append-only rows of lo..hi, written once more
Appended(rows, lo, hi) ==
    [h \in Heights |-> IF h \in lo..hi THEN rows[h] + 1 ELSE rows[h]]

CoverageAfter(covered, hi) == IF V022Active(hi) THEN hi ELSE covered

\* the effect of applyBlockInTx for lo..hi in one transaction at tip t; with
\* deferral the api_* recompute of the dirty rows is skipped, and so is the stamp
ApplyBlocks(d, lo, hi, t, defer) ==
    [cursor |-> hi, status |-> ComputeStatus(hi, t), tip |-> t,
     rows |-> Appended(d.rows, lo, hi), coverage |-> CoverageAfter(d.coverage, hi),
     stamp |-> IF defer THEN d.stamp ELSE hi, fresh |-> d.fresh /\ ~defer,
     genesis |-> d.genesis]

-----------------------------------------------------------------------------
(* Process state.                                                          *)

\* at is the next block of a streaming window, the first one of a bulk window
Windows == [end : 0..MaxHeight, tip : 0..MaxHeight, at : 0..MaxHeight + 1]
Prefetches ==
    [start : 0..MaxHeight, end : 0..MaxHeight, tip : 0..MaxHeight,
     result : {"none", "pending", "ok", "err"}]

NoWindow == [end |-> 0, tip |-> 0, at |-> 0]
NoPrefetch == [start |-> 0, end |-> 0, tip |-> 0, result |-> "none"]

\* Type invariant of the database, its durable image and the process: every
\* planned window ends within the chain.
TypeOK ==
    /\ tip \in Heights
    /\ db \in Database
    /\ disk \in Database
    /\ pc \in {"off", "sweep", "projections", "status", "plan", "fetch",
               "apply", "stream", "recover", "done"}
    /\ next \in 0..MaxHeight + 1
    /\ seen \in 0..MaxHeight
    /\ stale \in BOOLEAN
    /\ win \in Windows
    /\ pre \in Prefetches
    /\ faults \in 0..MaxFaults

Init ==
    /\ tip \in Heights
    /\ \E c \in Inherited : (c = 0 \/ c >= First) /\ db = InitialDatabase(c)
    /\ disk = db
    /\ pc = "off"
    /\ next = 0
    /\ seen = 0
    /\ stale = FALSE
    /\ win = NoWindow
    /\ pre = NoPrefetch
    /\ faults = 0

Inject(kind) ==
    /\ kind \in Faults
    /\ faults < MaxFaults
    /\ faults' = faults + 1

\* the process ends and its memory is gone
Exit(to) ==
    /\ pc' = to
    /\ next' = 0
    /\ seen' = 0
    /\ stale' = FALSE
    /\ win' = NoWindow
    /\ pre' = NoPrefetch

\* back to the top of the loop
Continue ==
    /\ pc' = "status"
    /\ seen' = 0
    /\ win' = NoWindow

\* a synchronous commit, which also makes every earlier commit durable
Commit(d) == db' = d /\ disk' = d

Lowest(a, b) == IF a <= b THEN a ELSE b
Highest(a, b) == IF a >= b THEN a ELSE b

\* what /status may answer: an endpoint may be TipSkew blocks behind
StatusAnswers == Highest(1, tip - TipSkew)..tip

-----------------------------------------------------------------------------
(* Startup: runIngest.                                                     *)

ResolveStart(d) ==
    IF StartHeight > 0 THEN StartHeight
    ELSE IF d.cursor > 0 THEN Highest(d.cursor + 1, Earliest)
    ELSE Earliest

\* SYNC_ALLOW_REPLAY is set, and the operator has not unset it yet
Replaying(d) == AllowReplay /\ \A h \in Heights : d.rows[h] < MaxCopies

\* GuardReplay accepts start and the process begins at granted
GuardReplay(d, start, granted) ==
    LET Unindexed == start > d.cursor /\ \A h \in Heights : d.rows[h] > 0 => h < start
    IN  \/ (Unindexed \/ Replaying(d)) /\ granted = start
        \/ /\ ~Unindexed /\ ~Replaying(d)
           /\ ~LoggedBeyondCursor(d)
           /\ granted = d.cursor + 1

\* /status, the writer lock, CheckReorg, the start height and, for a chain
\* read from its first block, the genesis import
Boot ==
    /\ pc = "off"
    /\ \E granted \in 1..MaxHeight + 1 :
         /\ GuardReplay(db, ResolveStart(db), granted)
         /\ next' = granted
         /\ IF ~db.genesis /\ granted <= 1
              THEN Commit([Invalidated(db) EXCEPT !.genesis = TRUE])
              ELSE UNCHANGED <<db, disk>>
    /\ pc' = "sweep"
    /\ seen' \in StatusAnswers
    /\ UNCHANGED <<tip, stale, win, pre, faults>>

\* the canonical sweeps, which invalidate the projections if they change a row
Sweep ==
    /\ pc = "sweep"
    /\ Commit(Invalidated(db)) \/ UNCHANGED <<db, disk>>
    /\ pc' = "projections"
    /\ UNCHANGED <<tip, next, seen, stale, win, pre, faults>>

\* db.RequireEconomyCoverage
CoverageMatches(d) == V022Active(d.cursor) => d.coverage = d.cursor

\* rebuild the projections now, or leave that to the end of the catch-up
PrepareProjections ==
    LET defer == /\ NeedsBackfill(db) /\ BulkEnabled /\ BulkDeferProjections
                 /\ seen - db.cursor >= BulkLagThreshold
    IN  /\ pc = "projections"
        /\ CoverageMatches(db)
        /\ IF NeedsBackfill(db) /\ ~defer
             THEN Commit(Backfilled(db))
             ELSE UNCHANGED <<db, disk>>
        /\ stale' = defer
        /\ pc' = "status"
        /\ seen' = 0
        /\ UNCHANGED <<tip, next, win, pre, faults>>

RefuseCoverage ==
    /\ pc = "projections"
    /\ ~CoverageMatches(db)
    /\ Exit("off")
    /\ UNCHANGED <<tip, db, disk, faults>>

-----------------------------------------------------------------------------
(* Run, the top of the loop.                                               *)

ReadStatus ==
    /\ pc = "status"
    /\ seen' \in StatusAnswers
    /\ pc' = "plan"
    /\ UNCHANGED <<tip, db, disk, next, stale, win, pre, faults>>

\* slip: the newest block is left for the next round
TargetBehind == IF StopHeight > 0 /\ StopHeight < seen THEN StopHeight ELSE seen - 1

Target == IF StopHeight > 0 /\ StopHeight < seen THEN StopHeight ELSE seen
Idle == next > Target
UseBulk == BulkEnabled /\ Target - next + 1 >= BulkLagThreshold

\* ensureProjections has work to do before this iteration goes on
RebuildDue == pc = "plan" /\ stale /\ (Idle \/ ~UseBulk)

\* a prefetched window is discarded before an idle iteration does anything else
KeptPrefetch == IF Idle THEN NoPrefetch ELSE pre

RebuildProjections ==
    /\ RebuildDue
    /\ Commit(Backfilled(db))
    /\ stale' = FALSE
    /\ pre' = KeptPrefetch
    /\ UNCHANGED <<tip, pc, next, seen, win, faults>>

\* wait for a new block; the status of the cursor is updated if it can be
IdleAtTip ==
    /\ pc = "plan" /\ Idle /\ ~stale
    /\ ~OneShot /\ ~(StopHeight > 0 /\ next > StopHeight)
    /\ \/ /\ Commit(SetStatusOnly(db, ComputeStatus(next - 1, seen), seen))
          /\ UNCHANGED faults
       \/ /\ Inject("tx_fails")
          /\ UNCHANGED <<db, disk>>
    /\ Continue
    /\ pre' = NoPrefetch
    /\ UNCHANGED <<tip, next, stale>>

\* slip: exit without waiting for the rebuild
FinishAtOnce ==
    /\ pc = "plan" /\ Idle
    /\ OneShot \/ (StopHeight > 0 /\ next > StopHeight)
    /\ Exit("done")
    /\ UNCHANGED <<tip, db, disk, faults>>

Finish ==
    /\ pc = "plan" /\ Idle /\ ~stale
    /\ OneShot \/ (StopHeight > 0 /\ next > StopHeight)
    /\ Exit("done")
    /\ UNCHANGED <<tip, db, disk, faults>>

\* slip: the window is not clamped to the target
UnclampedEnd(size) == next + size - 1

WindowEnd(size) == Lowest(next + size - 1, Target)

\* the window [next .. end]; a streaming window drops what was prefetched
BeginWindow ==
    /\ pc = "plan" /\ ~Idle
    /\ stale => UseBulk
    /\ LET size == IF UseBulk THEN BulkWindow ELSE BatchSize
       IN  win' = [end |-> WindowEnd(size), tip |-> seen, at |-> next]
    /\ IF UseBulk
         THEN pc' = "fetch" /\ UNCHANGED pre
         ELSE /\ pre.result # "pending"
              /\ pc' = "stream"
              /\ pre' = NoPrefetch
    /\ UNCHANGED <<tip, db, disk, next, seen, stale, faults>>

-----------------------------------------------------------------------------
(* Fetching. A prefetched window is used if it is the one planned now.     *)

Prefetched == pre.result # "none" /\ pre.start = next /\ pre.end = win.end

PrefetchSettles ==
    /\ pre.result = "pending"
    /\ \/ pre' = [pre EXCEPT !.result = "ok"] /\ UNCHANGED faults
       \/ pre' = [pre EXCEPT !.result = "err"] /\ Inject("rpc_fails")
    /\ UNCHANGED <<tip, db, disk, pc, next, seen, stale, win>>

FetchBulkWindow ==
    /\ pc = "fetch"
    /\ \/ Prefetched /\ pre.result = "ok" /\ win' = [win EXCEPT !.tip = pre.tip]
       \/ ~Prefetched /\ pre.result # "pending" /\ UNCHANGED win
    /\ pre' = IF win.end < Target
                THEN [start |-> win.end + 1, end |-> Lowest(win.end + BulkWindow, Target),
                      tip |-> seen, result |-> "pending"]
                ELSE NoPrefetch
    /\ pc' = "apply"
    /\ UNCHANGED <<tip, db, disk, next, seen, stale, faults>>

-----------------------------------------------------------------------------
(* Applying.                                                               *)

BulkApplied == ApplyBlocks(db, next, win.end, win.tip, BulkDeferProjections)
BlockApplied == ApplyBlocks(db, win.at, win.at, win.tip, FALSE)

\* slip: the deferral is not remembered
ForgetDeferral == stale

StaleAfterWindow == stale \/ BulkDeferProjections

\* applyBulkWindow: the window in one transaction
ApplyBulkWindow ==
    /\ pc = "apply"
    /\ WindowCovered(db, next, win.end)
    /\ db' = BulkApplied
    /\ disk' = IF BulkAsyncCommit THEN disk ELSE BulkApplied
    /\ stale' = StaleAfterWindow
    /\ next' = win.end + 1
    /\ Continue
    /\ UNCHANGED <<tip, pre, faults>>

\* applyBlock inside fetchWindow: one transaction per block; next moves when
\* the whole window is in
StreamBlock ==
    /\ pc = "stream"
    /\ WindowCovered(db, win.at, win.at)
    /\ Commit(BlockApplied)
    /\ IF win.at = win.end
         THEN Continue /\ next' = win.end + 1
         ELSE win' = [win EXCEPT !.at = @ + 1] /\ UNCHANGED <<pc, next, seen>>
    /\ UNCHANGED <<tip, stale, pre, faults>>

-----------------------------------------------------------------------------
(* Failures. recoverFromTransient marks the cursor stalled if it can,      *)
(* drops the prefetch and, after its backoff, reads the cursor again.      *)

\* the failed operation has left d in the database and image on disk
EnterRecovery(d, image) ==
    /\ \/ Commit(SetStatusOnly(d, "stalled", d.tip))
       \/ db' = d /\ disk' = image
    /\ pc' = "recover"
    /\ win' = NoWindow
    /\ pre' = NoPrefetch
    /\ seen' = 0
    /\ UNCHANGED <<tip, next, stale>>

StatusFails ==
    /\ pc = "status"
    /\ Inject("status_fails")
    /\ Commit(SetStatusOnly(db, "stalled", db.tip)) \/ UNCHANGED <<db, disk>>
    /\ UNCHANGED <<tip, pc, next, seen, stale, win, pre>>

FetchFails ==
    /\ \/ pc = "stream"
       \/ pc = "fetch" /\ ~Prefetched /\ pre.result # "pending"
    /\ Inject("rpc_fails")
    /\ EnterRecovery(db, disk)

\* the prefetched window is the one wanted, and its fetch failed
PrefetchFailed ==
    /\ pc = "fetch" /\ Prefetched /\ pre.result = "err"
    /\ EnterRecovery(db, disk)
    /\ UNCHANGED faults

TransactionFails ==
    /\ pc \in {"apply", "stream"} \/ RebuildDue
    /\ Inject("tx_fails")
    /\ EnterRecovery(db, disk)

\* the commit went through and the connection broke before its answer
CommitUnknown ==
    /\ Inject("commit_unknown")
    /\ \/ /\ pc = "apply" /\ WindowCovered(db, next, win.end)
          /\ EnterRecovery(BulkApplied, IF BulkAsyncCommit THEN disk ELSE BulkApplied)
       \/ /\ pc = "stream" /\ WindowCovered(db, win.at, win.at)
          /\ EnterRecovery(BlockApplied, BlockApplied)
       \/ /\ RebuildDue
          /\ EnterRecovery(Backfilled(db), Backfilled(db))

\* slip: retry the failed window from its start
RetryWindow(n) == n

\* slip: the block after the cursor counts as committed
ResumePast(n) == IF db.cursor > 0 /\ db.cursor + 1 >= n THEN db.cursor + 2 ELSE n

\* the blocks that committed before the failure are not indexed again
ResumeAt(n) == IF db.cursor > 0 /\ db.cursor + 1 > n THEN db.cursor + 1 ELSE n

RereadCursor ==
    /\ pc = "recover"
    /\ next' = ResumeAt(next)
    /\ Continue
    /\ UNCHANGED <<tip, db, disk, stale, pre, faults>>

CursorUnreadable ==
    /\ pc = "recover"
    /\ Inject("cursor_unreadable")
    /\ Continue
    /\ UNCHANGED <<tip, db, disk, next, stale, pre>>

\* an error that is not transient ends Run: a bundle that does not validate or
\* that the node no longer has, a handler error
FatalError ==
    /\ \/ /\ pc = "stream" \/ (pc = "fetch" /\ pre.result # "pending")
          /\ ~(pc = "fetch" /\ Prefetched /\ pre.result = "ok")
          /\ Inject("rpc_rejects")
       \/ (pc \in {"apply", "stream"} \/ RebuildDue) /\ Inject("handler_error")
    /\ Exit("off")
    /\ UNCHANGED <<tip, db, disk>>

\* so does a block that would leave a gap in the economy coverage
CoverageGap ==
    /\ \/ pc = "apply" /\ ~WindowCovered(db, next, win.end)
       \/ pc = "stream" /\ ~WindowCovered(db, win.at, win.at)
    /\ Exit("off")
    /\ UNCHANGED <<tip, db, disk, faults>>

-----------------------------------------------------------------------------
(* The environment.                                                        *)

AdvanceTip ==
    /\ tip < MaxHeight
    /\ tip' = tip + 1
    /\ UNCHANGED <<db, disk, pc, next, seen, stale, win, pre, faults>>

\* Postgres writes its log behind an asynchronous commit
FlushLog ==
    /\ disk # db
    /\ disk' = db
    /\ UNCHANGED <<tip, db, pc, next, seen, stale, win, pre, faults>>

ProcessCrash ==
    /\ pc \notin {"off", "done"}
    /\ Inject("process_crash")
    /\ Exit("off")
    /\ UNCHANGED <<tip, db, disk>>

\* Postgres restarts under a process that keeps running
PostgresCrash ==
    /\ Inject("postgres_crash")
    /\ db' = disk
    /\ UNCHANGED <<tip, disk, pc, next, seen, stale, win, pre>>

\* Postgres and the process go down together
HostCrash ==
    /\ pc # "done"
    /\ Inject("host_crash")
    /\ db' = disk
    /\ Exit("off")
    /\ UNCHANGED <<tip, disk>>

-----------------------------------------------------------------------------

\* what the process does when nothing goes wrong
Step ==
    \/ Boot \/ Sweep \/ PrepareProjections \/ RefuseCoverage
    \/ ReadStatus \/ RebuildProjections \/ IdleAtTip \/ Finish \/ BeginWindow
    \/ FetchBulkWindow \/ ApplyBulkWindow \/ StreamBlock
    \/ PrefetchFailed \/ CoverageGap \/ RereadCursor

Failure ==
    \/ StatusFails \/ FetchFails \/ TransactionFails \/ CommitUnknown
    \/ CursorUnreadable \/ FatalError

Environment ==
    \/ PrefetchSettles \/ AdvanceTip \/ FlushLog
    \/ ProcessCrash \/ PostgresCrash \/ HostCrash

Next == Step \/ Failure \/ Environment

Spec == Init /\ [][Next]_vars

\* The Go runtime schedules the loop and the prefetch goroutine, every wait of
\* the loop has a timer, and the supervisor starts a process that ended.
FairSpec == Spec /\ WF_vars(Step) /\ WF_vars(PrefetchSettles)

-----------------------------------------------------------------------------
(* Properties.                                                             *)

\* The append-only rows of a block are in the database once if the cursor has
\* reached it and not at all if it has not: no window, retry, restart or start
\* override applies a block twice or leaves one out.
IndexedExactlyOnce ==
    \A h \in Heights : db.rows[h] = IF h \in First..db.cursor THEN 1 ELSE 0

\* A block is never applied twice, whatever was lost.
AppliedOnce == \A h \in Heights : db.rows[h] <= 1

\* When startup would find every api_* model stamped at the cursor, and so not
\* rebuild, the projections do follow from the indexed blocks.
ReadyMeansFresh == ~NeedsBackfill(db) => db.fresh

\* The economy coverage has no hole: every block from the activation to the
\* covered height is indexed, under every fault.
CoverageHasNoHole ==
    db.coverage > 0 => \A h \in Activation..db.coverage : db.rows[h] > 0

\* A one-shot or bounded run that reports success has indexed its target and
\* left projections that the readers can use.
DoneMeansReady ==
    pc = "done" => /\ ~NeedsBackfill(db) /\ db.fresh
                   /\ StopHeight > 0 /\ ~OneShot => db.cursor >= StopHeight

\* No commit, retry or restart moves the cursor back, except the loss of an
\* asynchronously committed window together with the process.
CursorNeverRewinds ==
    [][db'.cursor < db.cursor => pc' = "off" /\ db' = disk]_vars

\* Every block the chain has is eventually indexed, up to the stop height of a
\* bounded run.
CatchesUp ==
    \A h \in Heights :
        (tip >= h /\ h >= First /\ (StopHeight > 0 => h <= StopHeight)) ~> (db.cursor >= h)

\* Projections deferred during a catch-up are eventually rebuilt and stamped at
\* the cursor, again and again as the chain goes on.
ProjectionsReturn == []<>(db.fresh /\ ~NeedsBackfill(db))

\* Before the activation nothing re-indexes a window that Postgres lost, so this
\* fails: a block below the cursor is indexed, whatever Postgres lost.
NoBlockLeftOut == \A h \in First..db.cursor : db.rows[h] > 0

\* The database is an index of the chain that one writer extends in order, each
\* block once, also when Postgres restarts under the process: no retry, restart
\* or prefetched window goes on anywhere but at the writer's own place, and a
\* block is missing only if it was committed asynchronously and lost.
Chain == INSTANCE IndexedChain
             WITH last <- db.cursor, copies <- db.rows,
                  place <- Highest(next, Following(db))
ImplementsIndexedChain == Chain!Spec
=============================================================================
