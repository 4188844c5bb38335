---------------------------- MODULE NativeStaking ----------------------------
(***************************************************************************)
(* The native staking evidence of sync-state: the refresh worker of        *)
(* sync/native.go, the store of internal/staking, and the block            *)
(* transactions that invalidate what the worker has published.             *)
(*                                                                         *)
(* The worker asks the LCD gateway, outside any transaction, for the claim *)
(* of an address at the indexed height, and publishes the answer later, in *)
(* a transaction of its own; blocks are indexed meanwhile.  A claim is     *)
(* known by its version: the height at which it last changed on the chain. *)
(*                                                                         *)
(* chain[h] is block h and the native state after it.  The database is the *)
(* record db; durable is what a crash of the host leaves of it.            *)
(***************************************************************************)
EXTENDS Integers, FiniteSets

CONSTANTS
    Addr,         \* addresses, as numbers in the order of SQL's ORDER BY
    Validators,   \* validator operators
    MaxHeight,    \* bound: the last block of the chain
    MaxLag,       \* bound: blocks the chain may be ahead of the index
    BatchLimit,   \* the limit of staking.Pending
    Kinds,        \* the kinds of block the chain produces
    Inherited,    \* the addresses with a snapshot of an earlier release
    Legacy,       \* the addresses with a receipt without source coordinates
    Open,         \* the addresses with an unbonding group in block 1
    Owned,        \* the addresses with an owner in block 1
    Broken,       \* addresses whose query never succeeds
    Bulk,         \* whether blocks may be indexed in bulk windows
    Defer,        \* -bulk-defer-projections
    AsyncCommit,  \* -bulk-async-commit
    Activation,   \* protocol.V022TestnetHeight
    Faults,       \* the kinds of fault the environment may inject
    MaxFaults     \* bound: faults and maintenance runs in one behaviour

BlockKinds == { "delegate", "redelegate", "unbond", "complete", "slash",
                "reactor", "unmapped_reactor", "transfer", "quiet" }
FaultKinds == { "stop", "host_crash", "postgres_crash", "write_fails",
                "seed_fails", "seed_unacknowledged", "reprocess", "reconcile" }

ASSUME NativeAssumption ==
    /\ Addr \subseteq Nat /\ IsFiniteSet(Addr)
    /\ IsFiniteSet(Validators)
    /\ MaxHeight \in Nat \ {0}
    /\ MaxLag \in Nat \ {0}
    /\ BatchLimit \in Nat \ {0}
    /\ Kinds \subseteq BlockKinds
    /\ Inherited \subseteq Addr
    /\ Legacy \subseteq Addr
    /\ Open \subseteq Addr
    /\ Owned \subseteq Addr
    /\ Broken \subseteq Addr
    /\ {Bulk, Defer, AsyncCommit} \subseteq BOOLEAN
    /\ Activation \in Nat \ {0, 1}
    /\ Faults \subseteq FaultKinds
    /\ MaxFaults \in Nat

VARIABLES
    tip,      \* the newest block of the chain
    chain,    \* the blocks
    db,       \* the committed state of the database
    durable,  \* the part of it a crash of Postgres or of the host leaves
    up,       \* the ingest process is running
    next,     \* Run: the next height to index, 0 when it is not running
    stale,    \* Syncer.projectionsStale
    seeded,   \* startNativeRefresh: seeded
    batch,    \* refreshNativeBatch: the place of an address in items, 0 = not in it
    at,       \* the height of items
    answer,   \* the result of Fetch for the item in hand
    due,      \* the addresses whose retry_after has passed
    faults    \* faults and maintenance runs so far

vars == <<tip, chain, db, durable, up, next, stale, seeded, batch, at, answer, due, faults>>
loopVars == <<up, next, stale>>
workerVars == <<seeded, batch, at, answer>>

-----------------------------------------------------------------------------
(* The chain.  A block names what its events name: the addresses and       *)
(* validators of staking events, whether it holds a change that cannot be  *)
(* attributed (all), the addresses whose unbonding it records (unbonds)    *)
(* and those it moves liquid coins of (moved).  The state after it: the    *)
(* validators each delegator is exposed to, the version of its claim, its  *)
(* unbonding groups by creation height, and the addresses with an owner.   *)

Heights == 1..MaxHeight
AnyValidator == "any"    \* the watermark row of validator ''

Block ==
    [addresses : SUBSET Addr, validators : SUBSET Validators, all : BOOLEAN,
     unbonds : SUBSET Addr, moved : SUBSET Addr,
     exposed : [Addr -> SUBSET Validators], version : [Addr -> Heights],
     groups : [Addr -> SUBSET Heights], owned : SUBSET Addr]

\* a block that changes nothing
Quiet(p) ==
    [p EXCEPT !.addresses = {}, !.validators = {}, !.all = FALSE,
              !.unbonds = {}, !.moved = {}]

ExposedTo(p, vs) == {a \in Addr : p.exposed[a] \cap vs # {}}

Versions(p, h, as) == [a \in Addr |-> IF a \in as THEN h ELSE p.version[a]]

\* Block h after p, with a staking event of address a about validators vs.
\* The pools of vs change, and with them the claims of everyone exposed.
Staking(p, h, a, vs, exposed, groups) ==
    [Quiet(p) EXCEPT !.addresses = {a}, !.validators = vs, !.moved = {a},
                     !.exposed[a] = exposed, !.groups[a] = groups,
                     !.version = Versions(p, h, {a} \cup ExposedTo(p, vs))]

Delegations(p, h) ==
    UNION {{Staking(p, h, a, {v}, p.exposed[a] \cup {v}, p.groups[a]) :
                v \in Validators} : a \in Addr}

\* the source stays exposed while the redelegation is in flight
RedelegationsOf(p, h, a) ==
    UNION {{Staking(p, h, a, {s, v}, p.exposed[a] \cup {v}, p.groups[a]) :
                v \in Validators} : s \in p.exposed[a]}

Redelegations(p, h) == UNION {RedelegationsOf(p, h, a) : a \in Addr}

Unbondings(p, h) ==
    UNION {{[Staking(p, h, a, {v}, p.exposed[a], p.groups[a] \cup {h})
                EXCEPT !.unbonds = {a}] : v \in p.exposed[a]} : a \in Addr}

\* An unbonding group is paid out.
Payouts(p, h, a) ==
    UNION {{Staking(p, h, a, {v}, p.exposed[a], p.groups[a] \ {g}) :
                v \in p.exposed[a]} : g \in p.groups[a]}

\* The delegator leaves the validator with it; or (g = h) the exposure to a
\* redelegation's source ends.
Departures(p, h, a) ==
    UNION {{Staking(p, h, a, {v}, p.exposed[a] \ {v}, p.groups[a] \ {g}) :
                v \in p.exposed[a]} : g \in p.groups[a] \cup {h}}

Completions(p, h) == UNION {Payouts(p, h, a) \cup Departures(p, h, a) : a \in Addr}

\* a change of the pool of v whose event names the validators vs or cannot be
\* attributed: a slash, a reactor with and without a known validator
PoolChange(p, h, v, vs, all) ==
    [Quiet(p) EXCEPT !.validators = vs, !.all = all,
                     !.version = Versions(p, h, ExposedTo(p, {v}))]

Unattributed(p, h) == {PoolChange(p, h, v, {}, TRUE) : v \in Validators}
ReactorChanges(p, h) == {PoolChange(p, h, v, {v}, FALSE) : v \in Validators}

\* a liquid transfer, which may give the address its first owner
Transfers(p) ==
    {[Quiet(p) EXCEPT !.moved = {a}] : a \in Addr}
    \cup {[Quiet(p) EXCEPT !.moved = {a}, !.owned = @ \cup {a}] : a \in Addr}

\* The upgrade repairs the delegation accounts of everyone exposed.
Upgraded(p, b, h) ==
    IF h # Activation THEN b
    ELSE [b EXCEPT !.version = [a \in Addr |-> IF p.exposed[a] # {} THEN h ELSE @[a]]]

NextBlocks(p, h) ==
    (IF "delegate" \in Kinds THEN Delegations(p, h) ELSE {})
    \cup (IF "redelegate" \in Kinds THEN Redelegations(p, h) ELSE {})
    \cup (IF "unbond" \in Kinds THEN Unbondings(p, h) ELSE {})
    \cup (IF "complete" \in Kinds THEN Completions(p, h) ELSE {})
    \cup (IF Kinds \cap {"slash", "unmapped_reactor"} # {} THEN Unattributed(p, h) ELSE {})
    \cup (IF "reactor" \in Kinds THEN ReactorChanges(p, h) ELSE {})
    \cup (IF "transfer" \in Kinds THEN Transfers(p) ELSE {})
    \cup (IF "quiet" \in Kinds THEN {Quiet(p)} ELSE {})

-----------------------------------------------------------------------------
(* The database.                                                           *)

Unknown == 0    \* NULL: no source, no claim

\* a row of native_staking_snapshot; without one, required is 0
Rows == [required : 0..MaxHeight, source : 0..MaxHeight, version : 0..MaxHeight,
         receipts : BOOLEAN, positions : BOOLEAN]
NoRow == [required |-> 0, source |-> Unknown, version |-> Unknown,
          receipts |-> FALSE, positions |-> FALSE]

\* A receipt of defusion: the block of its unbonding (born), what block_height
\* or legacy_observed_height says of it, and where it was reconciled and
\* retired.  0 is NULL.
Receipts == [addr : Addr, born : Heights, legacy : BOOLEAN, bound : 0..MaxHeight,
             reconciled : 0..MaxHeight, retired : 0..MaxHeight]

\* retry is the order in which retry_after comes: 0 = -infinity. authority says
\* that api_inventory is made of claims, and not by an earlier release. whole is
\* no column: it says that no block up to the cursor was left out.
Database ==
    [cursor : Heights, current : BOOLEAN,
     row : [Addr -> Rows], exposure : [Addr -> SUBSET Validators],
     watermark : [Validators \cup {AnyValidator} -> 0..MaxHeight],
     receipts : SUBSET Receipts, shown : [Addr -> 0..MaxHeight],
     deferred : BOOLEAN, authority : BOOLEAN, retry : [Addr -> Int],
     whole : BOOLEAN]

HasRow(d, a) == d.row[a].required > 0

\* the generated column pending
Pending(r) == r.source < r.required

\* the view native_staking_claim: complete
Complete(d, a) ==
    /\ HasRow(d, a)
    /\ ~Pending(d.row[a])
    /\ d.row[a].source <= d.cursor

Claim(d, a) == IF Complete(d, a) THEN d.row[a].version ELSE Unknown

\* readmodel's current claims, for the addresses as
Projected(d, as) ==
    [d EXCEPT !.shown = [a \in Addr |-> IF a \in as THEN Claim(d, a) ELSE d.shown[a]]]

\* readmodel.Recompute and readmodel.Backfill, which stamp the authority
Recomputed(d, as) == [Projected(d, as) EXCEPT !.authority = TRUE]

\* readmodel.RefreshNativeClaims
RefreshedClaims(d, a) == IF d.authority THEN Projected(d, {a}) ELSE d

\* retry_after = '-infinity' for the addresses as
Hurried(retry, as) ==
    [a \in Addr |->
        IF a \in as \/ retry[a] = 0 THEN 0
        ELSE retry[a] - Cardinality({b \in as : retry[b] > 0 /\ retry[b] < retry[a]})]

\* retry_after of a is later than that of all others
Delayed(retry, a) ==
    LET cleared == Hurried(retry, {a})
    IN  [cleared EXCEPT ![a] = 1 + Cardinality({b \in Addr : cleared[b] > 0})]

-----------------------------------------------------------------------------
(* Invalidation, in the transaction of a block.                            *)

\* what staking.Request has to invalidate
Affected(d, changes) ==
    changes.addresses \cup
    {a \in Addr : \/ d.exposure[a] \cap changes.validators # {}
                  \/ changes.all /\ d.exposure[a] # {}}

\* the addresses staking.Request returns: those whose requirement it raises
Raised(d, h, changes) == {a \in Affected(d, changes) : d.row[a].required < h}

Watermarked(d, h, changes) ==
    LET marks == changes.validators \cup IF changes.all THEN {AnyValidator} ELSE {}
    IN  [v \in DOMAIN d.watermark |->
            IF v \in marks /\ d.watermark[v] < h THEN h ELSE d.watermark[v]]

Request(d, h, changes) ==
    LET raised == Raised(d, h, changes)
    IN  [d EXCEPT
           !.watermark = Watermarked(d, h, changes),
           !.row = [a \in Addr |->
                      IF a \in raised THEN [d.row[a] EXCEPT !.required = h] ELSE d.row[a]],
           !.retry = Hurried(d.retry, raised)]

\* staking.Ensure: rows for candidates that have none
Ensure(d, h, as) ==
    [d EXCEPT !.row = [a \in Addr |->
        IF a \in as /\ ~HasRow(d, a) THEN [d.row[a] EXCEPT !.required = h] ELSE d.row[a]]]

\* the upgrade block invalidates whoever is exposed
Forced(h, changes) == IF h = Activation THEN [changes EXCEPT !.all = TRUE] ELSE changes

\* the addresses that staking.Invalidate makes dirty
Dirtied(d, h, changes) == Raised(d, h, Forced(h, changes))

\* staking.Invalidate: the requests of the block, and candidates among the
\* owned addresses that are dirty
Invalidate(d, h, changes, moved, owned) ==
    Ensure(Request(d, h, Forced(h, changes)), h, owned \cap (moved \cup Dirtied(d, h, changes)))

Recorded(d, h, a) ==
    \E r \in d.receipts : r.addr = a /\ r.born = h /\ ~r.legacy

Greatest(a, b) == IF a >= b THEN a ELSE b

\* reconciliation is requested for the rows as, required at height of(a)
Requested(d, as, of) ==
    [d EXCEPT
       !.row = [a \in Addr |->
                  IF a \in as
                    THEN [d.row[a] EXCEPT !.receipts = TRUE,
                                          !.required = Greatest(d.row[a].required, of[a])]
                    ELSE d.row[a]],
       !.retry = Hurried(d.retry, as)]

\* flushDefusion: a receipt for each unbonding that has none, and a request
\* for its reconciliation
FlushDefusion(d, h, as) ==
    LET inserted == {a \in as : ~Recorded(d, h, a)}
        flushed  == [d EXCEPT !.receipts = d.receipts \cup
            {[addr |-> a, born |-> h, legacy |-> FALSE, bound |-> h,
              reconciled |-> 0, retired |-> 0] : a \in inserted}]
    IN  Requested(flushed, inserted, [a \in Addr |-> h])

\* applyBlockInTx without the projections
Indexed(d, h, b) ==
    FlushDefusion(Invalidate(d, h, b, b.moved, b.owned), h, b.unbonds)

\* slip: only the owners of moved coins are projected again
ProjectMovedOnly(d, h, b) == Recomputed(Indexed(d, h, b), b.moved)

\* applyBlockInTx with readmodel.Recompute of what is dirty
IndexedAndProjected(d, h, b) ==
    Recomputed(Indexed(d, h, b), b.moved \cup Dirtied(d, h, b))

-----------------------------------------------------------------------------
(* The worker's transactions.                                              *)

\* the rows the seed and the batches look at
Wanting(r) == Pending(r) \/ r.receipts \/ ~r.positions

\* SeedReceipts: receipts without coordinates get the indexed height as bound
Adopted(d) ==
    {IF r.bound = 0 /\ r.retired = 0 THEN [r EXCEPT !.bound = d.cursor] ELSE r :
        r \in d.receipts}

Unreconciled(receipts, a) ==
    {r \in receipts : r.addr = a /\ r.bound > 0 /\ r.retired = 0 /\ r.reconciled = 0}

\* the latest bound of a set of receipts
LatestBound(rs) ==
    IF rs = {} THEN 0
    ELSE CHOOSE h \in {r.bound : r \in rs} : \A r \in rs : r.bound <= h

\* slip: the requests are collected before the receipts have their bound
SeedReceiptsUnbound(d) ==
    LET open(a) == Unreconciled(d.receipts, a)
    IN  Requested([d EXCEPT !.receipts = Adopted(d)], {a \in Addr : open(a) # {}},
                  [a \in Addr |-> LatestBound(open(a))])

SeedReceipts(d) ==
    LET adopted == [d EXCEPT !.receipts = Adopted(d)]
        open(a) == Unreconciled(adopted.receipts, a)
    IN  Requested(adopted, {a \in Addr : open(a) # {}},
                  [a \in Addr |-> LatestBound(open(a))])

\* the candidates: owners, addresses with a reactor infusion, and addresses whose
\* inventory shows a claim
Candidates(d, b) ==
    b.owned \cup {a \in Addr : b.exposed[a] # {} \/ d.shown[a] # Unknown}

\* seedNativeCandidates: the candidates of block b, then the receipts
Seeded(d, b) == SeedReceipts(Ensure(d, d.cursor, Candidates(d, b)))

\* slip: without the watermarks
PublishableUnmarked(d, a, h, vs) ==
    /\ HasRow(d, a) /\ d.row[a].required <= h
    /\ \/ d.row[a].source < h
       \/ d.row[a].source = h /\ (d.row[a].receipts \/ ~d.row[a].positions)
    /\ d.cursor >= h

\* slip: without the cursor
PublishableAhead(d, a, h, vs) ==
    /\ HasRow(d, a) /\ d.row[a].required <= h
    /\ \/ d.row[a].source < h
       \/ d.row[a].source = h /\ (d.row[a].receipts \/ ~d.row[a].positions)
    /\ \A v \in vs \cup {AnyValidator} : d.watermark[v] <= h

\* the conditions of the UPDATE in staking.Publish
Publishable(d, a, h, vs) ==
    /\ HasRow(d, a) /\ d.row[a].required <= h
    /\ \/ d.row[a].source < h
       \/ d.row[a].source = h /\ (d.row[a].receipts \/ ~d.row[a].positions)
    /\ d.cursor >= h
    /\ \A v \in vs \cup {AnyValidator} : d.watermark[v] <= h

\* slip: what is not yet retired is retired with the newest snapshot
ReconciledByAge(receipts, a, h, groups) ==
    {IF r.addr = a /\ r.retired = 0 /\ r.bound > 0
       THEN [r EXCEPT !.reconciled = h, !.retired = IF r.born = h THEN 0 ELSE h]
       ELSE r : r \in receipts}

\* reconcileReceipts: retire the receipts whose group is absent at h
Reconciled(receipts, a, h, groups) ==
    {IF /\ r.addr = a /\ r.retired = 0 /\ r.bound > 0 /\ r.bound <= h
        /\ r.reconciled <= h
       THEN [r EXCEPT !.reconciled = h, !.retired = IF r.born \in groups THEN 0 ELSE h]
       ELSE r : r \in receipts}

\* an accepted staking.Publish of the state b of address a at h, with
\* RefreshNativeClaims
Published(d, a, h, b) ==
    RefreshedClaims(
        [d EXCEPT
           !.row[a] = [required |-> d.row[a].required, source |-> h,
                       version |-> b.version[a], receipts |-> FALSE, positions |-> TRUE],
           !.retry = Hurried(d.retry, {a}),
           !.exposure[a] = b.exposed[a],
           !.receipts = Reconciled(d.receipts, a, h, b.groups[a])],
        a)

\* slip: the request is never delayed
NeverDelays(d, a, h) == FALSE

\* staking.RetryLater delays a: no newer invalidation has come
Delays(d, a, h) ==
    /\ HasRow(d, a) /\ Wanting(d.row[a])
    /\ d.row[a].required <= h

-----------------------------------------------------------------------------
(* Initial states: block 1 is indexed, by a release that may have left     *)
(* snapshots without positions, receipts without coordinates, and (old)    *)
(* inventories that are not made of claims.                                *)

\* Type invariant of the chain, both images of the store and the worker.
TypeOK ==
    /\ tip \in Heights
    /\ chain \in [Heights -> Block]
    /\ db \in Database /\ durable \in Database
    /\ up \in BOOLEAN /\ stale \in BOOLEAN /\ seeded \in BOOLEAN
    /\ next \in 0..MaxHeight + 1
    /\ batch \in [Addr -> Int]
    /\ at \in 0..MaxHeight
    /\ answer \in {"none", "ok", "failed"}
    /\ due \subseteq Addr
    /\ faults \in 0..MaxFaults

NoItems == [a \in Addr |-> 0]

InitialReceipt(a) == [addr |-> a, born |-> 1, legacy |-> TRUE, bound |-> 0,
                      reconciled |-> 0, retired |-> 0]

InitialDatabase(b, old) ==
    [cursor |-> 1, current |-> TRUE,
     row |-> [a \in Addr |->
        IF a \in Inherited
          THEN [required |-> 1, source |-> 1, version |-> b.version[a],
                receipts |-> FALSE, positions |-> FALSE]
          ELSE NoRow],
     exposure |-> [a \in Addr |-> IF a \in Inherited THEN b.exposed[a] ELSE {}],
     watermark |-> [v \in Validators \cup {AnyValidator} |-> 0],
     receipts |-> {InitialReceipt(a) : a \in Legacy},
     shown |-> [a \in Addr |-> IF a \in Inherited THEN b.version[a] ELSE Unknown],
     deferred |-> old, authority |-> ~old, retry |-> [a \in Addr |-> 0],
     whole |-> TRUE]

Genesis(exposed) ==
    [addresses |-> {}, validators |-> {}, all |-> FALSE, unbonds |-> {}, moved |-> {},
     exposed |-> exposed, version |-> [a \in Addr |-> 1],
     groups |-> [a \in Addr |-> IF a \in Open THEN {1} ELSE {}], owned |-> Owned]

Init ==
    /\ tip = 1
    /\ \E exposed \in [Addr -> SUBSET Validators] :
         chain = [h \in Heights |-> Genesis(exposed)]
    /\ \E old \in BOOLEAN : db = InitialDatabase(chain[1], old)
    /\ durable = db
    /\ up = TRUE
    /\ next = 2
    /\ stale = db.deferred
    /\ seeded = FALSE
    /\ batch = NoItems
    /\ at = 0
    /\ answer = "none"
    /\ due = {}
    /\ faults = 0

Inject(kind) ==
    /\ kind \in Faults
    /\ faults < MaxFaults
    /\ faults' = faults + 1

\* db becomes d, and d is durable unless the commit is asynchronous; due holds
\* no address that retries at once
Commit(d, durably) ==
    /\ db' = d
    /\ durable' = IF durably THEN d ELSE durable
    /\ due' = {a \in due : d.retry[a] > 0}

-----------------------------------------------------------------------------
(* The chain and the indexing loop.                                        *)

Produce ==
    /\ tip < MaxHeight
    /\ tip - db.cursor < MaxLag
    /\ tip' = tip + 1
    /\ \E b \in NextBlocks(chain[tip], tip + 1) :
         chain' = [chain EXCEPT ![tip + 1] = Upgraded(chain[tip], b, tip + 1)]
    /\ UNCHANGED <<db, durable, loopVars, workerVars, due, faults>>

\* slip: the cursor is the next block to index
AdvancedToNext(d, h) ==
    [d EXCEPT !.cursor = h + 1, !.current = tip - h <= 1, !.whole = @ /\ h <= d.cursor + 1]

Advanced(d, h) ==
    [d EXCEPT !.cursor = h, !.current = tip - h <= 1, !.whole = @ /\ h <= d.cursor + 1]

\* slip: a block is taken whatever the coverage says
AnyCoverage(d, h) == TRUE

\* RecordEconomyCoverage, whose watermark is the cursor from the activation on
CoverageAccepts(d, h) == h > Activation => d.cursor \in {h - 1, h}

\* the loop has a block to index and can do it now: the next one that it knows
\* of, whatever the cursor says
CanStream == up /\ next <= tip /\ ~stale
CanBulk == up /\ next <= tip /\ Bulk /\ (stale => Defer)

\* a block of a streaming window, once deferred projections are rebuilt
Stream ==
    /\ CanStream /\ CoverageAccepts(db, next)
    /\ Commit(Advanced(IndexedAndProjected(db, next, chain[next]), next), TRUE)
    /\ next' = next + 1
    /\ UNCHANGED <<tip, chain, up, stale, workerVars, faults>>

\* a block of a bulk window, whose projections may be deferred and whose commit
\* may be asynchronous
BulkWindow ==
    /\ CanBulk /\ CoverageAccepts(db, next)
    /\ IF Defer
         THEN Commit([Advanced(Indexed(db, next, chain[next]), next) EXCEPT !.deferred = TRUE],
                     ~AsyncCommit)
         ELSE Commit(Advanced(IndexedAndProjected(db, next, chain[next]), next), ~AsyncCommit)
    /\ next' = next + 1
    /\ stale' = (stale \/ Defer)
    /\ UNCHANGED <<tip, chain, up, workerVars, faults>>

\* every projection at the cursor
Rebuilt(d) == [Recomputed(d, Addr) EXCEPT !.deferred = FALSE]

\* ensureProjections, and the projection gate of the start
Rebuild ==
    /\ up /\ stale
    /\ Commit(Rebuilt(db), TRUE)
    /\ stale' = FALSE
    /\ UNCHANGED <<tip, chain, up, next, workerVars, faults>>

-----------------------------------------------------------------------------
(* The refresh worker.                                                     *)

Seed ==
    /\ up /\ ~seeded
    /\ Commit(Seeded(db, chain[db.cursor]), TRUE)
    /\ seeded' = TRUE
    /\ UNCHANGED <<tip, chain, loopVars, batch, at, answer, faults>>

\* the transaction fails before its commit
SeedFails ==
    /\ up /\ ~seeded
    /\ Inject("seed_fails")
    /\ UNCHANGED <<tip, chain, db, durable, loopVars, workerVars, due>>

\* its commit fails: `return true, tx.Commit(ctx)`
SeedUnacknowledged ==
    /\ up /\ ~seeded
    /\ Inject("seed_unacknowledged")
    /\ seeded' = TRUE
    /\ UNCHANGED <<tip, chain, db, durable, loopVars, batch, at, answer, due>>

Retryable(a) == db.retry[a] = 0 \/ a \in due

\* the rows staking.Pending selects from
Ready ==
    {a \in Addr : /\ HasRow(db, a) /\ Wanting(db.row[a])
                  /\ Retryable(a)
                  /\ db.row[a].required <= db.cursor
                  /\ db.current}

\* ORDER BY retry_after, address
Precedes(a, b) == db.retry[a] < db.retry[b] \/ (db.retry[a] = db.retry[b] /\ a < b)

Place(a) == 1 + Cardinality({b \in Ready : Precedes(b, a)})

SelectBatch ==
    /\ up /\ seeded
    /\ batch = NoItems
    /\ Ready # {}
    /\ batch' = [a \in Addr |-> IF a \in Ready /\ Place(a) <= BatchLimit THEN Place(a) ELSE 0]
    /\ at' = db.cursor
    /\ UNCHANGED <<tip, chain, db, durable, loopVars, seeded, answer, due, faults>>

\* a is the next item of the batch
Item(a) ==
    /\ up
    /\ batch[a] > 0
    /\ \A b \in Addr : batch[b] > 0 => batch[a] <= batch[b]

\* every page of the three queries arrived, at the height asked for
FetchSucceeds(a) ==
    /\ Item(a) /\ answer = "none"
    /\ a \notin Broken
    /\ answer' = "ok"
    /\ UNCHANGED <<tip, chain, db, durable, loopVars, seeded, batch, at, due, faults>>

\* a page failed, was malformed, or exceeded a limit
FetchFails(a) ==
    /\ Item(a) /\ answer = "none"
    /\ answer' = "failed"
    /\ UNCHANGED <<tip, chain, db, durable, loopVars, seeded, batch, at, due, faults>>

\* on to the next item, unless the ten seconds of the batch are over
NextItem(a) ==
    /\ batch' \in {[batch EXCEPT ![a] = 0], NoItems}
    /\ at' = IF batch' = NoItems THEN 0 ELSE at
    /\ answer' = "none"

EndBatch ==
    /\ batch' = NoItems
    /\ at' = 0
    /\ answer' = "none"

Publish(a) ==
    /\ Item(a) /\ answer = "ok"
    /\ IF Publishable(db, a, at, chain[at].exposed[a])
         THEN Commit(Published(db, a, at, chain[at]), TRUE)
         ELSE UNCHANGED <<db, durable, due>>
    /\ NextItem(a)
    /\ UNCHANGED <<tip, chain, loopVars, seeded, faults>>

Postpone(a) ==
    /\ Item(a) /\ answer = "failed"
    /\ IF Delays(db, a, at)
         THEN /\ db' = [db EXCEPT !.retry = Delayed(db.retry, a)]
              /\ durable' = db'
              /\ due' = due \ {a}
         ELSE UNCHANGED <<db, durable, due>>
    /\ NextItem(a)
    /\ UNCHANGED <<tip, chain, loopVars, seeded, faults>>

\* the transaction of Publish or RetryLater fails, and the batch with it
WriteFails ==
    /\ up /\ answer # "none"
    /\ Inject("write_fails")
    /\ EndBatch
    /\ UNCHANGED <<tip, chain, db, durable, loopVars, seeded, due>>

\* the retry_after that comes first passes
Expire ==
    /\ \E a \in Addr :
         /\ db.retry[a] > 0 /\ a \notin due
         /\ \A b \in Addr : db.retry[b] > 0 /\ db.retry[b] < db.retry[a] => b \in due
         /\ due' = due \cup {a}
    /\ UNCHANGED <<tip, chain, db, durable, loopVars, workerVars, faults>>

-----------------------------------------------------------------------------
(* Restarts, crashes, and maintenance by other processes, which hold the   *)
(* writer lock and so run only while the ingest process does not.          *)

\* the process ends, and what it has in memory is gone
Exit ==
    /\ up' = FALSE
    /\ next' = 0
    /\ stale' = FALSE
    /\ seeded' = FALSE
    /\ EndBatch

Stop ==
    /\ up
    /\ Inject("stop")
    /\ Exit
    /\ UNCHANGED <<tip, chain, db, durable, due>>

\* the block that comes next would leave a hole in the coverage
CoverageGap ==
    /\ (CanStream \/ CanBulk) /\ ~CoverageAccepts(db, next)
    /\ Exit
    /\ UNCHANGED <<tip, chain, db, durable, due, faults>>

\* a new process goes on behind the cursor, and knows what is deferred
Start ==
    /\ ~up
    /\ up' = TRUE
    /\ next' = db.cursor + 1
    /\ stale' = db.deferred
    /\ UNCHANGED <<tip, chain, db, durable, workerVars, due, faults>>

\* Postgres comes back without its last asynchronous commits; the process
\* goes on with what it has in memory
PostgresCrash ==
    /\ Inject("postgres_crash")
    /\ Commit(durable, TRUE)
    /\ UNCHANGED <<tip, chain, loopVars, workerVars>>

HostCrash ==
    /\ Inject("host_crash")
    /\ Commit(durable, TRUE)
    /\ Exit
    /\ UNCHANGED <<tip, chain>>

\* what the handlers of a repeated event of an infusion or a reactor name
RepeatedChanges ==
    {[addresses |-> {a}, validators |-> {}, all |-> FALSE] : a \in Addr}
    \cup {[addresses |-> {}, validators |-> {v}, all |-> FALSE] : v \in Validators}
    \cup {[addresses |-> {}, validators |-> {}, all |-> TRUE]}

\* slip: the repeated event is taken for an event of the cursor
ReprocessedAtCursor(d, h, changes, owned) ==
    Recomputed(Invalidate(d, d.cursor, changes, {}, owned), Dirtied(d, d.cursor, changes))

\* reprocess-errors repeats events of block h
Reprocessed(d, h, changes, owned) ==
    Recomputed(Invalidate(d, h, changes, {}, owned), Dirtied(d, h, changes))

Reprocess(h) ==
    /\ ~up /\ h <= db.cursor
    /\ Inject("reprocess")
    /\ \E changes \in RepeatedChanges :
         Commit(Reprocessed(db, h, changes, chain[db.cursor].owned), TRUE)
    /\ UNCHANGED <<tip, chain, loopVars, workerVars>>

\* reconcile-current-block repeats the block at the cursor
Reconcile ==
    /\ ~up
    /\ Inject("reconcile")
    /\ Commit(Rebuilt(Advanced(Indexed(db, db.cursor, chain[db.cursor]), db.cursor)), TRUE)
    /\ UNCHANGED <<tip, chain, loopVars, workerVars>>

-----------------------------------------------------------------------------
Next ==
    \/ Produce \/ Stream \/ BulkWindow \/ Rebuild
    \/ Seed \/ SeedFails \/ SeedUnacknowledged
    \/ SelectBatch
    \/ \E a \in Addr : FetchSucceeds(a) \/ FetchFails(a) \/ Publish(a) \/ Postpone(a)
    \/ WriteFails \/ Expire
    \/ Stop \/ CoverageGap \/ Start \/ PostgresCrash \/ HostCrash
    \/ \E h \in Heights : Reprocess(h)
    \/ Reconcile

Spec == Init /\ [][Next]_vars

\* The loop and the worker run on, time passes, and a query that is repeated
\* for ever succeeds at last unless the address is broken.
Fairness ==
    /\ WF_vars(Stream \/ Rebuild \/ CoverageGap)
    /\ WF_vars(Seed) /\ WF_vars(SelectBatch) /\ WF_vars(Expire) /\ WF_vars(Start)
    /\ \A a \in Addr :
         /\ SF_vars(FetchSucceeds(a))
         /\ WF_vars(FetchFails(a) \/ Publish(a) \/ Postpone(a))

FairSpec == Spec /\ Fairness

-----------------------------------------------------------------------------
(* Properties.                                                             *)

\* Below the activation the loop goes on behind a window that Postgres lost, and
\* what it would have invalidated stays. From the activation on it stops: here
\* every block is covered, or none was left out.
Gapless == Activation = 2 \/ db.whole

\* Evidence that counts as complete is the claim of the indexed height, even
\* though it was fetched at an older one: whatever changed the claim since has
\* raised the requirement or a watermark.  staking/store.go, Request, Publish.
EvidenceIsCurrent ==
    Gapless => \A a \in Addr : Complete(db, a) => db.row[a].version = chain[db.cursor].version[a]

\* While no projection is deferred, an inventory shows the claim of the indexed
\* height or unknown, never an invalidated one.  staking/invalidate.go, where
\* the addresses Request returns become dirty.
ShownIsCurrent ==
    Gapless /\ ~db.deferred =>
        \A a \in Addr : db.shown[a] \in {Unknown, chain[db.cursor].version[a]}

\* No evidence and no reconciliation is of a height above the cursor, not even
\* after a crash took the cursor back.  store.go, Publish; verify/receipts.go.
EvidenceNeverAhead ==
    /\ \A a \in Addr : db.row[a].source <= db.cursor
    /\ \A r \in db.receipts : r.bound <= db.cursor /\ r.reconciled <= db.cursor

\* An open receipt that was never reconciled has a request that will reach it.
\* verify/receipts.go, missing_requests.
ReceiptsAreRequested ==
    \A r \in db.receipts :
        r.bound > 0 /\ r.retired = 0 /\ r.reconciled = 0 =>
            /\ HasRow(db, r.addr)
            /\ Pending(db.row[r.addr]) \/ db.row[r.addr].receipts

\* A retired receipt has no unbonding group left on the chain, held or not.
\* staking/receipts.go, reconcileReceipts.
RetiredMeansGone ==
    \A r \in db.receipts :
        r.retired > 0 => r.born \notin chain[db.cursor].groups[r.addr]

\* With complete evidence and no reconciliation to do, the open receipts of an
\* address are unbondings that the chain still has.
OpenMeansHeld ==
    Gapless => \A r \in db.receipts :
        /\ Complete(db, r.addr) /\ ~db.row[r.addr].receipts
        /\ r.bound > 0 /\ r.retired = 0
        => r.born \in chain[db.cursor].groups[r.addr]

\* Repeating an event of an old block does not make newer evidence incomplete.
\* store.go, Request.
ReplayKeepsNewerEvidence ==
    [][\A h \in Heights, a \in Addr :
         Reprocess(h) /\ Complete(db, a) /\ h <= db.row[a].source => Complete(db', a)]_vars

\* In the end every address with a row has complete evidence and no work left,
\* whatever happens to the broken ones.  store.go, Pending and RetryLater.
EvidenceReturns ==
    <>[](\A a \in Addr \ Broken :
            HasRow(db, a) => Complete(db, a) /\ ~Wanting(db.row[a]))
=============================================================================
