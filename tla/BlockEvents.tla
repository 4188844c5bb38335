---------------------------- MODULE BlockEvents ----------------------------
(***************************************************************************)
(* What happens to the events of a block: the router and the handlers      *)
(* (internal/events), the bank rows (BankLedger), the row buffers          *)
(* (internal/buffers), the raw mirror and the logs of handler errors and   *)
(* of unknown keys (internal/db), under the three commands that apply      *)
(* them: ingest, reprocess-errors (internal/reprocess) and                 *)
(* reconcile-current-block (internal/sync/reconcile.go).                   *)
(*                                                                         *)
(* The commands hold the writer lock, so one of them runs at a time. How   *)
(* ingest chooses its windows is in module Ingest.                         *)
(***************************************************************************)
EXTENDS BankLedger

CONSTANTS
    MaxHeight,        \* bound: the last block of the chain
    Chains,           \* the chains to read: name -> block of each height
    Inherits,         \* [upTo, skipped, position]: what an older release left behind
    MaxWindow,        \* bound: blocks per window
    RawEventLimit,    \* rawEventBatchLimit: mirrored events held back at most
    StrictUnknown,    \* an event without a handler is fatal
    Faults,           \* the faults that may happen
    MaxFaults,        \* bound: how many of them
    MaxRepairs        \* bound: runs of the two maintenance commands

ASSUME BlockAssumption ==
    /\ MaxHeight \in Nat \ {0} /\ MaxWindow \in Nat \ {0}
    /\ RawEventLimit \in Nat /\ MaxFaults \in Nat /\ MaxRepairs \in Nat
    /\ StrictUnknown \in BOOLEAN
    /\ Faults \subseteq {"handler", "native", "commit", "rpc", "error_row", "unknown_row", "crash"}

VARIABLES
    chain,        \* the name of the chain being read
    feed,         \* what the RPC node serves of each of its blocks
    db,           \* the committed tables
    errorLog,     \* sync_state.handler_error_log, by id
    unknownLog,   \* sync_state.unknown_event_log: key -> [count, first, last]
    unknown,      \* the router's deltas since the last flush, in memory
    proc,         \* the running command
    faults, repairs

vars == << chain, feed, db, errorLog, unknownLog, unknown, proc, faults, repairs >>

-----------------------------------------------------------------------------
(* What the RPC node serves of each block, in order of execution, and the  *)
(* bank rows it yields.                                                    *)

RawRows(block) ==
    { <<NoIndex, i>> : i \in DOMAIN block.finalize }
    \cup UNION { { <<t - 1, i>> : i \in DOMAIN block.txs[t] } : t \in DOMAIN block.txs }

Served(h, block) ==
    [ordered |-> OrderedEvents(block), raw |-> RawRows(block),
     metadataValid |-> MetadataOf(block), bankValid |-> BlockValid(block),
     ledger |-> IF BlockValid(block) THEN ProcessBlock(h, block) ELSE {},
     defusion |-> IF BlockValid(block) THEN ProcessDefusion(h, block) ELSE {}]

Feed(c) ==
    [h \in 1..MaxHeight |->
        Served(h, BlockEventsOf(Chains[c][h], FuelAdded(OpsUpTo(Chains[c], h - 1))))]

-----------------------------------------------------------------------------
(* Registered events: a nested payload in one attribute, or whole events. *)

NestedAttribute ==
    [EventOreMine |-> "eventOreMineDetail", EventOreTheft |-> "eventOreTheftDetail",
     EventOreMigrate |-> "eventOreMigrateDetail",
     EventAlphaRefine |-> "eventAlphaRefineDetail",
     EventAlphaInfuse |-> "eventAlphaInfuseDetail", EventInfusion |-> "infusion",
     EventAttack |-> "eventAttackDetail", EventGrid |-> "gridRecord"]

WholeEvents == {"EventReactorCommissionRevision", "EventReactorCommissionRevisionReset"}
ResetEvents == {"EventReactorCommissionRevisionReset"}

Registered(type) == type \in WholeEvents \cup DOMAIN NestedAttribute
IgnoreUnknown(type) == type \in {"commission", "rewards"}

HandlerKey(ev) ==
    IF ev.type \in WholeEvents THEN <<ev.type>> ELSE <<ev.type, NestedAttribute[ev.type]>>
KeyOf(ev) == IF Registered(ev.type) THEN HandlerKey(ev) ELSE << >>

Metadata == {"mode", "msg_index"}
BusinessKeys(ev) == { ev.attrs[i].key : i \in DOMAIN ev.attrs } \ Metadata
UnknownKeys(ev) ==
    IF IgnoreUnknown(ev.type) \/ Registered(ev.type) THEN {}
    ELSE { <<ev.type, k>> : k \in BusinessKeys(ev) }

\* a block is served as a list of events, each at a coordinate of its own, with
\* whole amounts in the payloads that become rows
WholeAmounts(ev) ==
    /\ \A type \in {"EventOreMine", "EventOreTheft", "EventOreMigrate", "EventAlphaRefine"} :
          ev.type = type => Value(ev, NestedAttribute[type]).amount \in Int
    /\ ev.type = "EventInfusion" => Value(ev, "infusion").fuel \in Int

WellServed(block) ==
    LET served == ToSet(block.ordered)
    IN /\ block.ordered \in Seq(served)
       /\ \A p \in served : p.tx \in Int /\ p.index \in Int
       /\ \A p, q \in served : p.tx = q.tx /\ p.index = q.index => p = q
       /\ \A p \in served : WholeAmounts(p.event)
       /\ IsFiniteSet(block.ledger) /\ \A r \in block.ledger : r.change \in Int

ASSUME FeedAssumption ==
    \A c \in DOMAIN Chains : \A h \in 1..MaxHeight : WellServed(Feed(c)[h])

-----------------------------------------------------------------------------
(* The work on one block inside its transaction: the tables as the         *)
(* transaction sees them, the buffered rows, the errors to report.         *)

NoPhase == -1                \* a position written before phases were recorded
Absent == -1                 \* a grid record without a value
Generator == "generator"

EmptyDb ==
    [cursor |-> 0, ledger |-> {}, inventory |-> << >>, receipts |-> {},
     infusion |-> << >>, grid |-> << >>, stats |-> {}, revisions |-> << >>,
     positions |-> << >>, activity |-> {}, counters |-> << >>, raw |-> << >>]

\* trip: the coordinate at which a handler fails on its way to the database
NoTrip == << >>
NativeTrip == <<"native_claims">>   \* or no handler: the invalidation after them
Coordinate(p) == <<p.tx, p.index>>

\* an event ran in a phase of its block, a commission revision names a reactor,
\* and a bank row has the coordinate of its bank event, which no other row has
WellPlaced(h, block) ==
    LET served == ToSet(block.ordered)
    IN /\ \A p \in served :
             /\ p.phase \in PreBlock..EndBlock
             /\ p.event.type = "EventReactorCommissionRevision" => Value(p.event, "reactorId") # ""
       /\ \A r \in block.ledger :
             /\ r.counterparty # Generator
             /\ \E p \in served, leg \in 0..(LedgerLegStride - 1) :
                   /\ ~Registered(p.event.type)
                   /\ r.key = << h, p.tx, NoIndex, EncodeLedgerEventIndex(p.index, leg), r.denom >>
       /\ \A r, q \in block.ledger : r.key = q.key => r = q

ASSUME PlaceAssumption ==
    \A c \in DOMAIN Chains : \A h \in 1..MaxHeight : WellPlaced(h, Feed(c)[h])

\* INSERT ... ON CONFLICT DO UPDATE
Upsert(table, key, row) ==
    [k \in DOMAIN table \cup {key} |-> IF k = key THEN row ELSE table[k]]

Work(tables, deltas, trip) ==
    [db |-> tables, ledger |-> {}, defusion |-> {}, activity |-> << >>, stats |-> {},
     errors |-> << >>, failed |-> FALSE, unknown |-> deltas, trip |-> trip]

ErrorRow(h, tx, index, key, severity) ==
    [height |-> h, tx |-> tx, index |-> index, key |-> key, severity |-> severity,
     resolved |-> FALSE]

Report(w, h, p, severity) ==
    [w EXCEPT !.errors = Append(@, ErrorRow(h, p.tx, p.index, KeyOf(p.event), severity))]
Fail(w, h, p) == [Report(w, h, p, "error") EXCEPT !.failed = TRUE]
Warn(w, h, p) == Report(w, h, p, "warn")

AppendLedger(w, h, p, legs) ==
    [w EXCEPT !.ledger = @ \cup { LedgerRow(h, p, p.msg, l) : l \in legs }]

-----------------------------------------------------------------------------
(* The handlers. *)

OreMine(w, h, p) ==
    LET d == Value(p.event, "eventOreMineDetail")
    IN AppendLedger(w, h, p, { Leg(0, d.primaryAddress, "", "mined", d.amount, Ore) })

OreTheft(w, h, p) ==
    LET d == Value(p.event, "eventOreTheftDetail")
    IN AppendLedger(w, h, p, { Leg(0, d.thief, d.victim, "seized", d.amount, Ore),
                               Leg(1, d.victim, d.thief, "forfeited", -d.amount, Ore) })

OreMigrate(w, h, p) ==
    LET d == Value(p.event, "eventOreMigrateDetail")
    IN AppendLedger(w, h, p, { Leg(0, d.primaryAddress, d.old, "migrated", d.amount, Ore),
                               Leg(1, d.old, d.primaryAddress, "migrated", -d.amount, Ore) })

AlphaRefine(w, h, p) ==
    LET d == Value(p.event, "eventAlphaRefineDetail")
    IN AppendLedger(w, h, p,
           { Leg(0, d.primaryAddress, "", "refined", -d.amount, Ore),
             Leg(1, ReceiptOwner(d), "", "refined", Micro * d.amount, Alpha) })

\* the receipt moves nothing: EventInfusion and the bank events do
AlphaInfuse(w, h, p) == w

\* EventInfusion is a snapshot; what was added is its difference with the
\* row, so events at or before the recorded position must not be applied
LastInfused(tables, who) ==
    Max({0} \cup { r.key[1] : r \in { l \in tables.ledger :
        l.address = who /\ l.counterparty = Generator /\ l.action = "infused" } })

InfusionUnorderable(tables, who, at) ==
    /\ who \in DOMAIN tables.infusion /\ tables.infusion[who].position # << >>
    /\ tables.infusion[who].position[1] = at[1]
    /\ tables.infusion[who].position[2] = NoPhase

\* slip: events after the position are told from those before by height alone
AppliedByHeight(tables, who, at) ==
    who \in DOMAIN tables.infusion /\ tables.infusion[who].position # << >>
    /\ at[1] < tables.infusion[who].position[1]

InfusionApplied(tables, who, at) ==
    /\ who \in DOMAIN tables.infusion
    /\ LET position == tables.infusion[who].position
       IN IF position = << >> THEN at[1] <= LastInfused(tables, who)
          ELSE ~PositionBefore(position, at)

Infusion(w, h, p) ==
    LET d == Value(p.event, "infusion")
        at == Position(h, p)
        known == d.address \in DOMAIN w.db.infusion
        added == IF known THEN d.fuel - w.db.infusion[d.address].fuel ELSE d.fuel
        stored == [w EXCEPT !.db.infusion =
                      Upsert(@, d.address, [fuel |-> d.fuel, position |-> at])]
    IN CASE InfusionUnorderable(w.db, d.address, at) -> Fail(w, h, p)
         [] ~InfusionUnorderable(w.db, d.address, at) /\ InfusionApplied(w.db, d.address, at) -> w
         [] OTHER ->
              IF known /\ added = 0 THEN stored
              ELSE AppendLedger(stored, h, p,
                       { Leg(0, d.address, Generator, "infused", -added, Alpha),
                         Leg(1, d.address, Generator, "infused", added, Infused("ualpha")) })

WriteGridStat(w, h, id, val) == [w EXCEPT !.stats = @ \cup {[height |-> h, id |-> id, val |-> val]}]

Grid(w, h, p) ==
    LET d == Value(p.event, "gridRecord")
        stored == d.id \in DOMAIN w.db.grid
        removed == [w EXCEPT !.db.grid = Restrict(@, DOMAIN @ \ {d.id})]
        written == [w EXCEPT !.db.grid = Upsert(@, d.id, d.val)]
    IN CASE d.id = "" -> Warn(w, h, p)
         [] d.id # "" /\ d.val = Absent ->
              IF stored THEN WriteGridStat(removed, h, d.id, 0) ELSE w
         [] OTHER ->
              IF stored /\ w.db.grid[d.id] = d.val THEN w
              ELSE WriteGridStat(written, h, d.id, d.val)

\* a struct that was never seen stands on no planet
Attack(w, h, p) ==
    LET planet == Value(p.event, "eventAttackDetail").planet
    IN IF planet = "" THEN w
       ELSE [w EXCEPT !.activity = Append(@, [planet |-> planet, at |-> Position(h, p)])]

\* the empty key is the watermark of the last reset
EconomyApplied(tables, id, at) ==
    \E k \in {"", id} \cap DOMAIN tables.positions : ~PositionBefore(tables.positions[k], at)

CommissionRevision(w, h, p) ==
    LET id == Value(p.event, "reactorId")
        at == Position(h, p)
    IN IF EconomyApplied(w.db, id, at) THEN w
       ELSE [w EXCEPT !.db.revisions = Upsert(@, id, Value(p.event, "slashRevision")),
                      !.db.positions = Upsert(@, id, at)]

\* slip: a reset leaves no watermark
ResetForgets(w, h, p) ==
    LET at == Position(h, p)
        newer == { k \in DOMAIN w.db.positions : PositionBefore(at, w.db.positions[k]) }
    IN [w EXCEPT !.db.revisions = Restrict(@, DOMAIN @ \cap newer),
                 !.db.positions = Restrict(@, newer)]

CommissionReset(w, h, p) ==
    LET at == Position(h, p)
        newer == { k \in DOMAIN w.db.positions : PositionBefore(at, w.db.positions[k]) }
    IN IF EconomyApplied(w.db, "", at) THEN w
       ELSE [w EXCEPT !.db.revisions = Restrict(@, DOMAIN @ \cap newer),
                      !.db.positions = Upsert(Restrict(@, newer), "", at)]

Handle(w, h, p) ==
    CASE p.event.type = "EventOreMine" -> OreMine(w, h, p)
      [] p.event.type = "EventOreTheft" -> OreTheft(w, h, p)
      [] p.event.type = "EventOreMigrate" -> OreMigrate(w, h, p)
      [] p.event.type = "EventAlphaRefine" -> AlphaRefine(w, h, p)
      [] p.event.type = "EventAlphaInfuse" -> AlphaInfuse(w, h, p)
      [] p.event.type = "EventInfusion" -> Infusion(w, h, p)
      [] p.event.type = "EventGrid" -> Grid(w, h, p)
      [] p.event.type = "EventAttack" -> Attack(w, h, p)
      [] p.event.type = "EventReactorCommissionRevision" -> CommissionRevision(w, h, p)
      [] OTHER -> CommissionReset(w, h, p)

-----------------------------------------------------------------------------
(* Dispatch. *)

Count(deltas, keys, h) ==
    [k \in DOMAIN deltas \cup keys |->
        CASE k \notin keys -> deltas[k]
          [] k \notin DOMAIN deltas -> [count |-> 1, first |-> h, last |-> h]
          [] OTHER -> [count |-> deltas[k].count + 1,
                       first |-> Min({deltas[k].first, h}), last |-> Max({deltas[k].last, h})]]

\* a required payload is there exactly once, and no field of a whole event twice
WellFormed(ev) ==
    /\ ev.type \in DOMAIN NestedAttribute => Len(AttrsOf(ev, NestedAttribute[ev.type])) = 1
    /\ ev.type \in WholeEvents => \A k \in BusinessKeys(ev) : Len(AttrsOf(ev, k)) = 1

Run(w, h, p) ==
    IF Coordinate(p) = w.trip THEN Fail(w, h, p) ELSE Handle(w, h, p)

\* slip: an error of a handler does not stop its block
SwallowErrors(w, h, p) ==
    IF ~Registered(p.event.type) THEN [w EXCEPT !.unknown = Count(@, UnknownKeys(p.event), h)]
    ELSE IF Coordinate(p) = w.trip THEN w ELSE Handle(w, h, p)

DispatchOneEvent(w, h, p) ==
    IF w.failed THEN w
    ELSE IF ~Registered(p.event.type) THEN
        [w EXCEPT !.unknown = Count(@, UnknownKeys(p.event), h),
                  !.failed = StrictUnknown /\ UnknownKeys(p.event) # {}]
    ELSE IF WellFormed(p.event) THEN Run(w, h, p) ELSE Fail(w, h, p)

DispatchEvents(w, h, ordered) ==
    FoldLeft(LAMBDA acc, p : DispatchOneEvent(acc, h, p), w, ordered)

\* an error of the bank rows has no coordinate
ProcessBank(w, h, block) ==
    IF w.failed THEN w
    ELSE IF block.bankValid THEN
        [w EXCEPT !.ledger = @ \cup block.ledger, !.defusion = @ \cup block.defusion]
    ELSE [w EXCEPT !.failed = TRUE,
                   !.errors = Append(@, ErrorRow(h, NoIndex, NoIndex, <<"bank.process_block">>,
                                                 "error"))]

\* the invalidations of the native claims are rows of NativeStaking; here they
\* may fail, after the bank rows were buffered
InvalidateNative(w, h) ==
    IF w.failed \/ w.trip # NativeTrip THEN w
    ELSE [w EXCEPT !.failed = TRUE,
                   !.errors = Append(@, ErrorRow(h, NoIndex, NoIndex, <<"bank.native_claims">>,
                                                 "error"))]

-----------------------------------------------------------------------------
(* Flushing the buffers. *)

\* ON CONFLICT DO NOTHING, within the statement too
NewRows(stored, rows) ==
    { The({ q \in rows : q.key = k }) :
        k \in { r.key : r \in rows } \ { q.key : q \in stored } }

\* slip: every buffered row counts as inserted
AllRows(stored, rows) == rows

FlushLedger(stored, rows) == NewRows(stored, rows)
FlushDefusion(stored, rows) == stored \cup NewRows(stored, rows)

\* api_inventory is moved by the rows that were inserted
AddToInventory(inventory, rows) ==
    [a \in DOMAIN inventory \cup { <<r.address, r.denom>> : r \in rows } |->
        (IF a \in DOMAIN inventory THEN inventory[a] ELSE 0)
        + MapThenSumSet(LAMBDA r : r.change, { r \in rows : <<r.address, r.denom>> = a })]

\* slip: a batch starts at the counter, not after it
ReserveOverlapping(counters, planet) ==
    IF planet \in DOMAIN counters THEN counters[planet] ELSE 0

ReserveSequence(counters, planet) ==
    IF planet \in DOMAIN counters THEN counters[planet] + 1 ELSE 0

SequenceRow(t, r) ==
    LET seq == ReserveSequence(t.counters, r.planet)
    IN [t EXCEPT !.counters = Upsert(@, r.planet, seq),
                 !.activity = @ \cup {[planet |-> r.planet, at |-> r.at, seq |-> seq]}]

FlushPlanetActivity(tables, rows) == FoldLeft(SequenceRow, tables, rows)

FlushInto(tables, w, new) ==
    [tables EXCEPT !.ledger = @ \cup new, !.inventory = AddToInventory(@, new),
                   !.receipts = FlushDefusion(@, w.defusion), !.stats = @ \cup w.stats]

Flush(w) ==
    FlushInto(FlushPlanetActivity(w.db, w.activity), w, FlushLedger(w.db.ledger, w.ledger))

Flushed(w) == IF w.failed THEN w ELSE [w EXCEPT !.db = Flush(w)]

-----------------------------------------------------------------------------
(* The raw mirror: the events of whole heights, replaced height by height. *)

FlushRaw(raw, heights) ==
    [h \in DOMAIN raw \cup heights |-> IF h \in heights THEN feed[h].raw ELSE raw[h]]

\* the batch is written out at block boundaries only
RawFull(heights) == MapThenSumSet(LAMBDA h : Cardinality(feed[h].raw), heights) >= RawEventLimit

-----------------------------------------------------------------------------
(* One block inside a transaction. *)

ApplyBlockInTx(w, h, block) ==
    IF block.metadataValid
    THEN Flushed(InvalidateNative(ProcessBank(DispatchEvents(w, h, block.ordered), h, block), h))
    ELSE [w EXCEPT !.failed = TRUE]

\* where a handler may fail: at an event that has one
Trips(ordered) ==
    { Coordinate(p) : p \in { q \in ToSet(ordered) : Registered(q.event.type) } }

May(fault) == fault \in Faults /\ faults < MaxFaults
Happens(fault) == May(fault) /\ faults' = faults + 1

Tripping(h) == {NoTrip} \cup IF May("handler") THEN Trips(feed[h].ordered) ELSE {}
Tripped(w) == IF w.trip = NoTrip THEN 0 ELSE 1

\* where the work on a block may trip
BlockTrips(h) == Tripping(h) \cup IF May("native") THEN {NativeTrip} ELSE {}

\* what applying the block of that height may come to
Outcomes(tables, h) ==
    { ApplyBlockInTx(Work(tables, unknown, trip), h, feed[h]) : trip \in BlockTrips(h) }

-----------------------------------------------------------------------------
(* Databases. An older release skipped an event whose handler failed       *)
(* (a savepoint) and left its row in the error log; it recorded the        *)
(* position of an infusion without its phase, or not at all.               *)

SkippedAt(ordered, skipped) == { i \in DOMAIN ordered : Coordinate(ordered[i]) = skipped }

Kept(ordered, lost) == IF lost = {} THEN ordered ELSE RemoveAt(ordered, The(lost))

OlderWork(tables, h, block, lost) ==
    ProcessBank(DispatchEvents(Work(tables, << >>, NoTrip), h, Kept(block.ordered, lost)),
                h, block)

OlderBlock(tables, h, block, lost) ==
    [Flush(OlderWork(tables, h, block, lost)) EXCEPT !.cursor = h]

\* of a block whose infusions have no position, the newest row counts for all of
\* them: an older release that lost one of them cannot be told from one that did not
NothingUnplaced(i) ==
    i.position = "none" =>
        \A c \in DOMAIN Chains : \A p \in ToSet(Feed(c)[1].ordered) :
            p.event.type = "EventInfusion" => Coordinate(p) # i.skipped

ASSUME InheritAssumption == \A i \in Inherits : NothingUnplaced(i)

OlderPosition(position, at) ==
    CASE position = "none" -> << >>
      [] position = "no_phase" -> [at EXCEPT ![2] = NoPhase]
      [] OTHER -> at

OlderInfusion(row, position) == [row EXCEPT !.position = OlderPosition(position, @)]

OlderTables(tables, position) ==
    [tables EXCEPT !.infusion = [who \in DOMAIN @ |-> OlderInfusion(@[who], position)]]

OlderErrors(ordered, lost) ==
    IF lost = {} THEN << >>
    ELSE LET p == ordered[The(lost)]
         IN << ErrorRow(1, p.tx, p.index, KeyOf(p.event), "error") >>

Idle == [pc |-> "idle", tx |-> EmptyDb, next |-> 0, last |-> 0, bulk |-> FALSE,
         raw |-> {}, pending |-> << >>, failed |-> FALSE, ids |-> << >>, rows |-> {}]

Init ==
    /\ chain \in DOMAIN Chains
    /\ feed = Feed(chain)
    /\ \E i \in Inherits :
          \/ i.upTo = 0 /\ db = EmptyDb /\ errorLog = << >>
          \/ /\ i.upTo = 1 /\ i.skipped \in {NoTrip} \cup Trips(feed[1].ordered)
             /\ LET lost == SkippedAt(feed[1].ordered, i.skipped)
                IN /\ ~OlderWork(EmptyDb, 1, feed[1], lost).failed
                   /\ db = OlderTables(OlderBlock(EmptyDb, 1, feed[1], lost), i.position)
                   /\ errorLog = OlderErrors(feed[1].ordered, lost)
    /\ unknownLog = << >> /\ unknown = << >>
    /\ proc = Idle
    /\ faults = 0 /\ repairs = 0

-----------------------------------------------------------------------------
(* Ingest: a window of fetched blocks, in one transaction each or all in   *)
(* one.                                                                    *)

BeginWindow ==
    /\ proc.pc = "idle"
    /\ \E n \in 1..MaxWindow, bulk \in BOOLEAN :
          /\ db.cursor + n <= MaxHeight
          /\ proc' = [Idle EXCEPT !.pc = "apply", !.tx = db, !.next = db.cursor + 1,
                                  !.last = db.cursor + n, !.bulk = bulk]
    /\ UNCHANGED << chain, feed, db, errorLog, unknownLog, unknown, faults, repairs >>

Mirrored(tables, batch, flush) == IF flush THEN [tables EXCEPT !.raw = FlushRaw(@, batch)] ELSE tables

ApplyBlock ==
    /\ proc.pc = "apply"
    /\ \E w \in Outcomes(proc.tx, proc.next) :
          LET batch == proc.raw \cup {proc.next}
              flush == ~proc.bulk \/ RawFull(batch)
          IN /\ unknown' = w.unknown
             /\ faults' = faults + Tripped(w)
             /\ \/ /\ w.failed
                   /\ proc' = [proc EXCEPT !.pending = @ \o w.errors, !.pc = "errors",
                                           !.failed = TRUE]
                \/ /\ ~w.failed
                   /\ proc' = [proc EXCEPT
                          !.pending = @ \o w.errors, !.tx = Mirrored(w.db, batch, flush),
                          !.next = @ + 1, !.raw = IF flush THEN {} ELSE batch,
                          !.pc = IF proc.bulk /\ proc.next < proc.last THEN @ ELSE "commit"]
    /\ UNCHANGED << chain, feed, db, errorLog, unknownLog, repairs >>

\* slip: the cursor points to the block to apply next
CloseAtNext(p) == [p.tx EXCEPT !.cursor = p.next, !.raw = FlushRaw(@, p.raw)]

\* slip: the events held back by a bulk window are dropped at its end
CloseDropsRaw(p) == [p.tx EXCEPT !.cursor = p.next - 1]

CloseWindow(p) == [p.tx EXCEPT !.cursor = p.next - 1, !.raw = FlushRaw(@, p.raw)]

Commit ==
    /\ proc.pc = "commit"
    /\ \/ /\ db' = CloseWindow(proc)
          /\ proc' = [proc EXCEPT !.pc = "errors"]
          /\ UNCHANGED faults
       \/ /\ Happens("commit")
          /\ proc' = [proc EXCEPT !.pc = "errors", !.failed = TRUE]
          /\ UNCHANGED db
    /\ UNCHANGED << chain, feed, errorLog, unknownLog, unknown, repairs >>

\* the rows of a transaction that committed or rolled back, one by one and
\* outside of it
WriteHandlerError ==
    /\ proc.pc = "errors" /\ proc.pending # << >>
    /\ \/ errorLog' = Append(errorLog, Head(proc.pending)) /\ UNCHANGED faults
       \/ Happens("error_row") /\ UNCHANGED errorLog
    /\ proc' = [proc EXCEPT !.pending = Tail(@)]
    /\ UNCHANGED << chain, feed, db, unknownLog, unknown, repairs >>

ErrorsWritten ==
    /\ proc.pc = "errors" /\ proc.pending = << >>
    /\ proc' = CASE proc.failed -> Idle
                 [] ~proc.failed /\ proc.next <= proc.last ->
                      [Idle EXCEPT !.pc = "apply", !.tx = db, !.next = proc.next,
                                   !.last = proc.last]
                 [] OTHER -> [Idle EXCEPT !.pc = "unknowns"]
    /\ UNCHANGED << chain, feed, db, errorLog, unknownLog, unknown, faults, repairs >>

Merged(stored, deltas) ==
    [k \in DOMAIN stored \cup DOMAIN deltas |->
        CASE k \notin DOMAIN deltas -> stored[k]
          [] k \notin DOMAIN stored -> deltas[k]
          [] OTHER -> [count |-> stored[k].count + deltas[k].count,
                       first |-> Min({stored[k].first, deltas[k].first}),
                       last |-> Max({stored[k].last, deltas[k].last})]]

\* the deltas are drained before they are written
FlushUnknowns ==
    /\ proc.pc = "unknowns"
    /\ \/ unknownLog' = Merged(unknownLog, unknown) /\ UNCHANGED faults
       \/ unknown # << >> /\ Happens("unknown_row") /\ UNCHANGED unknownLog
    /\ unknown' = << >>
    /\ proc' = Idle
    /\ UNCHANGED << chain, feed, db, errorLog, repairs >>

\* the process dies: its transaction, its pending rows and its counters go
Crash ==
    /\ proc # Idle \/ unknown # << >>
    /\ Happens("crash")
    /\ proc' = Idle /\ unknown' = << >>
    /\ UNCHANGED << chain, feed, db, errorLog, unknownLog, repairs >>

-----------------------------------------------------------------------------
(* reprocess-errors: the unresolved rows, height by height; the events of  *)
(* a height in one transaction; its rows resolved after the commit.        *)

Unresolved(severities) ==
    { i \in DOMAIN errorLog : ~errorLog[i].resolved /\ errorLog[i].severity \in severities }

\* maintenance needs the writer lock: no ingest is running
StartReprocess ==
    /\ proc.pc = "idle" /\ unknown = << >> /\ repairs < MaxRepairs
    /\ \E severities \in { {"error"}, {"error", "warn"} } :
          /\ Unresolved(severities) # {}
          /\ proc' = [Idle EXCEPT !.pc = "replay", !.rows = Unresolved(severities)]
    /\ repairs' = repairs + 1
    /\ UNCHANGED << chain, feed, db, errorLog, unknownLog, unknown, faults >>

\* the event at the recorded coordinate, if its key is the recorded one
Located(row) ==
    { p \in ToSet(feed[row.height].ordered) :
        Coordinate(p) = <<row.tx, row.index>> /\ KeyOf(p.event) = row.key }

Replayable(row) ==
    Located(row) # {} /\ The(Located(row)).event.type \notin ResetEvents

NextHeight == Min({ errorLog[i].height : i \in proc.rows })
Targets == { i \in proc.rows : errorLog[i].height = NextHeight }

\* a handler under a savepoint: its writes and rows go with its error
ReplayRow(acc, id) ==
    LET w == Run(acc.work, errorLog[id].height, The(Located(errorLog[id])))
    IN IF acc.work.failed \/ id \notin Targets \/ ~Replayable(errorLog[id]) THEN acc
       ELSE [work |-> w, done |-> IF w.errors = acc.work.errors THEN Append(acc.done, id)
                                  ELSE acc.done]

AllIds == [i \in DOMAIN errorLog |-> i]

\* the work on the rows of one height, by id, and the rows that it settled
Replayed(ids, trip) ==
    FoldLeft(ReplayRow, [work |-> Work(db, << >>, trip), done |-> << >>], ids)

\* slip: a row that only warned again counts as settled
SettleWarned(r) == IF r.work.failed THEN << >> ELSE SetToSeq(Targets)

Settled(r) == IF r.work.failed THEN << >> ELSE r.done

ReplayHeight ==
    /\ proc.pc = "replay" /\ proc.rows # {}
    /\ \E trip \in Tripping(NextHeight) :
       \E r \in { Replayed(AllIds, trip) } :
          \/ /\ db.cursor > 0 /\ trip = NoTrip /\ ~r.work.failed
             /\ db' = Flush(r.work)
             /\ proc' = [proc EXCEPT !.rows = @ \ Targets, !.pc = "resolve",
                                     !.ids = Settled(r)]
             /\ UNCHANGED faults
          \/ \* nothing of the height is kept: a failure, or a dry run
             /\ \/ trip = NoTrip /\ UNCHANGED faults
                \/ trip # NoTrip /\ r.work.failed /\ Happens("handler")
                \/ trip = NoTrip /\ Happens("rpc")
             /\ proc' = [proc EXCEPT !.rows = @ \ Targets]
             /\ UNCHANGED db
    /\ UNCHANGED << chain, feed, errorLog, unknownLog, unknown, repairs >>

ResolveError ==
    /\ proc.pc = "resolve" /\ proc.ids # << >>
    /\ \/ errorLog' = [errorLog EXCEPT ![Head(proc.ids)].resolved = TRUE] /\ UNCHANGED faults
       \/ Happens("error_row") /\ UNCHANGED errorLog
    /\ proc' = [proc EXCEPT !.ids = Tail(@)]
    /\ UNCHANGED << chain, feed, db, unknownLog, unknown, repairs >>

HeightReplayed ==
    /\ \/ proc.pc = "resolve" /\ proc.ids = << >> /\ proc.rows # {}
             /\ proc' = [proc EXCEPT !.pc = "replay"]
       \/ proc.pc \in {"resolve", "replay"} /\ proc.ids = << >> /\ proc.rows = {}
             /\ proc' = Idle
    /\ UNCHANGED << chain, feed, db, errorLog, unknownLog, unknown, faults, repairs >>

-----------------------------------------------------------------------------
(* reconcile-current-block: the block of the cursor, applied once more in  *)
(* one transaction that also rebuilds the projections.                     *)

InfusionsOf(h) ==
    { i \in DOMAIN feed[h].ordered : feed[h].ordered[i].event.type = "EventInfusion" }
LastInfusion(h) == feed[h].ordered[Max(InfusionsOf(h))]

\* positions of this height without a phase take the phase of the block's
\* last infusion, which they must identify and match
LegacyAt(tables, h) ==
    { who \in DOMAIN tables.infusion :
        InfusionUnorderable(tables, who, <<h, NoPhase, NoIndex, NoIndex>>) }

LegacyProven(tables, h) ==
    \A who \in LegacyAt(tables, h) :
       /\ InfusionsOf(h) # {}
       /\ LET p == LastInfusion(h)
              s == tables.infusion[who]
          IN /\ Value(p.event, "infusion") = [address |-> who, fuel |-> s.fuel]
             /\ <<s.position[3], s.position[4]>> = <<p.tx, p.index>>

ReconcilePositions(tables, h) ==
    [tables EXCEPT !.infusion =
        [who \in DOMAIN @ |->
            IF who \in LegacyAt(tables, h)
            THEN [@[who] EXCEPT !.position = Position(h, LastInfusion(h))]
            ELSE @[who]]]

\* what is stored under an identity that the block produces must be equal
ExistingAgree(stored, rows) ==
    LET agreeing == rows \cap stored
    IN \A r \in rows \ agreeing : r.key \notin { q.key : q \in stored }

Rebuilt(tables) == [tables EXCEPT !.inventory = AddToInventory(<< >>, tables.ledger)]

\* the comparison comes after the handlers and before the flush
Validated(w) ==
    IF w.failed \/ ExistingAgree(db.ledger, w.ledger) THEN w ELSE [w EXCEPT !.failed = TRUE]

\* what it may come to: a refusal reports no row of the error log
ReconcileOutcomes(h) ==
    IF LegacyProven(db, h)
    THEN { Validated(w) : w \in Outcomes(ReconcilePositions(db, h), h) }
    ELSE { [Work(db, unknown, NoTrip) EXCEPT !.failed = TRUE] }

ReconcileCurrentBlock ==
    /\ proc.pc = "idle" /\ unknown = << >> /\ repairs < MaxRepairs
    /\ db.cursor > 0
    /\ \E w \in ReconcileOutcomes(db.cursor) :
          /\ db' = IF w.failed THEN db
                   ELSE [Rebuilt(w.db) EXCEPT !.raw = FlushRaw(@, {db.cursor})]
          /\ proc' = [Idle EXCEPT !.pc = "errors", !.pending = w.errors, !.failed = TRUE]
          /\ faults' = faults + Tripped(w)
    /\ repairs' = repairs + 1
    /\ UNCHANGED << chain, feed, errorLog, unknownLog, unknown >>

Next ==
    \/ BeginWindow \/ ApplyBlock \/ Commit \/ WriteHandlerError \/ ErrorsWritten
    \/ FlushUnknowns \/ Crash
    \/ StartReprocess \/ ReplayHeight \/ ResolveError \/ HeightReplayed
    \/ ReconcileCurrentBlock

Spec == Init /\ [][Next]_vars
-----------------------------------------------------------------------------
(* Properties. *)

\* Type invariant of the tables, the logs and the running command; a counter of
\* an unknown key is of at least one event.
TypeOK ==
    /\ chain \in DOMAIN Chains
    /\ DOMAIN db = DOMAIN EmptyDb /\ db.cursor \in 0..MaxHeight
    /\ \A i \in DOMAIN errorLog :
          /\ errorLog[i].height \in 1..MaxHeight /\ errorLog[i].severity \in {"error", "warn"}
          /\ errorLog[i].resolved \in BOOLEAN
    /\ \A deltas \in {unknown, unknownLog} : \A k \in DOMAIN deltas :
          deltas[k].first <= deltas[k].last /\ deltas[k].count > 0
    /\ proc.pc \in {"idle", "apply", "commit", "errors", "unknowns", "replay", "resolve"}
    /\ proc.rows \subseteq DOMAIN errorLog
    /\ faults \in 0..MaxFaults /\ repairs \in 0..MaxRepairs

Indexed == OpsUpTo(Chains[chain], db.cursor)

\* what verify's check handler_errors_unresolved calls clean, up to the cursor
QueueClean ==
    \A i \in DOMAIN errorLog :
       errorLog[i].severity = "error" /\ errorLog[i].height <= db.cursor => errorLog[i].resolved

\* a failed attempt at a block that is not indexed yet left its row, and a
\* replay of it may run ahead of the cursor
AheadOfCursor == \E i \in DOMAIN errorLog : errorLog[i].height > db.cursor

NetRows(account) ==
    MapThenSumSet(LAMBDA r : r.change, { r \in db.ledger : <<r.address, r.denom>> = account })

Accounts ==
    { <<r.address, r.denom>> : r \in db.ledger }
    \cup UNION { { <<e[1], e[2]>> : e \in Effect(o) } :
                 o \in ToSet(OpsUpTo(Chains[chain], MaxHeight)) }

\* Once no error is left to replay, the ledger rows of every address and
\* denomination sum to what the chain did, whatever failed, was replayed or
\* was reconciled, and however many events describe one movement.
LedgerMatchesChain ==
    QueueClean /\ ~AheadOfCursor =>
        \A a \in Accounts : NetRows(a) = Balance(Indexed, a[1], a[2])

\* The inventory, moved by deltas, is the sum of the ledger: a replayed row
\* moves it once.
InventoryIsLedger == \A a \in Accounts :
    (IF a \in DOMAIN db.inventory THEN db.inventory[a] ELSE 0) =
    NetRows(a)

Funders == { o.who : o \in { q \in ToSet(OpsUpTo(Chains[chain], MaxHeight)) : q.op = "infuse" } }
\* Once no error is left to replay, the generator has the fuel of its last
\* infusion: an older snapshot replayed late never overwrites it.
InfusionIsNewest ==
    QueueClean /\ ~AheadOfCursor => \A who \in Funders :
        (IF who \in DOMAIN db.infusion THEN db.infusion[who].fuel ELSE 0) = FuelAdded(Indexed)

RevisionsAfter(ops) ==
    FoldLeft(LAMBDA r, o : CASE o.op = "reset" -> << >>
                             [] o.op = "revise" -> (o.id :> o.n) @@ r
                             [] OTHER -> r, << >>, ops)

\* Once no error is left to replay, the commission revisions are those since
\* the last reset: a late replay never brings back a row that it removed.
EconomyIsNewest ==
    QueueClean /\ ~AheadOfCursor =>
        LET r == RevisionsAfter(Indexed)
        IN DOMAIN db.revisions = DOMAIN r /\ \A id \in DOMAIN r : db.revisions[id] = r[id]

\* What the events of the first n blocks of a chain show of it: an infusion is a
\* snapshot of the generator, so the newest one of a funder is what there is, and
\* the revisions in force are those that no later reset removes.
EventsUpTo(f, n, type) ==
    UNION { { [h |-> h, p |-> p] : p \in { q \in ToSet(f[h].ordered) : q.event.type = type } }
            : h \in 1..n }

NoneAfter(x, events) ==
    \A y \in events : ~PositionBefore(Position(x.h, x.p), Position(y.h, y.p))

FuelOf(f, n, who) ==
    LET shown == { x \in EventsUpTo(f, n, "EventInfusion") :
                      Value(x.p.event, "infusion").address = who }
        newest == CHOOSE x \in shown : NoneAfter(x, shown)
    IN IF shown = {} THEN 0 ELSE Value(newest.p.event, "infusion").fuel

RevisionsShown(f, n, r) ==
    LET revised == EventsUpTo(f, n, "EventReactorCommissionRevision")
        reset == EventsUpTo(f, n, "EventReactorCommissionRevisionReset")
        of(id) == { x \in revised : Value(x.p.event, "reactorId") = id /\ NoneAfter(x, reset) }
    IN /\ \A x \in revised : NoneAfter(x, reset) => Value(x.p.event, "reactorId") \in DOMAIN r
       /\ \A id \in DOMAIN r : \E x \in of(id) :
             NoneAfter(x, of(id)) /\ Value(x.p.event, "slashRevision") = r[id]

ASSUME ShownAssumption ==
    \A c \in DOMAIN Chains : \A n \in 0..MaxHeight :
       /\ \A who \in { o.who : o \in { q \in ToSet(OpsUpTo(Chains[c], MaxHeight)) : q.op = "infuse" } } :
             FuelOf(Feed(c), n, who) = FuelAdded(OpsUpTo(Chains[c], n))
       /\ RevisionsShown(Feed(c), n, RevisionsAfter(OpsUpTo(Chains[c], n)))

Planets == { r.planet : r \in db.activity }

\* The timeline of a planet is numbered 0, 1, 2, ... without a gap or a
\* repetition, and its counter is the last number given.
SequencesAreDense == \A planet \in Planets :
    LET rows == { r \in db.activity : r.planet = planet }
    IN { r.seq : r \in rows } = 0..(Cardinality(rows) - 1)
       /\ db.counters[planet] = Cardinality(rows) - 1

AttacksAt(h) ==
    { p \in ToSet(feed[h].ordered) :
        p.event.type = "EventAttack" /\ Value(p.event, "eventAttackDetail").planet # "" }

\* Once no error is left to replay, every attack of the indexed blocks is on
\* its planet's timeline.
TimelineComplete ==
    QueueClean => \A h \in 1..db.cursor : \A p \in AttacksAt(h) :
        \E r \in db.activity : r.at = Position(h, p)

\* A row is marked resolved only after its event took effect: a warning is
\* never settled, an attack is on the timeline, a ledger row exists.
ResolvedTookEffect == \A i \in DOMAIN errorLog : errorLog[i].resolved =>
    LET row == errorLog[i]
        p == The(Located(row))
    IN /\ Located(row) # {} /\ row.severity = "error"
       /\ p.event.type = "EventGrid" => Value(p.event, "gridRecord").id # ""
       /\ p \in AttacksAt(row.height) =>
             \E r \in db.activity : r.at = Position(row.height, p)
       /\ p.event.type \in {"EventOreMine", "EventOreTheft", "EventAlphaRefine"} =>
             \E r \in db.ledger :
                SubSeq(r.key, 1, 4) = <<row.height, p.tx, p.msg, LedgerLegStride * p.index>>

\* Every mirrored block is mirrored whole, and from the first one on none is
\* missing, whether its window wrote its events at once or held them back.
RawMirrorWhole ==
    \A h \in DOMAIN db.raw :
       /\ db.raw[h] = feed[h].raw
       /\ h..db.cursor \subseteq DOMAIN db.raw
=============================================================================
