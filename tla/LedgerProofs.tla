---------------------------- MODULE LedgerProofs ----------------------------
(***************************************************************************)
(* More proofs about module BlockEvents, for every chain, every older      *)
(* database, every number of blocks, faults and repairs: once no error is  *)
(* left to replay, the generator has the fuel of the newest infusion, the  *)
(* commission revisions are those that no later reset removed, and the     *)
(* ledger has the rows of the indexed blocks, each once.                   *)
(*                                                                         *)
(* The invariant says of the tables that everything in them came from an   *)
(* event of a block (Good), of an event whether it was taken in (Took),    *)
(* and of a step that it forgets nothing (Keeps). As in BlockProofs, it    *)
(* is followed through the handlers, the dispatch of a block, its flush,   *)
(* and the commands.                                                       *)
(***************************************************************************)
EXTENDS BlockProofs

------------------------------------------------------------------------------
(* Events, and the rows that they lead to.                                 *)

Revises(p) == p.event.type = "EventReactorCommissionRevision"
Resets(p) == p.event.type = "EventReactorCommissionRevisionReset"
Infuses(p) == p.event.type = "EventInfusion"
Owns(p) == p.event.type \in {"EventOreMine", "EventOreTheft", "EventOreMigrate", "EventAlphaRefine"}

Reactor(p) == Value(p.event, "reactorId")
Revision(p) == Value(p.event, "slashRevision")
Funder(p) == Value(p.event, "infusion").address
Fuel(p) == Value(p.event, "infusion").fuel

\* The counterparty of a leg that has none, and the key of the watermark of a reset.
NoOne == ""
Watermark == ""

\* The legs that the handler of an ore or refinement event books, and their rows.
OwnLegs(p) ==
    CASE p.event.type = "EventOreMine" ->
           LET d == Value(p.event, "eventOreMineDetail")
           IN { Leg(0, d.primaryAddress, NoOne, "mined", d.amount, Ore) }
      [] p.event.type = "EventOreTheft" ->
           LET d == Value(p.event, "eventOreTheftDetail")
           IN { Leg(0, d.thief, d.victim, "seized", d.amount, Ore),
                Leg(1, d.victim, d.thief, "forfeited", -d.amount, Ore) }
      [] p.event.type = "EventOreMigrate" ->
           LET d == Value(p.event, "eventOreMigrateDetail")
           IN { Leg(0, d.primaryAddress, d.old, "migrated", d.amount, Ore),
                Leg(1, d.old, d.primaryAddress, "migrated", -d.amount, Ore) }
      [] OTHER ->
           LET d == Value(p.event, "eventAlphaRefineDetail")
           IN { Leg(0, d.primaryAddress, NoOne, "refined", -d.amount, Ore),
                Leg(1, ReceiptOwner(d), NoOne, "refined", Micro * d.amount, Alpha) }

OwnRows(h, p) == { LedgerRow(h, p, p.msg, l) : l \in OwnLegs(p) }

\* The legs of an infusion that added so much fuel.
Spent(p, added) == Leg(0, Funder(p), Generator, "infused", -added, Alpha)
Gained(p, added) == Leg(1, Funder(p), Generator, "infused", added, Infused("ualpha"))

DrawnRow(r, h, p) ==
    r \in { LedgerRow(h, p, p.msg, Spent(p, -r.change)), LedgerRow(h, p, p.msg, Gained(p, r.change)) }

\* The rows of infusions; those of a funder, in one denomination.
Drawn(r) == r.counterparty = Generator /\ r.action = "infused"
Draws(rows, who, denom) == { r \in rows : Drawn(r) /\ r.address = who /\ r.denom = denom }

------------------------------------------------------------------------------
(* What the tables say of the events.                                      *)

\* The event of a block from which the infusion row of a funder comes. An older
\* release wrote its position without a phase, or not at all: then it is the last
\* one of the first block.
NewestAt(f, h, p) ==
    \A q \in EventsAt(f, h) :
       Infuses(q) /\ Funder(q) = Funder(p) => ~PositionBefore(Position(h, p), Position(h, q))

Anchor(f, infusion, who, h, p) ==
    /\ p \in EventsAt(f, h) /\ Infuses(p) /\ Funder(p) = who
    /\ infusion[who].fuel = Fuel(p)
    /\ \/ infusion[who].position = Position(h, p)
       \/ h = 1 /\ infusion[who].position = << 1, NoPhase, p.tx, p.index >>
       \/ h = 1 /\ infusion[who].position = << >> /\ NewestAt(f, 1, p)

\* A snapshot at or after this event is stored.
TookFuel(f, infusion, h, p) ==
    /\ Funder(p) \in DOMAIN infusion
    /\ \E g \in 1..MaxHeight : \E q \in EventsAt(f, g) :
          /\ Anchor(f, infusion, Funder(p), g, q)
          /\ ~PositionBefore(Position(g, q), Position(h, p))

\* A revision or a reset at or after this position is stored.
TookEconomy(positions, id, at) ==
    \E k \in {Watermark, id} \cap DOMAIN positions : ~PositionBefore(positions[k], at)

\* The event was taken in by the tables t with these ledger rows.
Took(f, t, rows, h, p) ==
    /\ Revises(p) => TookEconomy(t.positions, Reactor(p), Position(h, p))
    /\ Resets(p) => TookEconomy(t.positions, Watermark, Position(h, p))
    /\ Infuses(p) => TookFuel(f, t.infusion, h, p)
    /\ Owns(p) => OwnRows(h, p) \subseteq rows

\* Nothing that t took in is forgotten by u.
Keeps(f, u, more, t, rows) ==
    \A h \in 1..MaxHeight : \A p \in EventsAt(f, h) : Took(f, t, rows, h, p) => Took(f, u, more, h, p)

\* The revisions in force: each from a revision of a block in H, after the last reset.
EconomyGood(f, t, H) ==
    /\ DOMAIN t.revisions = DOMAIN t.positions \ {Watermark}
    /\ \A k \in DOMAIN t.positions : \E h \in H : \E p \in EventsAt(f, h) :
          /\ t.positions[k] = Position(h, p)
          /\ k = Watermark => Resets(p)
          /\ k # Watermark => Revises(p) /\ Reactor(p) = k /\ t.revisions[k] = Revision(p)
    /\ Watermark \in DOMAIN t.positions =>
          \A k \in DOMAIN t.revisions : PositionBefore(t.positions[Watermark], t.positions[k])

\* The fuel of every funder is a snapshot of a block in H, and its rows are what was
\* added up to it.
FuelGood(f, t, rows, H) ==
    /\ \A who \in DOMAIN t.infusion :
          /\ \E h \in H : \E p \in EventsAt(f, h) : Anchor(f, t.infusion, who, h, p)
          /\ \E r \in rows : Drawn(r) /\ r.address = who
          /\ Total(Draws(rows, who, Infused("ualpha"))) = t.infusion[who].fuel
          /\ Total(Draws(rows, who, Alpha)) = -t.infusion[who].fuel
    /\ \A r \in rows : Drawn(r) => r.address \in DOMAIN t.infusion

\* Where a ledger row comes from: the bank events of a block, the event itself, or an
\* infusion that was taken in.
BankRow(f, r, h) == r \in f[h].ledger
OwnRow(f, r, h) == \E p \in EventsAt(f, h) : Owns(p) /\ r \in OwnRows(h, p)
FuelRow(f, t, r, h) ==
    \E p \in EventsAt(f, h) : Infuses(p) /\ DrawnRow(r, h, p) /\ TookFuel(f, t.infusion, h, p)

RowsGood(f, t, rows, H) ==
    /\ \A r \in rows : \E h \in H : BankRow(f, r, h) \/ OwnRow(f, r, h) \/ FuelRow(f, t, r, h)
    /\ \A r, q \in rows : r.key = q.key => r = q

\* Everything in the tables t, with these ledger rows, comes from the blocks in H.
Good(f, t, rows, H) ==
    EconomyGood(f, t, H) /\ FuelGood(f, t, rows, H) /\ RowsGood(f, t, rows, H)

\* Every event of a block was taken in, and its bank rows are there.
Full(f, t, rows, h) ==
    /\ f[h].ledger \subseteq rows
    /\ \A p \in EventsAt(f, h) : Took(f, t, rows, h, p)

------------------------------------------------------------------------------
(* The inductive invariant.                                                *)

LogHeights(log) == { log[i].height : i \in DOMAIN log }

\* Every event of an indexed block was taken in, or an error says that it was not.
FullOrLogged(f, t, log) ==
    \A h \in 1..t.cursor :
       /\ f[h].ledger \subseteq t.ledger
       /\ \A p \in EventsAt(f, h) :
             Took(f, t, t.ledger, h, p) \/ \E i \in DOMAIN log : Misses(log[i], h, p)

\* The event of a settled row was taken in.
Settles(f, t, row) == \A p \in Spotted(f, row) : Took(f, t, t.ledger, row.height, p)

StoreOK(f, t, log) ==
    /\ Good(f, t, t.ledger, (1..t.cursor) \cup LogHeights(log))
    /\ FullOrLogged(f, t, log)
    /\ \A i \in DOMAIN log : log[i].resolved => Settles(f, t, log[i])

SettlingOK(f, p, t, log) == \A i \in 1..Len(p.ids) : Settles(f, t, log[p.ids[i]])

GrowingOK(f, p, t, log) ==
    p.pc \in {"apply", "commit"} =>
       /\ Good(f, p.tx, p.tx.ledger, (1..(p.next - 1)) \cup LogHeights(log))
       /\ Keeps(f, p.tx, p.tx.ledger, t, t.ledger)
       /\ \A h \in (t.cursor + 1)..(p.next - 1) : Full(f, p.tx, p.tx.ledger, h)

Stock ==
    /\ StoreOK(feed, db, errorLog) /\ SettlingOK(feed, proc, db, errorLog)
    /\ GrowingOK(feed, proc, db, errorLog)

------------------------------------------------------------------------------
(* The order of positions.                                                 *)

\* A height, a phase, a transaction and an event index.
IsPoint(a) == a[1] \in Int /\ a[2] \in Int /\ a[3] \in Int /\ a[4] \in Int

SamePoint(a, b) == a[1] = b[1] /\ a[2] = b[2] /\ a[3] = b[3] /\ a[4] = b[4]

\* The order of execution is lexicographic.
LEMMA BeforeIs ==
    ASSUME NEW a, NEW b
    PROVE  PositionBefore(a, b) <=>
              \/ a[1] < b[1]
              \/ a[1] = b[1] /\ a[2] < b[2]
              \/ a[1] = b[1] /\ a[2] = b[2] /\ a[3] < b[3]
              \/ a[1] = b[1] /\ a[2] = b[2] /\ a[3] = b[3] /\ a[4] < b[4]
<1> DEFINE P(i) == a[i] < b[i] /\ \A j \in 1..(i - 1) : a[j] = b[j]
<1>1. 1..4 = {1, 2, 3, 4}
  OBVIOUS
<1>2. /\ 1..(1 - 1) = {} /\ 1..(2 - 1) = {1} /\ 1..(3 - 1) = {1, 2}
      /\ 1..(4 - 1) = {1, 2, 3}
  OBVIOUS
<1>3. PositionBefore(a, b) <=> \E i \in {1, 2, 3, 4} : P(i)
  BY <1>1 DEF PositionBefore
<1>4. /\ P(1) <=> a[1] < b[1]
      /\ P(2) <=> a[1] = b[1] /\ a[2] < b[2]
      /\ P(3) <=> a[1] = b[1] /\ a[2] = b[2] /\ a[3] < b[3]
      /\ P(4) <=> a[1] = b[1] /\ a[2] = b[2] /\ a[3] = b[3] /\ a[4] < b[4]
  BY <1>2
<1> HIDE DEF P
<1>5. (\E i \in {1, 2, 3, 4} : P(i)) <=> (P(1) \/ P(2) \/ P(3) \/ P(4))
  OBVIOUS
<1> QED BY <1>3, <1>4, <1>5

\* It is transitive, never both ways, and total.
LEMMA BeforeOrder ==
    ASSUME NEW a, NEW b, NEW c, IsPoint(a), IsPoint(b), IsPoint(c)
    PROVE  /\ PositionBefore(a, b) /\ PositionBefore(b, c) => PositionBefore(a, c)
           /\ ~(PositionBefore(a, b) /\ PositionBefore(b, a))
           /\ PositionBefore(a, b) \/ PositionBefore(b, a) \/ SamePoint(a, b)
           /\ SamePoint(a, b) => ~PositionBefore(a, b)
<1>1. PositionBefore(a, b) /\ PositionBefore(b, c) => PositionBefore(a, c)
  BY BeforeIs DEF IsPoint
<1>2. ~(PositionBefore(a, b) /\ PositionBefore(b, a))
  BY BeforeIs DEF IsPoint
<1>3. PositionBefore(a, b) \/ PositionBefore(b, a) \/ SamePoint(a, b)
  BY BeforeIs DEF IsPoint, SamePoint
<1>4. SamePoint(a, b) => ~PositionBefore(a, b)
  BY BeforeIs DEF IsPoint, SamePoint
<1> QED BY <1>1, <1>2, <1>3, <1>4

\* What is not before a is not before anything after a: a later watermark covers all
\* that an earlier one covered.
LEMMA LaterCovers ==
    ASSUME NEW a, NEW b, NEW c, IsPoint(a), IsPoint(b), IsPoint(c),
           ~PositionBefore(b, a), ~PositionBefore(a, c)
    PROVE  ~PositionBefore(b, c)
<1>1. SUFFICES ASSUME PositionBefore(b, c) PROVE FALSE
  OBVIOUS
<1>2. PositionBefore(a, b) \/ SamePoint(a, b)
  BY BeforeOrder
<1>3. CASE PositionBefore(a, b)
  BY <1>1, <1>3, BeforeOrder
<1>4. CASE SamePoint(a, b)
  BY <1>1, <1>4, BeforeIs DEF SamePoint
<1> QED BY <1>2, <1>3, <1>4

\* Every event of a block is placed as PlaceAssumption says.
IsPlaced == \A h \in 1..MaxHeight : WellServed(feed[h]) /\ WellPlaced(h, feed[h])

\* The position of an event has a phase, and tells it from every other event.
LEMMA PointOf ==
    ASSUME IsPlaced, NEW h \in 1..MaxHeight, NEW p \in EventsAt(feed, h)
    PROVE  /\ IsPoint(Position(h, p)) /\ Position(h, p)[1] = h /\ Position(h, p)[2] # NoPhase
           /\ Position(h, p)[3] = p.tx /\ Position(h, p)[4] = p.index
           /\ Position(h, p) # << >> /\ p.tx \in Int /\ p.index \in Int /\ WholeAmounts(p.event)
           /\ ServedAt(h, p)
<1>1. WellServed(feed[h]) /\ WellPlaced(h, feed[h]) /\ h \in Int
  BY DEF IsPlaced
<1>2. p.tx \in Int /\ p.index \in Int /\ WholeAmounts(p.event) /\ ServedAt(h, p)
  BY <1>1 DEF WellServed, EventsAt, ServedAt
<1>3. p.phase \in Int /\ p.phase # NoPhase
  <2>1. p.phase \in PreBlock..EndBlock
    BY <1>1 DEF WellPlaced, EventsAt
  <2> QED BY <2>1 DEF PreBlock, EndBlock, NoPhase
<1>4. ASSUME NEW x, NEW y, NEW z, NEW u PROVE <<x, y, z, u>> # << >>
  <2>1. Len(<<x, y, z, u>>) = 4 /\ Len(<< >>) = 0
    OBVIOUS
  <2> QED BY <2>1
<1>5. Position(h, p) # << >>
  BY <1>4 DEF Position
<1> QED BY <1>1, <1>2, <1>3, <1>5 DEF Position, IsPoint

\* Two events with one position are the same event of the same block.
LEMMA SameEvent ==
    ASSUME IsPlaced, NEW h \in 1..MaxHeight, NEW g \in 1..MaxHeight,
           NEW p \in EventsAt(feed, h), NEW q \in EventsAt(feed, g),
           SamePoint(Position(h, p), Position(g, q))
    PROVE  h = g /\ p = q
<1>1. h = g /\ p.tx = q.tx /\ p.index = q.index
  BY PointOf DEF SamePoint
<1>2. \A x, y \in EventsAt(feed, h) : x.tx = y.tx /\ x.index = y.index => x = y
  BY DEF IsPlaced, WellServed, EventsAt
<1> QED BY <1>1, <1>2

------------------------------------------------------------------------------
(* The commission economy: a revision or a reset that is not behind the    *)
(* stored ones is stored, and none that was taken in is forgotten.         *)

KeepsEconomy(more, positions) ==
    \A id : \A g \in 1..MaxHeight : \A q \in EventsAt(feed, g) :
       TookEconomy(positions, id, Position(g, q)) => TookEconomy(more, id, Position(g, q))

\* The stored positions are positions of events.
LEMMA PositionsArePoints ==
    ASSUME IsPlaced, NEW H \in SUBSET (1..MaxHeight), NEW t, EconomyGood(feed, t, H)
    PROVE  \A k \in DOMAIN t.positions : IsPoint(t.positions[k])
<1> SUFFICES ASSUME NEW k \in DOMAIN t.positions PROVE IsPoint(t.positions[k])
  OBVIOUS
<1>1. PICK h \in H : \E p \in EventsAt(feed, h) : t.positions[k] = Position(h, p)
  BY DEF EconomyGood
<1> QED BY <1>1, PointOf

\* CommissionRevision: a revision that is not applied yet is stored with its position.
LEMMA RevisedEconomy ==
    ASSUME IsPlaced, NEW H \in SUBSET (1..MaxHeight), NEW t, EconomyGood(feed, t, H),
           NEW h \in H, NEW p \in EventsAt(feed, h), Revises(p),
           ~EconomyApplied(t, Reactor(p), Position(h, p)),
           NEW u, u.revisions = Upsert(t.revisions, Reactor(p), Revision(p)),
           u.positions = Upsert(t.positions, Reactor(p), Position(h, p))
    PROVE  /\ EconomyGood(feed, u, H) /\ KeepsEconomy(u.positions, t.positions)
           /\ TookEconomy(u.positions, Reactor(p), Position(h, p))
<1> DEFINE id == Reactor(p)
           at == Position(h, p)
<1>1. id # Watermark /\ IsPoint(at)
  <2>1. id # Watermark
    BY Zenon DEF IsPlaced, WellPlaced, EventsAt, Revises, Reactor, Watermark
  <2> QED BY <2>1, PointOf
<1>2. /\ DOMAIN u.positions = DOMAIN t.positions \cup {id} /\ u.positions[id] = at
      /\ \A k \in DOMAIN t.positions : k # id => u.positions[k] = t.positions[k]
      /\ DOMAIN u.revisions = DOMAIN t.revisions \cup {id} /\ u.revisions[id] = Revision(p)
      /\ \A k \in DOMAIN t.revisions : k # id => u.revisions[k] = t.revisions[k]
  BY DEF Upsert
<1>3. \A k \in {Watermark, id} \cap DOMAIN t.positions : PositionBefore(t.positions[k], at)
  BY Zenon DEF EconomyApplied, Watermark
<1>4. \A k \in DOMAIN t.positions : IsPoint(t.positions[k])
  BY PositionsArePoints
<1> HIDE DEF id, at
<1>5. EconomyGood(feed, u, H)
  <2>1. DOMAIN u.revisions = DOMAIN u.positions \ {Watermark}
    BY <1>1, <1>2 DEF EconomyGood
  <2>2. ASSUME NEW k \in DOMAIN u.positions
        PROVE  \E g \in H : \E q \in EventsAt(feed, g) :
                  /\ u.positions[k] = Position(g, q)
                  /\ k = Watermark => Resets(q)
                  /\ k # Watermark => Revises(q) /\ Reactor(q) = k /\ u.revisions[k] = Revision(q)
    <3>1. CASE k = id
      BY <1>1, <1>2, <3>1 DEF id, at
    <3>2. CASE k # id
      <4>1. k \in DOMAIN t.positions /\ u.positions[k] = t.positions[k]
        BY <1>2, <3>2
      <4>2. k # Watermark => u.revisions[k] = t.revisions[k]
        BY <1>2, <3>2, <4>1 DEF EconomyGood
      <4> QED BY <4>1, <4>2 DEF EconomyGood
    <3> QED BY <3>1, <3>2
  <2>3. ASSUME Watermark \in DOMAIN u.positions, NEW k \in DOMAIN u.revisions
        PROVE  PositionBefore(u.positions[Watermark], u.positions[k])
    <3>1. Watermark \in DOMAIN t.positions
      <4>1. Watermark \in DOMAIN t.positions \cup {id}
        BY <1>2, <2>3
      <4> QED BY <1>1, <4>1
    <3>4. u.positions[Watermark] = t.positions[Watermark]
      BY <1>1, <1>2, <3>1
    <3>2. CASE k = id
      BY <1>2, <1>3, <3>1, <3>2, <3>4
    <3>3. CASE k # id
      <4>1. k \in DOMAIN t.revisions /\ u.positions[k] = t.positions[k]
        BY <1>2, <2>1, <2>3, <3>3 DEF EconomyGood
      <4> QED BY <3>1, <3>4, <4>1 DEF EconomyGood
    <3> QED BY <3>2, <3>3
  <2> QED BY <2>1, <2>2, <2>3 DEF EconomyGood
<1>6. ASSUME NEW x, NEW g \in 1..MaxHeight, NEW q \in EventsAt(feed, g),
             TookEconomy(t.positions, x, Position(g, q))
      PROVE  TookEconomy(u.positions, x, Position(g, q))
  <2>1. PICK k \in {Watermark, x} \cap DOMAIN t.positions : ~PositionBefore(t.positions[k], Position(g, q))
    BY <1>6 DEF TookEconomy
  <2>2. k \in {Watermark, x} \cap DOMAIN u.positions
    BY <1>2, <2>1
  <2>3. CASE k # id
    BY <1>2, <2>1, <2>2, <2>3 DEF TookEconomy
  <2>4. CASE k = id
    <3>1. IsPoint(Position(g, q)) /\ IsPoint(t.positions[k])
      BY <1>4, <2>1, PointOf
    <3>2. ~PositionBefore(at, t.positions[k])
      BY <1>1, <1>3, <2>1, <2>4, <3>1, BeforeOrder
    <3>3. ~PositionBefore(at, Position(g, q))
      BY <1>1, <2>1, <3>1, <3>2, LaterCovers
    <3> QED BY <1>2, <2>2, <2>4, <3>3 DEF TookEconomy
  <2> QED BY <2>3, <2>4
<1>7. TookEconomy(u.positions, id, at)
  <2>1. ~PositionBefore(at, at)
    BY <1>1, BeforeOrder
  <2> QED BY <1>2, <2>1 DEF TookEconomy
<1> QED BY <1>5, <1>6, <1>7 DEF KeepsEconomy, id, at

\* CommissionReset: a reset that is not applied yet removes what is before it, and
\* its own position stands for what it removed.
LEMMA ResetEconomy ==
    ASSUME IsPlaced, NEW H \in SUBSET (1..MaxHeight), NEW t, EconomyGood(feed, t, H),
           NEW h \in H, NEW p \in EventsAt(feed, h), Resets(p),
           ~EconomyApplied(t, Watermark, Position(h, p)),
           NEW newer, newer = { k \in DOMAIN t.positions : PositionBefore(Position(h, p), t.positions[k]) },
           NEW u, u.revisions = Restrict(t.revisions, DOMAIN t.revisions \cap newer),
           u.positions = Upsert(Restrict(t.positions, newer), Watermark, Position(h, p))
    PROVE  /\ EconomyGood(feed, u, H) /\ KeepsEconomy(u.positions, t.positions)
           /\ TookEconomy(u.positions, Watermark, Position(h, p))
<1> DEFINE at == Position(h, p)
<1>1. IsPoint(at) /\ \A k \in DOMAIN t.positions : IsPoint(t.positions[k])
  BY PointOf, PositionsArePoints
<1>2. Watermark \notin newer
  <2>1. Watermark \in DOMAIN t.positions => PositionBefore(t.positions[Watermark], at)
    BY Zenon DEF EconomyApplied, Watermark
  <2> QED BY <1>1, <2>1, BeforeOrder
<1>3. /\ DOMAIN u.positions = newer \cup {Watermark} /\ u.positions[Watermark] = at
      /\ \A k \in newer : u.positions[k] = t.positions[k]
  <2>1. DOMAIN Restrict(t.positions, newer) = newer
        /\ \A k \in newer : Restrict(t.positions, newer)[k] = t.positions[k]
    BY DEF Restrict
  <2>2. Watermark \in {Watermark}
    OBVIOUS
  <2> HIDE DEF at
  <2> DEFINE P == Restrict(t.positions, newer)
  <2> HIDE DEF P
  <2>3. u.positions = Upsert(P, Watermark, at) /\ DOMAIN P = newer /\ \A k \in newer : P[k] = t.positions[k]
    BY <2>1 DEF P, at
  <2> QED BY <1>2, <2>3 DEF Upsert
<1>4. DOMAIN u.revisions = newer /\ \A k \in newer : u.revisions[k] = t.revisions[k]
  <2>1. DOMAIN t.revisions \cap newer = newer
    BY <1>2 DEF EconomyGood
  <2> QED BY <2>1 DEF Restrict
<1>5. EconomyGood(feed, u, H)
  <2>1. DOMAIN u.revisions = DOMAIN u.positions \ {Watermark}
    BY <1>2, <1>3, <1>4
  <2>2. ASSUME NEW k \in DOMAIN u.positions
        PROVE  \E g \in H : \E q \in EventsAt(feed, g) :
                  /\ u.positions[k] = Position(g, q)
                  /\ k = Watermark => Resets(q)
                  /\ k # Watermark => Revises(q) /\ Reactor(q) = k /\ u.revisions[k] = Revision(q)
    <3>1. CASE k = Watermark
      BY <1>3, <3>1
    <3>2. CASE k # Watermark
      <4>1. k \in newer /\ k \in DOMAIN t.positions
        BY <1>3, <3>2
      <4>2. u.positions[k] = t.positions[k] /\ u.revisions[k] = t.revisions[k]
        BY <1>3, <1>4, <4>1
      <4> QED BY <3>2, <4>1, <4>2 DEF EconomyGood
    <3> QED BY <3>1, <3>2
  <2>3. \A k \in DOMAIN u.revisions : PositionBefore(u.positions[Watermark], u.positions[k])
    BY <1>3, <1>4
  <2> QED BY <2>1, <2>2, <2>3 DEF EconomyGood
<1>6. ASSUME NEW x, NEW g \in 1..MaxHeight, NEW q \in EventsAt(feed, g),
             TookEconomy(t.positions, x, Position(g, q))
      PROVE  TookEconomy(u.positions, x, Position(g, q))
  <2>1. PICK k \in {Watermark, x} \cap DOMAIN t.positions : ~PositionBefore(t.positions[k], Position(g, q))
    BY <1>6 DEF TookEconomy
  <2>2. CASE k \in newer
    BY <1>3, <2>1, <2>2 DEF TookEconomy
  <2>3. CASE k \notin newer
    <3>1. ~PositionBefore(at, t.positions[k]) /\ IsPoint(t.positions[k]) /\ IsPoint(Position(g, q))
      BY <1>1, <2>1, <2>3, PointOf
    <3>2. ~PositionBefore(at, Position(g, q))
      BY <1>1, <2>1, <3>1, LaterCovers
    <3> QED BY <1>3, <3>2 DEF TookEconomy
  <2> QED BY <2>2, <2>3
<1>7. TookEconomy(u.positions, Watermark, at)
  <2>1. ~PositionBefore(at, at)
    BY <1>1, BeforeOrder
  <2> QED BY <1>3, <2>1 DEF TookEconomy
<1> QED BY <1>5, <1>6, <1>7 DEF KeepsEconomy

------------------------------------------------------------------------------
(* Where ledger rows come from. The key of a row tells its height and its  *)
(* event, so rows of two events never clash.                               *)

\* The coordinate in the key of the row is that of the event.
RowFrom(r, h, p) ==
    /\ r.key[1] = h /\ r.key[2] = p.tx
    /\ r.key[4] \in (LedgerLegStride * p.index)..(LedgerLegStride * p.index + 7)

\* The event that a row comes from, and how.
Sourced(f, infusion, r, h, p) ==
    /\ p \in EventsAt(f, h) /\ RowFrom(r, h, p)
    /\ \/ ~Registered(p.event.type) /\ r \in f[h].ledger
       \/ Owns(p) /\ r \in OwnRows(h, p)
       \/ Infuses(p) /\ DrawnRow(r, h, p) /\ TookFuel(f, infusion, h, p)

\* An event is of one kind.
LEMMA Kinds ==
    ASSUME NEW p
    PROVE  /\ Owns(p) \/ Infuses(p) => Registered(p.event.type)
           /\ ~(Owns(p) /\ Infuses(p))
  BY DEF Owns, Infuses, Registered, NestedAttribute

\* A row that a handler books has the coordinate of its event.
LEMMA BookedFrom ==
    ASSUME NEW h, NEW p, p.index \in Int, NEW l, l.leg \in {0, 1},
           NEW r, r = LedgerRow(h, p, p.msg, l)
    PROVE  RowFrom(r, h, p)
<1>1. PICK leg \in {0, 1} : l.leg = leg
  OBVIOUS
<1> QED BY <1>1 DEF RowFrom, LedgerRow, RowKey, EncodeLedgerEventIndex, LedgerLegStride

\* The key tells the leg.
LEMMA BookedLeg ==
    ASSUME NEW h, NEW p, p.index \in Int, NEW l, l.leg \in {0, 1}, NEW k, k.leg \in {0, 1},
           LedgerRow(h, p, p.msg, l).key = LedgerRow(h, p, p.msg, k).key
    PROVE  l.leg = k.leg
<1>1. PICK x \in {0, 1}, y \in {0, 1} : l.leg = x /\ k.leg = y
  OBVIOUS
<1>2. LedgerRow(h, p, p.msg, l).key[4] = LedgerRow(h, p, p.msg, k).key[4]
  OBVIOUS
<1>3. LedgerLegStride * p.index + x = LedgerLegStride * p.index + y
  BY <1>1, <1>2 DEF LedgerRow, RowKey, EncodeLedgerEventIndex, LedgerLegStride
<1> QED BY <1>1, <1>3 DEF LedgerLegStride

\* The legs of an event are told apart by their numbers.
LEMMA LegsOf ==
    ASSUME NEW p, Owns(p)
    PROVE  \A l \in OwnLegs(p) :
              /\ l.leg \in {0, 1} /\ l.action # "infused"
              /\ \A k \in OwnLegs(p) : l.leg = k.leg => l = k
<1>2. CASE p.event.type = "EventOreMine"
  <2> DEFINE d == Value(p.event, "eventOreMineDetail")
  <2>1. OwnLegs(p) = { Leg(0, d.primaryAddress, NoOne, "mined", d.amount, Ore) }
    BY <1>2 DEF OwnLegs
  <2>2. ASSUME NEW who, NEW to, NEW n, NEW S, S = { Leg(0, who, to, "mined", n, Ore) }
        PROVE  \A l \in S : l.leg = 0 /\ l.action # "infused" /\ \A k \in S : l = k
    BY <2>2 DEF Leg
  <2> QED BY <2>1, <2>2
<1>3. CASE p.event.type = "EventOreTheft"
  BY <1>3 DEF OwnLegs, Leg
<1>4. CASE p.event.type = "EventOreMigrate"
  BY <1>4 DEF OwnLegs, Leg
<1>5. CASE p.event.type = "EventAlphaRefine"
  <2> DEFINE d == Value(p.event, "eventAlphaRefineDetail")
  <2>1. OwnLegs(p) = { Leg(0, d.primaryAddress, NoOne, "refined", -d.amount, Ore),
                       Leg(1, ReceiptOwner(d), NoOne, "refined", Micro * d.amount, Alpha) }
    BY <1>5 DEF OwnLegs
  <2>2. ASSUME NEW who, NEW to, NEW n, NEW owner, NEW m, NEW S,
               S = { Leg(0, who, to, "refined", n, Ore), Leg(1, owner, to, "refined", m, Alpha) }
        PROVE  \A l \in S : /\ l.leg \in {0, 1} /\ l.action # "infused"
                            /\ \A k \in S : l.leg = k.leg => l = k
    BY <2>2 DEF Leg
  <2> QED BY <2>1, <2>2
<1> QED BY <1>2, <1>3, <1>4, <1>5 DEF Owns

\* The rows that a handler books of an ore or refinement event.
LEMMA OwnRowsOf ==
    ASSUME NEW h, NEW p, p.index \in Int, Owns(p)
    PROVE  \A r \in OwnRows(h, p) :
              /\ RowFrom(r, h, p) /\ ~Drawn(r)
              /\ \A q \in OwnRows(h, p) : r.key = q.key => r = q
<1> SUFFICES ASSUME NEW r \in OwnRows(h, p), NEW q \in OwnRows(h, p)
             PROVE  RowFrom(r, h, p) /\ ~Drawn(r) /\ (r.key = q.key => r = q)
  OBVIOUS
<1>1. PICK l \in OwnLegs(p) : r = LedgerRow(h, p, p.msg, l)
  BY DEF OwnRows
<1>2. PICK k \in OwnLegs(p) : q = LedgerRow(h, p, p.msg, k)
  BY DEF OwnRows
<1>3. l.leg \in {0, 1} /\ l.action # "infused" /\ k.leg \in {0, 1}
  BY LegsOf
<1>4. RowFrom(r, h, p)
  BY <1>1, <1>3, BookedFrom
<1>6. r.action = l.action
  BY <1>1 DEF LedgerRow
<1>5. ASSUME r.key = q.key PROVE r = q
  <2>1. l.leg = k.leg
    BY <1>1, <1>2, <1>3, <1>5, BookedLeg
  <2> QED BY <1>1, <1>2, <2>1, LegsOf
<1> QED BY <1>3, <1>4, <1>5, <1>6 DEF Drawn

\* The rows of an infusion.
LEMMA DrawnRowOf ==
    ASSUME NEW h, NEW p, p.index \in Int, NEW r, DrawnRow(r, h, p)
    PROVE  RowFrom(r, h, p) /\ Drawn(r) /\ r.address = Funder(p)
<1>1. r = LedgerRow(h, p, p.msg, Spent(p, -r.change)) \/ r = LedgerRow(h, p, p.msg, Gained(p, r.change))
  BY DEF DrawnRow
<1>2. \A x : /\ Spent(p, x).leg = 0 /\ Spent(p, x).action = "infused"
             /\ Spent(p, x).address = Funder(p) /\ Spent(p, x).counterparty = Generator
             /\ Gained(p, x).leg = 1 /\ Gained(p, x).action = "infused"
             /\ Gained(p, x).address = Funder(p) /\ Gained(p, x).counterparty = Generator
  BY DEF Spent, Gained, Leg
<1>5. ASSUME NEW l, l.leg \in {0, 1}, l.action = "infused", l.address = Funder(p),
             l.counterparty = Generator, r = LedgerRow(h, p, p.msg, l)
      PROVE  RowFrom(r, h, p) /\ Drawn(r) /\ r.address = Funder(p)
  BY <1>5, BookedFrom DEF Drawn, LedgerRow
<1>3. CASE r = LedgerRow(h, p, p.msg, Spent(p, -r.change))
  BY <1>2, <1>3, <1>5
<1>4. CASE r = LedgerRow(h, p, p.msg, Gained(p, r.change))
  BY <1>2, <1>4, <1>5
<1> QED BY <1>1, <1>3, <1>4

\* A bank row is of an event that no handler is registered for.
LEMMA BankRowOf ==
    ASSUME IsPlaced, NEW h \in 1..MaxHeight, NEW r \in feed[h].ledger
    PROVE  /\ \E p \in EventsAt(feed, h) : ~Registered(p.event.type) /\ RowFrom(r, h, p)
           /\ ~Drawn(r) /\ r.change \in Int
           /\ \A q \in feed[h].ledger : r.key = q.key => r = q
<1>1. WellPlaced(h, feed[h]) /\ WellServed(feed[h])
  BY DEF IsPlaced
<1>2. PICK p \in ToSet(feed[h].ordered), leg \in 0..(LedgerLegStride - 1) :
         /\ ~Registered(p.event.type)
         /\ r.key = << h, p.tx, NoIndex, EncodeLedgerEventIndex(p.index, leg), r.denom >>
  BY <1>1 DEF WellPlaced
<1>3. p \in EventsAt(feed, h) /\ p.index \in Int
  BY PointOf DEF EventsAt
<1>4. RowFrom(r, h, p)
  BY <1>2, <1>3 DEF RowFrom, EncodeLedgerEventIndex, LedgerLegStride
<1>5. ~Drawn(r) /\ \A q \in feed[h].ledger : r.key = q.key => r = q
  BY <1>1 DEF WellPlaced, Drawn
<1>6. r.change \in Int
  BY <1>1 DEF WellServed
<1> QED BY <1>2, <1>3, <1>4, <1>5, <1>6

\* Every ledger row has an event that it comes from.
LEMMA RowSource ==
    ASSUME IsPlaced, NEW H \in SUBSET (1..MaxHeight), NEW t, NEW rows, RowsGood(feed, t, rows, H)
    PROVE  \A r \in rows : \E h \in H : \E p \in EventsAt(feed, h) : Sourced(feed, t.infusion, r, h, p)
<1> SUFFICES ASSUME NEW r \in rows
             PROVE  \E h \in H : \E p \in EventsAt(feed, h) : Sourced(feed, t.infusion, r, h, p)
  OBVIOUS
<1>1. PICK h \in H : BankRow(feed, r, h) \/ OwnRow(feed, r, h) \/ FuelRow(feed, t, r, h)
  BY DEF RowsGood
<1>2. CASE BankRow(feed, r, h)
  BY <1>2, BankRowOf DEF BankRow, Sourced
<1>3. CASE OwnRow(feed, r, h)
  <2>1. PICK p \in EventsAt(feed, h) : Owns(p) /\ r \in OwnRows(h, p)
    BY <1>3 DEF OwnRow
  <2>2. RowFrom(r, h, p)
    BY <2>1, PointOf, OwnRowsOf
  <2> QED BY <2>1, <2>2 DEF Sourced
<1>4. CASE FuelRow(feed, t, r, h)
  <2>1. PICK p \in EventsAt(feed, h) : Infuses(p) /\ DrawnRow(r, h, p) /\ TookFuel(feed, t.infusion, h, p)
    BY <1>4 DEF FuelRow
  <2>2. RowFrom(r, h, p)
    BY <2>1, PointOf, DrawnRowOf
  <2> QED BY <2>1, <2>2 DEF Sourced
<1> QED BY <1>1, <1>2, <1>3, <1>4

\* Two rows with one key come from one event.
LEMMA OneSource ==
    ASSUME IsPlaced, NEW h \in 1..MaxHeight, NEW g \in 1..MaxHeight,
           NEW p \in EventsAt(feed, h), NEW q \in EventsAt(feed, g),
           NEW r, NEW s, r.key = s.key, RowFrom(r, h, p), RowFrom(s, g, q)
    PROVE  h = g /\ p = q
<1>1. h = g /\ p.tx = q.tx
  BY DEF RowFrom
<1>2. p.index = q.index
  <2>1. p.index \in Int /\ q.index \in Int
    BY PointOf
  <2> QED BY <2>1 DEF RowFrom, LedgerLegStride
<1>3. \A x, y \in EventsAt(feed, h) : x.tx = y.tx /\ x.index = y.index => x = y
  BY DEF IsPlaced, WellServed, EventsAt
<1> QED BY <1>1, <1>2, <1>3

------------------------------------------------------------------------------
(* Rows of bank, ore and refinement events come on top of the ledger, and  *)
(* a row that is booked again is the row that is there.                    *)

\* A row of a bank event, or of one that books its own rows, clashes with no other.
LEMMA NoClash ==
    ASSUME IsPlaced, NEW H \in SUBSET (1..MaxHeight), NEW t, NEW rows, RowsGood(feed, t, rows, H),
           NEW h \in 1..MaxHeight, NEW r \in rows, NEW s, r.key = s.key
    PROVE  /\ s \in feed[h].ledger => r = s
           /\ \A p \in EventsAt(feed, h) : Owns(p) /\ s \in OwnRows(h, p) => r = s
<1>0. PICK g \in H : \E q \in EventsAt(feed, g) : Sourced(feed, t.infusion, r, g, q)
  BY RowSource
<1>1. PICK q \in EventsAt(feed, g) : Sourced(feed, t.infusion, r, g, q)
  BY <1>0
<1>2. RowFrom(r, g, q) /\ g \in 1..MaxHeight
  BY <1>1 DEF Sourced
<1>3. ASSUME s \in feed[h].ledger PROVE r = s
  <2>1. PICK p \in EventsAt(feed, h) : ~Registered(p.event.type) /\ RowFrom(s, h, p)
    BY <1>3, BankRowOf
  <2>2. g = h /\ q = p
    BY <1>2, <2>1, OneSource
  <2>3. r \in feed[h].ledger
    BY <1>1, <2>1, <2>2, Kinds DEF Sourced
  <2> QED BY <1>3, <2>3, BankRowOf
<1>4. ASSUME NEW p \in EventsAt(feed, h), Owns(p), s \in OwnRows(h, p) PROVE r = s
  <2>1. p.index \in Int
    BY PointOf
  <2>2. RowFrom(s, h, p)
    BY <1>4, <2>1, OwnRowsOf
  <2>3. g = h /\ q = p
    BY <1>2, <2>2, OneSource
  <2>4. r \in OwnRows(h, p)
    BY <1>1, <1>4, <2>3, Kinds DEF Sourced
  <2> QED BY <1>4, <2>1, <2>4, OwnRowsOf
<1> QED BY <1>3, <1>4

\* Rows that no infusion drew leave what infusions drew as it is.
LEMMA RowsAdded ==
    ASSUME NEW H, NEW t, NEW rows, Good(feed, t, rows, H), NEW fresh,
           \A r \in fresh : ~Drawn(r) /\ \E h \in H : BankRow(feed, r, h) \/ OwnRow(feed, r, h),
           \A r \in rows \cup fresh, s \in fresh : r.key = s.key => r = s
    PROVE  Good(feed, t, rows \cup fresh, H)
<1>1. \A who, denom : Draws(rows \cup fresh, who, denom) = Draws(rows, who, denom)
  BY DEF Draws
<1>2. FuelGood(feed, t, rows \cup fresh, H)
  <2>1. ASSUME NEW who \in DOMAIN t.infusion
        PROVE  /\ \E h \in H : \E p \in EventsAt(feed, h) : Anchor(feed, t.infusion, who, h, p)
               /\ \E r \in rows \cup fresh : Drawn(r) /\ r.address = who
               /\ Total(Draws(rows \cup fresh, who, Infused("ualpha"))) = t.infusion[who].fuel
               /\ Total(Draws(rows \cup fresh, who, Alpha)) = -t.infusion[who].fuel
    <3>1. /\ \E h \in H : \E p \in EventsAt(feed, h) : Anchor(feed, t.infusion, who, h, p)
          /\ \E r \in rows : Drawn(r) /\ r.address = who
          /\ Total(Draws(rows, who, Infused("ualpha"))) = t.infusion[who].fuel
          /\ Total(Draws(rows, who, Alpha)) = -t.infusion[who].fuel
      BY DEF Good, FuelGood
    <3> QED BY <1>1, <3>1
  <2>2. \A r \in rows \cup fresh : Drawn(r) => r.address \in DOMAIN t.infusion
    BY DEF Good, FuelGood
  <2> QED BY <2>1, <2>2 DEF FuelGood
<1>3. RowsGood(feed, t, rows \cup fresh, H)
  <2>1. \A r \in rows \cup fresh : \E h \in H : BankRow(feed, r, h) \/ OwnRow(feed, r, h) \/ FuelRow(feed, t, r, h)
    BY DEF Good, RowsGood
  <2>2. \A r, q \in rows \cup fresh : r.key = q.key => r = q
    BY DEF Good, RowsGood
  <2> QED BY <2>1, <2>2 DEF RowsGood
<1> QED BY <1>2, <1>3 DEF Good

\* The bank rows of a block.
LEMMA BankAdded ==
    ASSUME IsPlaced, NEW H \in SUBSET (1..MaxHeight), NEW t, NEW rows, Good(feed, t, rows, H),
           NEW h \in H
    PROVE  Good(feed, t, rows \cup feed[h].ledger, H)
<1> DEFINE fresh == feed[h].ledger
<1>1. \A r \in fresh : ~Drawn(r) /\ \E g \in H : BankRow(feed, r, g) \/ OwnRow(feed, r, g)
  BY BankRowOf DEF BankRow
<1>2. ASSUME NEW r \in rows \cup fresh, NEW s \in fresh, r.key = s.key PROVE r = s
  <2>1. h \in 1..MaxHeight /\ RowsGood(feed, t, rows, H)
    BY DEF Good
  <2>2. CASE r \in rows
    BY <1>2, <2>1, <2>2, NoClash
  <2>3. CASE r \in fresh
    BY <1>2, <2>1, <2>3, BankRowOf
  <2> QED BY <2>2, <2>3
<1> HIDE DEF fresh
<1>3. Good(feed, t, rows \cup fresh, H)
  BY <1>1, <1>2, RowsAdded
<1> QED BY <1>3 DEF fresh

\* The rows of an ore or refinement event.
LEMMA OwnAdded ==
    ASSUME IsPlaced, NEW H \in SUBSET (1..MaxHeight), NEW t, NEW rows, Good(feed, t, rows, H),
           NEW h \in H, NEW p \in EventsAt(feed, h), Owns(p)
    PROVE  Good(feed, t, rows \cup OwnRows(h, p), H)
<1> DEFINE fresh == OwnRows(h, p)
<1>0. p.index \in Int
  BY PointOf
<1>1. \A r \in fresh : ~Drawn(r) /\ \E g \in H : BankRow(feed, r, g) \/ OwnRow(feed, r, g)
  BY <1>0, OwnRowsOf DEF OwnRow
<1>2. ASSUME NEW r \in rows \cup fresh, NEW s \in fresh, r.key = s.key PROVE r = s
  <2>1. h \in 1..MaxHeight /\ RowsGood(feed, t, rows, H)
    BY DEF Good
  <2>2. CASE r \in rows
    BY <1>2, <2>1, <2>2, NoClash
  <2>3. CASE r \in fresh
    BY <1>0, <1>2, <2>3, OwnRowsOf
  <2> QED BY <2>2, <2>3
<1> HIDE DEF fresh
<1>3. Good(feed, t, rows \cup fresh, H)
  BY <1>1, <1>2, RowsAdded
<1> QED BY <1>3 DEF fresh

------------------------------------------------------------------------------
(* Infusions: a snapshot is skipped if one at or after it is stored, and   *)
(* otherwise it is after all that are.                                     *)

\* A funder without a position has a committed row that says in which block it infused.
Dated(t) ==
    \A who \in DOMAIN t.infusion :
       t.infusion[who].position = << >> => \E r \in t.ledger : Drawn(r) /\ r.address = who

\* A row that an infusion drew, and its event.
LEMMA DrawnSource ==
    ASSUME IsPlaced, NEW H \in SUBSET (1..MaxHeight), NEW t, NEW rows, RowsGood(feed, t, rows, H),
           NEW r \in rows, Drawn(r)
    PROVE  \E g \in H : \E q \in EventsAt(feed, g) :
              /\ Infuses(q) /\ DrawnRow(r, g, q) /\ RowFrom(r, g, q) /\ r.address = Funder(q)
              /\ TookFuel(feed, t.infusion, g, q)
<1>1. PICK g \in H : \E q \in EventsAt(feed, g) : Sourced(feed, t.infusion, r, g, q)
  BY RowSource
<1>2. PICK q \in EventsAt(feed, g) : Sourced(feed, t.infusion, r, g, q)
  BY <1>1
<1>3. q.index \in Int /\ g \in 1..MaxHeight
  BY PointOf
<1>4. r \notin feed[g].ledger
  BY <1>3, BankRowOf
<1>5. Owns(q) => r \notin OwnRows(g, q)
  BY <1>3, OwnRowsOf
<1>6. Infuses(q) /\ DrawnRow(r, g, q) /\ RowFrom(r, g, q) /\ TookFuel(feed, t.infusion, g, q)
  BY <1>2, <1>4, <1>5 DEF Sourced
<1>7. r.address = Funder(q)
  BY <1>3, <1>6, DrawnRowOf
<1> QED BY <1>6, <1>7

\* An empty position is none of an event.
LEMMA AnchorCases ==
    ASSUME IsPlaced, NEW infusion, NEW who, NEW g \in 1..MaxHeight, NEW q \in EventsAt(feed, g),
           Anchor(feed, infusion, who, g, q)
    PROVE  \/ infusion[who].position = Position(g, q) /\ infusion[who].position # << >>
              /\ infusion[who].position[2] # NoPhase
           \/ /\ g = 1 /\ infusion[who].position # << >>
              /\ infusion[who].position = << 1, NoPhase, q.tx, q.index >>
           \/ g = 1 /\ infusion[who].position = << >> /\ NewestAt(feed, 1, q)
<1>1. Position(g, q) # << >> /\ Position(g, q)[2] # NoPhase
  BY PointOf
<1>2. ASSUME NEW x, NEW y, NEW z, NEW u PROVE <<x, y, z, u>> # << >>
  <2>1. Len(<<x, y, z, u>>) = 4 /\ Len(<< >>) = 0
    OBVIOUS
  <2> QED BY <2>1
<1> QED BY <1>1, <1>2 DEF Anchor

\* Without a position, the infusions that a funder has rows of are those of block 1.
LEMMA LastInfusedIs ==
    ASSUME IsPlaced, NEW H \in SUBSET (1..MaxHeight), NEW t, NEW rows, RowsGood(feed, t, rows, H),
           t.ledger \subseteq rows, Dated(t), NEW who \in DOMAIN t.infusion,
           t.infusion[who].position = << >>
    PROVE  LastInfused(t, who) = 1
<1> DEFINE own == { l \in t.ledger : l.address = who /\ l.counterparty = Generator /\ l.action = "infused" }
           S == {0} \cup { r.key[1] : r \in own }
<1>1. ASSUME NEW r \in own PROVE r.key[1] = 1
  <2>1. Drawn(r) /\ r \in rows /\ r.address = who
    BY DEF Drawn
  <2>2. PICK g \in H : \E q \in EventsAt(feed, g) :
           RowFrom(r, g, q) /\ r.address = Funder(q) /\ TookFuel(feed, t.infusion, g, q)
    BY <2>1, DrawnSource
  <2>3. PICK q \in EventsAt(feed, g) :
           RowFrom(r, g, q) /\ r.address = Funder(q) /\ TookFuel(feed, t.infusion, g, q)
    BY <2>2
  <2>4. PICK f \in 1..MaxHeight : \E x \in EventsAt(feed, f) :
           Anchor(feed, t.infusion, who, f, x) /\ ~PositionBefore(Position(f, x), Position(g, q))
    BY <2>1, <2>3 DEF TookFuel
  <2>5. PICK x \in EventsAt(feed, f) :
           Anchor(feed, t.infusion, who, f, x) /\ ~PositionBefore(Position(f, x), Position(g, q))
    BY <2>4
  <2>6. f = 1
    BY <2>5, AnchorCases
  <2>7. Position(f, x)[1] = f /\ Position(g, q)[1] = g /\ g \in 1..MaxHeight
    BY PointOf
  <2>8. ~(f < g)
    BY <2>5, <2>7, BeforeIs
  <2>9. g = 1
    BY <2>6, <2>7, <2>8, BlockAssumption
  <2> QED BY <2>3, <2>9 DEF RowFrom
<1>2. \E r \in own : TRUE
  BY DEF Dated, Drawn
<1>3. S = {0, 1}
  <2> HIDE DEF own
  <2>1. { r.key[1] : r \in own } = {1}
    BY <1>1, <1>2
  <2> QED BY <2>1
<1>4. Max({0, 1}) = 1
  BY DEF Max
<1>5. LastInfused(t, who) = Max(S)
  BY DEF LastInfused
<1> QED BY <1>3, <1>4, <1>5

\* A snapshot that InfusionApplied skips is not newer than what is stored.
LEMMA SkippedFuel ==
    ASSUME IsPlaced, NEW H \in SUBSET (1..MaxHeight), NEW t, NEW rows, Good(feed, t, rows, H),
           t.ledger \subseteq rows, Dated(t), NEW h \in 1..MaxHeight, NEW p \in EventsAt(feed, h),
           Infuses(p), ~InfusionUnorderable(t, Funder(p), Position(h, p)),
           InfusionApplied(t, Funder(p), Position(h, p))
    PROVE  TookFuel(feed, t.infusion, h, p)
<1> DEFINE who == Funder(p)
           at == Position(h, p)
           position == t.infusion[who].position
<1>1. who \in DOMAIN t.infusion
  BY DEF InfusionApplied
<1>2. PICK g \in H : \E q \in EventsAt(feed, g) : Anchor(feed, t.infusion, who, g, q)
  BY <1>1 DEF Good, FuelGood
<1>3. PICK q \in EventsAt(feed, g) : Anchor(feed, t.infusion, who, g, q)
  BY <1>2
<1>4. at[1] = h /\ Position(g, q)[1] = g /\ g \in 1..MaxHeight
  BY PointOf
<1>5. CASE position = << >>
  <2>1. h <= 1
    BY <1>1, <1>4, <1>5, LastInfusedIs DEF InfusionApplied, Good
  <2>2. h = 1 /\ p \in EventsAt(feed, 1)
    BY <2>1
  <2>3. g = 1 /\ NewestAt(feed, 1, q) /\ Funder(q) = who
    BY <1>3, <1>5, AnchorCases DEF Anchor
  <2>4. ~PositionBefore(Position(1, q), Position(1, p))
    BY <2>2, <2>3 DEF NewestAt
  <2> QED BY <1>1, <1>3, <2>2, <2>3, <2>4 DEF TookFuel
<1>6. CASE position # << >>
  <2>1. ~PositionBefore(position, at)
    BY <1>1, <1>6 DEF InfusionApplied
  <2>2. ~(position[1] = h /\ position[2] = NoPhase)
    BY <1>1, <1>4, <1>6 DEF InfusionUnorderable
  <2>3. CASE position = Position(g, q)
    BY <1>1, <1>3, <1>4, <2>1, <2>3 DEF TookFuel
  <2>4. CASE g = 1 /\ position = << 1, NoPhase, q.tx, q.index >>
    <3>1. position[1] = 1 /\ position[2] = NoPhase
      BY <2>4
    <3>2. h # 1 /\ 1 < h
      BY <2>2, <3>1
    <3>3. PositionBefore(position, at)
      BY <1>4, <3>1, <3>2, BeforeIs
    <3> QED BY <2>1, <3>3
  <2> QED BY <1>3, <1>6, <2>3, <2>4, AnchorCases
<1> QED BY <1>5, <1>6

\* A snapshot that it lets pass is newer than what is stored.
LEMMA FreshFuel ==
    ASSUME IsPlaced, NEW H \in SUBSET (1..MaxHeight), NEW t, NEW rows, Good(feed, t, rows, H),
           t.ledger \subseteq rows, Dated(t), NEW h \in 1..MaxHeight, NEW p \in EventsAt(feed, h),
           Infuses(p), ~InfusionUnorderable(t, Funder(p), Position(h, p)),
           ~InfusionApplied(t, Funder(p), Position(h, p)), Funder(p) \in DOMAIN t.infusion,
           NEW g \in 1..MaxHeight, NEW q \in EventsAt(feed, g), Anchor(feed, t.infusion, Funder(p), g, q)
    PROVE  PositionBefore(Position(g, q), Position(h, p))
<1> DEFINE who == Funder(p)
           at == Position(h, p)
           position == t.infusion[who].position
<1>1. at[1] = h /\ Position(g, q)[1] = g
  BY PointOf
<1>2. CASE position = << >>
  <2>1. LastInfused(t, who) = 1
    BY <1>2, LastInfusedIs DEF Good
  <2>2. ~(h <= 1)
    BY <1>1, <1>2, <2>1 DEF InfusionApplied
  <2>3. g = 1
    BY <1>2, AnchorCases
  <2>4. g < h
    BY <2>2, <2>3
  <2> QED BY <1>1, <2>4, BeforeIs
<1>3. CASE position # << >>
  <2>1. PositionBefore(position, at)
    BY <1>3 DEF InfusionApplied
  <2>2. ~(position[1] = h /\ position[2] = NoPhase)
    BY <1>1, <1>3 DEF InfusionUnorderable
  <2>3. CASE position = Position(g, q)
    BY <2>1, <2>3
  <2>4. CASE g = 1 /\ position = << 1, NoPhase, q.tx, q.index >>
    <3>1. position[1] = 1 /\ position[2] = NoPhase
      BY <2>4
    <3>2. g < h
      BY <2>2, <2>4, <3>1
    <3> QED BY <1>1, <3>2, BeforeIs
  <2> QED BY <1>3, <2>3, <2>4, AnchorCases
<1> QED BY <1>2, <1>3

KeepsFuel(more, infusion) ==
    \A g \in 1..MaxHeight : \A q \in EventsAt(feed, g) :
       TookFuel(feed, infusion, g, q) => TookFuel(feed, more, g, q)

\* The table with the snapshot of this event.
WithFuel(infusion, h, p) ==
    Upsert(infusion, Funder(p), [fuel |-> Fuel(p), position |-> Position(h, p)])

\* Storing a newer snapshot forgets none that was taken in.
LEMMA FuelStored ==
    ASSUME IsPlaced, NEW infusion, NEW h \in 1..MaxHeight, NEW p \in EventsAt(feed, h), Infuses(p),
           \A g \in 1..MaxHeight : \A q \in EventsAt(feed, g) :
              Funder(p) \in DOMAIN infusion /\ Anchor(feed, infusion, Funder(p), g, q)
                 => PositionBefore(Position(g, q), Position(h, p)),
           NEW more, more = WithFuel(infusion, h, p)
    PROVE  /\ DOMAIN more = DOMAIN infusion \cup {Funder(p)} /\ more[Funder(p)].fuel = Fuel(p)
           /\ \A x \in DOMAIN infusion : x # Funder(p) => more[x] = infusion[x]
           /\ Anchor(feed, more, Funder(p), h, p) /\ TookFuel(feed, more, h, p)
           /\ KeepsFuel(more, infusion)
<1> DEFINE who == Funder(p)
           at == Position(h, p)
           row == [fuel |-> Fuel(p), position |-> at]
<1>1. /\ DOMAIN more = DOMAIN infusion \cup {who} /\ more[who] = row
      /\ \A x \in DOMAIN infusion : x # who => more[x] = infusion[x]
  BY DEF WithFuel, Upsert
<1>2. row.fuel = Fuel(p) /\ row.position = at
  OBVIOUS
<1> HIDE DEF row
<1>3. Anchor(feed, more, who, h, p)
  BY <1>1, <1>2 DEF Anchor
<1>4. IsPoint(at) /\ ~PositionBefore(at, at)
  BY PointOf, BeforeOrder
<1>5. TookFuel(feed, more, h, p)
  BY <1>1, <1>3, <1>4 DEF TookFuel
<1>6. ASSUME NEW g \in 1..MaxHeight, NEW q \in EventsAt(feed, g), TookFuel(feed, infusion, g, q)
      PROVE  TookFuel(feed, more, g, q)
  <2>1. PICK f \in 1..MaxHeight : \E x \in EventsAt(feed, f) :
           Anchor(feed, infusion, Funder(q), f, x) /\ ~PositionBefore(Position(f, x), Position(g, q))
    BY <1>6 DEF TookFuel
  <2>2. PICK x \in EventsAt(feed, f) :
           Anchor(feed, infusion, Funder(q), f, x) /\ ~PositionBefore(Position(f, x), Position(g, q))
    BY <2>1
  <2>3. Funder(q) \in DOMAIN infusion
    BY <1>6 DEF TookFuel
  <2>4. CASE Funder(q) # who
    <3>1. more[Funder(q)] = infusion[Funder(q)]
      BY <1>1, <2>3, <2>4
    <3>2. Anchor(feed, more, Funder(q), f, x)
      BY <2>2, <3>1 DEF Anchor
    <3> QED BY <1>1, <2>2, <2>3, <3>2 DEF TookFuel
  <2>5. CASE Funder(q) = who
    <3>1. PositionBefore(Position(f, x), at)
      BY <2>2, <2>3, <2>5
    <3>2. IsPoint(Position(f, x)) /\ IsPoint(Position(g, q))
      BY PointOf
    <3>3. ~PositionBefore(at, Position(f, x))
      BY <1>4, <3>1, <3>2, BeforeOrder
    <3>4. ~PositionBefore(at, Position(g, q))
      BY <1>4, <2>2, <3>2, <3>3, LaterCovers
    <3> QED BY <1>1, <1>3, <2>5, <3>4 DEF TookFuel
  <2> QED BY <2>4, <2>5
<1>7. KeepsFuel(more, infusion)
  BY <1>6 DEF KeepsFuel
<1> QED BY <1>1, <1>2, <1>3, <1>5, <1>7

\* The two denominations of an infusion.
LEMMA TwoDenoms == Alpha # Infused("ualpha")
  BY Zenon DEF Alpha, Infused, Held

\* What an infusion books.
Drawing(h, p, added) ==
    { LedgerRow(h, p, p.msg, Spent(p, added)), LedgerRow(h, p, p.msg, Gained(p, added)) }

\* The rows of an infusion: one in each denomination, with the two changes.
LEMMA DrawingOf ==
    ASSUME NEW h, NEW p, p.index \in Int, NEW added \in Int,
           NEW a, a = LedgerRow(h, p, p.msg, Spent(p, added)),
           NEW b, b = LedgerRow(h, p, p.msg, Gained(p, added))
    PROVE  /\ a.denom = Alpha /\ a.change = -added /\ DrawnRow(a, h, p)
           /\ b.denom = Infused("ualpha") /\ b.change = added /\ DrawnRow(b, h, p)
           /\ a.key # b.key
<1>1. a.denom = Alpha /\ a.change = -added /\ b.denom = Infused("ualpha") /\ b.change = added
  BY DEF LedgerRow, Spent, Gained, Leg
<1>2. -(-added) = added
  OBVIOUS
<1>3. DrawnRow(a, h, p) /\ DrawnRow(b, h, p)
  <2>1. a = LedgerRow(h, p, p.msg, Spent(p, -a.change)) /\ b = LedgerRow(h, p, p.msg, Gained(p, b.change))
    BY <1>1, <1>2
  <2> QED BY <2>1 DEF DrawnRow
<1>4. Spent(p, added).leg = 0 /\ Gained(p, added).leg = 1
  BY DEF Spent, Gained, Leg
<1>5. a.key # b.key
  <2>1. ASSUME NEW l, l.leg = 0, NEW k, k.leg = 1
        PROVE  LedgerRow(h, p, p.msg, l).key # LedgerRow(h, p, p.msg, k).key
    <3>1. l.leg \in {0, 1} /\ k.leg \in {0, 1} /\ l.leg # k.leg
      BY <2>1
    <3> QED BY <3>1, BookedLeg
  <2> QED BY <1>4, <2>1
<1> QED BY <1>1, <1>3, <1>5

\* A new row adds its change to the sum of its funder and denomination.
LEMMA DrawnTotal ==
    ASSUME NEW rows, WholeRows(rows), NEW who, NEW denom, NEW r, r \notin rows, r.change \in Int,
           Drawn(r), r.address = who, r.denom = denom,
           NEW fresh, r \in fresh, \A s \in fresh : s # r => s.denom # denom
    PROVE  /\ Total(Draws(rows, who, denom)) \in Int
           /\ Total(Draws(rows \cup fresh, who, denom)) = r.change + Total(Draws(rows, who, denom))
<1> DEFINE D == Draws(rows, who, denom)
<1>1. Draws(rows \cup fresh, who, denom) = D \cup {r} /\ r \notin D
  BY DEF Draws
<1>2. IsFiniteSet(D) /\ \A s \in D : s.change \in Int
  <2>1. D \subseteq rows
    BY DEF Draws
  <2> HIDE DEF D
  <2> QED BY <2>1, FS_Subset DEF WholeRows
<1> HIDE DEF D
<1>3. IsFiniteSet(D \cup {r}) /\ \A s \in D \cup {r} : s.change \in Int
  BY <1>2, FS_AddElement
<1>4. (D \cup {r}) \ {r} = D
  BY <1>1
<1>5. Total(D \cup {r}) = r.change + Total(D)
  BY <1>3, <1>4, TotalStep
<1>6. Total(D) \in Int
  BY <1>2, TotalStep
<1> QED BY <1>1, <1>5, <1>6 DEF D

\* What Infusion adds of a snapshot: its difference with the stored one.
FuelChange(infusion, p) ==
    IF Funder(p) \in DOMAIN infusion THEN Fuel(p) - infusion[Funder(p)].fuel ELSE Fuel(p)

\* An event whose snapshot is newer than what is stored; u has it on top of t.
Infusing(t, u, rows, H, h, p) ==
    /\ Good(feed, t, rows, H) /\ WholeRows(rows) /\ WholeFuel(t.infusion)
    /\ h \in H /\ p \in EventsAt(feed, h) /\ Infuses(p)
    /\ \A g \in 1..MaxHeight : \A q \in EventsAt(feed, g) :
          Funder(p) \in DOMAIN t.infusion /\ Anchor(feed, t.infusion, Funder(p), g, q)
             => PositionBefore(Position(g, q), Position(h, p))
    /\ u.infusion = WithFuel(t.infusion, h, p)

\* It was not taken in before.
LEMMA NotTaken ==
    ASSUME IsPlaced, NEW H \in SUBSET (1..MaxHeight), NEW t, NEW u, NEW rows, NEW h, NEW p,
           Infusing(t, u, rows, H, h, p)
    PROVE  ~TookFuel(feed, t.infusion, h, p)
  BY DEF Infusing, TookFuel

\* The table after the snapshot is stored, and the rows that were there.
LEMMA InfusingStored ==
    ASSUME IsPlaced, NEW H \in SUBSET (1..MaxHeight), NEW t, NEW u, NEW rows, NEW h, NEW p,
           Infusing(t, u, rows, H, h, p)
    PROVE  /\ DOMAIN u.infusion = DOMAIN t.infusion \cup {Funder(p)} /\ u.infusion[Funder(p)].fuel = Fuel(p)
           /\ \A x \in DOMAIN t.infusion : x # Funder(p) => u.infusion[x] = t.infusion[x]
           /\ Anchor(feed, u.infusion, Funder(p), h, p) /\ TookFuel(feed, u.infusion, h, p)
           /\ KeepsFuel(u.infusion, t.infusion)
           /\ \A who \in DOMAIN u.infusion :
                 \E g \in H : \E q \in EventsAt(feed, g) : Anchor(feed, u.infusion, who, g, q)
           /\ \A r \in rows : \E g \in H : BankRow(feed, r, g) \/ OwnRow(feed, r, g) \/ FuelRow(feed, u, r, g)
<1>1. h \in 1..MaxHeight /\ p \in EventsAt(feed, h) /\ Infuses(p) /\ Good(feed, t, rows, H) /\ h \in H
  BY DEF Infusing
<1>2. /\ DOMAIN u.infusion = DOMAIN t.infusion \cup {Funder(p)} /\ u.infusion[Funder(p)].fuel = Fuel(p)
      /\ \A x \in DOMAIN t.infusion : x # Funder(p) => u.infusion[x] = t.infusion[x]
      /\ Anchor(feed, u.infusion, Funder(p), h, p) /\ TookFuel(feed, u.infusion, h, p)
      /\ KeepsFuel(u.infusion, t.infusion)
  BY <1>1, FuelStored DEF Infusing
<1>3. ASSUME NEW who \in DOMAIN u.infusion
      PROVE  \E g \in H : \E q \in EventsAt(feed, g) : Anchor(feed, u.infusion, who, g, q)
  <2>1. CASE who = Funder(p)
    BY <1>1, <1>2, <2>1
  <2>2. CASE who # Funder(p)
    <3>1. who \in DOMAIN t.infusion /\ u.infusion[who] = t.infusion[who]
      BY <1>2, <2>2
    <3>2. \E g \in H : \E q \in EventsAt(feed, g) : Anchor(feed, t.infusion, who, g, q)
      BY <1>1, <3>1 DEF Good, FuelGood
    <3> QED BY <3>1, <3>2 DEF Anchor
  <2> QED BY <2>1, <2>2
<1>4. ASSUME NEW r \in rows
      PROVE  \E g \in H : BankRow(feed, r, g) \/ OwnRow(feed, r, g) \/ FuelRow(feed, u, r, g)
  <2>1. PICK g \in H : BankRow(feed, r, g) \/ OwnRow(feed, r, g) \/ FuelRow(feed, t, r, g)
    BY <1>1 DEF Good, RowsGood
  <2>2. FuelRow(feed, t, r, g) => FuelRow(feed, u, r, g)
    BY <1>2 DEF FuelRow, KeepsFuel
  <2> QED BY <2>1, <2>2
<1> QED BY <1>2, <1>3, <1>4

\* A snapshot that adds nothing is stored without rows.
LEMMA FuelSame ==
    ASSUME IsPlaced, NEW H \in SUBSET (1..MaxHeight), NEW t, NEW u, NEW rows, NEW h, NEW p,
           Infusing(t, u, rows, H, h, p), Funder(p) \in DOMAIN t.infusion, FuelChange(t.infusion, p) = 0
    PROVE  FuelGood(feed, u, rows, H) /\ RowsGood(feed, u, rows, H)
<1>1. /\ DOMAIN u.infusion = DOMAIN t.infusion \cup {Funder(p)} /\ u.infusion[Funder(p)].fuel = Fuel(p)
      /\ \A x \in DOMAIN t.infusion : x # Funder(p) => u.infusion[x] = t.infusion[x]
  BY InfusingStored
<1>2. Good(feed, t, rows, H)
  BY DEF Infusing
<1>3. \A who \in DOMAIN t.infusion : u.infusion[who].fuel = t.infusion[who].fuel
  <2>1. Fuel(p) \in Int /\ t.infusion[Funder(p)].fuel \in Int
    <3>1. WholeAmounts(p.event)
      BY PointOf DEF Infusing
    <3> QED BY <3>1 DEF WholeAmounts, Infusing, WholeFuel, Infuses, Fuel
  <2>2. Fuel(p) = t.infusion[Funder(p)].fuel
    <3>1. Fuel(p) - t.infusion[Funder(p)].fuel = 0
      BY DEF FuelChange
    <3> QED BY <2>1, <3>1
  <2> QED BY <1>1, <2>2
<1>4. FuelGood(feed, u, rows, H)
  <2>1. DOMAIN u.infusion = DOMAIN t.infusion
    BY <1>1
  <2>2. \A who \in DOMAIN u.infusion :
          \E g \in H : \E q \in EventsAt(feed, g) : Anchor(feed, u.infusion, who, g, q)
    BY InfusingStored
  <2> QED BY <1>2, <1>3, <2>1, <2>2 DEF Good, FuelGood
<1>5. RowsGood(feed, u, rows, H)
  <2>1. \A r \in rows : \E g \in H : BankRow(feed, r, g) \/ OwnRow(feed, r, g) \/ FuelRow(feed, u, r, g)
    BY InfusingStored
  <2>2. \A r, q \in rows : r.key = q.key => r = q
    BY <1>2 DEF Good, RowsGood
  <2> QED BY <2>1, <2>2 DEF RowsGood
<1> QED BY <1>4, <1>5

\* The rows of a newer snapshot are new.
LEMMA DrawingNew ==
    ASSUME IsPlaced, NEW H \in SUBSET (1..MaxHeight), NEW t, NEW u, NEW rows, NEW h, NEW p,
           Infusing(t, u, rows, H, h, p), NEW s, DrawnRow(s, h, p)
    PROVE  \A r \in rows : r.key # s.key
<1> SUFFICES ASSUME NEW r \in rows, r.key = s.key PROVE FALSE
  OBVIOUS
<1>1. /\ h \in H /\ h \in 1..MaxHeight /\ p \in EventsAt(feed, h) /\ Infuses(p)
      /\ RowsGood(feed, t, rows, H)
  BY DEF Infusing, Good
<1>2. PICK g \in H : \E q \in EventsAt(feed, g) : Sourced(feed, t.infusion, r, g, q)
  BY <1>1, RowSource
<1>3. PICK q \in EventsAt(feed, g) : Sourced(feed, t.infusion, r, g, q)
  BY <1>2
<1>4. RowFrom(s, h, p)
  BY <1>1, PointOf, DrawnRowOf
<1>5. g = h /\ q = p
  BY <1>1, <1>3, <1>4, OneSource DEF Sourced
<1>6. TookFuel(feed, t.infusion, h, p)
  BY <1>1, <1>3, <1>5, Kinds DEF Sourced
<1> QED BY <1>6, NotTaken

\* A snapshot that adds something, or the first one, is stored with its two rows.
LEMMA FuelBooked ==
    ASSUME IsPlaced, NEW H \in SUBSET (1..MaxHeight), NEW t, NEW u, NEW rows, NEW h, NEW p,
           Infusing(t, u, rows, H, h, p)
    PROVE  LET all == rows \cup Drawing(h, p, FuelChange(t.infusion, p))
           IN FuelGood(feed, u, all, H) /\ RowsGood(feed, u, all, H)
<1>0. /\ DOMAIN u.infusion = DOMAIN t.infusion \cup {Funder(p)} /\ u.infusion[Funder(p)].fuel = Fuel(p)
      /\ \A x \in DOMAIN t.infusion : x # Funder(p) => u.infusion[x] = t.infusion[x]
  BY InfusingStored
<1>20. TookFuel(feed, u.infusion, h, p)
  BY InfusingStored
<1>21. /\ \A x \in DOMAIN u.infusion :
             \E g \in H : \E q \in EventsAt(feed, g) : Anchor(feed, u.infusion, x, g, q)
       /\ \A r \in rows : \E g \in H : BankRow(feed, r, g) \/ OwnRow(feed, r, g) \/ FuelRow(feed, u, r, g)
  BY InfusingStored
<1> DEFINE added == FuelChange(t.infusion, p)
           fresh == Drawing(h, p, added)
           all == rows \cup fresh
           who == Funder(p)
           a == LedgerRow(h, p, p.msg, Spent(p, added))
           b == LedgerRow(h, p, p.msg, Gained(p, added))
<1>1. /\ h \in H /\ h \in 1..MaxHeight /\ p \in EventsAt(feed, h) /\ Infuses(p)
      /\ Good(feed, t, rows, H) /\ WholeRows(rows) /\ WholeFuel(t.infusion)
  BY DEF Infusing
<1>2. p.index \in Int /\ Fuel(p) \in Int
  BY <1>1, PointOf DEF WholeAmounts, Infuses, Fuel
<1>3. added \in Int
  BY <1>1, <1>2 DEF FuelChange, WholeFuel
<1>4. fresh = {a, b}
  BY DEF Drawing
<1>5. /\ DOMAIN u.infusion = DOMAIN t.infusion \cup {who} /\ u.infusion[who].fuel = Fuel(p)
      /\ \A x \in DOMAIN t.infusion : x # who => u.infusion[x] = t.infusion[x]
      /\ TookFuel(feed, u.infusion, h, p)
  BY <1>0, <1>20
<1>22. a = LedgerRow(h, p, p.msg, Spent(p, added)) /\ b = LedgerRow(h, p, p.msg, Gained(p, added))
  OBVIOUS
<1> HIDE DEF added, fresh, a, b, who
<1>6. /\ a.denom = Alpha /\ a.change = -added /\ DrawnRow(a, h, p)
      /\ b.denom = Infused("ualpha") /\ b.change = added /\ DrawnRow(b, h, p)
      /\ a.key # b.key
  BY <1>2, <1>3, <1>22, DrawingOf
<1>7. Drawn(a) /\ a.address = who /\ Drawn(b) /\ b.address = who
  BY <1>2, <1>6, DrawnRowOf DEF who
<1>8. \A r \in rows : r.key # a.key /\ r.key # b.key
  BY <1>6, DrawingNew
<1>9. a \notin rows /\ b \notin rows
  BY <1>8
<1>10. FuelGood(feed, u, all, H)
  <2>1. ASSUME NEW x \in DOMAIN u.infusion
        PROVE  /\ \E r \in all : Drawn(r) /\ r.address = x
               /\ Total(Draws(all, x, Infused("ualpha"))) = u.infusion[x].fuel
               /\ Total(Draws(all, x, Alpha)) = -u.infusion[x].fuel
    <3>1. CASE x # who
      <4>1. x \in DOMAIN t.infusion /\ u.infusion[x] = t.infusion[x]
        BY <1>5, <3>1
      <4>2. \A denom : Draws(all, x, denom) = Draws(rows, x, denom)
        BY <1>4, <1>7, <3>1 DEF Draws
      <4>3. /\ \E r \in rows : Drawn(r) /\ r.address = x
            /\ Total(Draws(rows, x, Infused("ualpha"))) = t.infusion[x].fuel
            /\ Total(Draws(rows, x, Alpha)) = -t.infusion[x].fuel
        BY <1>1, <4>1 DEF Good, FuelGood
      <4> QED BY <4>1, <4>2, <4>3
    <3>2. CASE x = who
      <4> DEFINE f == IF who \in DOMAIN t.infusion THEN t.infusion[who].fuel ELSE 0
      <4>1. Total(Draws(rows, who, Infused("ualpha"))) = f /\ Total(Draws(rows, who, Alpha)) = -f
        <5>1. CASE who \in DOMAIN t.infusion
          BY <1>1, <5>1 DEF Good, FuelGood
        <5>2. CASE who \notin DOMAIN t.infusion
          <6>1. \A r \in rows : Drawn(r) => r.address # who
            BY <1>1, <5>2 DEF Good, FuelGood
          <6>2. \A denom : Draws(rows, who, denom) = {}
            BY <6>1 DEF Draws
          <6> QED BY <5>2, <6>2, TotalOfNone
        <5> QED BY <5>1, <5>2
      <4>2. f \in Int /\ Fuel(p) = added + f
        <5>1. CASE who \in DOMAIN t.infusion
          <6>1. t.infusion[who].fuel \in Int
            BY <1>1, <5>1 DEF WholeFuel
          <6>2. added = Fuel(p) - t.infusion[who].fuel
            BY <5>1 DEF FuelChange, added, who
          <6> QED BY <1>2, <5>1, <6>1, <6>2
        <5>2. CASE who \notin DOMAIN t.infusion
          <6>1. added = Fuel(p)
            BY <5>2 DEF FuelChange, added, who
          <6> QED BY <1>2, <5>2, <6>1
        <5> QED BY <5>1, <5>2
      <4> HIDE DEF f
      <4>3. Total(Draws(all, who, Infused("ualpha"))) = added + f
        <5>1. \A s \in fresh : s # b => s.denom # Infused("ualpha")
          BY <1>4, <1>6, TwoDenoms
        <5>2. b \in fresh /\ b.change \in Int
          BY <1>3, <1>4, <1>6
        <5> QED BY <1>1, <1>6, <1>7, <1>9, <4>1, <5>1, <5>2, DrawnTotal
      <4>4. Total(Draws(all, who, Alpha)) = (-added) + (-f)
        <5>1. \A s \in fresh : s # a => s.denom # Alpha
          BY <1>4, <1>6, TwoDenoms
        <5>2. a \in fresh /\ a.change \in Int
          BY <1>3, <1>4, <1>6
        <5> QED BY <1>1, <1>6, <1>7, <1>9, <4>1, <5>1, <5>2, DrawnTotal
      <4>5. (-added) + (-f) = -(added + f)
        BY <1>3, <4>2
      <4>6. \E r \in all : Drawn(r) /\ r.address = who
        BY <1>4, <1>7
      <4> QED BY <1>5, <3>2, <4>2, <4>3, <4>4, <4>5, <4>6
    <3> QED BY <3>1, <3>2
  <2>2. \A x \in DOMAIN u.infusion :
           \E g \in H : \E q \in EventsAt(feed, g) : Anchor(feed, u.infusion, x, g, q)
    BY <1>21
  <2>3. \A r \in all : Drawn(r) => r.address \in DOMAIN u.infusion
    <3>1. \A r \in rows : Drawn(r) => r.address \in DOMAIN t.infusion
      BY <1>1 DEF Good, FuelGood
    <3> QED BY <1>4, <1>5, <1>7, <3>1
  <2> HIDE DEF all
  <2> QED BY <2>1, <2>2, <2>3 DEF FuelGood
<1>11. RowsGood(feed, u, all, H)
  <2>1. \A r \in rows : \E g \in H : BankRow(feed, r, g) \/ OwnRow(feed, r, g) \/ FuelRow(feed, u, r, g)
    BY <1>21
  <2>2. FuelRow(feed, u, a, h) /\ FuelRow(feed, u, b, h)
    BY <1>1, <1>5, <1>6 DEF FuelRow
  <2>3. \A r \in all : \E g \in H : BankRow(feed, r, g) \/ OwnRow(feed, r, g) \/ FuelRow(feed, u, r, g)
    BY <1>1, <1>4, <2>1, <2>2
  <2>4. \A r, q \in all : r.key = q.key => r = q
    <3>1. \A r, q \in rows : r.key = q.key => r = q
      BY <1>1 DEF Good, RowsGood
    <3> QED BY <1>4, <1>6, <1>8, <3>1
  <2> HIDE DEF all
  <2> QED BY <2>3, <2>4 DEF RowsGood
<1> QED BY <1>10, <1>11 DEF added, fresh

------------------------------------------------------------------------------
(* The handlers, once more: what is in the tables and in the buffers comes *)
(* from events, nothing is forgotten, and an event without an error was    *)
(* taken in.                                                               *)

\* The rows of the work on a block: the stored ones, and those to flush.
Rows(w) == w.db.ledger \cup w.ledger

Sound(w, H) == Good(feed, w.db, Rows(w), H) /\ Dated(w.db)

\* The work v comes after the work w, and forgets nothing of it.
Advanced(v, w, H) == Sound(v, H) /\ Keeps(feed, v.db, Rows(v), w.db, Rows(w))

\* An event that raised no error was taken in.
Taken(v, w, h, p) == v.errors = w.errors => Took(feed, v.db, Rows(v), h, p)

\* What was taken in stays so table by table.
LEMMA KeepsParts ==
    ASSUME NEW t, NEW u, NEW rows, NEW more, KeepsEconomy(u.positions, t.positions),
           KeepsFuel(u.infusion, t.infusion), rows \subseteq more
    PROVE  Keeps(feed, u, more, t, rows)
<1> SUFFICES ASSUME NEW h \in 1..MaxHeight, NEW p \in EventsAt(feed, h), Took(feed, t, rows, h, p)
             PROVE  Took(feed, u, more, h, p)
  BY DEF Keeps
<1>1. Revises(p) => TookEconomy(u.positions, Reactor(p), Position(h, p))
  BY DEF Took, KeepsEconomy
<1>2. Resets(p) => TookEconomy(u.positions, Watermark, Position(h, p))
  BY DEF Took, KeepsEconomy
<1>3. Infuses(p) => TookFuel(feed, u.infusion, h, p)
  BY DEF Took, KeepsFuel
<1>4. Owns(p) => OwnRows(h, p) \subseteq more
  BY DEF Took
<1> QED BY <1>1, <1>2, <1>3, <1>4 DEF Took

\* Nothing is forgotten by doing nothing, or in two steps that forget nothing.
LEMMA KeepsOn ==
    ASSUME NEW s, NEW t, NEW u, NEW R, NEW S, NEW T
    PROVE  /\ Keeps(feed, t, S, t, S)
           /\ Keeps(feed, u, T, t, S) /\ Keeps(feed, t, S, s, R) => Keeps(feed, u, T, s, R)
  BY DEF Keeps

\* Doing nothing advances, and two advances in a row are one.
LEMMA AdvancedOn ==
    ASSUME NEW u, NEW v, NEW w, NEW H
    PROVE  /\ Sound(w, H) => Advanced(w, w, H)
           /\ Advanced(u, v, H) /\ Advanced(v, w, H) => Advanced(u, w, H)
  BY KeepsOn DEF Advanced

\* Tables with the same economy, the same infusions and the same ledger are as good.
Alike(t, u) ==
    /\ u.revisions = t.revisions /\ u.positions = t.positions /\ u.infusion = t.infusion
    /\ u.ledger = t.ledger

\* They come from the same events, and forget nothing of each other.
LEMMA AlikeGood ==
    ASSUME NEW t, NEW u, Alike(t, u), NEW rows, NEW H
    PROVE  /\ Good(feed, t, rows, H) => Good(feed, u, rows, H)
           /\ Dated(t) => Dated(u)
           /\ Keeps(feed, u, rows, t, rows)
<1>1. EconomyGood(feed, t, H) => EconomyGood(feed, u, H)
  BY DEF Alike, EconomyGood
<1>2. FuelGood(feed, t, rows, H) => FuelGood(feed, u, rows, H)
  BY DEF Alike, FuelGood
<1>3. RowsGood(feed, t, rows, H) => RowsGood(feed, u, rows, H)
  BY DEF Alike, RowsGood, FuelRow
<1>4. Dated(t) => Dated(u)
  BY DEF Alike, Dated
<1>5. Keeps(feed, u, rows, t, rows)
  BY DEF Alike, Keeps, Took
<1> QED BY <1>1, <1>2, <1>3, <1>4, <1>5 DEF Good

\* Work that leaves the economy, the infusions and the ledger alone is an advance.
LEMMA AlikeAdvanced ==
    ASSUME NEW v, NEW w, NEW H, Sound(w, H), Alike(w.db, v.db), v.ledger = w.ledger
    PROVE  Advanced(v, w, H)
<1>1. Rows(v) = Rows(w)
  BY DEF Alike, Rows
<1> QED BY <1>1, AlikeGood DEF Sound, Advanced

\* A handler that fails or warns leaves the tables alone, and its error is new.
LEMMA ReportAdvanced ==
    ASSUME NEW w, NEW b, NEW h, WorkOK(w, b, h), NEW H, Sound(w, H), NEW p \in EventsAt(feed, h),
           Registered(p.event.type)
    PROVE  /\ Advanced(Fail(w, h, p), w, H) /\ Taken(Fail(w, h, p), w, h, p)
           /\ Warns(p) => Advanced(Warn(w, h, p), w, H) /\ Taken(Warn(w, h, p), w, h, p)
<1>1. ASSUME NEW s, NEW r, r = ErrorRow(h, p.tx, p.index, KeyOf(p.event), s), r \in Reports(feed, h)
      PROVE  Append(w.errors, r) # w.errors
  <2>1. w.errors \in Seq(Reports(feed, h))
    BY DEF WorkOK
  <2>2. Len(Append(w.errors, r)) = Len(w.errors) + 1 /\ Len(w.errors) \in Nat
    BY <1>1, <2>1
  <2> QED BY <2>2
<1>2. ASSUME NEW s, NEW X, X = Append(w.errors, ErrorRow(h, p.tx, p.index, KeyOf(p.event), s))
      PROVE  /\ Report(w, h, p, s).db = w.db /\ Report(w, h, p, s).ledger = w.ledger
             /\ Report(w, h, p, s).errors = X
             /\ [Report(w, h, p, s) EXCEPT !.failed = TRUE].db = w.db
             /\ [Report(w, h, p, s) EXCEPT !.failed = TRUE].ledger = w.ledger
             /\ [Report(w, h, p, s) EXCEPT !.failed = TRUE].errors = X
  <2>1. Report(w, h, p, s) = [w EXCEPT !.errors = X]
    BY <1>2 DEF Report
  <2> QED BY <2>1 DEF WorkOK, WorkFields
<1>3. ErrorRow(h, p.tx, p.index, KeyOf(p.event), "error") \in Reports(feed, h)
  BY DEF Reports
<1>4. Fail(w, h, p).db = w.db /\ Fail(w, h, p).ledger = w.ledger /\ Fail(w, h, p).errors # w.errors
  BY <1>1, <1>2, <1>3 DEF Fail
<1>5. ASSUME Warns(p)
      PROVE  Warn(w, h, p).db = w.db /\ Warn(w, h, p).ledger = w.ledger /\ Warn(w, h, p).errors # w.errors
  <2>1. ErrorRow(h, p.tx, p.index, KeyOf(p.event), "warn") \in Reports(feed, h)
    BY <1>5 DEF Reports
  <2> QED BY <1>1, <1>2, <2>1 DEF Warn
<1>6. Alike(w.db, w.db)
  BY DEF Alike
<1> QED BY <1>4, <1>5, <1>6, AlikeAdvanced DEF Taken

\* Handling an event, as far as tables and ledger rows go.
Entered(v, w, H, h, p) == Advanced(v, w, H) /\ Taken(v, w, h, p)

\* The events that change neither the economy, nor the fuel, nor the ledger.
LEMMA OtherTook ==
    ASSUME NEW t, NEW rows, NEW h, NEW p, ~Revises(p), ~Resets(p), ~Infuses(p), ~Owns(p)
    PROVE  Took(feed, t, rows, h, p)
  BY DEF Took

\* Ore and refinement events book their rows.
LEMMA OwnEntered ==
    ASSUME IsPlaced, NEW w, NEW b, NEW h, WorkOK(w, b, h), NEW H \in SUBSET (1..MaxHeight), Sound(w, H),
           h \in H, NEW p \in EventsAt(feed, h), Owns(p)
    PROVE  Entered(AppendLedger(w, h, p, OwnLegs(p)), w, H, h, p)
<1> DEFINE v == AppendLedger(w, h, p, OwnLegs(p))
           fresh == OwnRows(h, p)
<1>1. v.db = w.db /\ v.ledger = w.ledger \cup fresh
  <2>1. v = [w EXCEPT !.ledger = @ \cup fresh]
    BY DEF AppendLedger, OwnRows
  <2> HIDE DEF fresh, v
  <2> QED BY <2>1 DEF WorkOK, WorkFields
<1> HIDE DEF v
<1>2. Rows(v) = Rows(w) \cup fresh
  BY <1>1 DEF Rows
<1>3. Sound(v, H)
  BY <1>1, <1>2, OwnAdded DEF Sound
<1>4. Keeps(feed, v.db, Rows(v), w.db, Rows(w))
  BY <1>1, <1>2, KeepsParts DEF KeepsEconomy, KeepsFuel
<1>5. ~Revises(p) /\ ~Resets(p) /\ ~Infuses(p)
  BY DEF Owns, Revises, Resets, Infuses
<1>6. Took(feed, v.db, Rows(v), h, p)
  BY <1>2, <1>5 DEF Took
<1> QED BY <1>3, <1>4, <1>6 DEF Entered, Advanced, Taken, v

\* They are the handlers of those events.
LEMMA OwnHandlers ==
    ASSUME NEW w, NEW h, NEW p, Owns(p)
    PROVE  Handle(w, h, p) = AppendLedger(w, h, p, OwnLegs(p))
<1>1. CASE p.event.type = "EventOreMine"
  <2>1. Handle(w, h, p) = OreMine(w, h, p)
    BY <1>1 DEF Handle
  <2>2. OreMine(w, h, p) = AppendLedger(w, h, p, OwnLegs(p))
    BY <1>1, Zenon DEF OreMine, OwnLegs, NoOne
  <2> QED BY <2>1, <2>2
<1>2. CASE p.event.type = "EventOreTheft"
  <2>1. Handle(w, h, p) = OreTheft(w, h, p)
    BY <1>2 DEF Handle
  <2>2. OreTheft(w, h, p) = AppendLedger(w, h, p, OwnLegs(p))
    BY <1>2 DEF OreTheft, OwnLegs
  <2> QED BY <2>1, <2>2
<1>3. CASE p.event.type = "EventOreMigrate"
  <2>1. Handle(w, h, p) = OreMigrate(w, h, p)
    BY <1>3 DEF Handle
  <2>2. OreMigrate(w, h, p) = AppendLedger(w, h, p, OwnLegs(p))
    BY <1>3 DEF OreMigrate, OwnLegs
  <2> QED BY <2>1, <2>2
<1>4. CASE p.event.type = "EventAlphaRefine"
  <2>1. Handle(w, h, p) = AlphaRefine(w, h, p)
    BY <1>4 DEF Handle
  <2>2. AlphaRefine(w, h, p) = AppendLedger(w, h, p, OwnLegs(p))
    <3> DEFINE d == Value(p.event, "eventAlphaRefineDetail")
    <3>1. OwnLegs(p) = { Leg(0, d.primaryAddress, NoOne, "refined", -d.amount, Ore),
                         Leg(1, ReceiptOwner(d), NoOne, "refined", Micro * d.amount, Alpha) }
      BY <1>4 DEF OwnLegs
    <3>2. AlphaRefine(w, h, p) = AppendLedger(w, h, p,
             { Leg(0, d.primaryAddress, NoOne, "refined", -d.amount, Ore),
               Leg(1, ReceiptOwner(d), NoOne, "refined", Micro * d.amount, Alpha) })
      BY Zenon DEF AlphaRefine, NoOne
    <3> QED BY <3>1, <3>2, Zenon
  <2> QED BY <2>1, <2>2
<1> QED BY <1>1, <1>2, <1>3, <1>4 DEF Owns

\* Work whose economy changed, and nothing else.
LEMMA EconomyEntered ==
    ASSUME NEW w, NEW b, NEW h, WorkOK(w, b, h), NEW H, Sound(w, H), NEW p, NEW X, NEW Y, NEW v,
           v = [w EXCEPT !.db.revisions = X, !.db.positions = Y],
           \A u : u.revisions = X /\ u.positions = Y =>
              EconomyGood(feed, u, H) /\ KeepsEconomy(u.positions, w.db.positions),
           Revises(p) => TookEconomy(Y, Reactor(p), Position(h, p)),
           Resets(p) => TookEconomy(Y, Watermark, Position(h, p)), ~Infuses(p), ~Owns(p)
    PROVE  Entered(v, w, H, h, p)
<1>1. /\ v.db.revisions = X /\ v.db.positions = Y /\ v.db.infusion = w.db.infusion
      /\ v.db.ledger = w.db.ledger /\ v.ledger = w.ledger
  BY Lists DEF WorkOK, WorkFields
<1>2. EconomyGood(feed, v.db, H) /\ KeepsEconomy(v.db.positions, w.db.positions)
  BY <1>1
<1>3. Rows(v) = Rows(w)
  BY <1>1 DEF Rows
<1>4. FuelGood(feed, v.db, Rows(v), H) /\ RowsGood(feed, v.db, Rows(v), H)
  BY <1>1, <1>3 DEF Sound, Good, FuelGood, RowsGood, FuelRow
<1>5. Sound(v, H)
  BY <1>1, <1>2, <1>4 DEF Sound, Good, Dated
<1>6. Keeps(feed, v.db, Rows(v), w.db, Rows(w))
  BY <1>1, <1>2, <1>3, KeepsParts DEF KeepsFuel
<1>7. Took(feed, v.db, Rows(v), h, p)
  BY <1>1 DEF Took
<1> QED BY <1>5, <1>6, <1>7 DEF Entered, Advanced, Taken

\* An event that was taken in already.
LEMMA AlreadyEntered ==
    ASSUME NEW w, NEW H, Sound(w, H), NEW h, NEW p, Took(feed, w.db, Rows(w), h, p)
    PROVE  Entered(w, w, H, h, p)
  BY AdvancedOn DEF Entered, Taken

\* EconomyApplied means that the event was taken in.
LEMMA AppliedTook ==
    ASSUME NEW t, NEW id, NEW at, EconomyApplied(t, id, at)
    PROVE  TookEconomy(t.positions, id, at)
  BY Zenon DEF EconomyApplied, TookEconomy, Watermark

\* A commission revision.
LEMMA RevisionEntered ==
    ASSUME IsPlaced, NEW w, NEW b, NEW h, WorkOK(w, b, h), NEW H \in SUBSET (1..MaxHeight), Sound(w, H),
           h \in H, NEW p \in EventsAt(feed, h), Revises(p)
    PROVE  Entered(CommissionRevision(w, h, p), w, H, h, p)
<1>1. ~Infuses(p) /\ ~Owns(p) /\ ~Resets(p)
  BY DEF Revises, Infuses, Owns, Resets
<1>2. CASE EconomyApplied(w.db, Reactor(p), Position(h, p))
  <2>1. CommissionRevision(w, h, p) = w
    BY <1>2 DEF CommissionRevision, Reactor
  <2>2. Took(feed, w.db, Rows(w), h, p)
    BY <1>1, <1>2, AppliedTook DEF Took
  <2> QED BY <2>1, <2>2, AlreadyEntered
<1>3. CASE ~EconomyApplied(w.db, Reactor(p), Position(h, p))
  <2>1. EconomyGood(feed, w.db, H)
    BY DEF Sound, Good
  <2>2. ASSUME NEW u, u.revisions = Upsert(w.db.revisions, Reactor(p), Revision(p)),
               u.positions = Upsert(w.db.positions, Reactor(p), Position(h, p))
        PROVE  /\ EconomyGood(feed, u, H) /\ KeepsEconomy(u.positions, w.db.positions)
               /\ TookEconomy(u.positions, Reactor(p), Position(h, p))
    BY <1>3, <2>1, <2>2, RevisedEconomy
  <2> DEFINE X == Upsert(w.db.revisions, Reactor(p), Revision(p))
             Y == Upsert(w.db.positions, Reactor(p), Position(h, p))
             v == [w EXCEPT !.db.revisions = X, !.db.positions = Y]
  <2>3. CommissionRevision(w, h, p) = v
    BY <1>3, Lists DEF CommissionRevision, Reactor, Revision, WorkOK, WorkFields
  <2>4. TookEconomy(Y, Reactor(p), Position(h, p))
    <3> DEFINE u == [revisions |-> X, positions |-> Y]
    <3>1. u.revisions = X /\ u.positions = Y
      OBVIOUS
    <3> HIDE DEF u
    <3> QED BY <2>2, <3>1
  <2>5. \A u : u.revisions = X /\ u.positions = Y =>
           EconomyGood(feed, u, H) /\ KeepsEconomy(u.positions, w.db.positions)
    BY <2>2
  <2>6. v = [w EXCEPT !.db.revisions = X, !.db.positions = Y]
    OBVIOUS
  <2> HIDE DEF X, Y, v
  <2>7. Entered(v, w, H, h, p)
    BY <1>1, <2>4, <2>5, <2>6, EconomyEntered
  <2> QED BY <2>3, <2>7
<1> QED BY <1>2, <1>3

\* A reset of the commission revisions.
LEMMA ResetEntered ==
    ASSUME IsPlaced, NEW w, NEW b, NEW h, WorkOK(w, b, h), NEW H \in SUBSET (1..MaxHeight), Sound(w, H),
           h \in H, NEW p \in EventsAt(feed, h), Resets(p)
    PROVE  Entered(CommissionReset(w, h, p), w, H, h, p)
<1> DEFINE at == Position(h, p)
           newer == { k \in DOMAIN w.db.positions : PositionBefore(at, w.db.positions[k]) }
<1>1. ~Infuses(p) /\ ~Owns(p) /\ ~Revises(p)
  BY DEF Revises, Infuses, Owns, Resets
<1>2. CASE EconomyApplied(w.db, Watermark, at)
  <2>1. CommissionReset(w, h, p) = w
    BY <1>2, Zenon DEF CommissionReset, Watermark
  <2>2. Took(feed, w.db, Rows(w), h, p)
    BY <1>1, <1>2, AppliedTook DEF Took
  <2> QED BY <2>1, <2>2, AlreadyEntered
<1>3. CASE ~EconomyApplied(w.db, Watermark, at)
  <2>1. EconomyGood(feed, w.db, H)
    BY DEF Sound, Good
  <2>2. ASSUME NEW u, u.revisions = Restrict(w.db.revisions, DOMAIN w.db.revisions \cap newer),
               u.positions = Upsert(Restrict(w.db.positions, newer), Watermark, at)
        PROVE  /\ EconomyGood(feed, u, H) /\ KeepsEconomy(u.positions, w.db.positions)
               /\ TookEconomy(u.positions, Watermark, at)
    BY <1>3, <2>1, <2>2, ResetEconomy
  <2> DEFINE X == Restrict(w.db.revisions, DOMAIN w.db.revisions \cap newer)
             Y == Upsert(Restrict(w.db.positions, newer), Watermark, at)
             v == [w EXCEPT !.db.revisions = X, !.db.positions = Y]
  <2>3. CommissionReset(w, h, p) = v
    <3>1. CommissionReset(w, h, p) =
            [w EXCEPT !.db.revisions = Restrict(@, DOMAIN @ \cap newer),
                      !.db.positions = Upsert(Restrict(@, newer), Watermark, at)]
      BY <1>3, Zenon DEF CommissionReset, Watermark
    <3> HIDE DEF newer, at
    <3>2. [w EXCEPT !.db.revisions = Restrict(@, DOMAIN @ \cap newer),
                    !.db.positions = Upsert(Restrict(@, newer), Watermark, at)] = v
      BY Lists DEF WorkOK, WorkFields
    <3> QED BY <3>1, <3>2
  <2>4. TookEconomy(Y, Watermark, at)
    <3> DEFINE u == [revisions |-> X, positions |-> Y]
    <3>1. u.revisions = X /\ u.positions = Y
      OBVIOUS
    <3> HIDE DEF u
    <3> QED BY <2>2, <3>1
  <2>5. \A u : u.revisions = X /\ u.positions = Y =>
           EconomyGood(feed, u, H) /\ KeepsEconomy(u.positions, w.db.positions)
    BY <2>2
  <2>6. v = [w EXCEPT !.db.revisions = X, !.db.positions = Y]
    OBVIOUS
  <2> HIDE DEF X, Y, v
  <2>7. Entered(v, w, H, h, p)
    BY <1>1, <2>4, <2>5, <2>6, EconomyEntered
  <2> QED BY <2>3, <2>7
<1> QED BY <1>2, <1>3

\* Work that stored a newer snapshot, and perhaps booked what it added.
LEMMA FuelEntered ==
    ASSUME IsPlaced, NEW w, NEW b, NEW h, WorkOK(w, b, h), NEW H \in SUBSET (1..MaxHeight), Sound(w, H),
           NEW p, NEW v, Infusing(w.db, v.db, Rows(w), H, h, p),
           v.db.revisions = w.db.revisions, v.db.positions = w.db.positions, v.db.ledger = w.db.ledger,
           Rows(w) \subseteq Rows(v), FuelGood(feed, v.db, Rows(v), H), RowsGood(feed, v.db, Rows(v), H)
    PROVE  Entered(v, w, H, h, p)
<1>1. /\ DOMAIN v.db.infusion = DOMAIN w.db.infusion \cup {Funder(p)}
      /\ \A x \in DOMAIN w.db.infusion : x # Funder(p) => v.db.infusion[x] = w.db.infusion[x]
      /\ TookFuel(feed, v.db.infusion, h, p) /\ KeepsFuel(v.db.infusion, w.db.infusion)
  <2>1. DOMAIN v.db.infusion = DOMAIN w.db.infusion \cup {Funder(p)}
    BY InfusingStored
  <2>2. \A x \in DOMAIN w.db.infusion : x # Funder(p) => v.db.infusion[x] = w.db.infusion[x]
    <3>1. ASSUME NEW t, NEW u, Infusing(t, u, Rows(w), H, h, p)
          PROVE  \A x \in DOMAIN t.infusion : x # Funder(p) => u.infusion[x] = t.infusion[x]
      BY <3>1, InfusingStored
    <3> QED BY <3>1
  <2>3. TookFuel(feed, v.db.infusion, h, p)
    BY InfusingStored
  <2>4. KeepsFuel(v.db.infusion, w.db.infusion)
    BY InfusingStored
  <2> QED BY <2>1, <2>2, <2>3, <2>4
<1>2. /\ h \in 1..MaxHeight /\ p \in EventsAt(feed, h) /\ Infuses(p)
      /\ v.db.infusion = WithFuel(w.db.infusion, h, p)
  BY DEF Infusing
<1>3. v.db.infusion[Funder(p)].position # << >>
  <2>1. v.db.infusion[Funder(p)].position = Position(h, p)
    BY <1>2 DEF WithFuel, Upsert
  <2> QED BY <1>2, <2>1, PointOf
<1>4. EconomyGood(feed, v.db, H)
  BY DEF Sound, Good, EconomyGood
<1>5. Dated(v.db)
  BY <1>1, <1>3 DEF Sound, Dated
<1>6. Sound(v, H)
  BY <1>4, <1>5 DEF Sound, Good
<1>7. Keeps(feed, v.db, Rows(v), w.db, Rows(w))
  BY <1>1, KeepsParts DEF KeepsEconomy
<1>8. ~Revises(p) /\ ~Resets(p) /\ ~Owns(p)
  BY <1>2 DEF Infuses, Revises, Resets, Owns
<1>9. Took(feed, v.db, Rows(v), h, p)
  BY <1>1, <1>8 DEF Took
<1> QED BY <1>6, <1>7, <1>9 DEF Entered, Advanced, Taken

\* An infusion.
LEMMA InfusionEntered ==
    ASSUME IsPlaced, NEW w, NEW b, WholeRows(b.ledger), NEW h, WorkOK(w, b, h),
           NEW H \in SUBSET (1..MaxHeight), Sound(w, H), h \in H, NEW p \in EventsAt(feed, h), Infuses(p)
    PROVE  Entered(Infusion(w, h, p), w, H, h, p)
<1>1. w.db.ledger = b.ledger /\ WholeRows(Rows(w)) /\ WholeFuel(w.db.infusion)
  <2>1. w.db.ledger = b.ledger /\ WholeRows(w.ledger) /\ WholeFuel(w.db.infusion)
    BY Lists DEF WorkOK, Buffered
  <2> QED BY <2>1, FS_Union DEF WholeRows, Rows
<1>2. Good(feed, w.db, Rows(w), H) /\ w.db.ledger \subseteq Rows(w) /\ Dated(w.db)
  BY DEF Sound, Rows
<1>3. ~Revises(p) /\ ~Resets(p) /\ ~Owns(p) /\ Registered(p.event.type)
  BY DEF Infuses, Revises, Resets, Owns, Registered, NestedAttribute
<1>4. CASE InfusionUnorderable(w.db, Funder(p), Position(h, p))
  <2>1. Infusion(w, h, p) = Fail(w, h, p)
    BY <1>4 DEF Infusion, Funder
  <2> QED BY <1>3, <2>1, ReportAdvanced DEF Entered
<1>5. CASE /\ ~InfusionUnorderable(w.db, Funder(p), Position(h, p))
           /\ InfusionApplied(w.db, Funder(p), Position(h, p))
  <2>1. Infusion(w, h, p) = w
    BY <1>5 DEF Infusion, Funder
  <2>2. TookFuel(feed, w.db.infusion, h, p)
    BY <1>2, <1>5, SkippedFuel
  <2>3. Took(feed, w.db, Rows(w), h, p)
    BY <1>3, <2>2 DEF Took
  <2> QED BY <2>1, <2>3, AlreadyEntered
<1>6. CASE /\ ~InfusionUnorderable(w.db, Funder(p), Position(h, p))
           /\ ~InfusionApplied(w.db, Funder(p), Position(h, p))
  <2> DEFINE T == WithFuel(w.db.infusion, h, p)
             added == FuelChange(w.db.infusion, p)
             stored == [w EXCEPT !.db.infusion = T]
  <2>1. Infusion(w, h, p) =
          IF Funder(p) \in DOMAIN w.db.infusion /\ added = 0 THEN stored
          ELSE AppendLedger(stored, h, p, { Spent(p, added), Gained(p, added) })
    BY <1>6 DEF Infusion, Funder, Fuel, FuelChange, WithFuel, Spent, Gained
  <2>2. \A g \in 1..MaxHeight : \A q \in EventsAt(feed, g) :
           Funder(p) \in DOMAIN w.db.infusion /\ Anchor(feed, w.db.infusion, Funder(p), g, q)
              => PositionBefore(Position(g, q), Position(h, p))
    BY <1>2, <1>6, FreshFuel
  <2>3. ASSUME NEW u, u.infusion = WithFuel(w.db.infusion, h, p)
        PROVE  Infusing(w.db, u, Rows(w), H, h, p)
    BY <1>1, <1>2, <2>2, <2>3 DEF Infusing
  <2>4. T = WithFuel(w.db.infusion, h, p) /\ added = FuelChange(w.db.infusion, p)
    OBVIOUS
  <2> HIDE DEF T, added
  <2>5. /\ stored.db.infusion = T /\ stored.db.revisions = w.db.revisions
        /\ stored.db.positions = w.db.positions /\ stored.db.ledger = w.db.ledger
        /\ stored.ledger = w.ledger /\ DOMAIN stored = WorkFields
    BY Lists DEF WorkOK, WorkFields
  <2> HIDE DEF stored
  <2>6. CASE Funder(p) \in DOMAIN w.db.infusion /\ added = 0
    <3>1. Infusing(w.db, stored.db, Rows(w), H, h, p) /\ Rows(stored) = Rows(w)
      BY <2>3, <2>4, <2>5 DEF Rows
    <3>2. FuelGood(feed, stored.db, Rows(stored), H) /\ RowsGood(feed, stored.db, Rows(stored), H)
      BY <2>4, <2>6, <3>1, FuelSame
    <3>3. Entered(stored, w, H, h, p)
      BY <2>5, <3>1, <3>2, FuelEntered
    <3> QED BY <2>1, <2>6, <3>3
  <2>7. CASE ~(Funder(p) \in DOMAIN w.db.infusion /\ added = 0)
    <3> DEFINE v == AppendLedger(stored, h, p, { Spent(p, added), Gained(p, added) })
               fresh == Drawing(h, p, added)
    <3>1. v.db = stored.db /\ v.ledger = w.ledger \cup fresh
      <4>1. fresh = { LedgerRow(h, p, p.msg, l) : l \in { Spent(p, added), Gained(p, added) } }
        BY DEF Drawing
      <4>2. v = [stored EXCEPT !.ledger = @ \cup fresh]
        BY <4>1 DEF AppendLedger
      <4> HIDE DEF fresh, v
      <4> QED BY <2>5, <4>2 DEF WorkFields
    <3> HIDE DEF v
    <3>2. Infusing(w.db, v.db, Rows(w), H, h, p)
      BY <2>3, <2>4, <2>5, <3>1
    <3>3. Rows(v) = Rows(w) \cup Drawing(h, p, FuelChange(w.db.infusion, p))
      BY <2>4, <2>5, <3>1 DEF Rows
    <3>4. FuelGood(feed, v.db, Rows(v), H) /\ RowsGood(feed, v.db, Rows(v), H)
      BY <3>2, <3>3, FuelBooked
    <3>5. Entered(v, w, H, h, p)
      BY <2>5, <3>1, <3>2, <3>3, <3>4, FuelEntered
    <3> QED BY <2>1, <2>7, <3>5 DEF v
  <2> QED BY <2>6, <2>7
<1> QED BY <1>4, <1>5, <1>6

\* Work on the other tables and buffers.
LEMMA OtherEntered ==
    ASSUME NEW w, NEW H, Sound(w, H), NEW h, NEW p, ~Revises(p), ~Resets(p), ~Infuses(p), ~Owns(p),
           NEW v, Alike(w.db, v.db), v.ledger = w.ledger
    PROVE  Entered(v, w, H, h, p)
  BY AlikeAdvanced, OtherTook DEF Entered, Taken

\* A grid record, or an attack: other tables and buffers, or a warning.
LEMMA GridEntered ==
    ASSUME NEW w, NEW b, NEW h, WorkOK(w, b, h), NEW H, Sound(w, H), NEW p \in EventsAt(feed, h),
           p.event.type = "EventGrid"
    PROVE  Entered(Grid(w, h, p), w, H, h, p)
<1>1. ~Revises(p) /\ ~Resets(p) /\ ~Infuses(p) /\ ~Owns(p) /\ Registered(p.event.type)
  BY DEF Revises, Resets, Infuses, Owns, Registered, NestedAttribute
<1> DEFINE d == Value(p.event, "gridRecord")
           removed == [w EXCEPT !.db.grid = Restrict(@, DOMAIN @ \ {d.id})]
           written == [w EXCEPT !.db.grid = Upsert(@, d.id, d.val)]
<1>2. CASE Warns(p)
  <2>1. Grid(w, h, p) = Warn(w, h, p)
    BY <1>2, Zenon DEF Warns, Grid
  <2> QED BY <1>1, <1>2, <2>1, ReportAdvanced DEF Entered
<1>3. CASE ~Warns(p)
  <2>1. \/ Grid(w, h, p) = w
        \/ Grid(w, h, p) = WriteGridStat(removed, h, d.id, 0)
        \/ Grid(w, h, p) = WriteGridStat(written, h, d.id, d.val)
    <3>1. d.id # ""
      BY <1>3, Zenon DEF Warns
    <3> QED BY <3>1 DEF Grid
  <2>2. ASSUME NEW X, NEW Y PROVE Entered([[w EXCEPT !.db.grid = X] EXCEPT !.stats = Y], w, H, h, p)
    <3> DEFINE v == [[w EXCEPT !.db.grid = X] EXCEPT !.stats = Y]
    <3>1. Alike(w.db, v.db) /\ v.ledger = w.ledger
      BY Lists DEF WorkOK, WorkFields, Alike
    <3> HIDE DEF v
    <3>2. Entered(v, w, H, h, p)
      BY <1>1, <3>1, OtherEntered
    <3> QED BY <3>2 DEF v
  <2>3. ASSUME NEW X, NEW id, NEW val
        PROVE  Entered(WriteGridStat([w EXCEPT !.db.grid = X], h, id, val), w, H, h, p)
    <3> DEFINE u == [w EXCEPT !.db.grid = X]
               Y == u.stats \cup {[height |-> h, id |-> id, val |-> val]}
    <3>1. WriteGridStat(u, h, id, val) = [u EXCEPT !.stats = Y]
      BY DEF WriteGridStat
    <3>2. Entered([u EXCEPT !.stats = Y], w, H, h, p)
      <4> HIDE DEF Y
      <4> QED BY <2>2
    <3> HIDE DEF u, Y
    <3>3. Entered(WriteGridStat(u, h, id, val), w, H, h, p)
      BY <3>1, <3>2
    <3> QED BY <3>3 DEF u
  <2>4. CASE Grid(w, h, p) = w
    <3>1. Alike(w.db, w.db)
      BY DEF Alike
    <3> QED BY <1>1, <2>4, <3>1, OtherEntered
  <2>5. CASE Grid(w, h, p) = WriteGridStat(removed, h, d.id, 0)
    <3> DEFINE X == Restrict(w.db.grid, DOMAIN w.db.grid \ {d.id})
    <3>1. removed = [w EXCEPT !.db.grid = X]
      OBVIOUS
    <3> HIDE DEF X, removed
    <3> QED BY <2>3, <2>5, <3>1
  <2>6. CASE Grid(w, h, p) = WriteGridStat(written, h, d.id, d.val)
    <3> DEFINE X == Upsert(w.db.grid, d.id, d.val)
    <3>1. written = [w EXCEPT !.db.grid = X]
      OBVIOUS
    <3> HIDE DEF X, written
    <3> QED BY <2>3, <2>6, <3>1
  <2> QED BY <2>1, <2>4, <2>5, <2>6
<1> QED BY <1>2, <1>3

\* EventAttack writes the timeline only.
LEMMA AttackEntered ==
    ASSUME NEW w, NEW b, NEW h, WorkOK(w, b, h), NEW H, Sound(w, H), NEW p,
           p.event.type = "EventAttack"
    PROVE  Entered(Attack(w, h, p), w, H, h, p)
<1>1. ~Revises(p) /\ ~Resets(p) /\ ~Infuses(p) /\ ~Owns(p)
  BY DEF Revises, Resets, Infuses, Owns
<1>2. ASSUME NEW r PROVE Alike(w.db, [w EXCEPT !.activity = Append(@, r)].db)
                         /\ [w EXCEPT !.activity = Append(@, r)].ledger = w.ledger
  BY DEF WorkOK, WorkFields, Alike
<1>3. Attack(w, h, p) = w \/ \E r : Attack(w, h, p) = [w EXCEPT !.activity = Append(@, r)]
  BY Zenon DEF Attack
<1>4. Alike(w.db, w.db)
  BY DEF Alike
<1> QED BY <1>1, <1>2, <1>3, <1>4, OtherEntered

\* Every registered event.
LEMMA HandleEntered ==
    ASSUME IsPlaced, NEW w, NEW b, WholeRows(b.ledger), NEW h, WorkOK(w, b, h),
           NEW H \in SUBSET (1..MaxHeight), Sound(w, H), h \in H, NEW p \in EventsAt(feed, h),
           Registered(p.event.type)
    PROVE  Entered(Handle(w, h, p), w, H, h, p)
<1>0. Owns(p) \/ p.event.type \in {"EventAlphaInfuse", "EventInfusion", "EventAttack", "EventGrid",
         "EventReactorCommissionRevision", "EventReactorCommissionRevisionReset"}
  BY DEF Registered, NestedAttribute, WholeEvents, Owns
<1>1. CASE Owns(p)
  BY <1>1, OwnHandlers, OwnEntered
<1>2. CASE p.event.type = "EventAlphaInfuse"
  <2>1. Handle(w, h, p) = w
    BY <1>2 DEF Handle, AlphaInfuse
  <2>2. ~Revises(p) /\ ~Resets(p) /\ ~Infuses(p) /\ ~Owns(p)
    BY <1>2 DEF Revises, Resets, Infuses, Owns
  <2> QED BY <2>1, <2>2, OtherTook, AlreadyEntered
<1>3. CASE p.event.type = "EventInfusion"
  <2>1. Handle(w, h, p) = Infusion(w, h, p)
    BY <1>3 DEF Handle
  <2> QED BY <1>3, <2>1, InfusionEntered DEF Infuses
<1>4. CASE p.event.type = "EventAttack"
  <2>1. Handle(w, h, p) = Attack(w, h, p)
    BY <1>4 DEF Handle
  <2> QED BY <1>4, <2>1, AttackEntered
<1>5. CASE p.event.type = "EventGrid"
  <2>1. Handle(w, h, p) = Grid(w, h, p)
    BY <1>5 DEF Handle
  <2> QED BY <1>5, <2>1, GridEntered
<1>6. CASE p.event.type = "EventReactorCommissionRevision"
  <2>1. Handle(w, h, p) = CommissionRevision(w, h, p)
    BY <1>6 DEF Handle
  <2> QED BY <1>6, <2>1, RevisionEntered DEF Revises
<1>7. CASE p.event.type = "EventReactorCommissionRevisionReset"
  <2>1. Handle(w, h, p) = CommissionReset(w, h, p)
    BY <1>7 DEF Handle
  <2> QED BY <1>7, <2>1, ResetEntered DEF Resets
<1> QED BY <1>0, <1>1, <1>2, <1>3, <1>4, <1>5, <1>6, <1>7

\* Also when the handler trips.
LEMMA RunEntered ==
    ASSUME IsPlaced, NEW w, NEW b, WholeRows(b.ledger), NEW h, WorkOK(w, b, h),
           NEW H \in SUBSET (1..MaxHeight), Sound(w, H), h \in H, NEW p \in EventsAt(feed, h),
           Registered(p.event.type)
    PROVE  Entered(Run(w, h, p), w, H, h, p)
<1>1. CASE Coordinate(p) = w.trip
  <2>1. Run(w, h, p) = Fail(w, h, p)
    BY <1>1 DEF Run
  <2> QED BY <2>1, ReportAdvanced DEF Entered
<1>2. CASE Coordinate(p) # w.trip
  BY <1>2, HandleEntered DEF Run
<1> QED BY <1>1, <1>2

------------------------------------------------------------------------------
(* The events of a block, its bank rows, and the flush.                    *)

\* An event that did not fail the block was taken in.
Arrived(v, w, H, h, p) ==
    Advanced(v, w, H) /\ (~v.failed => Took(feed, v.db, Rows(v), h, p))

\* An event without a handler changes neither tables nor rows, a malformed one fails.
LEMMA DispatchOneTook ==
    ASSUME IsPlaced, NEW w, NEW b, WholeRows(b.ledger), NEW h, WorkOK(w, b, h),
           NEW H \in SUBSET (1..MaxHeight), Sound(w, H), h \in H, NEW p \in EventsAt(feed, h)
    PROVE  Arrived(DispatchOneEvent(w, h, p), w, H, h, p)
<1>0. Alike(w.db, w.db)
  BY DEF Alike
<1>1. CASE w.failed
  <2>1. DispatchOneEvent(w, h, p) = w
    BY <1>1 DEF DispatchOneEvent
  <2>2. Advanced(w, w, H)
    BY AdvancedOn
  <2> QED BY <1>1, <2>1, <2>2 DEF Arrived
<1>2. CASE ~w.failed /\ ~Registered(p.event.type)
  <2> DEFINE X == Count(w.unknown, UnknownKeys(p.event), h)
             Y == StrictUnknown /\ UnknownKeys(p.event) # {}
             v == [w EXCEPT !.unknown = X, !.failed = Y]
  <2>1. DispatchOneEvent(w, h, p) = v
    BY <1>2 DEF DispatchOneEvent
  <2> HIDE DEF X, Y
  <2>2. v.db = w.db /\ v.ledger = w.ledger
    BY DEF WorkOK, WorkFields
  <2> HIDE DEF v
  <2>3. ~Owns(p) /\ ~Infuses(p)
    BY <1>2, Kinds
  <2>4. ~Revises(p) /\ ~Resets(p)
    BY <1>2 DEF Registered, WholeEvents, Revises, Resets
  <2>5. Advanced(v, w, H)
    BY <1>0, <2>2, AlikeAdvanced
  <2>6. Took(feed, v.db, Rows(v), h, p)
    BY <2>3, <2>4, OtherTook
  <2> QED BY <2>1, <2>5, <2>6 DEF Arrived
<1>3. CASE ~w.failed /\ Registered(p.event.type) /\ WellFormed(p.event)
  <2>1. DispatchOneEvent(w, h, p) = Run(w, h, p)
    BY <1>3 DEF DispatchOneEvent
  <2>2. ServedAt(h, p)
    BY PointOf
  <2>3. Handled(Run(w, h, p), w, b, h, p)
    BY <1>3, <2>2, RunHandled
  <2>4. Entered(Run(w, h, p), w, H, h, p)
    BY <1>3, RunEntered
  <2>5. CASE Run(w, h, p).errors = w.errors
    BY <2>1, <2>4, <2>5 DEF Entered, Taken, Arrived
  <2>6. CASE Warns(p)
    <3>1. ~Revises(p) /\ ~Resets(p) /\ ~Infuses(p) /\ ~Owns(p)
      BY <2>6, Zenon DEF Warns, Revises, Resets, Infuses, Owns
    <3> QED BY <2>1, <2>4, <3>1, OtherTook DEF Entered, Arrived
  <2>7. CASE Run(w, h, p).failed
    BY <2>1, <2>4, <2>7 DEF Entered, Arrived
  <2> QED BY <2>3, <2>5, <2>6, <2>7 DEF Handled, Did
<1>4. CASE ~w.failed /\ Registered(p.event.type) /\ ~WellFormed(p.event)
  <2>1. DispatchOneEvent(w, h, p) = Fail(w, h, p)
    BY <1>4 DEF DispatchOneEvent
  <2>2. Fail(w, h, p).failed /\ Advanced(Fail(w, h, p), w, H)
    BY <1>4, ReportFollows, ReportAdvanced
  <2> QED BY <2>1, <2>2 DEF Arrived
<1> QED BY <1>1, <1>2, <1>3, <1>4

\* The events of a list, unless they failed the block.
AllTook(v, h, s, n) == ~v.failed => \A j \in 1..n : Took(feed, v.db, Rows(v), h, s[j])

\* DispatchEvents takes in every event of its list, one after the other.
LEMMA DispatchAllTook ==
    ASSUME IsPlaced, NEW w, NEW b, WholeRows(b.ledger), NEW h, WorkOK(w, b, h),
           NEW H \in SUBSET (1..MaxHeight), Sound(w, H), h \in H, NEW s \in Seq(EventsAt(feed, h))
    PROVE  Advanced(DispatchEvents(w, h, s), w, H) /\ AllTook(DispatchEvents(w, h, s), h, s, Len(s))
<1>1. PICK f : /\ f[0] = w
               /\ \A i \in 1..Len(s) : f[i] = DispatchOneEvent(f[i - 1], h, s[i])
               /\ DispatchEvents(w, h, s) = f[Len(s)]
  BY DispatchChain
<1>2. Len(s) \in Nat /\ \A i \in 1..Len(s) : s[i] \in EventsAt(feed, h)
  OBVIOUS
<1> DEFINE T == { i \in 0..Len(s) : Stepped(f[i], w, b, h) /\ Advanced(f[i], w, H) /\ AllTook(f[i], h, s, i) }
<1>3. 0 \in T
  <2>1. Advanced(w, w, H) /\ Stepped(w, w, b, h)
    BY AdvancedOn, FollowsSelf DEF Stepped
  <2>2. AllTook(w, h, s, 0)
    BY DEF AllTook
  <2> QED BY <1>1, <1>2, <2>1, <2>2
<1>4. ASSUME NEW i \in 0..(Len(s) - 1), i \in T PROVE i + 1 \in T
  <2>1. i + 1 \in 1..Len(s) /\ (i + 1) - 1 = i
    BY <1>2
  <2>2. f[i + 1] = DispatchOneEvent(f[i], h, s[i + 1]) /\ s[i + 1] \in EventsAt(feed, h)
    BY <1>1, <1>2, <2>1
  <2>3. WorkOK(f[i], b, h) /\ Follows(f[i], w) /\ Advanced(f[i], w, H) /\ AllTook(f[i], h, s, i)
        /\ Sound(f[i], H)
    BY <1>4 DEF Stepped, Advanced
  <2>4. ServedAt(h, s[i + 1]) /\ h \in Int
    BY <2>2, PointOf
  <2>5. Dispatched(f[i + 1], f[i], b, h, s[i + 1])
    BY <2>2, <2>3, <2>4, DispatchOne
  <2>6. Arrived(f[i + 1], f[i], H, h, s[i + 1])
    BY <2>2, <2>3, DispatchOneTook
  <2>7. Stepped(f[i + 1], w, b, h)
    BY <2>3, <2>5, FollowsOn DEF Dispatched, Stepped
  <2>8. Advanced(f[i + 1], f[i], H) /\ Advanced(f[i + 1], w, H)
    BY <2>3, <2>6, AdvancedOn DEF Arrived
  <2>9. AllTook(f[i + 1], h, s, i + 1)
    <3> SUFFICES ASSUME ~f[i + 1].failed, NEW j \in 1..(i + 1)
                 PROVE  Took(feed, f[i + 1].db, Rows(f[i + 1]), h, s[j])
      BY DEF AllTook
    <3>1. CASE j = i + 1
      BY <2>6, <3>1 DEF Arrived
    <3>2. CASE j # i + 1
      <4>1. j \in 1..i /\ s[j] \in EventsAt(feed, h)
        BY <1>2, <2>1, <3>2
      <4>2. ~f[i].failed
        BY <2>5 DEF Dispatched, Stepped, Follows
      <4>3. Took(feed, f[i].db, Rows(f[i]), h, s[j])
        BY <2>3, <4>1, <4>2 DEF AllTook
      <4> QED BY <2>8, <4>1, <4>3 DEF Advanced, Keeps
    <3> QED BY <3>1, <3>2
  <2> QED BY <2>1, <2>7, <2>8, <2>9
<1>5. \A i \in 0..Len(s) : i \in T
  <2> HIDE DEF T
  <2> QED BY <1>2, <1>3, <1>4, Steps
<1>6. Advanced(f[Len(s)], w, H) /\ AllTook(f[Len(s)], h, s, Len(s))
  BY <1>2, <1>5
<1> QED BY <1>1, <1>6

\* The bank rows, unless their error fails the block.
LEMMA BankAdvanced ==
    ASSUME IsPlaced, NEW w, NEW b, NEW h, WorkOK(w, b, h), NEW H \in SUBSET (1..MaxHeight),
           Sound(w, H), h \in H
    PROVE  /\ Advanced(ProcessBank(w, h, feed[h]), w, H)
           /\ ~ProcessBank(w, h, feed[h]).failed =>
                 ~w.failed /\ feed[h].ledger \subseteq Rows(ProcessBank(w, h, feed[h]))
<1> DEFINE block == feed[h]
<1>0. Alike(w.db, w.db)
  BY DEF Alike
<1>1. CASE w.failed
  <2>1. ProcessBank(w, h, block) = w
    BY <1>1 DEF ProcessBank
  <2> QED BY <1>1, <2>1, AdvancedOn
<1>2. CASE ~w.failed /\ block.bankValid
  <2> DEFINE L == w.ledger \cup block.ledger
             X == w.defusion \cup block.defusion
             v == [w EXCEPT !.ledger = L, !.defusion = X]
  <2>1. ProcessBank(w, h, block) = v
    BY <1>2 DEF ProcessBank, WorkOK, WorkFields
  <2>4. L = w.ledger \cup block.ledger
    OBVIOUS
  <2> HIDE DEF X, L
  <2>2. v.db = w.db /\ v.ledger = L
    BY DEF WorkOK, WorkFields
  <2> HIDE DEF v
  <2>3. Rows(v) = Rows(w) \cup feed[h].ledger
    BY <2>2, <2>4 DEF Rows
  <2>5. Sound(v, H)
    BY <2>2, <2>3, BankAdded DEF Sound
  <2>6. Keeps(feed, v.db, Rows(v), w.db, Rows(w))
    BY <2>2, <2>3, KeepsParts DEF KeepsEconomy, KeepsFuel
  <2> QED BY <1>2, <2>1, <2>3, <2>5, <2>6 DEF Advanced
<1>3. CASE ~w.failed /\ ~block.bankValid
  <2> DEFINE X == Append(w.errors, ErrorRow(h, NoIndex, NoIndex, <<"bank.process_block">>, "error"))
             v == [w EXCEPT !.failed = TRUE, !.errors = X]
  <2>1. ProcessBank(w, h, block) = v
    BY <1>3 DEF ProcessBank
  <2> HIDE DEF X
  <2>2. v.db = w.db /\ v.ledger = w.ledger /\ v.failed
    BY DEF WorkOK, WorkFields
  <2> HIDE DEF v
  <2>3. Advanced(v, w, H)
    BY <1>0, <2>2, AlikeAdvanced
  <2> QED BY <2>1, <2>2, <2>3
<1> QED BY <1>1, <1>2, <1>3

\* The invalidation of the native claims moves no table and no row of the block.
LEMMA InvalidateAdvanced ==
    ASSUME NEW w, NEW b, NEW h, WorkOK(w, b, h), NEW H, Sound(w, H)
    PROVE  /\ Advanced(InvalidateNative(w, h), w, H)
           /\ ~InvalidateNative(w, h).failed =>
                 ~w.failed /\ Rows(InvalidateNative(w, h)) = Rows(w)
<1>1. CASE w.failed \/ w.trip # NativeTrip
  <2>1. InvalidateNative(w, h) = w
    BY <1>1 DEF InvalidateNative
  <2> QED BY <2>1, AdvancedOn
<1>2. CASE ~(w.failed \/ w.trip # NativeTrip)
  <2> DEFINE X == Append(w.errors, ErrorRow(h, NoIndex, NoIndex, <<"bank.native_claims">>, "error"))
             v == [w EXCEPT !.failed = TRUE, !.errors = X]
  <2>1. InvalidateNative(w, h) = v
    BY <1>2 DEF InvalidateNative
  <2> HIDE DEF X
  <2>2. v.db = w.db /\ v.ledger = w.ledger /\ v.failed
    BY DEF WorkOK, WorkFields
  <2> HIDE DEF v
  <2>4. Alike(w.db, w.db)
    BY DEF Alike
  <2>3. Advanced(v, w, H)
    BY <2>2, <2>4, AlikeAdvanced
  <2> QED BY <2>1, <2>2, <2>3
<1> QED BY <1>1, <1>2

\* The rows of funders say where a missing position stands.
LEMMA GoodDated ==
    ASSUME NEW t, NEW H, Good(feed, t, t.ledger, H)
    PROVE  Dated(t)
  BY DEF Good, FuelGood, Dated

\* A flush writes the rows that are not there, and none is dropped for another one
\* with its key.
LEMMA FlushIs ==
    ASSUME NEW b, TablesOK(b), NEW w, NEW h, WorkOK(w, b, h),
           \A r, q \in Rows(w) : r.key = q.key => r = q
    PROVE  Flush(w).ledger = Rows(w) /\ Alike([w.db EXCEPT !.ledger = Rows(w)], Flush(w))
<1> DEFINE t == FlushPlanetActivity(w.db, w.activity)
           new == NewRows(w.db.ledger, w.ledger)
           L == t.ledger \cup new
           I == AddToInventory(t.inventory, new)
           D == FlushDefusion(t.receipts, w.defusion)
           G == t.stats \cup w.stats
           u == [t EXCEPT !.ledger = L, !.inventory = I, !.receipts = D, !.stats = G]
<1>1. DOMAIN w.db = Columns /\ w.activity \in Seq(Sightings(feed, h)) /\ WholeRows(w.ledger)
      /\ \A c \in Buffered : w.db[c] = b[c]
  BY DEF WorkOK
<1>2. Dense(w.db)
  <2>1. w.db.activity = b.activity /\ w.db.counters = b.counters
    BY <1>1, Lists DEF Buffered
  <2> QED BY <2>1 DEF Dense, TablesOK
<1>3. Extends(t, w.db)
  BY <1>1, <1>2, TimelineAll
<1>4. /\ DOMAIN t = Columns /\ t.ledger = w.db.ledger /\ t.infusion = w.db.infusion
      /\ t.revisions = w.db.revisions /\ t.positions = w.db.positions
  BY <1>3, Lists DEF Extends, Sequenced
<1>5. new \subseteq w.ledger /\ \A r \in w.ledger : \E q \in w.db.ledger \cup new : q.key = r.key
  BY <1>1, NewRowsOK
<1>6. Flush(w) = u
  BY DEF Flush, FlushInto, FlushLedger
<1> HIDE DEF t, new
<1>7. L = Rows(w)
  <2>1. L \subseteq Rows(w)
    BY <1>4, <1>5 DEF Rows
  <2>2. Rows(w) \subseteq L
    BY <1>4, <1>5 DEF Rows
  <2> QED BY <2>1, <2>2
<1> HIDE DEF L, I, D, G
<1>8. /\ u.ledger = L /\ u.infusion = t.infusion /\ u.revisions = t.revisions
      /\ u.positions = t.positions
  BY <1>4, Lists
<1> HIDE DEF u
<1> DEFINE R == Rows(w)
           x == [w.db EXCEPT !.ledger = R]
<1> HIDE DEF R
<1>9. /\ x.ledger = R /\ x.infusion = w.db.infusion /\ x.revisions = w.db.revisions
      /\ x.positions = w.db.positions
  BY <1>1, Lists
<1> HIDE DEF x
<1>10. Flush(w).ledger = R /\ Alike(x, Flush(w))
  BY <1>4, <1>6, <1>7, <1>8, <1>9 DEF Alike, R
<1> QED BY <1>10 DEF x, R

\* The flushed tables are as good as the work, and forget nothing of it.
LEMMA FlushGood ==
    ASSUME NEW b, TablesOK(b), NEW w, NEW h, WorkOK(w, b, h), NEW H, Sound(w, H)
    PROVE  LET t == Flush(w)
           IN /\ t.ledger = Rows(w) /\ Good(feed, t, t.ledger, H)
              /\ Keeps(feed, t, t.ledger, w.db, Rows(w))
<1> DEFINE t == Flush(w)
           R == Rows(w)
           x == [w.db EXCEPT !.ledger = R]
<1>1. \A r, q \in Rows(w) : r.key = q.key => r = q
  BY DEF Sound, Good, RowsGood
<1>2. t.ledger = R /\ Alike(x, t)
  BY <1>1, FlushIs
<1> HIDE DEF t
<1>3. DOMAIN w.db = Columns
  BY DEF WorkOK
<1>4. /\ t.revisions = w.db.revisions /\ t.positions = w.db.positions
      /\ t.infusion = w.db.infusion
  <2> HIDE DEF R
  <2> QED BY <1>2, <1>3, Lists DEF Alike
<1>5. Good(feed, w.db, R, H)
  BY DEF Sound
<1> HIDE DEF R
<1>6. EconomyGood(feed, t, H)
  BY <1>4, <1>5 DEF Good, EconomyGood
<1>7. FuelGood(feed, t, R, H)
  BY <1>4, <1>5 DEF Good, FuelGood
<1>8. RowsGood(feed, t, R, H)
  BY <1>4, <1>5 DEF Good, RowsGood, FuelRow
<1>9. Keeps(feed, t, R, w.db, R)
  BY <1>4 DEF Keeps, Took
<1>10. t.ledger = R /\ Good(feed, t, t.ledger, H) /\ Keeps(feed, t, t.ledger, w.db, R)
  BY <1>2, <1>6, <1>7, <1>8, <1>9 DEF Good
<1> QED BY <1>10 DEF t, R

\* Work starts from what is stored.
LEMMA WorkSound ==
    ASSUME NEW b, TablesOK(b), NEW deltas, Counted(deltas), NEW trip, NEW h, NEW H,
           Good(feed, b, b.ledger, H)
    PROVE  LET w == Work(b, deltas, trip)
           IN /\ WorkOK(w, b, h) /\ w.db = b /\ Rows(w) = b.ledger /\ Sound(w, H)
              /\ WholeRows(b.ledger)
<1> DEFINE w == Work(b, deltas, trip)
<1>1. WorkOK(w, b, h)
  BY WorkStarts
<1>2. w.db = b /\ w.ledger = {}
  BY DEF Work
<1> HIDE DEF w
<1>3. Rows(w) = b.ledger
  BY <1>2 DEF Rows
<1>4. Sound(w, H)
  BY <1>2, <1>3, GoodDated DEF Sound
<1> QED BY <1>1, <1>2, <1>3, <1>4 DEF TablesOK, w

\* A block that was applied: all of it was taken in, and nothing forgotten.
LEMMA AppliedGood ==
    ASSUME IsPlaced, NEW b, TablesOK(b), NEW deltas, Counted(deltas), NEW trip,
           NEW H \in SUBSET (1..MaxHeight), NEW h \in H, Good(feed, b, b.ledger, H),
           NEW y, y = ApplyBlockInTx(Work(b, deltas, trip), h, feed[h]), ~y.failed
    PROVE  /\ Good(feed, y.db, y.db.ledger, H) /\ Keeps(feed, y.db, y.db.ledger, b, b.ledger)
           /\ Full(feed, y.db, y.db.ledger, h)
<1> DEFINE w == Work(b, deltas, trip)
           s == feed[h].ordered
           v == DispatchEvents(w, h, s)
           z == ProcessBank(v, h, feed[h])
           x == InvalidateNative(z, h)
           t == Flush(x)
<1>1. WorkOK(w, b, h) /\ w.db = b /\ Rows(w) = b.ledger /\ Sound(w, H) /\ WholeRows(b.ledger)
  BY WorkSound
<1>0. /\ s \in Seq(EventsAt(feed, h)) /\ \A p \in EventsAt(feed, h) : ServedAt(h, p)
      /\ WholeRows(feed[h].ledger) /\ h \in Int
  BY ServedEvents DEF IsPlaced
<1>2. y = ApplyBlockInTx(w, h, feed[h])
  OBVIOUS
<1> HIDE DEF w
<1>3. feed[h].metadataValid /\ y = Flushed(x)
  <2>1. [w EXCEPT !.failed = TRUE].failed
    BY <1>1 DEF WorkOK, WorkFields
  <2> QED BY <1>2, <2>1 DEF ApplyBlockInTx
<1>4. Stepped(v, w, b, h) /\ Advanced(v, w, H) /\ AllTook(v, h, s, Len(s))
  BY <1>0, <1>1, DispatchAll, DispatchAllTook
<1> HIDE DEF v
<1>5. Stepped(x, v, b, h) /\ Advanced(x, v, H) /\ (~x.failed => ~v.failed /\ feed[h].ledger \subseteq Rows(x))
  <2>1. WorkOK(v, b, h) /\ Sound(v, H)
    BY <1>4 DEF Stepped, Advanced
  <2>2. Stepped(z, v, b, h)
    BY <1>0, <2>1, BankOK
  <2>3. Advanced(z, v, H) /\ (~z.failed => ~v.failed /\ feed[h].ledger \subseteq Rows(z))
    BY <2>1, BankAdvanced
  <2> HIDE DEF z
  <2>4. WorkOK(z, b, h) /\ Sound(z, H)
    BY <2>2, <2>3 DEF Stepped, Advanced
  <2>5. Stepped(x, z, b, h) /\ Advanced(x, z, H)
        /\ (~x.failed => ~z.failed /\ Rows(x) = Rows(z))
    BY <2>4, InvalidateOK, InvalidateAdvanced
  <2> HIDE DEF x
  <2>6. Stepped(x, v, b, h)
    BY <2>2, <2>5, FollowsOn DEF Stepped
  <2>7. Advanced(x, v, H)
    BY <2>3, <2>5, AdvancedOn
  <2> QED BY <2>3, <2>5, <2>6, <2>7
<1> HIDE DEF x
<1>6. ~x.failed /\ y = [x EXCEPT !.db = t]
  BY <1>3 DEF Flushed
<1>7. y.db = t
  <2> HIDE DEF t
  <2> QED BY <1>5, <1>6 DEF Stepped, WorkOK, WorkFields
<1>8. t.ledger = Rows(x) /\ Good(feed, t, t.ledger, H) /\ Keeps(feed, t, t.ledger, x.db, Rows(x))
  BY <1>5, FlushGood DEF Stepped, Advanced
<1> HIDE DEF t
<1>9. Keeps(feed, t, t.ledger, v.db, Rows(v)) /\ Keeps(feed, t, t.ledger, b, b.ledger)
  <2>1. Keeps(feed, x.db, Rows(x), v.db, Rows(v)) /\ Keeps(feed, v.db, Rows(v), b, b.ledger)
    BY <1>1, <1>4, <1>5 DEF Advanced
  <2> QED BY <1>8, <2>1, KeepsOn
<1>10. ASSUME NEW p \in EventsAt(feed, h) PROVE Took(feed, t, t.ledger, h, p)
  <2>1. PICK j \in 1..Len(s) : s[j] = p
    BY <1>0 DEF EventsAt, ToSet
  <2>2. Took(feed, v.db, Rows(v), h, p)
    BY <1>4, <1>5, <1>6, <2>1 DEF AllTook
  <2> QED BY <1>9, <2>2 DEF Keeps
<1>11. feed[h].ledger \subseteq t.ledger
  BY <1>5, <1>6, <1>8
<1> QED BY <1>7, <1>8, <1>9, <1>10, <1>11 DEF Full

------------------------------------------------------------------------------
(* The databases that older releases left behind.                          *)

\* The infusion row of a funder comes from one event.
LEMMA AnchorSame ==
    ASSUME IsPlaced, NEW infusion, NEW who, NEW g \in 1..MaxHeight, NEW q \in EventsAt(feed, g),
           NEW h \in 1..MaxHeight, NEW p \in EventsAt(feed, h),
           Anchor(feed, infusion, who, g, q), Anchor(feed, infusion, who, h, p)
    PROVE  g = h /\ q = p
<1> DEFINE at == infusion[who].position
<1>1. \/ at = Position(g, q) /\ at # << >> /\ at[2] # NoPhase
      \/ g = 1 /\ at # << >> /\ at = << 1, NoPhase, q.tx, q.index >>
      \/ g = 1 /\ at = << >> /\ NewestAt(feed, 1, q)
  BY AnchorCases
<1>2. \/ at = Position(h, p) /\ at # << >> /\ at[2] # NoPhase
      \/ h = 1 /\ at # << >> /\ at = << 1, NoPhase, p.tx, p.index >>
      \/ h = 1 /\ at = << >> /\ NewestAt(feed, 1, p)
  BY AnchorCases
<1> HIDE DEF at
<1>3. IsPoint(Position(g, q)) /\ IsPoint(Position(h, p))
  BY PointOf
<1>4. ASSUME SamePoint(Position(g, q), Position(h, p)) PROVE g = h /\ q = p
  BY <1>4, SameEvent
<1>5. CASE at = << >>
  <2>1. g = 1 /\ h = 1 /\ NewestAt(feed, 1, q) /\ NewestAt(feed, 1, p)
    BY <1>1, <1>2, <1>5
  <2>2. Infuses(p) /\ Infuses(q) /\ Funder(p) = Funder(q)
    BY DEF Anchor
  <2>3. ~PositionBefore(Position(g, q), Position(h, p)) /\ ~PositionBefore(Position(h, p), Position(g, q))
    BY <2>1, <2>2 DEF NewestAt
  <2>4. SamePoint(Position(g, q), Position(h, p))
    BY <1>3, <2>3, BeforeOrder
  <2> QED BY <1>4, <2>4
<1>6. CASE at # << >> /\ at[2] = NoPhase
  <2>1. /\ g = 1 /\ h = 1
        /\ at = << 1, NoPhase, q.tx, q.index >> /\ at = << 1, NoPhase, p.tx, p.index >>
    BY <1>1, <1>2, <1>6
  <2>2. q.tx = p.tx /\ q.index = p.index
    BY <2>1
  <2>3. \A x, y \in EventsAt(feed, g) : x.tx = y.tx /\ x.index = y.index => x = y
    BY DEF IsPlaced, WellServed, EventsAt
  <2> QED BY <2>1, <2>2, <2>3
<1>7. CASE at # << >> /\ at[2] # NoPhase
  <2>1. at = Position(g, q) /\ at = Position(h, p)
    BY <1>1, <1>2, <1>7
  <2>2. SamePoint(Position(g, q), Position(h, p))
    BY <2>1 DEF SamePoint
  <2> QED BY <1>4, <2>2
<1> QED BY <1>5, <1>6, <1>7

\* What comes from some blocks comes from more of them.
LEMMA GoodWider ==
    ASSUME NEW t, NEW rows, NEW G, NEW H, G \subseteq H, Good(feed, t, rows, G)
    PROVE  Good(feed, t, rows, H)
<1>1. EconomyGood(feed, t, H)
  <2>1. EconomyGood(feed, t, G)
    BY DEF Good
  <2>2. ASSUME NEW k \in DOMAIN t.positions
        PROVE  \E h \in H : \E p \in EventsAt(feed, h) :
                  /\ t.positions[k] = Position(h, p)
                  /\ k = Watermark => Resets(p)
                  /\ k # Watermark => Revises(p) /\ Reactor(p) = k /\ t.revisions[k] = Revision(p)
    BY <2>1 DEF EconomyGood
  <2> QED BY <2>1, <2>2 DEF EconomyGood
<1>2. FuelGood(feed, t, rows, H)
  BY DEF Good, FuelGood
<1>3. RowsGood(feed, t, rows, H)
  BY DEF Good, RowsGood
<1> QED BY <1>1, <1>2, <1>3 DEF Good

\* Nothing is in an empty database.
LEMMA EmptyGood == ASSUME NEW H PROVE Good(feed, EmptyDb, EmptyDb.ledger, H)
<1>1. /\ EmptyDb.ledger = {} /\ EmptyDb.infusion = << >> /\ EmptyDb.revisions = << >>
      /\ EmptyDb.positions = << >> /\ DOMAIN << >> = {}
  BY DEF EmptyDb
<1>2. EconomyGood(feed, EmptyDb, H)
  BY <1>1 DEF EconomyGood
<1>3. FuelGood(feed, EmptyDb, {}, H)
  BY <1>1 DEF FuelGood
<1>4. RowsGood(feed, EmptyDb, {}, H)
  BY <1>1 DEF RowsGood
<1> QED BY <1>1, <1>2, <1>3, <1>4 DEF Good

\* An older release wrote the position of a snapshot in its own way, which still
\* tells the event.
LEMMA OlderAnchor ==
    ASSUME IsPlaced, 1 \in 1..MaxHeight, NEW y, NEW position, NEW who \in DOMAIN y,
           NEW p \in EventsAt(feed, 1), Anchor(feed, y, who, 1, p),
           position = "none" => NewestAt(feed, 1, p),
           NEW t, t = [x \in DOMAIN y |-> OlderInfusion(y[x], position)],
           DOMAIN y[who] = {"fuel", "position"}
    PROVE  Anchor(feed, t, who, 1, p)
<1> DEFINE at == y[who].position
<1>1. t[who].fuel = y[who].fuel /\ t[who].position = OlderPosition(position, at)
  BY DEF OlderInfusion
<1>2. \/ at = Position(1, p) \/ at = << 1, NoPhase, p.tx, p.index >>
      \/ at = << >> /\ NewestAt(feed, 1, p)
  BY DEF Anchor
<1> HIDE DEF at
<1>3. CASE position = "none"
  BY <1>1, <1>3 DEF OlderPosition, Anchor
<1>4. CASE position = "no_phase"
  <2>1. t[who].position = [at EXCEPT ![2] = NoPhase]
    BY <1>1, <1>4 DEF OlderPosition
  <2>2. CASE at = << >>
    <3>1. [at EXCEPT ![2] = NoPhase] = << >>
      BY <2>2
    <3>2. NewestAt(feed, 1, p)
      <4>1. Position(1, p) # << >>
        BY PointOf
      <4>2. << 1, NoPhase, p.tx, p.index >> # << >>
        <5>1. Len(<< 1, NoPhase, p.tx, p.index >>) = 4 /\ Len(<< >>) = 0
          OBVIOUS
        <5> QED BY <5>1
      <4> QED BY <1>2, <2>2, <4>1, <4>2
    <3> QED BY <1>1, <2>1, <3>1, <3>2 DEF Anchor
  <2>3. CASE at = Position(1, p) \/ at = << 1, NoPhase, p.tx, p.index >>
    <3>1. [at EXCEPT ![2] = NoPhase] = << 1, NoPhase, p.tx, p.index >>
      BY <2>3 DEF Position
    <3> QED BY <1>1, <2>1, <3>1 DEF Anchor
  <2> QED BY <1>2, <2>2, <2>3
<1>5. CASE position \notin {"none", "no_phase"}
  <2>1. t[who].position = at
    BY <1>1, <1>5 DEF OlderPosition
  <2> QED BY <1>1, <1>2, <2>1 DEF Anchor
<1> QED BY <1>3, <1>4, <1>5

\* The tables of an older release: in them is the block, but for the event that it
\* skipped.
LEMMA OlderGood ==
    ASSUME IsPlaced, 1 \in 1..MaxHeight, NEW lost \in SUBSET DOMAIN feed[1].ordered, NEW position,
           ~OlderWork(EmptyDb, 1, feed[1], lost).failed,
           position = "none" => \A p \in EventsAt(feed, 1) : Infuses(p) => ~Lost(feed[1].ordered, lost, p),
           NEW t, t = OlderTables(OlderBlock(EmptyDb, 1, feed[1], lost), position)
    PROVE  /\ Good(feed, t, t.ledger, {1}) /\ feed[1].ledger \subseteq t.ledger
           /\ \A p \in EventsAt(feed, 1) :
                 Lost(feed[1].ordered, lost, p) \/ Took(feed, t, t.ledger, 1, p)
<1> DEFINE w == Work(EmptyDb, << >>, NoTrip)
           s == feed[1].ordered
           k == Kept(s, lost)
           v == DispatchEvents(w, 1, k)
           x == ProcessBank(v, 1, feed[1])
           y == Flush(x)
           o == [y EXCEPT !.cursor = 1]
           X == [who \in DOMAIN o.infusion |-> OlderInfusion(o.infusion[who], position)]
<1>0. /\ s \in Seq(EventsAt(feed, 1)) /\ \A p \in EventsAt(feed, 1) : ServedAt(1, p)
      /\ WholeRows(feed[1].ledger) /\ {1} \in SUBSET (1..MaxHeight) /\ 1 \in {1} /\ 1 \in Int
  BY ServedEvents DEF IsPlaced
<1>1. WorkOK(w, EmptyDb, 1) /\ w.db = EmptyDb /\ Sound(w, {1}) /\ WholeRows(EmptyDb.ledger)
  <2>1. Counted(<< >>)
    BY DEF Counted
  <2> QED BY <2>1, EmptyOK, EmptyGood, WorkSound
<1>2. k \in Seq(EventsAt(feed, 1)) /\ \A j \in 1..Len(s) : Lost(s, lost, s[j])
                 \/ \E i \in 1..Len(k) : k[i] = s[j]
  BY <1>0, KeptOK
<1>3. x = OlderWork(EmptyDb, 1, feed[1], lost) /\ OlderBlock(EmptyDb, 1, feed[1], lost) = o
  BY DEF OlderWork, OlderBlock
<1> HIDE DEF w, k
<1>4. Stepped(v, w, EmptyDb, 1) /\ Advanced(v, w, {1}) /\ AllTook(v, 1, k, Len(k))
  BY <1>0, <1>1, <1>2, DispatchAll, DispatchAllTook
<1> HIDE DEF v
<1>5. Stepped(x, v, EmptyDb, 1) /\ Advanced(x, v, {1}) /\ ~v.failed /\ feed[1].ledger \subseteq Rows(x)
  <2>1. WorkOK(v, EmptyDb, 1) /\ Sound(v, {1})
    BY <1>4 DEF Stepped, Advanced
  <2>2. Stepped(x, v, EmptyDb, 1)
    BY <1>0, <2>1, BankOK
  <2>3. Advanced(x, v, {1}) /\ (~x.failed => ~v.failed /\ feed[1].ledger \subseteq Rows(x))
    BY <1>0, <2>1, BankAdvanced
  <2> QED BY <1>3, <2>2, <2>3
<1> HIDE DEF x
<1>6. /\ y.ledger = Rows(x) /\ Good(feed, y, y.ledger, {1})
      /\ Keeps(feed, y, y.ledger, x.db, Rows(x)) /\ DOMAIN y = Columns /\ WholeFuel(y.infusion)
  <2>1. TablesOK(y)
    BY <1>5, EmptyOK, FlushOK DEF Stepped, Flushes
  <2> QED BY <1>5, <2>1, EmptyOK, FlushGood DEF Stepped, Advanced, TablesOK
<1> HIDE DEF y
<1>7. ASSUME NEW p \in EventsAt(feed, 1), ~Lost(s, lost, p) PROVE Took(feed, y, y.ledger, 1, p)
  <2>1. PICK j \in 1..Len(s) : s[j] = p
    BY <1>0 DEF EventsAt, ToSet
  <2>2. PICK i \in 1..Len(k) : k[i] = p
    BY <1>2, <1>7, <2>1
  <2>3. Took(feed, v.db, Rows(v), 1, p)
    BY <1>4, <1>5, <2>2 DEF AllTook
  <2>4. Keeps(feed, y, y.ledger, v.db, Rows(v))
    BY <1>5, <1>6, KeepsOn DEF Advanced
  <2> QED BY <2>3, <2>4 DEF Keeps
<1>8. t = [o EXCEPT !.infusion = X]
  <2>1. t = OlderTables(o, position)
    BY <1>3
  <2> HIDE DEF o
  <2> QED BY <2>1 DEF OlderTables
<1>9. X = [who \in DOMAIN y.infusion |-> OlderInfusion(y.infusion[who], position)]
  BY <1>6, Lists
<1> HIDE DEF X
<1>10. /\ t.infusion = X /\ t.ledger = y.ledger /\ t.revisions = y.revisions /\ t.positions = y.positions
  BY <1>6, <1>8, Lists
<1>11. ASSUME NEW who \in DOMAIN y.infusion
       PROVE  \E p \in EventsAt(feed, 1) : Anchor(feed, y.infusion, who, 1, p) /\ Anchor(feed, X, who, 1, p)
  <2>1. PICK p \in EventsAt(feed, 1) : Anchor(feed, y.infusion, who, 1, p)
    BY <1>6 DEF Good, FuelGood
  <2>2. position = "none" => NewestAt(feed, 1, p)
    <3> SUFFICES ASSUME position = "none", NEW q \in EventsAt(feed, 1), Infuses(q), Funder(q) = Funder(p)
                 PROVE  ~PositionBefore(Position(1, p), Position(1, q))
      BY DEF NewestAt
    <3>1. TookFuel(feed, y.infusion, 1, q)
      BY <1>7 DEF Took
    <3>2. PICK g \in 1..MaxHeight : \E z \in EventsAt(feed, g) :
             Anchor(feed, y.infusion, Funder(q), g, z) /\ ~PositionBefore(Position(g, z), Position(1, q))
      BY <3>1 DEF TookFuel
    <3>3. PICK z \in EventsAt(feed, g) :
             Anchor(feed, y.infusion, Funder(q), g, z) /\ ~PositionBefore(Position(g, z), Position(1, q))
      BY <3>2
    <3>4. Funder(q) = who
      BY <2>1 DEF Anchor
    <3>5. g = 1 /\ z = p
      BY <2>1, <3>3, <3>4, AnchorSame
    <3> QED BY <3>3, <3>5
  <2>3. DOMAIN y.infusion[who] = {"fuel", "position"}
    BY <1>6 DEF WholeFuel
  <2>4. Anchor(feed, X, who, 1, p)
    BY <1>9, <2>1, <2>2, <2>3, OlderAnchor
  <2> QED BY <2>1, <2>4
<1>12. ASSUME NEW h \in 1..MaxHeight, NEW p \in EventsAt(feed, h), TookFuel(feed, y.infusion, h, p)
       PROVE  TookFuel(feed, X, h, p)
  <2>1. PICK g \in 1..MaxHeight : \E z \in EventsAt(feed, g) :
           Anchor(feed, y.infusion, Funder(p), g, z) /\ ~PositionBefore(Position(g, z), Position(h, p))
    BY <1>12 DEF TookFuel
  <2>2. PICK z \in EventsAt(feed, g) :
           Anchor(feed, y.infusion, Funder(p), g, z) /\ ~PositionBefore(Position(g, z), Position(h, p))
    BY <2>1
  <2>3. Funder(p) \in DOMAIN y.infusion /\ DOMAIN X = DOMAIN y.infusion
    BY <1>9, <1>12 DEF TookFuel
  <2>4. PICK q \in EventsAt(feed, 1) :
           Anchor(feed, y.infusion, Funder(p), 1, q) /\ Anchor(feed, X, Funder(p), 1, q)
    BY <1>11, <2>3
  <2>5. g = 1 /\ z = q
    BY <2>2, <2>4, AnchorSame
  <2> QED BY <2>2, <2>3, <2>4, <2>5 DEF TookFuel
<1>13. EconomyGood(feed, t, {1})
  BY <1>6, <1>10 DEF Good, EconomyGood
<1>14. FuelGood(feed, t, y.ledger, {1})
  <2>1. DOMAIN X = DOMAIN y.infusion /\ \A who \in DOMAIN X : X[who].fuel = y.infusion[who].fuel
    <3>1. \A who \in DOMAIN y.infusion : DOMAIN y.infusion[who] = {"fuel", "position"}
      BY <1>6 DEF WholeFuel
    <3> QED BY <1>9, <3>1 DEF OlderInfusion
  <2>2. \A who \in DOMAIN X : \E h \in {1} : \E p \in EventsAt(feed, h) : Anchor(feed, X, who, h, p)
    BY <1>11, <2>1
  <2> QED BY <1>6, <1>10, <2>1, <2>2 DEF Good, FuelGood
<1>15. RowsGood(feed, t, y.ledger, {1})
  <2>1. \A r \in y.ledger : \E h \in {1} : BankRow(feed, r, h) \/ OwnRow(feed, r, h) \/ FuelRow(feed, y, r, h)
    BY <1>6 DEF Good, RowsGood
  <2>2. \A r \in y.ledger : FuelRow(feed, y, r, 1) => FuelRow(feed, t, r, 1)
    BY <1>10, <1>12 DEF FuelRow
  <2>3. \A r, q \in y.ledger : r.key = q.key => r = q
    BY <1>6 DEF Good, RowsGood
  <2> QED BY <2>1, <2>2, <2>3 DEF RowsGood
<1>16. ASSUME NEW p \in EventsAt(feed, 1), ~Lost(s, lost, p) PROVE Took(feed, t, t.ledger, 1, p)
  <2>1. Took(feed, y, y.ledger, 1, p)
    BY <1>7, <1>16
  <2> QED BY <1>10, <1>12, <2>1 DEF Took
<1>17. feed[1].ledger \subseteq t.ledger
  BY <1>5, <1>6, <1>10
<1> QED BY <1>10, <1>13, <1>14, <1>15, <1>16, <1>17 DEF Good

------------------------------------------------------------------------------
(* Replays.                                                                *)

\* The event of a row was taken in by the work on its height.
SettledIn(row, w) == \A p \in Spotted(feed, row) : Took(feed, w.db, Rows(w), row.height, p)

\* A replay in progress, begun with the work first: it forgets nothing, and the
\* events of its done rows were taken in.
ReplayGood(acc, b, first, H) ==
    /\ ReplayOK(acc, b, NextHeight) /\ Advanced(acc.work, first, H)
    /\ \A i \in 1..Len(acc.done) : SettledIn(errorLog[acc.done[i]], acc.work)

\* The event that a row locates is the only one that it spots.
LEMMA OneSpotted ==
    ASSUME IsServed, NEW row \in LogRows(feed), Located(row) # {}
    PROVE  \A q \in Spotted(feed, row) : q = The(Located(row))
<1> DEFINE p == The(Located(row))
<1>1. p \in EventsAt(feed, row.height) /\ p.tx = row.tx /\ p.index = row.index
  BY LocatedFacts
<1>2. row.height \in 1..MaxHeight
  BY RowFacts
<1>3. \A x, y \in EventsAt(feed, row.height) : x.tx = y.tx /\ x.index = y.index => x = y
  BY <1>2 DEF IsServed, WellServed, EventsAt
<1> HIDE DEF p
<1>4. ASSUME NEW q \in Spotted(feed, row) PROVE q = p
  <2>1. q \in EventsAt(feed, row.height) /\ q.tx = row.tx /\ q.index = row.index
    BY DEF Spotted, Coordinate
  <2> QED BY <1>1, <1>3, <2>1
<1> QED BY <1>4 DEF p

\* What was taken in stays so while other rows are replayed.
LEMMA SettledOn ==
    ASSUME NEW row \in LogRows(feed), NEW w, NEW v, NEW H, SettledIn(row, w), Advanced(v, w, H)
    PROVE  SettledIn(row, v)
<1>1. row.height \in 1..MaxHeight
  BY RowFacts
<1>2. Spotted(feed, row) \subseteq EventsAt(feed, row.height)
  BY DEF Spotted
<1>3. Keeps(feed, v.db, Rows(v), w.db, Rows(w))
  BY DEF Advanced
<1> QED BY <1>1, <1>2, <1>3 DEF SettledIn, Keeps

\* One row of a replay: it is done only if its event was taken in.
LEMMA ReplayRowGood ==
    ASSUME IsPlaced, IsServed, errorLog \in Seq(LogRows(feed)), proc.rows \subseteq DOMAIN errorLog, NEW acc, NEW b, NEW first,
           WholeRows(b.ledger), NEW H \in SUBSET (1..MaxHeight), LogHeights(errorLog) \subseteq H,
           ReplayGood(acc, b, first, H), NEW id \in DOMAIN errorLog
    PROVE  ReplayGood(ReplayRow(acc, id), b, first, H)
<1> DEFINE row == errorLog[id]
           p == The(Located(row))
           h == row.height
           w == Run(acc.work, h, p)
<1>1. CASE acc.work.failed \/ id \notin Targets \/ ~Replayable(row)
  <2>1. ReplayRow(acc, id) = acc
    BY <1>1 DEF ReplayRow
  <2> QED BY <2>1
<1>2. CASE ~(acc.work.failed \/ id \notin Targets \/ ~Replayable(row))
  <2>1. row \in LogRows(feed) /\ h = NextHeight /\ Located(row) # {} /\ h \in H
    BY <1>2 DEF Targets, Replayable, LogHeights
  <2>2. p \in EventsAt(feed, h) /\ Registered(p.event.type)
    BY <2>1, LocatedFacts
  <2>3. \A q \in Spotted(feed, row) : q = p
    BY <2>1, OneSpotted
  <2>4. ReplayOK(ReplayRow(acc, id), b, NextHeight)
    BY ReplayRowOK DEF ReplayGood
  <2> DEFINE done == IF w.errors = acc.work.errors THEN Append(acc.done, id) ELSE acc.done
             v == [work |-> w, done |-> done]
  <2>5. ReplayRow(acc, id) = v
    BY <1>2 DEF ReplayRow
  <2>6. WorkOK(acc.work, b, h) /\ Sound(acc.work, H) /\ acc.done \in Seq(Targets)
    BY <2>1 DEF ReplayGood, ReplayOK, Advanced
  <2> HIDE DEF p, row, h
  <2>7. Entered(w, acc.work, H, h, p)
    BY <2>1, <2>2, <2>6, RunEntered
  <2> HIDE DEF w
  <2>8. Advanced(w, acc.work, H) /\ Taken(w, acc.work, h, p)
    BY <2>7 DEF Entered
  <2>9. Advanced(w, first, H)
    BY <2>8, AdvancedOn DEF ReplayGood
  <2>10. ASSUME NEW i \in 1..Len(acc.done) PROVE SettledIn(errorLog[acc.done[i]], w)
    <3>1. acc.done[i] \in DOMAIN errorLog
      <4>1. acc.done[i] \in Targets
        BY <2>6
      <4>2. Targets \subseteq DOMAIN errorLog
        BY DEF Targets
      <4> QED BY <4>1, <4>2
    <3> QED BY <2>8, <3>1, SettledOn DEF ReplayGood
  <2>11. \A i \in 1..Len(done) : SettledIn(errorLog[done[i]], w)
    <3>1. CASE w.errors # acc.work.errors
      BY <2>10, <3>1
    <3>2. CASE w.errors = acc.work.errors
      <4>1. done = Append(acc.done, id) /\ id \in Targets
        BY <1>2, <3>2 DEF row
      <4>2. SettledIn(row, w)
        BY <2>3, <2>8, <3>2 DEF Taken, SettledIn, h
      <4> HIDE DEF done
      <4>3. Len(done) = Len(acc.done) + 1 /\ Len(acc.done) \in Nat
            /\ done[Len(acc.done) + 1] = id
            /\ \A i \in 1..Len(acc.done) : done[i] = acc.done[i]
        BY <2>6, <4>1, AppendSeq
      <4>4. ASSUME NEW i \in 1..Len(done) PROVE SettledIn(errorLog[done[i]], w)
        <5>1. CASE i = Len(acc.done) + 1
          BY <4>2, <4>3, <5>1 DEF row
        <5>2. CASE i # Len(acc.done) + 1
          <6>1. i \in 1..Len(acc.done)
            BY <4>3, <5>2
          <6> QED BY <2>10, <4>3, <6>1
        <5> QED BY <5>1, <5>2
      <4> QED BY <4>4
    <3> QED BY <3>1, <3>2
  <2> HIDE DEF done
  <2>12. v.work = w /\ v.done = done
    OBVIOUS
  <2> HIDE DEF v
  <2> QED BY <2>4, <2>5, <2>9, <2>11, <2>12 DEF ReplayGood
<1> QED BY <1>1, <1>2

\* All rows of a height.
LEMMA ReplayAllGood ==
    ASSUME IsPlaced, IsServed, errorLog \in Seq(LogRows(feed)), proc.rows \subseteq DOMAIN errorLog,
           TablesOK(db), NEW trip,
           NEW H \in SUBSET (1..MaxHeight), LogHeights(errorLog) \subseteq H,
           Good(feed, db, db.ledger, H)
    PROVE  ReplayGood(Replayed(AllIds, trip), db, Work(db, << >>, trip), H)
<1>1. PICK f : /\ f[0] = [work |-> Work(db, << >>, trip), done |-> << >>]
               /\ \A i \in 1..Len(errorLog) : f[i] = ReplayRow(f[i - 1], i)
               /\ Replayed(AllIds, trip) = f[Len(errorLog)]
  BY ReplayChain
<1> DEFINE n == Len(errorLog)
           first == Work(db, << >>, trip)
           T == { i \in 0..n : ReplayGood(f[i], db, first, H) }
<1>2. n \in Nat /\ DOMAIN errorLog = 1..n /\ WholeRows(db.ledger)
  BY DEF TablesOK
<1>3. 0 \in T
  <2>1. Counted(<< >>)
    BY DEF Counted
  <2>2. WorkOK(first, db, NextHeight) /\ Sound(first, H)
    BY <2>1, WorkSound
  <2>3. f[0].work = first /\ f[0].done = << >>
    BY <1>1
  <2> HIDE DEF first
  <2>4. << >> \in Seq(Targets) /\ Len(<< >>) = 0
    OBVIOUS
  <2>5. ReplayOK(f[0], db, NextHeight)
    BY <2>2, <2>3, <2>4 DEF ReplayOK
  <2>6. Advanced(f[0].work, first, H)
    BY <2>2, <2>3, AdvancedOn
  <2>7. ReplayGood(f[0], db, first, H)
    BY <2>3, <2>4, <2>5, <2>6 DEF ReplayGood
  <2> QED BY <1>2, <2>7
<1> HIDE DEF first
<1>4. ASSUME NEW i \in 0..(n - 1), i \in T PROVE i + 1 \in T
  <2>1. i + 1 \in 1..n /\ (i + 1) - 1 = i
    BY <1>2
  <2>2. f[i + 1] = ReplayRow(f[i], i + 1)
    BY <1>1, <2>1
  <2>3. ReplayGood(f[i + 1], db, first, H)
    BY <1>2, <1>4, <2>1, <2>2, ReplayRowGood
  <2> QED BY <1>2, <2>1, <2>3
<1>5. \A i \in 0..n : i \in T
  <2> HIDE DEF T, n
  <2> QED BY <1>2, <1>3, <1>4, Steps
<1>6. ReplayGood(f[n], db, first, H)
  BY <1>2, <1>5
<1> QED BY <1>1, <1>6 DEF first

\* A replay of a height that is committed: nothing is forgotten, and the events of
\* its done rows were taken in.
LEMMA ReplayedGood ==
    ASSUME IsPlaced, IsServed, errorLog \in Seq(LogRows(feed)), proc.rows \subseteq DOMAIN errorLog,
           TablesOK(db), NEW trip,
           NEW H \in SUBSET (1..MaxHeight), LogHeights(errorLog) \subseteq H,
           Good(feed, db, db.ledger, H), NEW r, r = Replayed(AllIds, trip),
           NEW t, t = Flush(r.work)
    PROVE  /\ Good(feed, t, t.ledger, H) /\ Keeps(feed, t, t.ledger, db, db.ledger)
           /\ \A i \in 1..Len(r.done) : Settles(feed, t, errorLog[r.done[i]])
<1> DEFINE first == Work(db, << >>, trip)
           w == r.work
<1>1. ReplayGood(r, db, first, H)
  BY ReplayAllGood
<1>2. first.db = db /\ Rows(first) = db.ledger
  <2>1. Counted(<< >>)
    BY DEF Counted
  <2> QED BY <2>1, WorkSound
<1> HIDE DEF first
<1>3. WorkOK(w, db, NextHeight) /\ Sound(w, H) /\ Keeps(feed, w.db, Rows(w), db, db.ledger)
  BY <1>1, <1>2 DEF ReplayGood, ReplayOK, Advanced
<1> HIDE DEF w
<1>4. t = Flush(w)
  BY DEF w
<1>5. /\ t.ledger = Rows(w) /\ Good(feed, t, t.ledger, H)
      /\ Keeps(feed, t, t.ledger, w.db, Rows(w))
  BY <1>3, <1>4, FlushGood
<1>6. ASSUME NEW x, NEW R, Keeps(feed, t, t.ledger, x, R), Keeps(feed, x, R, db, db.ledger)
      PROVE  Keeps(feed, t, t.ledger, db, db.ledger)
  BY <1>6, KeepsOn
<1>7. Keeps(feed, t, t.ledger, db, db.ledger)
  BY <1>3, <1>5, <1>6
<1>8. ASSUME NEW i \in 1..Len(r.done) PROVE Settles(feed, t, errorLog[r.done[i]])
  <2>1. SettledIn(errorLog[r.done[i]], w)
    BY <1>1 DEF ReplayGood, w
  <2>2. r.done[i] \in DOMAIN errorLog
    <3>1. r.done \in Seq(Targets)
      BY <1>1 DEF ReplayGood, ReplayOK
    <3>2. Targets \subseteq DOMAIN errorLog
      BY DEF Targets
    <3> QED BY <3>1, <3>2
  <2> DEFINE row == errorLog[r.done[i]]
  <2>3. row \in LogRows(feed)
    BY <2>2
  <2> HIDE DEF row
  <2>4. row.height \in 1..MaxHeight /\ Spotted(feed, row) \subseteq EventsAt(feed, row.height)
    BY <2>3, RowFacts DEF Spotted
  <2>5. Settles(feed, t, row)
    BY <1>5, <2>1, <2>4 DEF Settles, SettledIn, Keeps, row
  <2> QED BY <2>5 DEF row
<1> QED BY <1>5, <1>7, <1>8

------------------------------------------------------------------------------
(* Reconciliation of the current block.                                    *)

\* The last of some indices is one of them.
LEMMA LastIndex ==
    ASSUME NEW n \in Nat, NEW S \in SUBSET (1..n), S # {}
    PROVE  Max(S) \in S
<1> DEFINE T == { n - i : i \in S }
<1>1. T \in SUBSET Nat /\ T # {}
  <2>1. ASSUME NEW i \in S PROVE n - i \in Nat
    OBVIOUS
  <2>2. T \subseteq Nat
    BY <2>1
  <2> QED BY <2>2
<1>2. PICK x \in T : \A y \in T : x <= y
  <2> HIDE DEF T
  <2> QED BY <1>1, LeastNumber
<1>3. PICK i \in S : x = n - i
  OBVIOUS
<1>4. \A j \in S : n - i <= n - j
  BY <1>2, <1>3
<1>5. \A j \in S : i >= j
  BY <1>4
<1> QED BY <1>3, <1>5 DEF Max

\* A position without its phase gets the one of the event that it comes from, because
\* that event has the proven coordinate.
LEMMA ReconciledAnchor ==
    ASSUME IsPlaced, NEW b, NEW h \in 1..MaxHeight, LegacyProven(b, h), WholeFuel(b.infusion),
           NEW t, t = [who \in DOMAIN b.infusion |->
                          IF who \in LegacyAt(b, h)
                          THEN [b.infusion[who] EXCEPT !.position = Position(h, LastInfusion(h))]
                          ELSE b.infusion[who]],
           NEW who \in DOMAIN b.infusion, NEW g \in 1..MaxHeight, NEW p \in EventsAt(feed, g),
           Anchor(feed, b.infusion, who, g, p)
    PROVE  Anchor(feed, t, who, g, p)
<1> DEFINE at == b.infusion[who].position
           last == LastInfusion(h)
<1>1. CASE who \notin LegacyAt(b, h)
  <2>1. t[who] = b.infusion[who]
    BY <1>1
  <2> QED BY <2>1 DEF Anchor
<1>2. CASE who \in LegacyAt(b, h)
  <2>1. at # << >> /\ at[1] = h /\ at[2] = NoPhase
    <3>1. InfusionUnorderable(b, who, <<h, NoPhase, NoIndex, NoIndex>>)
      BY <1>2 DEF LegacyAt
    <3>2. <<h, NoPhase, NoIndex, NoIndex>>[1] = h
      OBVIOUS
    <3> QED BY <3>1, <3>2 DEF InfusionUnorderable
  <2>2. g = 1 /\ at = << 1, NoPhase, p.tx, p.index >>
    BY <2>1, AnchorCases
  <2> HIDE DEF at
  <2>3. h = 1 /\ at[3] = p.tx /\ at[4] = p.index
    BY <2>1, <2>2
  <2>4. InfusionsOf(h) # {} /\ <<at[3], at[4]>> = <<last.tx, last.index>>
    BY <1>2 DEF LegacyProven, at
  <2>5. last \in EventsAt(feed, h)
    <3>1. feed[h].ordered \in Seq(EventsAt(feed, h))
      BY ServedEvents DEF IsPlaced
    <3> DEFINE s == feed[h].ordered
               S == InfusionsOf(h)
    <3>2. Len(s) \in Nat /\ DOMAIN s = 1..Len(s) /\ \A i \in 1..Len(s) : s[i] \in EventsAt(feed, h)
      <4> HIDE DEF s
      <4> QED BY <3>1 DEF s
    <3>3. S \in SUBSET (1..Len(s))
      BY <3>2 DEF InfusionsOf
    <3> HIDE DEF S
    <3>4. Max(S) \in S
      BY <2>4, <3>2, <3>3, LastIndex DEF S
    <3>5. last = s[Max(S)]
      BY DEF LastInfusion, S
    <3> QED BY <3>2, <3>3, <3>4, <3>5
  <2> HIDE DEF last
  <2>6. last.tx = p.tx /\ last.index = p.index
    BY <2>3, <2>4
  <2>7. \A x, y \in EventsAt(feed, h) : x.tx = y.tx /\ x.index = y.index => x = y
    BY DEF IsPlaced, WellServed, EventsAt
  <2>8. last = p
    BY <2>2, <2>3, <2>5, <2>6, <2>7
  <2>9. t[who] = [b.infusion[who] EXCEPT !.position = Position(h, last)]
    BY <1>2 DEF last
  <2>10. DOMAIN b.infusion[who] = {"fuel", "position"}
    BY DEF WholeFuel
  <2>11. t[who].fuel = b.infusion[who].fuel /\ t[who].position = Position(h, last)
    BY <2>9, <2>10
  <2>12. t[who].position = Position(g, p)
    BY <2>2, <2>3, <2>8, <2>11
  <2> QED BY <2>11, <2>12 DEF Anchor
<1> QED BY <1>1, <1>2

\* The tables with the proven positions are as good, and nothing is forgotten.
LEMMA ReconciledGood ==
    ASSUME IsPlaced, NEW b, TablesOK(b), NEW h \in 1..MaxHeight, LegacyProven(b, h),
           NEW H \in SUBSET (1..MaxHeight), Good(feed, b, b.ledger, H),
           NEW t, t = ReconcilePositions(b, h)
    PROVE  /\ t.ledger = b.ledger /\ Good(feed, t, t.ledger, H)
           /\ Keeps(feed, t, t.ledger, b, b.ledger)
<1> DEFINE X == [who \in DOMAIN b.infusion |->
                    IF who \in LegacyAt(b, h)
                    THEN [b.infusion[who] EXCEPT !.position = Position(h, LastInfusion(h))]
                    ELSE b.infusion[who]]
<1>1. t = [b EXCEPT !.infusion = X]
  BY DEF ReconcilePositions
<1>2. WholeFuel(b.infusion) /\ DOMAIN b = Columns
  BY DEF TablesOK
<1>3. \A who \in DOMAIN b.infusion : \A g \in 1..MaxHeight : \A p \in EventsAt(feed, g) :
         Anchor(feed, b.infusion, who, g, p) => Anchor(feed, X, who, g, p)
  BY <1>2, ReconciledAnchor
<1>4. DOMAIN X = DOMAIN b.infusion /\ \A who \in DOMAIN X : X[who].fuel = b.infusion[who].fuel
  <2>1. \A who \in DOMAIN b.infusion : DOMAIN b.infusion[who] = {"fuel", "position"}
    BY <1>2 DEF WholeFuel
  <2> QED BY <2>1
<1> HIDE DEF X
<1>5. /\ t.infusion = X /\ t.ledger = b.ledger /\ t.revisions = b.revisions
      /\ t.positions = b.positions
  BY <1>1, <1>2, Lists
<1>6. ASSUME NEW g \in 1..MaxHeight, NEW p \in EventsAt(feed, g), TookFuel(feed, b.infusion, g, p)
      PROVE  TookFuel(feed, X, g, p)
  BY <1>3, <1>4, <1>6 DEF TookFuel
<1>7. EconomyGood(feed, t, H)
  BY <1>5 DEF Good, EconomyGood
<1>8. FuelGood(feed, t, t.ledger, H)
  <2>1. FuelGood(feed, b, b.ledger, H)
    BY DEF Good
  <2>2. ASSUME NEW who \in DOMAIN X PROVE \E g \in H : \E p \in EventsAt(feed, g) : Anchor(feed, X, who, g, p)
    <3>1. who \in DOMAIN b.infusion
      BY <1>4
    <3>2. PICK g \in H : \E p \in EventsAt(feed, g) : Anchor(feed, b.infusion, who, g, p)
      BY <2>1, <3>1 DEF FuelGood
    <3>3. g \in 1..MaxHeight
      OBVIOUS
    <3> QED BY <1>3, <3>1, <3>2, <3>3
  <2> QED BY <1>4, <1>5, <2>1, <2>2 DEF FuelGood
<1>9. RowsGood(feed, t, t.ledger, H)
  <2>1. \A r \in b.ledger : \E g \in H : BankRow(feed, r, g) \/ OwnRow(feed, r, g) \/ FuelRow(feed, b, r, g)
    BY DEF Good, RowsGood
  <2>2. \A r \in b.ledger : \A g \in 1..MaxHeight : FuelRow(feed, b, r, g) => FuelRow(feed, t, r, g)
    BY <1>5, <1>6 DEF FuelRow
  <2>3. \A r, q \in b.ledger : r.key = q.key => r = q
    BY DEF Good, RowsGood
  <2> QED BY <1>5, <2>1, <2>2, <2>3 DEF RowsGood
<1>10. Keeps(feed, t, t.ledger, b, b.ledger)
  BY <1>5, <1>6 DEF Keeps, Took
<1> QED BY <1>5, <1>7, <1>8, <1>9, <1>10 DEF Good

\* The projections summed anew and the mirror of the block leave the rest alone.
LEMMA RebuiltAlike ==
    ASSUME NEW u, TablesOK(u), NEW h, NEW t, t = [Rebuilt(u) EXCEPT !.raw = FlushRaw(@, {h})]
    PROVE  Alike(u, t)
<1> DEFINE I == AddToInventory(<< >>, u.ledger)
           v == [u EXCEPT !.inventory = I]
           R == FlushRaw(v.raw, {h})
<1>1. Rebuilt(u) = v
  BY DEF Rebuilt
<1>2. t = [v EXCEPT !.raw = R]
  BY <1>1
<1>3. DOMAIN u = Columns
  BY DEF TablesOK
<1> HIDE DEF I, R
<1>4. /\ v.revisions = u.revisions /\ v.positions = u.positions /\ v.infusion = u.infusion
      /\ v.ledger = u.ledger /\ DOMAIN v = Columns
  BY <1>3, Lists
<1> HIDE DEF v
<1>5. /\ t.revisions = v.revisions /\ t.positions = v.positions /\ t.infusion = v.infusion
      /\ t.ledger = v.ledger
  BY <1>2, <1>4, Lists
<1> QED BY <1>4, <1>5 DEF Alike

------------------------------------------------------------------------------
(* The committed tables and the error log under the invariant.             *)

\* The heights that the tables may have taken in: those up to the cursor, and those
\* of the error log, which a replay may run ahead with.
Reach(t, log) == (1..t.cursor) \cup LogHeights(log)

\* The invariant says that every block is served as the two assumptions on it say.
LEMMA PlacedHere == Inv => IsPlaced
<1> SUFFICES ASSUME Inv, NEW h \in 1..MaxHeight PROVE WellServed(feed[h]) /\ WellPlaced(h, feed[h])
  BY DEF IsPlaced
<1> QED BY FeedAssumption, PlaceAssumption DEF Inv

\* The heights of the log are heights of the chain.
LEMMA LogHeightsOK ==
    ASSUME NEW log \in Seq(LogRows(feed))
    PROVE  LogHeights(log) \in SUBSET (1..MaxHeight)
<1> SUFFICES ASSUME NEW i \in DOMAIN log PROVE log[i].height \in 1..MaxHeight
  BY DEF LogHeights
<1>1. log[i] \in LogRows(feed)
  OBVIOUS
<1> QED BY <1>1, RowFacts

\* A settled row stays settled.
LEMMA SettlesOn ==
    ASSUME NEW row \in LogRows(feed), NEW t, NEW u, Settles(feed, t, row),
           Keeps(feed, u, u.ledger, t, t.ledger)
    PROVE  Settles(feed, u, row)
<1>1. row.height \in 1..MaxHeight /\ Spotted(feed, row) \subseteq EventsAt(feed, row.height)
  BY RowFacts DEF Spotted
<1> QED BY <1>1 DEF Settles, Keeps

\* The invariant of the tables when they grow and the cursor stays.
LEMMA StoreGrows ==
    ASSUME NEW log \in Seq(LogRows(feed)), NEW t, NEW u, StoreOK(feed, t, log),
           t.cursor \in 0..MaxHeight, u.cursor = t.cursor, t.ledger \subseteq u.ledger,
           Good(feed, u, u.ledger, Reach(t, log)), Keeps(feed, u, u.ledger, t, t.ledger)
    PROVE  /\ StoreOK(feed, u, log)
           /\ \A p : p.ids \in Seq(DOMAIN log) /\ SettlingOK(feed, p, t, log) =>
                        SettlingOK(feed, p, u, log)
<1>1. Good(feed, u, u.ledger, (1..u.cursor) \cup LogHeights(log))
  BY DEF Reach
<1>2. FullOrLogged(feed, u, log)
  <2> SUFFICES ASSUME NEW h \in 1..u.cursor
               PROVE  /\ feed[h].ledger \subseteq u.ledger
                      /\ \A p \in EventsAt(feed, h) :
                            Took(feed, u, u.ledger, h, p) \/ \E i \in DOMAIN log : Misses(log[i], h, p)
    BY DEF FullOrLogged
  <2>1. h \in 1..t.cursor /\ h \in 1..MaxHeight
    BY BlockAssumption
  <2> QED BY <2>1 DEF StoreOK, FullOrLogged, Keeps
<1>3. \A i \in DOMAIN log : log[i].resolved => Settles(feed, u, log[i])
  BY SettlesOn DEF StoreOK
<1>4. ASSUME NEW p, p.ids \in Seq(DOMAIN log), SettlingOK(feed, p, t, log)
      PROVE  SettlingOK(feed, p, u, log)
  <2>1. \A i \in 1..Len(p.ids) : log[p.ids[i]] \in LogRows(feed)
    BY <1>4
  <2> QED BY <1>4, <2>1, SettlesOn DEF SettlingOK
<1> QED BY <1>1, <1>2, <1>3, <1>4 DEF StoreOK

\* Writing a pending row to the error log keeps the invariant of the tables.
LEMMA LogAppendStock ==
    ASSUME NEW t, NEW log \in Seq(LogRows(feed)), StoreOK(feed, t, log), NEW row \in Raised(feed)
    PROVE  /\ StoreOK(feed, t, Append(log, row))
           /\ \A p : p.ids \in Seq(DOMAIN log) /\ SettlingOK(feed, p, t, log) =>
                        SettlingOK(feed, p, t, Append(log, row))
<1> DEFINE new == Append(log, row)
<1>0. row \in LogRows(feed) /\ ~row.resolved
  BY RaisedFacts
<1>1. /\ DOMAIN log \subseteq DOMAIN new /\ \A i \in DOMAIN log : new[i] = log[i]
      /\ \A i \in DOMAIN new : i \in DOMAIN log \/ new[i] = row
  <2>1. \A i \in DOMAIN new : i \in DOMAIN log \/ i = Len(log) + 1
    BY <1>0, AppendSeq
  <2> QED BY <1>0, <2>1, AppendSeq
<1> HIDE DEF new
<1>2. LogHeights(log) \subseteq LogHeights(new)
  BY <1>1 DEF LogHeights
<1>3. Good(feed, t, t.ledger, (1..t.cursor) \cup LogHeights(new))
  <2>1. (1..t.cursor) \cup LogHeights(log) \subseteq (1..t.cursor) \cup LogHeights(new)
    BY <1>2
  <2> QED BY <2>1, GoodWider DEF StoreOK
<1>4. FullOrLogged(feed, t, new)
  BY <1>1 DEF StoreOK, FullOrLogged
<1>5. \A i \in DOMAIN new : new[i].resolved => Settles(feed, t, new[i])
  BY <1>0, <1>1 DEF StoreOK
<1>6. ASSUME NEW p, p.ids \in Seq(DOMAIN log), SettlingOK(feed, p, t, log)
      PROVE  SettlingOK(feed, p, t, new)
  <2>1. \A i \in 1..Len(p.ids) : p.ids[i] \in DOMAIN log
    BY <1>6
  <2> QED BY <1>1, <1>6, <2>1 DEF SettlingOK
<1> QED BY <1>3, <1>4, <1>5, <1>6 DEF StoreOK, new

\* Resolving a row whose event was taken in keeps the invariant of the tables.
LEMMA LogResolveStock ==
    ASSUME NEW t, NEW log \in Seq(LogRows(feed)), StoreOK(feed, t, log), NEW k \in DOMAIN log,
           Settles(feed, t, log[k])
    PROVE  /\ StoreOK(feed, t, [log EXCEPT ![k].resolved = TRUE])
           /\ \A p : p.ids \in Seq(DOMAIN log) /\ SettlingOK(feed, p, t, log) =>
                        SettlingOK(feed, p, t, [log EXCEPT ![k].resolved = TRUE])
<1> DEFINE again == [log[k] EXCEPT !.resolved = TRUE]
           new == [log EXCEPT ![k].resolved = TRUE]
<1>1. /\ again.height = log[k].height /\ again.tx = log[k].tx /\ again.index = log[k].index
      /\ again.key = log[k].key /\ again.severity = log[k].severity
  <2>1. log[k] \in LogRows(feed)
    OBVIOUS
  <2> QED BY <2>1, RowFacts
<1>2. new = [log EXCEPT ![k] = again]
  OBVIOUS
<1> HIDE DEF new, again
<1>3. DOMAIN new = DOMAIN log /\ new[k] = again /\ \A i \in DOMAIN log : i # k => new[i] = log[i]
  BY <1>2
<1>4. \A i \in DOMAIN log : /\ new[i].height = log[i].height /\ new[i].tx = log[i].tx
                            /\ new[i].index = log[i].index /\ new[i].key = log[i].key
                            /\ new[i].severity = log[i].severity
  BY <1>1, <1>3
<1>5. ASSUME NEW i \in DOMAIN log, Settles(feed, t, log[i]) PROVE Settles(feed, t, new[i])
  <2>1. Spotted(feed, new[i]) = Spotted(feed, log[i])
    BY <1>4 DEF Spotted
  <2> QED BY <1>4, <1>5, <2>1 DEF Settles
<1>6. LogHeights(new) = LogHeights(log)
  BY <1>3, <1>4 DEF LogHeights
<1>7. FullOrLogged(feed, t, new)
  <2>1. ASSUME NEW i \in DOMAIN log, NEW h, NEW p, Misses(log[i], h, p) PROVE Misses(new[i], h, p)
    BY <1>4, <2>1 DEF Misses
  <2> QED BY <1>3, <2>1 DEF StoreOK, FullOrLogged
<1>8. \A i \in DOMAIN new : new[i].resolved => Settles(feed, t, new[i])
  BY <1>3, <1>5 DEF StoreOK
<1>9. ASSUME NEW p, p.ids \in Seq(DOMAIN log), SettlingOK(feed, p, t, log)
      PROVE  SettlingOK(feed, p, t, new)
  <2>1. \A i \in 1..Len(p.ids) : p.ids[i] \in DOMAIN log
    BY <1>9
  <2> QED BY <1>5, <1>9, <2>1 DEF SettlingOK
<1>10. StoreOK(feed, t, new)
  BY <1>6, <1>7, <1>8 DEF StoreOK
<1> QED BY <1>9, <1>10 DEF new

------------------------------------------------------------------------------
(* Ingest.                                                                 *)

\* A command that grows no window settles what it has to settle.
LEMMA NotGrowing ==
    ASSUME NEW f, NEW p, NEW t, NEW log, p.pc \notin {"apply", "commit"}
    PROVE  GrowingOK(f, p, t, log)
  BY DEF GrowingOK

\* A command with nothing to resolve has settled everything.
LEMMA NothingToSettle ==
    ASSUME NEW f, NEW p, NEW t, NEW log, p.ids = << >>
    PROVE  SettlingOK(f, p, t, log)
<1>1. Len(<< >>) = 0 /\ \A i \in 1..Len(<< >>) : FALSE
  OBVIOUS
<1> QED BY <1>1 DEF SettlingOK

\* A window starts from the committed tables, after the cursor.
LEMMA WindowStarts ==
    ASSUME Inv, Stock, NEW p, p.tx = db, p.next = db.cursor + 1
    PROVE  GrowingOK(feed, p, db, errorLog)
<1>1. db.cursor \in Nat
  BY BlockAssumption DEF Inv, CommittedOK
<1>2. p.next - 1 = db.cursor /\ (db.cursor + 1)..(p.next - 1) = {}
  BY <1>1
<1>3. Good(feed, db, db.ledger, (1..db.cursor) \cup LogHeights(errorLog))
  BY DEF Stock, StoreOK
<1>4. Keeps(feed, db, db.ledger, db, db.ledger)
  BY KeepsOn
<1> QED BY <1>2, <1>3, <1>4 DEF GrowingOK

\* BeginWindow: the transaction starts from the committed tables.
LEMMA BeginWindowStock == Inv /\ Stock /\ BeginWindow => Stock'
<1> SUFFICES ASSUME Inv, Stock, BeginWindow PROVE Stock'
  OBVIOUS
<1>1. PICK n \in 1..MaxWindow, bulk \in BOOLEAN :
         proc' = [Idle EXCEPT !.pc = "apply", !.tx = db, !.next = db.cursor + 1,
                              !.last = db.cursor + n, !.bulk = bulk]
  BY DEF BeginWindow
<1>2. UNCHANGED << feed, db, errorLog >>
  BY DEF BeginWindow
<1> DEFINE p == [Idle EXCEPT !.pc = "apply", !.tx = db, !.next = db.cursor + 1,
                             !.last = db.cursor + n, !.bulk = bulk]
<1>3. p.tx = db /\ p.next = db.cursor + 1 /\ p.ids = << >>
  BY DEF Idle
<1>4. proc' = p
  BY <1>1
<1> HIDE DEF p
<1>5. GrowingOK(feed, p, db, errorLog) /\ SettlingOK(feed, p, db, errorLog)
  BY <1>3, WindowStarts, NothingToSettle
<1> QED BY <1>2, <1>4, <1>5 DEF Stock

\* One more block in a window: it is taken in whole, and the blocks before it stay so.
LEMMA WindowGrows ==
    ASSUME Inv, Stock, proc.pc = "apply", NEW w \in Outcomes(proc.tx, proc.next), ~w.failed,
           NEW t, Alike(w.db, t), NEW p, p.tx = t, p.next = proc.next + 1
    PROVE  GrowingOK(feed, p, db, errorLog)
<1> DEFINE h == proc.next
           b == proc.tx
           G == (1..(h - 1)) \cup LogHeights(errorLog)
           H == (1..h) \cup LogHeights(errorLog)
<1>1. InWindow(feed, proc, db) /\ GrowingOK(feed, proc, db, errorLog)
  BY DEF Inv, WindowOK, Stock
<1>2. /\ db.cursor \in Nat /\ MaxHeight \in Nat /\ h \in (db.cursor + 1)..(MaxHeight + 1)
      /\ h <= proc.last /\ proc.last \in Nat /\ proc.last <= MaxHeight /\ TablesOK(b)
  BY <1>1, BlockAssumption DEF Inv, CommittedOK, InWindow
<1>3. h \in 1..MaxHeight
  BY <1>2
<1>4. IsPlaced /\ Counted(unknown) /\ errorLog \in Seq(LogRows(feed))
  BY PlacedHere DEF Inv, CommittedOK, LogOK
<1>5. PICK trip \in BlockTrips(h) : w = ApplyBlockInTx(Work(b, unknown, trip), h, feed[h])
  BY DEF Outcomes
<1>6. /\ Good(feed, b, b.ledger, G) /\ Keeps(feed, b, b.ledger, db, db.ledger)
      /\ \A k \in (db.cursor + 1)..(h - 1) : Full(feed, b, b.ledger, k)
  BY <1>1 DEF GrowingOK
<1>7. b.ledger \subseteq w.db.ledger
  <2>1. Applied(w, b, h)
    BY <1>2, <1>3, OutcomeOK
  <2>2. Grown(w.db, b)
    BY <2>1 DEF Applied
  <2> QED BY <2>2 DEF Grown
<1> HIDE DEF h, b
<1>8. G \subseteq H /\ H \in SUBSET (1..MaxHeight) /\ h \in H
  <2>1. LogHeights(errorLog) \in SUBSET (1..MaxHeight)
    BY <1>4, LogHeightsOK
  <2> QED BY <1>2, <1>3, <2>1
<1> HIDE DEF G
<1>9. Good(feed, b, b.ledger, H)
  BY <1>6, <1>8, GoodWider
<1> HIDE DEF H
<1>10. /\ Good(feed, w.db, w.db.ledger, H) /\ Keeps(feed, w.db, w.db.ledger, b, b.ledger)
       /\ Full(feed, w.db, w.db.ledger, h)
  BY <1>2, <1>4, <1>5, <1>8, <1>9, AppliedGood
<1> DEFINE v == w.db
           L == v.ledger
<1>11. /\ Good(feed, v, L, H) /\ Keeps(feed, v, L, b, b.ledger) /\ Full(feed, v, L, h)
       /\ Alike(v, t) /\ b.ledger \subseteq L
  BY <1>7, <1>10
<1> HIDE DEF v
<1>12. t.ledger = L /\ Good(feed, t, L, H) /\ Keeps(feed, t, L, v, L)
  BY <1>11, AlikeGood DEF Alike
<1> HIDE DEF L
<1>13. Keeps(feed, t, L, b, b.ledger)
  BY <1>11, <1>12, KeepsOn
<1>14. Keeps(feed, t, L, db, db.ledger)
  BY <1>6, <1>13, KeepsOn
<1>15. Full(feed, t, L, h)
  BY <1>3, <1>11, <1>12 DEF Full, Keeps
<1>16. ASSUME NEW k \in (db.cursor + 1)..h PROVE Full(feed, t, L, k)
  <2>1. CASE k = h
    BY <1>15, <2>1
  <2>2. CASE k # h
    <3>1. k \in (db.cursor + 1)..(h - 1) /\ k \in 1..MaxHeight
      BY <1>2, <1>3, <2>2
    <3>2. Full(feed, b, b.ledger, k)
      BY <1>6, <3>1
    <3> QED BY <1>11, <1>13, <3>1, <3>2 DEF Full, Keeps
  <2> QED BY <2>1, <2>2
<1>17. p.next - 1 = h
  BY <1>2 DEF h
<1>18. p.tx.ledger = L /\ H = (1..h) \cup LogHeights(errorLog)
  BY <1>12 DEF H
<1> QED BY <1>12, <1>14, <1>16, <1>17, <1>18 DEF GrowingOK

\* ApplyBlock: the block is taken in whole, or the command goes on to write its errors.
LEMMA ApplyBlockStock == Inv /\ Stock /\ ApplyBlock => Stock'
<1> SUFFICES ASSUME Inv, Stock, ApplyBlock PROVE Stock'
  OBVIOUS
<1> DEFINE batch == proc.raw \cup {proc.next}
           flush == ~proc.bulk \/ RawFull(batch)
<1>1. proc.pc = "apply" /\ UNCHANGED << feed, db, errorLog >>
  BY DEF ApplyBlock
<1>2. PICK w \in Outcomes(proc.tx, proc.next) :
         \/ /\ w.failed
            /\ proc' = [proc EXCEPT !.pending = @ \o w.errors, !.pc = "errors",
                                    !.failed = TRUE]
         \/ /\ ~w.failed
            /\ proc' = [proc EXCEPT
                   !.pending = @ \o w.errors, !.tx = Mirrored(w.db, batch, flush),
                   !.next = @ + 1, !.raw = IF flush THEN {} ELSE batch,
                   !.pc = IF proc.bulk /\ proc.next < proc.last THEN @ ELSE "commit"]
  BY DEF ApplyBlock
<1>3. DOMAIN proc = ProcFields /\ SettlingOK(feed, proc, db, errorLog)
  BY DEF Inv, CommandOK, Stock
<1> DEFINE X == proc.pending \o w.errors
<1>4. CASE w.failed /\ proc' = [proc EXCEPT !.pending = @ \o w.errors, !.pc = "errors",
                                           !.failed = TRUE]
  <2> DEFINE p == [proc EXCEPT !.pending = X, !.pc = "errors", !.failed = TRUE]
  <2>1. proc' = p
    BY <1>4
  <2> HIDE DEF X
  <2>2. p.pc = "errors" /\ p.ids = proc.ids
    BY <1>3 DEF ProcFields
  <2> HIDE DEF p
  <2>3. GrowingOK(feed, p, db, errorLog) /\ SettlingOK(feed, p, db, errorLog)
    BY <1>3, <2>2, NotGrowing DEF SettlingOK
  <2> QED BY <1>1, <2>1, <2>3 DEF Stock
<1>5. CASE /\ ~w.failed
           /\ proc' = [proc EXCEPT
                  !.pending = @ \o w.errors, !.tx = Mirrored(w.db, batch, flush),
                  !.next = @ + 1, !.raw = IF flush THEN {} ELSE batch,
                  !.pc = IF proc.bulk /\ proc.next < proc.last THEN @ ELSE "commit"]
  <2> DEFINE t == Mirrored(w.db, batch, flush)
             R == IF flush THEN {} ELSE batch
             c == IF proc.bulk /\ proc.next < proc.last THEN proc.pc ELSE "commit"
             p == [proc EXCEPT !.pending = X, !.tx = t, !.next = proc.next + 1, !.raw = R, !.pc = c]
  <2>1. proc' = p
    BY <1>5
  <2>2. Alike(w.db, t)
    <3>1. DOMAIN w.db = Columns
      <4>1. InWindow(feed, proc, db) /\ proc.next \in 1..MaxHeight
        <5>1. InWindow(feed, proc, db) /\ db.cursor \in Nat /\ MaxHeight \in Nat
          BY <1>1, BlockAssumption DEF Inv, WindowOK, CommittedOK
        <5> QED BY <1>1, <5>1 DEF InWindow
      <4>2. Applied(w, proc.tx, proc.next)
        BY <4>1, OutcomeOK DEF InWindow
      <4> QED BY <1>5, <4>2 DEF Applied, Grown, TablesOK
    <3>2. CASE ~flush
      <4>1. t = w.db
        BY <3>2 DEF Mirrored
      <4> HIDE DEF t, batch, flush
      <4> QED BY <4>1 DEF Alike
    <3>3. CASE flush
      <4> DEFINE F == FlushRaw(w.db.raw, batch)
                 v == [w.db EXCEPT !.raw = F]
      <4>1. t = v
        BY <3>3 DEF Mirrored
      <4> HIDE DEF t, batch, flush, F
      <4>2. /\ v.revisions = w.db.revisions /\ v.positions = w.db.positions
            /\ v.infusion = w.db.infusion /\ v.ledger = w.db.ledger
        BY <3>1, Lists
      <4> HIDE DEF v
      <4> QED BY <4>1, <4>2 DEF Alike
    <3> QED BY <3>2, <3>3
  <2> HIDE DEF t, R, c, X, batch, flush
  <2>3. p.tx = t /\ p.next = proc.next + 1 /\ p.ids = proc.ids
    BY <1>3 DEF ProcFields
  <2> HIDE DEF p
  <2>4. GrowingOK(feed, p, db, errorLog)
    BY <1>1, <1>5, <2>2, <2>3, WindowGrows
  <2>5. SettlingOK(feed, p, db, errorLog)
    BY <1>3, <2>3 DEF SettlingOK
  <2> QED BY <1>1, <2>1, <2>4, <2>5 DEF Stock
<1> QED BY <1>2, <1>4, <1>5

\* Commit: the window is committed whole, or nothing changes.
LEMMA CommitStock == Inv /\ Stock /\ Commit => Stock'
<1> SUFFICES ASSUME Inv, Stock, Commit PROVE Stock'
  OBVIOUS
<1>1. proc.pc = "commit" /\ UNCHANGED << feed, errorLog >>
  BY DEF Commit
<1>2. /\ InWindow(feed, proc, db) /\ GrowingOK(feed, proc, db, errorLog)
      /\ SettlingOK(feed, proc, db, errorLog) /\ StoreOK(feed, db, errorLog)
      /\ DOMAIN proc = ProcFields /\ errorLog \in Seq(LogRows(feed))
      /\ proc.ids \in Seq(DOMAIN errorLog)
  BY <1>1 DEF Inv, WindowOK, Stock, CommandOK, CommittedOK, LogOK
<1>3. CASE db' = CloseWindow(proc) /\ proc' = [proc EXCEPT !.pc = "errors"]
  <2> DEFINE c == proc.next - 1
             u == proc.tx
             R == FlushRaw(u.raw, proc.raw)
             t == [u EXCEPT !.cursor = c, !.raw = R]
             p == [proc EXCEPT !.pc = "errors"]
             L == u.ledger
  <2>1. db' = t /\ proc' = p
    BY <1>3 DEF CloseWindow
  <2>2. DOMAIN u = Columns /\ db.ledger \subseteq u.ledger
    BY <1>2 DEF InWindow, TablesOK
  <2>3. p.pc = "errors" /\ p.ids = proc.ids
    BY <1>2 DEF ProcFields
  <2>4. /\ db.cursor \in Nat /\ MaxHeight \in Nat /\ proc.next \in (db.cursor + 1)..(MaxHeight + 1)
        /\ c \in 0..MaxHeight /\ db.cursor <= c
    <3>1. db.cursor \in Nat /\ MaxHeight \in Nat /\ proc.next \in (db.cursor + 1)..(MaxHeight + 1)
      BY <1>2, BlockAssumption DEF Inv, CommittedOK, InWindow
    <3> QED BY <3>1
  <2>5. /\ Good(feed, u, L, (1..c) \cup LogHeights(errorLog)) /\ Keeps(feed, u, L, db, db.ledger)
        /\ \A h \in (db.cursor + 1)..c : Full(feed, u, L, h)
    BY <1>1, <1>2 DEF GrowingOK
  <2> HIDE DEF c, R, p
  <2>6. t.cursor = c /\ Alike(u, t)
    <3> HIDE DEF u
    <3>1. /\ t.cursor = c /\ t.revisions = u.revisions /\ t.positions = u.positions
          /\ t.infusion = u.infusion /\ t.ledger = u.ledger
      BY <2>2, Lists
    <3> HIDE DEF t
    <3> QED BY <3>1 DEF Alike
  <2> HIDE DEF u, t
  <2>7. t.ledger = L /\ Good(feed, t, L, (1..c) \cup LogHeights(errorLog)) /\ Keeps(feed, t, L, u, L)
    BY <2>5, <2>6, AlikeGood DEF Alike
  <2>8. L = u.ledger
    OBVIOUS
  <2> HIDE DEF L
  <2>9. Keeps(feed, t, t.ledger, db, db.ledger)
    BY <2>5, <2>7, KeepsOn
  <2>10. FullOrLogged(feed, t, errorLog)
    <3> SUFFICES ASSUME NEW h \in 1..t.cursor
                 PROVE  /\ feed[h].ledger \subseteq t.ledger
                        /\ \A q \in EventsAt(feed, h) :
                              Took(feed, t, t.ledger, h, q)
                              \/ \E i \in DOMAIN errorLog : Misses(errorLog[i], h, q)
      BY DEF FullOrLogged
    <3>1. h \in 1..MaxHeight
      BY <2>4, <2>6
    <3>2. CASE h \in 1..db.cursor
      <4>1. feed[h].ledger \subseteq t.ledger
        BY <1>2, <2>2, <2>7, <2>8, <3>2 DEF StoreOK, FullOrLogged
      <4>2. ASSUME NEW q \in EventsAt(feed, h), Took(feed, db, db.ledger, h, q)
            PROVE  Took(feed, t, t.ledger, h, q)
        BY <2>9, <3>1, <4>2 DEF Keeps
      <4> QED BY <1>2, <3>2, <4>1, <4>2 DEF StoreOK, FullOrLogged
    <3>3. CASE h \notin 1..db.cursor
      <4>1. h \in (db.cursor + 1)..c
        BY <2>4, <2>6, <3>3
      <4>2. Full(feed, u, L, h)
        BY <2>5, <4>1
      <4> QED BY <2>7, <3>1, <4>2 DEF Full, Keeps
    <3> QED BY <3>2, <3>3
  <2>11. \A i \in DOMAIN errorLog : errorLog[i].resolved => Settles(feed, t, errorLog[i])
    <3>1. \A i \in DOMAIN errorLog : errorLog[i] \in LogRows(feed)
      BY <1>2
    <3> QED BY <1>2, <2>9, <3>1, SettlesOn DEF StoreOK
  <2>12. SettlingOK(feed, p, t, errorLog)
    <3>1. \A i \in 1..Len(proc.ids) : errorLog[proc.ids[i]] \in LogRows(feed)
      BY <1>2
    <3> QED BY <1>2, <2>3, <2>9, <3>1, SettlesOn DEF SettlingOK
  <2>13. StoreOK(feed, t, errorLog)
    BY <2>6, <2>7, <2>10, <2>11 DEF StoreOK
  <2>14. GrowingOK(feed, p, t, errorLog)
    BY <2>3, NotGrowing
  <2> QED BY <1>1, <2>1, <2>12, <2>13, <2>14 DEF Stock
<1>4. CASE proc' = [proc EXCEPT !.pc = "errors", !.failed = TRUE] /\ UNCHANGED db
  <2> DEFINE p == [proc EXCEPT !.pc = "errors", !.failed = TRUE]
  <2>1. p.pc = "errors" /\ p.ids = proc.ids
    BY <1>2 DEF ProcFields
  <2>2. proc' = p
    BY <1>4
  <2> HIDE DEF p
  <2>3. SettlingOK(feed, p, db, errorLog) /\ GrowingOK(feed, p, db, errorLog)
    BY <1>2, <2>1, NotGrowing DEF SettlingOK
  <2> QED BY <1>1, <1>2, <1>4, <2>2, <2>3 DEF Stock
<1> QED BY <1>3, <1>4 DEF Commit

------------------------------------------------------------------------------
(* The error log, crashes, and the steps that touch no table.              *)

\* WriteHandlerError: a row more, not resolved, or none.
LEMMA WriteStock == Inv /\ Stock /\ WriteHandlerError => Stock'
<1> SUFFICES ASSUME Inv, Stock, WriteHandlerError PROVE Stock'
  OBVIOUS
<1> DEFINE X == Tail(proc.pending)
           p == [proc EXCEPT !.pending = X]
           row == Head(proc.pending)
<1>1. /\ proc.pc = "errors" /\ proc.pending # << >> /\ proc' = p /\ UNCHANGED << feed, db >>
      /\ errorLog' = Append(errorLog, row) \/ UNCHANGED errorLog
  BY DEF WriteHandlerError
<1>2. /\ DOMAIN proc = ProcFields /\ proc.pending \in Seq(Raised(feed))
      /\ proc.ids \in Seq(DOMAIN errorLog) /\ errorLog \in Seq(LogRows(feed))
      /\ StoreOK(feed, db, errorLog) /\ SettlingOK(feed, proc, db, errorLog)
  BY DEF Inv, CommandOK, CommittedOK, LogOK, Stock
<1>3. row \in Raised(feed)
  BY <1>1, <1>2
<1> HIDE DEF X, row
<1>4. p.pc = "errors" /\ p.ids = proc.ids
  BY <1>1, <1>2 DEF ProcFields
<1> HIDE DEF p
<1>5. SettlingOK(feed, p, db, errorLog) /\ p.ids \in Seq(DOMAIN errorLog)
  BY <1>2, <1>4 DEF SettlingOK
<1>6. \A log : GrowingOK(feed, p, db, log)
  BY <1>4, NotGrowing
<1>7. StoreOK(feed, db, Append(errorLog, row)) /\ SettlingOK(feed, p, db, Append(errorLog, row))
  BY <1>2, <1>3, <1>5, LogAppendStock
<1> QED BY <1>1, <1>2, <1>5, <1>6, <1>7 DEF Stock

\* A step to a command that grows and settles nothing, and leaves the tables and the
\* log alone.
LEMMA StillStock ==
    ASSUME Stock, UNCHANGED << feed, db, errorLog >>,
           proc'.pc \notin {"apply", "commit"}, proc'.ids = << >>
    PROVE  Stock'
<1>1. GrowingOK(feed, proc', db, errorLog) /\ SettlingOK(feed, proc', db, errorLog)
  BY NotGrowing, NothingToSettle
<1> QED BY <1>1 DEF Stock

\* The idle command is one.
LEMMA IdleStock ==
    ASSUME Stock, UNCHANGED << feed, db, errorLog >>, proc' = Idle
    PROVE  Stock'
<1>1. Idle.pc = "idle" /\ Idle.ids = << >>
  BY DEF Idle
<1>2. proc'.pc \notin {"apply", "commit"} /\ proc'.ids = << >>
  BY <1>1
<1> QED BY <1>2, StillStock

\* ErrorsWritten: the next block starts from what was committed.
LEMMA ErrorsWrittenStock == Inv /\ Stock /\ ErrorsWritten => Stock'
<1> SUFFICES ASSUME Inv, Stock, ErrorsWritten PROVE Stock'
  OBVIOUS
<1>1. UNCHANGED << feed, db, errorLog >> /\ proc.pc = "errors"
  BY DEF ErrorsWritten
<1>2. CASE proc' = Idle
  BY <1>1, <1>2, IdleStock
<1>3. CASE proc' = [Idle EXCEPT !.pc = "unknowns"]
  <2> DEFINE p == [Idle EXCEPT !.pc = "unknowns"]
  <2>1. p.pc = "unknowns" /\ p.ids = << >>
    BY DEF Idle
  <2>2. proc'.pc \notin {"apply", "commit"} /\ proc'.ids = << >>
    BY <1>3, <2>1
  <2> QED BY <1>1, <2>2, StillStock
<1>4. CASE /\ ~proc.failed
           /\ proc' = [Idle EXCEPT !.pc = "apply", !.tx = db, !.next = proc.next,
                                   !.last = proc.last]
  <2> DEFINE p == [Idle EXCEPT !.pc = "apply", !.tx = db, !.next = proc.next, !.last = proc.last]
  <2>1. p.tx = db /\ p.next = proc.next /\ p.ids = << >>
    BY DEF Idle
  <2>2. proc' = p
    BY <1>4
  <2> HIDE DEF p
  <2>3. p.next = db.cursor + 1
    BY <1>1, <1>4, <2>1 DEF Inv, WindowOK
  <2>4. GrowingOK(feed, p, db, errorLog) /\ SettlingOK(feed, p, db, errorLog)
    BY <2>1, <2>3, WindowStarts, NothingToSettle
  <2> QED BY <1>1, <2>2, <2>4 DEF Stock
<1> QED BY <1>2, <1>3, <1>4 DEF ErrorsWritten

\* StartReprocess: nothing is settled yet.
LEMMA StartReprocessStock == Inv /\ Stock /\ StartReprocess => Stock'
<1> SUFFICES ASSUME Inv, Stock, StartReprocess PROVE Stock'
  OBVIOUS
<1>1. UNCHANGED << feed, db, errorLog >>
  BY DEF StartReprocess
<1>2. PICK severities : proc' = [Idle EXCEPT !.pc = "replay", !.rows = Unresolved(severities)]
  BY DEF StartReprocess
<1> DEFINE X == Unresolved(severities)
           p == [Idle EXCEPT !.pc = "replay", !.rows = X]
<1>3. proc' = p
  BY <1>2
<1> HIDE DEF X
<1>4. p.pc = "replay" /\ p.ids = << >>
  BY DEF Idle
<1>5. proc'.pc \notin {"apply", "commit"} /\ proc'.ids = << >>
  BY <1>3, <1>4
<1> QED BY <1>1, <1>5, StillStock

\* HeightReplayed: on to the next height.
LEMMA HeightReplayedStock == Inv /\ Stock /\ HeightReplayed => Stock'
<1> SUFFICES ASSUME Inv, Stock, HeightReplayed PROVE Stock'
  OBVIOUS
<1>1. UNCHANGED << feed, db, errorLog >>
  BY DEF HeightReplayed
<1>2. CASE proc' = Idle
  BY <1>1, <1>2, IdleStock
<1>3. CASE proc.ids = << >> /\ proc' = [proc EXCEPT !.pc = "replay"]
  <2> DEFINE p == [proc EXCEPT !.pc = "replay"]
  <2>1. DOMAIN proc = ProcFields
    BY DEF Inv, CommandOK
  <2>2. p.pc = "replay" /\ p.ids = << >>
    BY <1>3, <2>1 DEF ProcFields
  <2>3. proc'.pc \notin {"apply", "commit"} /\ proc'.ids = << >>
    BY <1>3, <2>2
  <2> QED BY <1>1, <2>3, StillStock
<1> QED BY <1>2, <1>3 DEF HeightReplayed

\* ResolveError: the event of the row was taken in by the committed replay.
LEMMA ResolveStock == Inv /\ Stock /\ ResolveError => Stock'
<1> SUFFICES ASSUME Inv, Stock, ResolveError PROVE Stock'
  OBVIOUS
<1> DEFINE X == Tail(proc.ids)
           k == Head(proc.ids)
           p == [proc EXCEPT !.ids = X]
<1>1. /\ UNCHANGED << feed, db >> /\ proc.pc = "resolve" /\ proc.ids # << >> /\ proc' = p
      /\ errorLog' = [errorLog EXCEPT ![k].resolved = TRUE] \/ UNCHANGED errorLog
  BY DEF ResolveError
<1>2. /\ DOMAIN proc = ProcFields /\ proc.ids \in Seq(DOMAIN errorLog)
      /\ errorLog \in Seq(LogRows(feed))
      /\ StoreOK(feed, db, errorLog) /\ SettlingOK(feed, proc, db, errorLog)
  BY DEF Inv, CommandOK, CommittedOK, LogOK, Stock
<1>3. /\ X \in Seq(DOMAIN errorLog) /\ k \in DOMAIN errorLog /\ k = proc.ids[1]
      /\ Len(X) = Len(proc.ids) - 1 /\ Len(proc.ids) \in Nat /\ Len(proc.ids) >= 1
      /\ \A i \in 1..Len(X) : X[i] = proc.ids[i + 1]
  BY <1>1, <1>2, TailSeq
<1> HIDE DEF X, k
<1>4. Settles(feed, db, errorLog[k])
  <2>1. 1 \in 1..Len(proc.ids)
    BY <1>3
  <2>2. Settles(feed, db, errorLog[proc.ids[1]])
    BY <1>2, <2>1 DEF SettlingOK
  <2> QED BY <1>3, <2>2
<1>5. \A i \in 1..Len(X) : Settles(feed, db, errorLog[X[i]])
  <2> SUFFICES ASSUME NEW i \in 1..Len(X) PROVE Settles(feed, db, errorLog[X[i]])
    OBVIOUS
  <2>1. i + 1 \in 1..Len(proc.ids) /\ X[i] = proc.ids[i + 1]
    BY <1>3
  <2> QED BY <1>2, <2>1 DEF SettlingOK
<1>6. p.pc = "resolve" /\ p.ids = X
  BY <1>1, <1>2 DEF ProcFields
<1> HIDE DEF p
<1>7. SettlingOK(feed, p, db, errorLog) /\ p.ids \in Seq(DOMAIN errorLog)
  BY <1>3, <1>5, <1>6 DEF SettlingOK
<1>8. \A log : GrowingOK(feed, p, db, log)
  BY <1>6, NotGrowing
<1> DEFINE log == [errorLog EXCEPT ![k].resolved = TRUE]
<1>9. StoreOK(feed, db, log) /\ SettlingOK(feed, p, db, log)
  BY <1>2, <1>3, <1>4, <1>7, LogResolveStock
<1>10. errorLog' = log \/ errorLog' = errorLog
  BY <1>1
<1> HIDE DEF log
<1> QED BY <1>1, <1>2, <1>7, <1>8, <1>9, <1>10 DEF Stock

------------------------------------------------------------------------------
(* The steps of a replay and of a reconciliation that write the tables.    *)

\* What the invariants say before such a step.
LEMMA StoreFacts ==
    ASSUME Inv, Stock
    PROVE  /\ IsPlaced /\ IsServed /\ TablesOK(db) /\ db.cursor \in 0..MaxHeight
           /\ errorLog \in Seq(LogRows(feed)) /\ StoreOK(feed, db, errorLog)
           /\ Good(feed, db, db.ledger, Reach(db, errorLog))
           /\ Reach(db, errorLog) \in SUBSET (1..MaxHeight)
           /\ LogHeights(errorLog) \subseteq Reach(db, errorLog)
           /\ 1..db.cursor \subseteq Reach(db, errorLog)
           /\ DOMAIN proc = ProcFields /\ proc.rows \subseteq DOMAIN errorLog
           /\ proc.ids \in Seq(DOMAIN errorLog) /\ SettlingOK(feed, proc, db, errorLog)
<1>1. /\ TablesOK(db) /\ db.cursor \in 0..MaxHeight /\ errorLog \in Seq(LogRows(feed))
      /\ DOMAIN proc = ProcFields /\ proc.rows \subseteq DOMAIN errorLog
      /\ proc.ids \in Seq(DOMAIN errorLog)
  BY DEF Inv, CommittedOK, LogOK, CommandOK
<1>2. StoreOK(feed, db, errorLog) /\ SettlingOK(feed, proc, db, errorLog)
  BY DEF Stock
<1>3. LogHeights(errorLog) \in SUBSET (1..MaxHeight)
  BY <1>1, LogHeightsOK
<1>4. 1..db.cursor \subseteq 1..MaxHeight
  BY <1>1, BlockAssumption
<1>5. Good(feed, db, db.ledger, Reach(db, errorLog))
  BY <1>2 DEF StoreOK, Reach
<1> QED BY <1>1, <1>2, <1>3, <1>4, <1>5, PlacedHere, ServedHere DEF Reach

\* ReplayHeight: nothing is forgotten, and the events of the rows to resolve were
\* taken in; or nothing of it is kept.
LEMMA ReplayHeightStock == Inv /\ Stock /\ ReplayHeight => Stock'
<1> SUFFICES ASSUME Inv, Stock, ReplayHeight PROVE Stock'
  OBVIOUS
<1>1. UNCHANGED << feed, errorLog >> /\ proc.pc = "replay"
  BY DEF ReplayHeight
<1>2. PICK trip \in Tripping(NextHeight) : \E r \in { Replayed(AllIds, trip) } :
          \/ /\ ~r.work.failed /\ db' = Flush(r.work)
             /\ proc' = [proc EXCEPT !.rows = @ \ Targets, !.pc = "resolve",
                                     !.ids = Settled(r)]
          \/ proc' = [proc EXCEPT !.rows = @ \ Targets] /\ UNCHANGED db
  BY DEF ReplayHeight
<1> DEFINE r == Replayed(AllIds, trip)
           R == proc.rows \ Targets
<1>3. \/ /\ ~r.work.failed /\ db' = Flush(r.work)
         /\ proc' = [proc EXCEPT !.rows = R, !.pc = "resolve", !.ids = Settled(r)]
      \/ proc' = [proc EXCEPT !.rows = R] /\ UNCHANGED db
  BY <1>2
<1> DEFINE H == Reach(db, errorLog)
           t == Flush(r.work)
<1>4. /\ IsPlaced /\ IsServed /\ TablesOK(db) /\ db.cursor \in 0..MaxHeight
      /\ errorLog \in Seq(LogRows(feed)) /\ StoreOK(feed, db, errorLog)
      /\ Good(feed, db, db.ledger, H) /\ H \in SUBSET (1..MaxHeight)
      /\ LogHeights(errorLog) \subseteq H
      /\ DOMAIN proc = ProcFields /\ proc.rows \subseteq DOMAIN errorLog
      /\ proc.ids \in Seq(DOMAIN errorLog) /\ SettlingOK(feed, proc, db, errorLog)
  BY StoreFacts
<1> HIDE DEF R, H
<1>5. /\ Good(feed, t, t.ledger, H) /\ Keeps(feed, t, t.ledger, db, db.ledger)
      /\ \A i \in 1..Len(r.done) : Settles(feed, t, errorLog[r.done[i]])
  <2>1. \A x, u : x = Replayed(AllIds, trip) /\ u = Flush(x.work) =>
           /\ Good(feed, u, u.ledger, H) /\ Keeps(feed, u, u.ledger, db, db.ledger)
           /\ \A i \in 1..Len(x.done) : Settles(feed, u, errorLog[x.done[i]])
    BY <1>4, ReplayedGood
  <2> QED BY <2>1
<1>6. Flushes(t, r.work, db)
  <2>1. ReplayOK(r, db, NextHeight)
    BY <1>4, ReplayAll
  <2> HIDE DEF r
  <2> QED BY <1>4, <2>1, FlushOK DEF ReplayOK
<1> HIDE DEF r
<1>7. CASE /\ ~r.work.failed /\ db' = Flush(r.work)
           /\ proc' = [proc EXCEPT !.rows = R, !.pc = "resolve", !.ids = Settled(r)]
  <2> DEFINE p == [proc EXCEPT !.rows = R, !.pc = "resolve", !.ids = r.done]
  <2>1. db' = t /\ proc' = p
    BY <1>7 DEF Settled
  <2>2. p.pc = "resolve" /\ p.ids = r.done
    BY <1>4 DEF ProcFields
  <2>3. t.cursor = db.cursor /\ db.ledger \subseteq t.ledger
    BY <1>6 DEF Flushes
  <2> HIDE DEF p, t
  <2>4. StoreOK(feed, t, errorLog)
    BY <1>4, <1>5, <2>3, StoreGrows DEF H
  <2>5. SettlingOK(feed, p, t, errorLog) /\ GrowingOK(feed, p, t, errorLog)
    BY <1>5, <2>2, NotGrowing DEF SettlingOK
  <2> QED BY <1>1, <2>1, <2>4, <2>5 DEF Stock
<1>8. CASE proc' = [proc EXCEPT !.rows = R] /\ UNCHANGED db
  <2> DEFINE p == [proc EXCEPT !.rows = R]
  <2>1. p.pc = "replay" /\ p.ids = proc.ids
    BY <1>1, <1>4 DEF ProcFields
  <2>2. proc' = p
    BY <1>8
  <2> HIDE DEF p
  <2>3. SettlingOK(feed, p, db, errorLog) /\ GrowingOK(feed, p, db, errorLog)
    BY <1>4, <2>1, NotGrowing DEF SettlingOK
  <2> QED BY <1>1, <1>4, <1>8, <2>2, <2>3 DEF Stock
<1> QED BY <1>3, <1>7, <1>8

\* ReconcileCurrentBlock: the block is applied once more, and nothing is forgotten.
LEMMA ReconcileStock == Inv /\ Stock /\ ReconcileCurrentBlock => Stock'
<1> SUFFICES ASSUME Inv, Stock, ReconcileCurrentBlock PROVE Stock'
  OBVIOUS
<1> DEFINE h == db.cursor
           b == ReconcilePositions(db, h)
           H == Reach(db, errorLog)
<1>1. UNCHANGED << feed, errorLog >> /\ h > 0
  BY DEF ReconcileCurrentBlock
<1>2. PICK w \in ReconcileOutcomes(h) :
          /\ db' = IF w.failed THEN db
                   ELSE [Rebuilt(w.db) EXCEPT !.raw = FlushRaw(@, {h})]
          /\ proc' = [Idle EXCEPT !.pc = "errors", !.pending = w.errors, !.failed = TRUE]
  BY DEF ReconcileCurrentBlock
<1>3. /\ IsPlaced /\ TablesOK(db) /\ db.cursor \in 0..MaxHeight
      /\ errorLog \in Seq(LogRows(feed)) /\ StoreOK(feed, db, errorLog)
      /\ Good(feed, db, db.ledger, H) /\ H \in SUBSET (1..MaxHeight)
      /\ 1..db.cursor \subseteq H
  BY StoreFacts
<1>4. h \in 1..MaxHeight /\ h \in H
  BY <1>1, <1>3, BlockAssumption
<1>5. /\ TablesOK(b) /\ b.cursor = h /\ b = ReconcilePositions(db, h)
      /\ b.ledger = db.ledger
      /\ LegacyProven(db, h) => Good(feed, b, b.ledger, H) /\ Keeps(feed, b, b.ledger, db, db.ledger)
  <2>1. TablesOK(b) /\ b.cursor = h /\ b.ledger = db.ledger
    BY <1>3, ReconciledOK
  <2> HIDE DEF H, h
  <2>2. LegacyProven(db, h) => \A u : u = ReconcilePositions(db, h) =>
           /\ Good(feed, u, u.ledger, H)
           /\ Keeps(feed, u, u.ledger, db, db.ledger)
    BY <1>3, <1>4, ReconciledGood
  <2> QED BY <2>1, <2>2
<1> HIDE DEF b
<1> DEFINE p == [Idle EXCEPT !.pc = "errors", !.pending = w.errors, !.failed = TRUE]
<1>6. p.pc = "errors" /\ p.ids = << >>
  BY DEF Idle
<1>7. proc' = p
  BY <1>2
<1> HIDE DEF p
<1>8. \A t : SettlingOK(feed, p, t, errorLog) /\ GrowingOK(feed, p, t, errorLog)
  BY <1>6, NotGrowing, NothingToSettle
<1>9. StoreOK(feed, db', errorLog)
  <2>1. CASE w.failed
    BY <1>2, <1>3, <2>1
  <2>2. CASE ~w.failed
    <3> DEFINE t == [Rebuilt(w.db) EXCEPT !.raw = FlushRaw(@, {h})]
    <3>1. db' = t
      BY <1>2, <2>2
    <3>2. Applied(w, b, h) /\ LegacyProven(db, h) /\ w \in Outcomes(b, h)
      BY <1>2, <1>4, <1>5, <2>2, ReconcileOutcomeOK
    <3>3. TablesOK(w.db) /\ b.ledger \subseteq w.db.ledger /\ w.db.cursor = b.cursor
      BY <2>2, <3>2 DEF Applied, Grown
    <3>4. PICK trip \in BlockTrips(h) : w = ApplyBlockInTx(Work(b, unknown, trip), h, feed[h])
      BY <3>2 DEF Outcomes
    <3>5. Counted(unknown)
      BY DEF Inv
    <3> HIDE DEF h, H
    <3>6. Good(feed, w.db, w.db.ledger, H) /\ Keeps(feed, w.db, w.db.ledger, b, b.ledger)
      BY <1>3, <1>4, <1>5, <2>2, <3>2, <3>4, <3>5, AppliedGood
    <3> DEFINE u == w.db
    <3>7. /\ TablesOK(u) /\ b.ledger \subseteq u.ledger /\ u.cursor = b.cursor
          /\ Good(feed, u, u.ledger, H) /\ Keeps(feed, u, u.ledger, b, b.ledger)
          /\ t = [Rebuilt(u) EXCEPT !.raw = FlushRaw(@, {h})]
      BY <3>3, <3>6
    <3> HIDE DEF u
    <3>8. t.cursor = u.cursor
      <4> DEFINE v == Rebuilt(u)
      <4>1. TablesOK(v) /\ v.cursor = u.cursor
        BY <3>7, RebuiltOK
      <4>2. t = [v EXCEPT !.raw = FlushRaw(@, {h})]
        BY <3>7
      <4> HIDE DEF v, t
      <4> QED BY <4>1, <4>2, RemirrorOK
    <3>9. Alike(u, t)
      BY <3>7, RebuiltAlike
    <3> HIDE DEF t
    <3>10. t.ledger = u.ledger /\ Good(feed, t, t.ledger, H) /\ Keeps(feed, t, t.ledger, u, u.ledger)
      BY <3>7, <3>9, AlikeGood DEF Alike
    <3>11. Keeps(feed, t, t.ledger, b, b.ledger)
      BY <3>7, <3>10, KeepsOn
    <3>12. Keeps(feed, t, t.ledger, db, db.ledger)
      BY <1>5, <3>2, <3>11, KeepsOn
    <3>13. t.cursor = db.cursor /\ db.ledger \subseteq t.ledger
      BY <1>5, <3>7, <3>8, <3>10 DEF h
    <3>14. StoreOK(feed, t, errorLog)
      BY <1>3, <3>10, <3>12, <3>13, StoreGrows DEF H
    <3> QED BY <3>1, <3>14
  <2> QED BY <2>1, <2>2
<1> QED BY <1>1, <1>7, <1>8, <1>9 DEF Stock

------------------------------------------------------------------------------
(* The initial states, and every step.                                     *)

\* The tables of a new database, and those that an older release left: it lost at
\* most the event whose row is in the log.
LEMMA InitStock == Init => Stock
<1> SUFFICES ASSUME Init PROVE Stock
  OBVIOUS
<1>1. Inv
  BY InitInv
<1>2. IsPlaced /\ IsServed /\ feed = Feed(chain) /\ chain \in DOMAIN Chains /\ proc = Idle
  BY <1>1, PlacedHere, ServedHere DEF Init
<1>3. GrowingOK(feed, proc, db, errorLog) /\ SettlingOK(feed, proc, db, errorLog)
  <2>1. Idle.pc = "idle" /\ Idle.ids = << >>
    BY DEF Idle
  <2> QED BY <1>2, <2>1, NotGrowing, NothingToSettle
<1>4. StoreOK(feed, db, errorLog)
  <2>1. CASE db = EmptyDb /\ errorLog = << >>
    <3>1. db.cursor = 0 /\ 1..0 = {}
      BY <2>1 DEF EmptyDb
    <3>2. DOMAIN errorLog = {}
      BY <2>1
    <3>3. Good(feed, db, db.ledger, (1..db.cursor) \cup LogHeights(errorLog))
      BY <2>1, EmptyGood
    <3> QED BY <3>1, <3>2, <3>3 DEF StoreOK, FullOrLogged
  <2>2. CASE \E i \in Inherits :
               /\ i.upTo = 1 /\ i.skipped \in {NoTrip} \cup Trips(feed[1].ordered)
               /\ LET lost == SkippedAt(feed[1].ordered, i.skipped)
                  IN /\ ~OlderWork(EmptyDb, 1, feed[1], lost).failed
                     /\ db = OlderTables(OlderBlock(EmptyDb, 1, feed[1], lost), i.position)
                     /\ errorLog = OlderErrors(feed[1].ordered, lost)
    <3>1. PICK i \in Inherits :
               /\ i.upTo = 1 /\ i.skipped \in {NoTrip} \cup Trips(feed[1].ordered)
               /\ LET lost == SkippedAt(feed[1].ordered, i.skipped)
                  IN /\ ~OlderWork(EmptyDb, 1, feed[1], lost).failed
                     /\ db = OlderTables(OlderBlock(EmptyDb, 1, feed[1], lost), i.position)
                     /\ errorLog = OlderErrors(feed[1].ordered, lost)
      BY <2>2
    <3> DEFINE lost == SkippedAt(feed[1].ordered, i.skipped)
               s == feed[1].ordered
    <3>2. /\ ~OlderWork(EmptyDb, 1, feed[1], lost).failed
          /\ db = OlderTables(OlderBlock(EmptyDb, 1, feed[1], lost), i.position)
          /\ errorLog = OlderErrors(feed[1].ordered, lost)
      BY <3>1
    <3>3. /\ lost \in SUBSET DOMAIN feed[1].ordered
          /\ errorLog \in Seq(LogRows(feed)) /\ \A k \in DOMAIN errorLog : ~errorLog[k].resolved
          /\ \A p : Lost(feed[1].ordered, lost, p) =>
                \E k \in DOMAIN errorLog : Misses(errorLog[k], 1, p)
      BY <1>2, <3>1, <3>2, OlderLog
    <3>4. ASSUME i.position = "none", NEW p \in EventsAt(feed, 1), Infuses(p) PROVE ~Lost(s, lost, p)
      <4>1. SUFFICES ASSUME Lost(s, lost, p) PROVE FALSE
        OBVIOUS
      <4>2. lost # {} /\ p = s[The(lost)]
        BY <4>1 DEF Lost
      <4>3. The(lost) \in lost
        BY <4>2 DEF The
      <4>4. Coordinate(p) = i.skipped
        BY <4>2, <4>3 DEF SkippedAt
      <4>5. NothingUnplaced(i)
        BY <3>1, InheritAssumption
      <4>6. p \in ToSet(Feed(chain)[1].ordered) /\ p.event.type = "EventInfusion"
        BY <1>2, <3>4 DEF EventsAt, Infuses
      <4> QED BY <1>2, <3>4, <4>4, <4>5, <4>6 DEF NothingUnplaced
    <3> HIDE DEF lost
    <3>5. 1 \in 1..MaxHeight /\ WellServed(feed[1])
      BY <1>2, BlockAssumption DEF IsServed
    <3>6. db.cursor = 1
      BY <3>2, <3>3, <3>5, OlderOK
    <3> DEFINE position == i.position
    <3>7. position = "none" => \A p \in EventsAt(feed, 1) : Infuses(p) => ~Lost(feed[1].ordered, lost, p)
      BY <3>4
    <3>8. db = OlderTables(OlderBlock(EmptyDb, 1, feed[1], lost), position)
      BY <3>2
    <3> HIDE DEF position
    <3>9. /\ Good(feed, db, db.ledger, {1}) /\ feed[1].ledger \subseteq db.ledger
          /\ \A p \in EventsAt(feed, 1) :
                Lost(feed[1].ordered, lost, p) \/ Took(feed, db, db.ledger, 1, p)
      <4>1. \A u : u = OlderTables(OlderBlock(EmptyDb, 1, feed[1], lost), position) =>
               /\ Good(feed, u, u.ledger, {1}) /\ feed[1].ledger \subseteq u.ledger
               /\ \A p \in EventsAt(feed, 1) :
                     Lost(feed[1].ordered, lost, p) \/ Took(feed, u, u.ledger, 1, p)
        BY <1>2, <3>2, <3>3, <3>5, <3>7, OlderGood
      <4> QED BY <3>8, <4>1
    <3>10. Good(feed, db, db.ledger, (1..db.cursor) \cup LogHeights(errorLog))
      <4>1. {1} \subseteq (1..db.cursor) \cup LogHeights(errorLog)
        BY <3>6
      <4> QED BY <3>9, <4>1, GoodWider
    <3>11. FullOrLogged(feed, db, errorLog)
      <4>1. \A h \in 1..db.cursor : h = 1
        BY <3>6
      <4> QED BY <3>3, <3>9, <4>1 DEF FullOrLogged
    <3> QED BY <3>3, <3>10, <3>11 DEF StoreOK
  <2> QED BY <2>1, <2>2 DEF Init
<1> QED BY <1>3, <1>4 DEF Stock

\* Every step of ingest, of a replay and of a reconciliation keeps the invariant.
LEMMA NextStock == Inv /\ Stock /\ [Next]_vars => Stock'
<1> SUFFICES ASSUME Inv, Stock, [Next]_vars PROVE Stock'
  OBVIOUS
<1>1. ASSUME proc' = Idle, UNCHANGED << feed, db, errorLog >> PROVE Stock'
  BY <1>1, IdleStock
<1>2. CASE FlushUnknowns \/ Crash
  BY <1>1, <1>2 DEF FlushUnknowns, Crash
<1>3. CASE Next
  BY <1>2, <1>3, BeginWindowStock, ApplyBlockStock, CommitStock, WriteStock,
     ErrorsWrittenStock, StartReprocessStock, ReplayHeightStock, ResolveStock,
     HeightReplayedStock, ReconcileStock DEF Next
<1>4. CASE UNCHANGED vars
  BY <1>4 DEF vars, Stock
<1> QED BY <1>3, <1>4

\* In every reachable state: the tables come from the events of the indexed blocks and
\* of the replayed ones, nothing that was taken in is forgotten, and every event of an
\* indexed block was taken in or an error says that it was not.
THEOREM StockHolds == Spec => []Stock
<1>1. Init => Stock
  BY InitStock
<1>2. Inv /\ Stock /\ [Next]_vars => Stock'
  BY NextStock
<1> QED BY <1>1, <1>2, InvHolds, PTL DEF Spec

------------------------------------------------------------------------------
(* What is stored once no error is left.                                   *)

\* Once no error is left to replay and none is ahead of the cursor, the tables come
\* from the indexed blocks, and each of them was taken in whole.
LEMMA CleanTables ==
    ASSUME Inv, Stock, QueueClean, ~AheadOfCursor
    PROVE  /\ Good(feed, db, db.ledger, 1..db.cursor)
           /\ \A h \in 1..db.cursor : Full(feed, db, db.ledger, h)
<1>1. /\ errorLog \in Seq(LogRows(feed)) /\ StoreOK(feed, db, errorLog)
      /\ db.cursor \in 0..MaxHeight /\ MaxHeight \in Nat
  BY StoreFacts, BlockAssumption
<1>2. \A i \in DOMAIN errorLog : errorLog[i].height \in 1..MaxHeight /\ errorLog[i].height <= db.cursor
  <2>1. \A i \in DOMAIN errorLog : errorLog[i] \in LogRows(feed)
    BY <1>1
  <2>2. \A i \in DOMAIN errorLog : errorLog[i].height \in 1..MaxHeight
    BY <2>1, RowFacts
  <2> QED BY <1>1, <2>2 DEF AheadOfCursor
<1>3. (1..db.cursor) \cup LogHeights(errorLog) = 1..db.cursor
  BY <1>1, <1>2 DEF LogHeights
<1>4. Good(feed, db, db.ledger, 1..db.cursor)
  BY <1>1, <1>3 DEF StoreOK
<1>5. ASSUME NEW h \in 1..db.cursor, NEW p \in EventsAt(feed, h) PROVE Took(feed, db, db.ledger, h, p)
  <2>1. CASE Took(feed, db, db.ledger, h, p)
    BY <2>1
  <2>2. CASE \E i \in DOMAIN errorLog : Misses(errorLog[i], h, p)
    <3>1. PICK i \in DOMAIN errorLog : Misses(errorLog[i], h, p)
      BY <2>2
    <3> DEFINE row == errorLog[i]
    <3>2. row.resolved
      BY <1>2, <3>1 DEF QueueClean, Misses
    <3>3. Settles(feed, db, row)
      BY <1>1, <3>2 DEF StoreOK
    <3>4. row.height = h /\ p \in Spotted(feed, row)
      BY <3>1 DEF Misses, Spotted, Coordinate
    <3> QED BY <3>3, <3>4 DEF Settles
  <2> QED BY <1>1, <2>1, <2>2 DEF StoreOK, FullOrLogged
<1>6. \A h \in 1..db.cursor : feed[h].ledger \subseteq db.ledger
  BY <1>1 DEF StoreOK, FullOrLogged
<1> QED BY <1>4, <1>5, <1>6 DEF Full

\* The events of a type in the first blocks.
LEMMA EventsUpToIs ==
    ASSUME NEW f, NEW n, NEW type
    PROVE  \A x : x \in EventsUpTo(f, n, type) <=>
                     \E h \in 1..n : \E p \in EventsAt(f, h) :
                        p.event.type = type /\ x = [h |-> h, p |-> p]
  BY DEF EventsUpTo, EventsAt

\* A revision that no later reset removes.
InForce(n, h, p) ==
    \A g \in 1..n : \A q \in EventsAt(feed, g) :
       Resets(q) => ~PositionBefore(Position(h, p), Position(g, q))

\* The revisions that a chain shows, event by event.
LEMMA ShownRevisions ==
    ASSUME NEW n, NEW r, RevisionsShown(feed, n, r)
    PROVE  /\ \A h \in 1..n : \A p \in EventsAt(feed, h) :
                 Revises(p) /\ InForce(n, h, p) => Reactor(p) \in DOMAIN r
           /\ \A id \in DOMAIN r : \E h \in 1..n : \E p \in EventsAt(feed, h) :
                 /\ Revises(p) /\ Reactor(p) = id /\ InForce(n, h, p) /\ Revision(p) = r[id]
                 /\ \A g \in 1..n : \A q \in EventsAt(feed, g) :
                       Revises(q) /\ Reactor(q) = id /\ InForce(n, g, q) =>
                          ~PositionBefore(Position(h, p), Position(g, q))
<1> DEFINE revised == EventsUpTo(feed, n, "EventReactorCommissionRevision")
           reset == EventsUpTo(feed, n, "EventReactorCommissionRevisionReset")
           of(id) == { x \in revised : Value(x.p.event, "reactorId") = id /\ NoneAfter(x, reset) }
<1>1. /\ \A x \in revised : NoneAfter(x, reset) => Value(x.p.event, "reactorId") \in DOMAIN r
      /\ \A id \in DOMAIN r : \E x \in of(id) :
            NoneAfter(x, of(id)) /\ Value(x.p.event, "slashRevision") = r[id]
  BY DEF RevisionsShown
<1>2. \A x : x \in revised <=> \E h \in 1..n : \E p \in EventsAt(feed, h) :
                                  Revises(p) /\ x = [h |-> h, p |-> p]
  BY EventsUpToIs DEF Revises
<1>3. \A x : x \in reset <=> \E h \in 1..n : \E p \in EventsAt(feed, h) :
                                Resets(p) /\ x = [h |-> h, p |-> p]
  BY EventsUpToIs DEF Resets
<1> HIDE DEF revised, reset
<1>4. \A h, p : NoneAfter([h |-> h, p |-> p], reset) <=> InForce(n, h, p)
  <2> SUFFICES ASSUME NEW h, NEW p PROVE NoneAfter([h |-> h, p |-> p], reset) <=> InForce(n, h, p)
    OBVIOUS
  <2>1. ASSUME NoneAfter([h |-> h, p |-> p], reset), NEW g \in 1..n, NEW q \in EventsAt(feed, g), Resets(q)
        PROVE  ~PositionBefore(Position(h, p), Position(g, q))
    <3> DEFINE y == [h |-> g, p |-> q]
    <3>1. y \in reset /\ y.h = g /\ y.p = q
      BY <1>3, <2>1
    <3> HIDE DEF y
    <3> QED BY <2>1, <3>1 DEF NoneAfter
  <2>2. ASSUME InForce(n, h, p), NEW y \in reset
        PROVE  ~PositionBefore(Position(h, p), Position(y.h, y.p))
    <3>1. PICK g \in 1..n : \E q \in EventsAt(feed, g) : Resets(q) /\ y = [h |-> g, p |-> q]
      BY <1>3
    <3> QED BY <2>2, <3>1 DEF InForce
  <2> QED BY <2>1, <2>2 DEF NoneAfter, InForce
<1>5. ASSUME NEW h \in 1..n, NEW p \in EventsAt(feed, h), Revises(p), InForce(n, h, p)
      PROVE  Reactor(p) \in DOMAIN r
  <2> DEFINE x == [h |-> h, p |-> p]
  <2>1. x \in revised /\ NoneAfter(x, reset) /\ x.p = p
    BY <1>2, <1>4, <1>5
  <2> HIDE DEF x
  <2> QED BY <1>1, <2>1 DEF Reactor
<1>6. ASSUME NEW id \in DOMAIN r
      PROVE  \E h \in 1..n : \E p \in EventsAt(feed, h) :
                 /\ Revises(p) /\ Reactor(p) = id /\ InForce(n, h, p) /\ Revision(p) = r[id]
                 /\ \A g \in 1..n : \A q \in EventsAt(feed, g) :
                       Revises(q) /\ Reactor(q) = id /\ InForce(n, g, q) =>
                          ~PositionBefore(Position(h, p), Position(g, q))
  <2>1. PICK x \in of(id) : NoneAfter(x, of(id)) /\ Value(x.p.event, "slashRevision") = r[id]
    BY <1>1
  <2>2. x \in revised /\ Value(x.p.event, "reactorId") = id /\ NoneAfter(x, reset)
    OBVIOUS
  <2>3. PICK h \in 1..n : \E p \in EventsAt(feed, h) : Revises(p) /\ x = [h |-> h, p |-> p]
    BY <1>2, <2>2
  <2>4. PICK p \in EventsAt(feed, h) : Revises(p) /\ x = [h |-> h, p |-> p]
    BY <2>3
  <2>5. Reactor(p) = id /\ InForce(n, h, p) /\ Revision(p) = r[id] /\ x.h = h /\ x.p = p
    BY <1>4, <2>1, <2>2, <2>4 DEF Reactor, Revision
  <2>6. ASSUME NEW g \in 1..n, NEW q \in EventsAt(feed, g),
               Revises(q), Reactor(q) = id, InForce(n, g, q)
        PROVE  ~PositionBefore(Position(h, p), Position(g, q))
    <3> DEFINE y == [h |-> g, p |-> q]
    <3>1. y \in revised /\ NoneAfter(y, reset) /\ y.p = q /\ y.h = g
      BY <1>2, <1>4, <2>6
    <3> HIDE DEF y
    <3>2. y \in of(id)
      BY <2>6, <3>1 DEF Reactor
    <3> HIDE DEF of
    <3> QED BY <2>1, <2>5, <3>1, <3>2 DEF NoneAfter
  <2> QED BY <2>4, <2>5, <2>6
<1> QED BY <1>5, <1>6

------------------------------------------------------------------------------
(* The commission revisions are those that no later reset removed.         *)

\* A stored revision is in force: every reset that was taken in is behind it.
LEMMA StoredInForce ==
    ASSUME IsPlaced, NEW n \in 0..MaxHeight, NEW t, NEW rows, EconomyGood(feed, t, 1..n),
           \A h \in 1..n : \A p \in EventsAt(feed, h) : Took(feed, t, rows, h, p),
           NEW id \in DOMAIN t.revisions
    PROVE  \E h \in 1..n : \E p \in EventsAt(feed, h) :
              /\ t.positions[id] = Position(h, p) /\ Revises(p) /\ Reactor(p) = id
              /\ t.revisions[id] = Revision(p) /\ InForce(n, h, p)
<1>1. id \in DOMAIN t.positions /\ id # Watermark /\ 1..n \subseteq 1..MaxHeight
  BY BlockAssumption DEF EconomyGood
<1>2. PICK h \in 1..n : \E p \in EventsAt(feed, h) :
              /\ t.positions[id] = Position(h, p)
              /\ Revises(p) /\ Reactor(p) = id /\ t.revisions[id] = Revision(p)
  BY <1>1 DEF EconomyGood
<1>3. PICK p \in EventsAt(feed, h) :
              /\ t.positions[id] = Position(h, p)
              /\ Revises(p) /\ Reactor(p) = id /\ t.revisions[id] = Revision(p)
  BY <1>2
<1>4. \A k \in DOMAIN t.positions : IsPoint(t.positions[k])
  BY <1>1, PositionsArePoints
<1>5. ASSUME NEW g \in 1..n, NEW q \in EventsAt(feed, g), Resets(q)
      PROVE  ~PositionBefore(Position(h, p), Position(g, q))
  <2>1. TookEconomy(t.positions, Watermark, Position(g, q))
    BY <1>5 DEF Took
  <2>2. /\ Watermark \in DOMAIN t.positions
        /\ ~PositionBefore(t.positions[Watermark], Position(g, q))
    BY <2>1 DEF TookEconomy
  <2>3. PositionBefore(t.positions[Watermark], t.positions[id])
    BY <2>2 DEF EconomyGood
  <2>4. IsPoint(Position(g, q)) /\ IsPoint(t.positions[Watermark]) /\ IsPoint(t.positions[id])
    BY <1>1, <1>4, <2>2, PointOf
  <2>5. ~PositionBefore(t.positions[id], t.positions[Watermark])
    BY <2>3, <2>4, BeforeOrder
  <2> QED BY <1>3, <2>2, <2>4, <2>5, LaterCovers
<1> QED BY <1>3, <1>5 DEF InForce

\* Tables that took in every event of the first n blocks, and nothing else, have the
\* revisions that those blocks show.
LEMMA RevisionsClean ==
    ASSUME IsPlaced, NEW n \in 0..MaxHeight, NEW t, NEW rows, EconomyGood(feed, t, 1..n),
           \A h \in 1..n : \A p \in EventsAt(feed, h) : Took(feed, t, rows, h, p),
           NEW r, RevisionsShown(feed, n, r)
    PROVE  DOMAIN t.revisions = DOMAIN r /\ \A id \in DOMAIN r : t.revisions[id] = r[id]
<1>0. 1..n \subseteq 1..MaxHeight
  BY BlockAssumption
<1>1. DOMAIN t.revisions \subseteq DOMAIN r
  <2> SUFFICES ASSUME NEW id \in DOMAIN t.revisions PROVE id \in DOMAIN r
    OBVIOUS
  <2>1. PICK h \in 1..n : \E p \in EventsAt(feed, h) :
              Revises(p) /\ Reactor(p) = id /\ InForce(n, h, p)
    BY StoredInForce
  <2>2. PICK p \in EventsAt(feed, h) : Revises(p) /\ Reactor(p) = id /\ InForce(n, h, p)
    BY <2>1
  <2>3. \A g \in 1..n : \A q \in EventsAt(feed, g) :
           Revises(q) /\ InForce(n, g, q) => Reactor(q) \in DOMAIN r
    BY ShownRevisions
  <2> QED BY <2>2, <2>3
<1>2. ASSUME NEW id \in DOMAIN r PROVE id \in DOMAIN t.revisions /\ t.revisions[id] = r[id]
  <2>1. PICK h \in 1..n : \E p \in EventsAt(feed, h) :
                 /\ Revises(p) /\ Reactor(p) = id /\ InForce(n, h, p) /\ Revision(p) = r[id]
                 /\ \A g \in 1..n : \A q \in EventsAt(feed, g) :
                       Revises(q) /\ Reactor(q) = id /\ InForce(n, g, q) =>
                          ~PositionBefore(Position(h, p), Position(g, q))
    BY ShownRevisions
  <2>2. PICK p \in EventsAt(feed, h) :
                 /\ Revises(p) /\ Reactor(p) = id /\ InForce(n, h, p) /\ Revision(p) = r[id]
                 /\ \A g \in 1..n : \A q \in EventsAt(feed, g) :
                       Revises(q) /\ Reactor(q) = id /\ InForce(n, g, q) =>
                          ~PositionBefore(Position(h, p), Position(g, q))
    BY <2>1
  <2>3. PICK k \in {Watermark, id} \cap DOMAIN t.positions :
                ~PositionBefore(t.positions[k], Position(h, p))
    BY <2>2 DEF Took, TookEconomy
  <2>4. h \in 1..MaxHeight /\ IsPoint(Position(h, p))
    BY <1>0, PointOf
  <2>5. k # Watermark
    <3>1. SUFFICES ASSUME k = Watermark PROVE FALSE
      OBVIOUS
    <3>2. PICK g \in 1..n : \E q \in EventsAt(feed, g) : t.positions[k] = Position(g, q) /\ Resets(q)
      BY <2>3, <3>1 DEF EconomyGood
    <3>3. PICK q \in EventsAt(feed, g) : t.positions[k] = Position(g, q) /\ Resets(q)
      BY <3>2
    <3>4. g \in 1..MaxHeight /\ IsPoint(Position(g, q))
      BY <1>0, PointOf
    <3>5. ~PositionBefore(Position(h, p), Position(g, q)) /\ ~PositionBefore(Position(g, q), Position(h, p))
      BY <2>2, <2>3, <3>3 DEF InForce
    <3>6. SamePoint(Position(h, p), Position(g, q))
      BY <2>4, <3>4, <3>5, BeforeOrder
    <3>7. p = q
      BY <2>4, <3>4, <3>6, SameEvent
    <3> QED BY <2>2, <3>3, <3>7 DEF Revises, Resets
  <2>6. k = id /\ id \in DOMAIN t.revisions
    BY <2>3, <2>5 DEF EconomyGood
  <2>7. PICK g \in 1..n : \E q \in EventsAt(feed, g) :
              /\ t.positions[id] = Position(g, q) /\ Revises(q) /\ Reactor(q) = id
              /\ t.revisions[id] = Revision(q) /\ InForce(n, g, q)
    BY <2>6, StoredInForce
  <2>8. PICK q \in EventsAt(feed, g) :
              /\ t.positions[id] = Position(g, q) /\ Revises(q) /\ Reactor(q) = id
              /\ t.revisions[id] = Revision(q) /\ InForce(n, g, q)
    BY <2>7
  <2>9. g \in 1..MaxHeight /\ IsPoint(Position(g, q))
    BY <1>0, PointOf
  <2>10. ~PositionBefore(Position(h, p), Position(g, q)) /\ ~PositionBefore(Position(g, q), Position(h, p))
    BY <2>2, <2>3, <2>6, <2>8
  <2>11. SamePoint(Position(h, p), Position(g, q))
    BY <2>4, <2>9, <2>10, BeforeOrder
  <2>12. p = q
    BY <2>4, <2>9, <2>11, SameEvent
  <2> QED BY <2>2, <2>6, <2>8, <2>12
<1> QED BY <1>1, <1>2

\* What the blocks of the chain being read show, by ShownAssumption.
LEMMA ShownHere ==
    ASSUME Inv
    PROVE  /\ db.cursor \in 0..MaxHeight
           /\ \A who \in Funders : FuelOf(feed, db.cursor, who) = FuelAdded(Indexed)
           /\ RevisionsShown(feed, db.cursor, RevisionsAfter(Indexed))
<1>1. chain \in DOMAIN Chains /\ feed = Feed(chain)
  BY DEF Inv
<1>2. db.cursor \in 0..MaxHeight
  BY DEF Inv, CommittedOK, TablesOK
<1>3. RevisionsShown(feed, db.cursor, RevisionsAfter(Indexed))
  BY <1>1, <1>2, ShownAssumption DEF Indexed
<1>4. \A who \in Funders : FuelOf(feed, db.cursor, who) = FuelAdded(Indexed)
  BY <1>1, <1>2, ShownAssumption DEF Indexed, Funders
<1> QED BY <1>2, <1>3, <1>4

\* EconomyIsNewest is a consequence of the invariant.
LEMMA CleanEconomy == Inv /\ Stock => EconomyIsNewest
<1> SUFFICES ASSUME Inv, Stock, QueueClean, ~AheadOfCursor
             PROVE  LET r == RevisionsAfter(Indexed)
                    IN DOMAIN db.revisions = DOMAIN r /\ \A id \in DOMAIN r : db.revisions[id] = r[id]
  BY DEF EconomyIsNewest
<1> DEFINE r == RevisionsAfter(Indexed)
           n == db.cursor
           t == db
<1>1. IsPlaced /\ n \in 0..MaxHeight /\ RevisionsShown(feed, n, r)
  BY PlacedHere, ShownHere
<1>2. EconomyGood(feed, t, 1..n) /\ \A h \in 1..n : \A p \in EventsAt(feed, h) : Took(feed, t, t.ledger, h, p)
  BY CleanTables DEF Good, Full
<1> HIDE DEF r, n, t
<1>3. \A rows : (\A h \in 1..n : \A p \in EventsAt(feed, h) : Took(feed, t, rows, h, p)) =>
          DOMAIN t.revisions = DOMAIN r /\ \A id \in DOMAIN r : t.revisions[id] = r[id]
  BY <1>1, <1>2, RevisionsClean
<1>4. DOMAIN t.revisions = DOMAIN r /\ \A id \in DOMAIN r : t.revisions[id] = r[id]
  BY <1>2, <1>3
<1> QED BY <1>4 DEF r, t

\* In every reachable state without an error left to replay, the commission revisions
\* are those since the last reset of the chain: a late replay never brings one back.
THEOREM EconomyNewest == Spec => []EconomyIsNewest
<1>1. Inv /\ Stock => EconomyIsNewest
  BY CleanEconomy
<1> QED BY <1>1, InvHolds, StockHolds, PTL

------------------------------------------------------------------------------
(* The fuel of a funder is that of its newest infusion.                    *)

\* Nothing is after the event among the infusions of its funder.
NewestOf(n, h, p) ==
    \A g \in 1..n : \A q \in EventsAt(feed, g) :
       Infuses(q) /\ Funder(q) = Funder(p) => ~PositionBefore(Position(h, p), Position(g, q))

\* The fuel that the first blocks show of a funder is that of its newest infusion.
LEMMA NewestFuel ==
    ASSUME IsPlaced, NEW n \in 0..MaxHeight, NEW who
    PROVE  /\ \A h \in 1..n : \A p \in EventsAt(feed, h) :
                 Infuses(p) /\ Funder(p) = who /\ NewestOf(n, h, p) => FuelOf(feed, n, who) = Fuel(p)
           /\ (\A h \in 1..n : \A p \in EventsAt(feed, h) : ~(Infuses(p) /\ Funder(p) = who)) =>
                 FuelOf(feed, n, who) = 0
<1> DEFINE infused == EventsUpTo(feed, n, "EventInfusion")
           shown == { x \in infused : Value(x.p.event, "infusion").address = who }
           newest == CHOOSE x \in shown : NoneAfter(x, shown)
<1>0. 1..n \subseteq 1..MaxHeight
  BY BlockAssumption
<1>1. \A x : x \in infused <=> \E h \in 1..n : \E p \in EventsAt(feed, h) :
                                  Infuses(p) /\ x = [h |-> h, p |-> p]
  BY EventsUpToIs DEF Infuses
<1>2. FuelOf(feed, n, who) = IF shown = {} THEN 0 ELSE Value(newest.p.event, "infusion").fuel
  BY DEF FuelOf
<1> HIDE DEF infused
<1>3. ASSUME NEW g \in 1..n, NEW q \in EventsAt(feed, g), Infuses(q), Funder(q) = who
      PROVE  \E y \in shown : y.h = g /\ y.p = q
  <2> DEFINE y == [h |-> g, p |-> q]
  <2>1. y \in infused /\ y.p = q /\ y.h = g
    BY <1>1, <1>3
  <2> HIDE DEF y
  <2>2. y \in shown
    BY <1>3, <2>1 DEF Funder
  <2> QED BY <2>1, <2>2
<1>4. ASSUME NEW y \in shown
      PROVE  \E g \in 1..n : \E q \in EventsAt(feed, g) :
                Infuses(q) /\ Funder(q) = who /\ y.h = g /\ y.p = q
  <2>1. y \in infused /\ Value(y.p.event, "infusion").address = who
    OBVIOUS
  <2>2. PICK g \in 1..n : \E q \in EventsAt(feed, g) : Infuses(q) /\ y = [h |-> g, p |-> q]
    BY <1>1, <2>1
  <2>3. PICK q \in EventsAt(feed, g) : Infuses(q) /\ y = [h |-> g, p |-> q]
    BY <2>2
  <2> QED BY <2>1, <2>3 DEF Funder
<1> HIDE DEF shown
<1>5. ASSUME NEW h \in 1..n, NEW p \in EventsAt(feed, h), Infuses(p), Funder(p) = who, NewestOf(n, h, p)
      PROVE  FuelOf(feed, n, who) = Fuel(p)
  <2>1. PICK x \in shown : x.h = h /\ x.p = p
    BY <1>3, <1>5
  <2>2. ASSUME NEW y \in shown PROVE ~PositionBefore(Position(h, p), Position(y.h, y.p))
    <3>1. PICK g \in 1..n : \E q \in EventsAt(feed, g) :
                Infuses(q) /\ Funder(q) = who /\ y.h = g /\ y.p = q
      BY <1>4
    <3> QED BY <1>5, <3>1 DEF NewestOf
  <2>3. NoneAfter(x, shown)
    BY <2>1, <2>2 DEF NoneAfter
  <2>4. newest \in shown /\ NoneAfter(newest, shown)
    BY <2>3
  <2> HIDE DEF newest
  <2>5. PICK g \in 1..n : \E q \in EventsAt(feed, g) : newest.h = g /\ newest.p = q
    BY <1>4, <2>4
  <2>6. PICK q \in EventsAt(feed, g) : newest.h = g /\ newest.p = q
    BY <2>5
  <2>7. g \in 1..MaxHeight /\ h \in 1..MaxHeight
    BY <1>0
  <2>8. ~PositionBefore(Position(h, p), Position(g, q)) /\ ~PositionBefore(Position(g, q), Position(h, p))
    BY <2>1, <2>2, <2>4, <2>6 DEF NoneAfter
  <2>9. SamePoint(Position(h, p), Position(g, q))
    BY <2>7, <2>8, PointOf, BeforeOrder
  <2>10. newest.p = p
    BY <2>6, <2>7, <2>9, SameEvent
  <2> QED BY <1>2, <2>1, <2>10 DEF Fuel
<1>6. ASSUME \A h \in 1..n : \A p \in EventsAt(feed, h) : ~(Infuses(p) /\ Funder(p) = who)
      PROVE  FuelOf(feed, n, who) = 0
  <2>1. shown = {}
    BY <1>4, <1>6
  <2> QED BY <1>2, <2>1
<1> QED BY <1>5, <1>6

\* Tables that took in every event of the first n blocks, and nothing else, have the
\* fuel that those blocks show.
LEMMA StoredFuel ==
    ASSUME IsPlaced, NEW n \in 0..MaxHeight, NEW t, NEW rows, FuelGood(feed, t, rows, 1..n),
           \A h \in 1..n : \A p \in EventsAt(feed, h) : Took(feed, t, rows, h, p), NEW who
    PROVE  /\ who \in DOMAIN t.infusion => t.infusion[who].fuel = FuelOf(feed, n, who)
           /\ who \notin DOMAIN t.infusion => FuelOf(feed, n, who) = 0
<1>0. 1..n \subseteq 1..MaxHeight
  BY BlockAssumption
<1>1. ASSUME who \notin DOMAIN t.infusion PROVE FuelOf(feed, n, who) = 0
  <2>1. \A h \in 1..n : \A p \in EventsAt(feed, h) : ~(Infuses(p) /\ Funder(p) = who)
    BY <1>1 DEF Took, TookFuel
  <2> QED BY <2>1, NewestFuel
<1>2. ASSUME who \in DOMAIN t.infusion PROVE t.infusion[who].fuel = FuelOf(feed, n, who)
  <2>1. PICK h \in 1..n : \E p \in EventsAt(feed, h) : Anchor(feed, t.infusion, who, h, p)
    BY <1>2 DEF FuelGood
  <2>2. PICK p \in EventsAt(feed, h) : Anchor(feed, t.infusion, who, h, p)
    BY <2>1
  <2>3. h \in 1..MaxHeight /\ Infuses(p) /\ Funder(p) = who /\ t.infusion[who].fuel = Fuel(p)
    BY <1>0, <2>2 DEF Anchor
  <2>4. ASSUME NEW g \in 1..n, NEW q \in EventsAt(feed, g), Infuses(q), Funder(q) = who
        PROVE  ~PositionBefore(Position(h, p), Position(g, q))
    <3>1. TookFuel(feed, t.infusion, g, q)
      BY <2>4 DEF Took
    <3>2. \E e \in 1..MaxHeight : \E x \in EventsAt(feed, e) :
              Anchor(feed, t.infusion, who, e, x) /\ ~PositionBefore(Position(e, x), Position(g, q))
      BY <2>4, <3>1 DEF TookFuel
    <3>3. PICK e \in 1..MaxHeight : \E x \in EventsAt(feed, e) :
              Anchor(feed, t.infusion, who, e, x) /\ ~PositionBefore(Position(e, x), Position(g, q))
      BY <3>2
    <3>4. PICK x \in EventsAt(feed, e) :
              Anchor(feed, t.infusion, who, e, x) /\ ~PositionBefore(Position(e, x), Position(g, q))
      BY <3>3
    <3>5. e = h /\ x = p
      BY <2>2, <2>3, <3>4, AnchorSame
    <3> QED BY <3>4, <3>5
  <2>5. NewestOf(n, h, p)
    BY <2>3, <2>4 DEF NewestOf
  <2> QED BY <2>3, <2>5, NewestFuel
<1> QED BY <1>1, <1>2

\* The fuel rows in a clean state.
LEMMA CleanFuelOf ==
    ASSUME Inv, Stock, QueueClean, ~AheadOfCursor, NEW who
    PROVE  /\ who \in DOMAIN db.infusion => db.infusion[who].fuel = FuelOf(feed, db.cursor, who)
           /\ who \notin DOMAIN db.infusion => FuelOf(feed, db.cursor, who) = 0
<1> DEFINE n == db.cursor
           t == db
<1>1. IsPlaced /\ n \in 0..MaxHeight
  BY PlacedHere, ShownHere
<1>2. FuelGood(feed, t, t.ledger, 1..n) /\ \A h \in 1..n : \A p \in EventsAt(feed, h) : Took(feed, t, t.ledger, h, p)
  BY CleanTables DEF Good, Full
<1> HIDE DEF n, t
<1>3. \A rows : FuelGood(feed, t, rows, 1..n)
             /\ (\A h \in 1..n : \A p \in EventsAt(feed, h) : Took(feed, t, rows, h, p)) =>
          /\ who \in DOMAIN t.infusion => t.infusion[who].fuel = FuelOf(feed, n, who)
          /\ who \notin DOMAIN t.infusion => FuelOf(feed, n, who) = 0
  BY <1>1, StoredFuel
<1>4. /\ who \in DOMAIN t.infusion => t.infusion[who].fuel = FuelOf(feed, n, who)
      /\ who \notin DOMAIN t.infusion => FuelOf(feed, n, who) = 0
  BY <1>2, <1>3
<1> QED BY <1>4 DEF t, n

\* InfusionIsNewest is a consequence of the invariant.
LEMMA CleanFuel == Inv /\ Stock => InfusionIsNewest
<1> SUFFICES ASSUME Inv, Stock, QueueClean, ~AheadOfCursor, NEW who \in Funders
             PROVE  (IF who \in DOMAIN db.infusion THEN db.infusion[who].fuel ELSE 0) = FuelAdded(Indexed)
  BY DEF InfusionIsNewest
<1>1. FuelOf(feed, db.cursor, who) = FuelAdded(Indexed)
  BY ShownHere
<1> QED BY <1>1, CleanFuelOf

\* In every reachable state without an error left to replay, every funder has the fuel
\* of its newest infusion: an older snapshot that is replayed late never overwrites it.
THEOREM InfusionNewest == Spec => []InfusionIsNewest
<1>1. Inv /\ Stock => InfusionIsNewest
  BY CleanFuel
<1> QED BY <1>1, InvHolds, StockHolds, PTL

------------------------------------------------------------------------------
(* The ledger is what the indexed blocks book, and no more.                *)

\* The rows that no infusion drew, of the first n blocks: those of the bank events,
\* and those that the handlers of ore and refinement events book.
BooksAt(f, h) ==
    f[h].ledger \cup UNION { OwnRows(h, p) : p \in { q \in EventsAt(f, h) : Owns(q) } }
BooksOf(f, n) == UNION { BooksAt(f, h) : h \in 1..n }

\* What the first n blocks book for an address and a denomination: their rows, and the
\* fuel of the newest infusion, which was paid for in alpha.
FuelOnBooks(f, n, who, denom) ==
    CASE denom = Infused("ualpha") -> FuelOf(f, n, who)
      [] denom = Alpha -> -FuelOf(f, n, who)
      [] OTHER -> 0

Booked(f, n, account) ==
    Total({ r \in BooksOf(f, n) : << r.address, r.denom >> = account })
    + FuelOnBooks(f, n, account[1], account[2])

\* The accounts of a chain, and those that its first n blocks book something for.
BookedAccounts(c, n) ==
    { << r.address, r.denom >> : r \in BooksOf(Feed(c), n) }
    \cup (UNION { { << e[1], e[2] >> : e \in Effect(o) } :
                  o \in ToSet(OpsUpTo(Chains[c], MaxHeight)) })
    \cup UNION { { << Funder(x.p), denom >> : denom \in { Alpha, Infused("ualpha") } } :
                 x \in EventsUpTo(Feed(c), n, "EventInfusion") }

\* What the blocks of a chain book is what its operations did: how the bank rows and
\* the rows of the handlers share one movement is right in each of its blocks.
BooksMatch ==
    \A c \in DOMAIN Chains : \A n \in 0..MaxHeight : \A a \in BookedAccounts(c, n) :
       Booked(Feed(c), n, a) = Balance(OpsUpTo(Chains[c], n), a[1], a[2])

\* A row of the books comes from a bank event, or from an event that books its own.
LEMMA BooksRow ==
    ASSUME NEW f, NEW n, NEW r
    PROVE  r \in BooksOf(f, n) <=> \E h \in 1..n : BankRow(f, r, h) \/ OwnRow(f, r, h)
  BY DEF BooksOf, BooksAt, BankRow, OwnRow

\* The row of an infusion is in one of two denominations.
LEMMA DrawnDenom ==
    ASSUME NEW h, NEW p, NEW r, DrawnRow(r, h, p)
    PROVE  r.denom \in { Alpha, Infused("ualpha") }
<1>1. \A x : Spent(p, x).denom = Alpha /\ Gained(p, x).denom = Infused("ualpha")
  BY DEF Spent, Gained, Leg
<1>2. \A l : LedgerRow(h, p, p.msg, l).denom = l.denom
  BY DEF LedgerRow
<1> QED BY <1>1, <1>2 DEF DrawnRow

\* In tables that took in the first n blocks and nothing else, the rows that no
\* infusion drew are the books of those blocks.
LEMMA RowsAreBooks ==
    ASSUME IsPlaced, NEW n \in 0..MaxHeight, NEW t, NEW rows, RowsGood(feed, t, rows, 1..n),
           \A h \in 1..n : Full(feed, t, rows, h)
    PROVE  /\ { r \in rows : ~Drawn(r) } = BooksOf(feed, n)
           /\ \A r \in rows : Drawn(r) => r.denom \in { Alpha, Infused("ualpha") }
           /\ \A r \in rows : Drawn(r) =>
                 \E x \in EventsUpTo(feed, n, "EventInfusion") : r.address = Funder(x.p)
<1>0. 1..n \subseteq 1..MaxHeight
  BY BlockAssumption
<1>1. ASSUME NEW h \in 1..n, NEW r, BankRow(feed, r, h) \/ OwnRow(feed, r, h)
      PROVE  ~Drawn(r) /\ r \in rows
  <2>1. h \in 1..MaxHeight
    BY <1>0
  <2>2. CASE BankRow(feed, r, h)
    BY <2>1, <2>2, BankRowOf DEF BankRow, Full
  <2>3. CASE OwnRow(feed, r, h)
    <3>1. PICK p \in EventsAt(feed, h) : Owns(p) /\ r \in OwnRows(h, p)
      BY <2>3 DEF OwnRow
    <3>2. OwnRows(h, p) \subseteq rows
      BY <3>1 DEF Full, Took
    <3> QED BY <2>1, <3>1, <3>2, PointOf, OwnRowsOf
  <2> QED BY <1>1, <2>2, <2>3
<1>2. ASSUME NEW r \in rows
      PROVE  \/ \E h \in 1..n : BankRow(feed, r, h) \/ OwnRow(feed, r, h)
             \/ \E h \in 1..n : \E p \in EventsAt(feed, h) :
                   /\ Infuses(p) /\ Drawn(r) /\ r.address = Funder(p)
                   /\ r.denom \in { Alpha, Infused("ualpha") }
  <2>1. PICK h \in 1..n : BankRow(feed, r, h) \/ OwnRow(feed, r, h) \/ FuelRow(feed, t, r, h)
    BY DEF RowsGood
  <2>2. CASE FuelRow(feed, t, r, h)
    <3>1. PICK p \in EventsAt(feed, h) : Infuses(p) /\ DrawnRow(r, h, p)
      BY <2>2 DEF FuelRow
    <3>2. p.index \in Int
      BY <1>0, PointOf
    <3>3. Drawn(r) /\ r.address = Funder(p)
      BY <3>1, <3>2, DrawnRowOf
    <3>4. r.denom \in { Alpha, Infused("ualpha") }
      BY <3>1, DrawnDenom
    <3> QED BY <3>1, <3>3, <3>4
  <2> QED BY <2>1, <2>2
<1>3. { r \in rows : ~Drawn(r) } = BooksOf(feed, n)
  <2>1. ASSUME NEW r \in rows, ~Drawn(r) PROVE r \in BooksOf(feed, n)
    BY <1>2, <2>1, BooksRow
  <2>2. ASSUME NEW r \in BooksOf(feed, n) PROVE r \in rows /\ ~Drawn(r)
    BY <1>1, BooksRow
  <2> QED BY <2>1, <2>2
<1>4. ASSUME NEW r \in rows, Drawn(r)
      PROVE  /\ r.denom \in { Alpha, Infused("ualpha") }
             /\ \E x \in EventsUpTo(feed, n, "EventInfusion") : r.address = Funder(x.p)
  <2>1. PICK h \in 1..n : \E p \in EventsAt(feed, h) :
                   /\ Infuses(p) /\ r.address = Funder(p)
                   /\ r.denom \in { Alpha, Infused("ualpha") }
    BY <1>1, <1>2, <1>4
  <2>2. PICK p \in EventsAt(feed, h) :
                   /\ Infuses(p) /\ r.address = Funder(p)
                   /\ r.denom \in { Alpha, Infused("ualpha") }
    BY <2>1
  <2> DEFINE x == [h |-> h, p |-> p]
  <2>3. x \in EventsUpTo(feed, n, "EventInfusion") /\ x.p = p
    BY <2>2, EventsUpToIs DEF Infuses
  <2> HIDE DEF x
  <2> QED BY <2>2, <2>3
<1> QED BY <1>3, <1>4

\* The rows of infusions sum to the fuel, and to what was paid for it.
LEMMA DrawnTotals ==
    ASSUME NEW n, NEW t, NEW rows, FuelGood(feed, t, rows, 1..n), NEW who, NEW denom,
           \A r \in rows : Drawn(r) => r.denom \in { Alpha, Infused("ualpha") },
           who \in DOMAIN t.infusion => t.infusion[who].fuel = FuelOf(feed, n, who),
           who \notin DOMAIN t.infusion => FuelOf(feed, n, who) = 0
    PROVE  Total(Draws(rows, who, denom)) = FuelOnBooks(feed, n, who, denom)
<1>1. CASE who \in DOMAIN t.infusion /\ denom = Infused("ualpha")
  BY <1>1 DEF FuelGood, FuelOnBooks
<1>2. CASE who \in DOMAIN t.infusion /\ denom = Alpha
  <2>1. Total(Draws(rows, who, Alpha)) = -FuelOf(feed, n, who)
    BY <1>2 DEF FuelGood
  <2> QED BY <1>2, <2>1, TwoDenoms DEF FuelOnBooks
<1>3. CASE who \notin DOMAIN t.infusion \/ denom \notin { Alpha, Infused("ualpha") }
  <2>1. Draws(rows, who, denom) = {}
    BY <1>3 DEF Draws, FuelGood
  <2>2. FuelOnBooks(feed, n, who, denom) = 0
    <3>1. CASE denom = Infused("ualpha")
      BY <1>3, <3>1 DEF FuelOnBooks
    <3>2. CASE denom = Alpha
      <4>1. FuelOf(feed, n, who) = 0
        BY <1>3, <3>2
      <4>2. \A x \in Int : -x \in Int /\ x + (-x) = 0
        OBVIOUS
      <4> DEFINE y == -FuelOf(feed, n, who)
      <4>4. y \in Int /\ FuelOf(feed, n, who) + y = 0
        BY <4>1, <4>2
      <4> HIDE DEF y
      <4>5. y = 0
        BY <4>1, <4>4
      <4>3. -FuelOf(feed, n, who) = 0
        BY <4>5 DEF y
      <4> QED BY <3>2, <4>3, TwoDenoms DEF FuelOnBooks
    <3>3. CASE denom \notin { Alpha, Infused("ualpha") }
      BY <3>3 DEF FuelOnBooks
    <3> QED BY <3>1, <3>2, <3>3
  <2> QED BY <2>1, <2>2, TotalOfNone
<1> QED BY <1>1, <1>2, <1>3

\* The rows of an account, drawn or not.
LEMMA SplitTotal ==
    ASSUME NEW rows, WholeRows(rows), NEW who, NEW denom,
           NEW books, books = { r \in rows : ~Drawn(r) }
    PROVE  Total({ r \in rows : << r.address, r.denom >> = << who, denom >> }) =
              Total({ r \in books : << r.address, r.denom >> = << who, denom >> })
              + Total(Draws(rows, who, denom))
<1> DEFINE A == { r \in books : << r.address, r.denom >> = << who, denom >> }
           B == Draws(rows, who, denom)
           C == { r \in rows : << r.address, r.denom >> = << who, denom >> }
<1>1. C = A \cup B /\ A \cap B = {} /\ A \subseteq rows /\ B \subseteq rows
  BY DEF Draws
<1> HIDE DEF A, B, C
<1>2. /\ IsFiniteSet(A) /\ IsFiniteSet(B)
      /\ \A r \in A \cup B : r.change \in Int
  BY <1>1, FS_Subset DEF WholeRows
<1>3. Total(C) = Total(A) + Total(B)
  BY <1>1, <1>2, TotalUnion
<1> QED BY <1>3 DEF A, B, C

\* In a clean state every account of the ledger has what the indexed blocks book for it.
LEMMA CleanBooks ==
    ASSUME Inv, Stock, QueueClean, ~AheadOfCursor
    PROVE  /\ \A who, denom : NetRows(<< who, denom >>) = Booked(feed, db.cursor, << who, denom >>)
           /\ \A r \in db.ledger :
                 \/ r \in BooksOf(feed, db.cursor)
                 \/ /\ r.denom \in { Alpha, Infused("ualpha") }
                    /\ \E x \in EventsUpTo(feed, db.cursor, "EventInfusion") : r.address = Funder(x.p)
<1> DEFINE n == db.cursor
           t == db
<1>1. IsPlaced /\ n \in 0..MaxHeight
  BY PlacedHere, ShownHere
<1>2. /\ FuelGood(feed, t, t.ledger, 1..n) /\ RowsGood(feed, t, t.ledger, 1..n)
      /\ \A h \in 1..n : Full(feed, t, t.ledger, h)
  BY CleanTables DEF Good
<1>3. WholeRows(t.ledger)
  BY StoreFacts DEF Inv, CommittedOK, TablesOK
<1>4. \A who : /\ who \in DOMAIN t.infusion => t.infusion[who].fuel = FuelOf(feed, n, who)
               /\ who \notin DOMAIN t.infusion => FuelOf(feed, n, who) = 0
  BY CleanFuelOf
<1>5. \A who, denom : NetRows(<< who, denom >>) =
                      Total({ r \in t.ledger : << r.address, r.denom >> = << who, denom >> })
  BY DEF NetRows, Total
<1> HIDE DEF n, t
<1>6. \A rows : RowsGood(feed, t, rows, 1..n) /\ (\A h \in 1..n : Full(feed, t, rows, h)) =>
          /\ { r \in rows : ~Drawn(r) } = BooksOf(feed, n)
          /\ \A r \in rows : Drawn(r) => r.denom \in { Alpha, Infused("ualpha") }
          /\ \A r \in rows : Drawn(r) =>
                \E x \in EventsUpTo(feed, n, "EventInfusion") : r.address = Funder(x.p)
  BY <1>1, RowsAreBooks
<1>7. /\ { r \in t.ledger : ~Drawn(r) } = BooksOf(feed, n)
      /\ \A r \in t.ledger : Drawn(r) => r.denom \in { Alpha, Infused("ualpha") }
      /\ \A r \in t.ledger : Drawn(r) =>
            \E x \in EventsUpTo(feed, n, "EventInfusion") : r.address = Funder(x.p)
  BY <1>2, <1>6
<1>8. ASSUME NEW who, NEW denom
      PROVE  NetRows(<< who, denom >>) = Booked(feed, n, << who, denom >>)
  <2>1. Total(Draws(t.ledger, who, denom)) = FuelOnBooks(feed, n, who, denom)
    <3>1. \A rows : FuelGood(feed, t, rows, 1..n)
                 /\ (\A r \in rows : Drawn(r) => r.denom \in { Alpha, Infused("ualpha") }) =>
              Total(Draws(rows, who, denom)) = FuelOnBooks(feed, n, who, denom)
      BY <1>4, DrawnTotals
    <3> QED BY <1>2, <1>7, <3>1
  <2>2. \A rows, books : WholeRows(rows) /\ books = { r \in rows : ~Drawn(r) } =>
            Total({ r \in rows : << r.address, r.denom >> = << who, denom >> }) =
              Total({ r \in books : << r.address, r.denom >> = << who, denom >> })
              + Total(Draws(rows, who, denom))
    BY SplitTotal
  <2>3. Total({ r \in t.ledger : << r.address, r.denom >> = << who, denom >> }) =
              Total({ r \in BooksOf(feed, n) : << r.address, r.denom >> = << who, denom >> })
              + Total(Draws(t.ledger, who, denom))
    BY <1>3, <1>7, <2>2
  <2> QED BY <1>5, <2>1, <2>3 DEF Booked
<1>9. ASSUME NEW r \in t.ledger
      PROVE  \/ r \in BooksOf(feed, n)
             \/ /\ r.denom \in { Alpha, Infused("ualpha") }
                /\ \E x \in EventsUpTo(feed, n, "EventInfusion") : r.address = Funder(x.p)
  BY <1>7
<1> QED BY <1>8, <1>9 DEF n, t

\* Without an error left to replay, the ledger rows of every address and denomination
\* sum to what the indexed blocks book, each of their events once.
BooksAreKept ==
    QueueClean /\ ~AheadOfCursor =>
        \A who, denom : NetRows(<< who, denom >>) = Booked(feed, db.cursor, << who, denom >>)

\* Whatever failed, was replayed or was reconciled, the ledger comes to what the indexed
\* blocks book: no event is lost once its error is resolved, and none is booked twice.
THEOREM BooksKept == Spec => []BooksAreKept
<1>1. Inv /\ Stock => BooksAreKept
  BY CleanBooks DEF BooksAreKept
<1> QED BY <1>1, InvHolds, StockHolds, PTL

\* LedgerMatchesChain is a consequence of the invariant for chains whose books match.
LEMMA CleanLedger == BooksMatch /\ Inv /\ Stock => LedgerMatchesChain
<1> SUFFICES ASSUME BooksMatch, Inv, Stock, QueueClean, ~AheadOfCursor, NEW a \in Accounts
             PROVE  NetRows(a) = Balance(Indexed, a[1], a[2])
  BY DEF LedgerMatchesChain
<1>1. chain \in DOMAIN Chains /\ feed = Feed(chain) /\ db.cursor \in 0..MaxHeight
  BY ShownHere DEF Inv
<1> DEFINE ops == ToSet(OpsUpTo(Chains[chain], MaxHeight))
           moved == UNION { { << e[1], e[2] >> : e \in Effect(o) } : o \in ops }
           denoms == { Alpha, Infused("ualpha") }
           infused == EventsUpTo(Feed(chain), db.cursor, "EventInfusion")
           books == BooksOf(Feed(chain), db.cursor)
<1>5. /\ Accounts = { << r.address, r.denom >> : r \in db.ledger } \cup moved
      /\ BookedAccounts(chain, db.cursor) =
            { << r.address, r.denom >> : r \in books } \cup moved
            \cup UNION { { << Funder(x.p), denom >> : denom \in denoms } : x \in infused }
  BY DEF Accounts, BookedAccounts
<1>6. \A r \in db.ledger :
         r \in books \/ (r.denom \in denoms /\ \E x \in infused : r.address = Funder(x.p))
  BY <1>1, CleanBooks
<1> HIDE DEF ops, denoms, infused, books
<1>7. ASSUME NEW b \in moved PROVE \E who, denom : b = << who, denom >>
  <2>1. PICK o \in ops : b \in { << e[1], e[2] >> : e \in Effect(o) }
    OBVIOUS
  <2>2. PICK e \in Effect(o) : b = << e[1], e[2] >>
    BY <2>1
  <2> QED BY <2>2
<1> HIDE DEF moved
<1>2. \E who, denom : a = << who, denom >> /\ a \in BookedAccounts(chain, db.cursor)
  <2>1. CASE a \in moved
    BY <1>5, <1>7, <2>1
  <2>2. ASSUME NEW r \in db.ledger, a = << r.address, r.denom >>
        PROVE  \E who, denom : a = << who, denom >> /\ a \in BookedAccounts(chain, db.cursor)
    <3>1. CASE r \in books
      BY <1>5, <2>2, <3>1
    <3>2. ASSUME r.denom \in denoms, NEW x \in infused, r.address = Funder(x.p)
          PROVE  a \in BookedAccounts(chain, db.cursor)
      <4>1. a \in { << Funder(x.p), denom >> : denom \in denoms }
        BY <2>2, <3>2
      <4> QED BY <1>5, <4>1
    <3> QED BY <1>6, <2>2, <3>1, <3>2
  <2>3. a \in moved \/ \E r \in db.ledger : a = << r.address, r.denom >>
    BY <1>5
  <2> QED BY <2>1, <2>2, <2>3
<1>3. NetRows(a) = Booked(feed, db.cursor, a)
  BY <1>2, CleanBooks
<1>4. Booked(feed, db.cursor, a) = Balance(Indexed, a[1], a[2])
  BY <1>1, <1>2 DEF BooksMatch, Indexed
<1> QED BY <1>3, <1>4

\* For every chain whose blocks book what its operations did, the ledger matches the
\* chain in every reachable state without an error left to replay.
THEOREM LedgerMatches == BooksMatch => (Spec => []LedgerMatchesChain)
<1> SUFFICES ASSUME BooksMatch PROVE Spec => []LedgerMatchesChain
  OBVIOUS
<1>1. Inv /\ Stock => LedgerMatchesChain
  BY CleanLedger
<1> QED BY <1>1, InvHolds, StockHolds, PTL
==============================================================================
