---------------------------- MODULE NativeProofs ----------------------------
(***************************************************************************)
(* Theorems about NativeStaking, for every chain, every set of addresses   *)
(* and validators, and any number of faults of every kind.                 *)
(*                                                                         *)
(* The properties speak of the chain at the cursor; what the store keeps   *)
(* are heights: required, watermark, source.  The invariant says how they  *)
(* stand for the blocks between the source of some evidence and the        *)
(* cursor: had one of them touched the claim, a height would show it.      *)
(* That is so while no block was left out (whole).                         *)
(***************************************************************************)
EXTENDS NativeStaking, TLAPS, FiniteSetTheorems

-----------------------------------------------------------------------------
(* The inductive invariant, of a chain c, its tip t and a database d.      *)

\* block b may change the claim of a, which is exposed to the validators vs
Touches(b, a, vs) ==
    a \in b.addresses \/ vs \cap b.validators # {} \/ (b.all /\ vs # {})

\* what indexing block k of the chain invalidates
Change(c, k) == Forced(k, c[k])

\* no block of g+1..h touches the claim that a has at g
Untouched(c, a, g, h) == \A k \in g+1..h : ~Touches(Change(c, k), a, c[g].exposed[a])

\* the chain changes no claim that its events do not name
Attributed(c, t) ==
    \A a \in Addr, g \in 1..t, h \in 1..t :
        g <= h /\ Untouched(c, a, g, h) =>
            /\ c[h].exposed[a] = c[g].exposed[a]
            /\ c[h].version[a] = c[g].version[a]

\* an indexed event of an address requires evidence of its height
Named(c, d) ==
    \A k \in 2..d.cursor : \A a \in c[k].addresses : k <= d.row[a].required

\* an indexed event of a validator, or of any, left its watermark
Marked(c, d) ==
    \A k \in 2..d.cursor :
        /\ \A v \in c[k].validators : k <= d.watermark[v]
        /\ Change(c, k).all => k <= d.watermark[AnyValidator]

\* evidence is the state of the chain at its source
Sourced(c, d) ==
    \A a \in Addr :
        d.row[a].source > 0 =>
            /\ d.row[a].version = c[d.row[a].source].version[a]
            /\ d.exposure[a] = c[d.row[a].source].exposed[a]

\* evidence that satisfies its requirement is untouched up to the cursor
Fresh(c, d) ==
    \A a \in Addr :
        d.row[a].source > 0 /\ ~Pending(d.row[a]) =>
            Untouched(c, a, d.row[a].source, d.cursor)

\* so is evidence that the inventory of a shows, though its requirement may
\* have been raised by receipts alone
ShownOf(c, d, a) ==
    d.shown[a] # Unknown =>
        /\ d.row[a].source > 0
        /\ Untouched(c, a, d.row[a].source, d.cursor)
        /\ d.shown[a] = d.row[a].version

Shown(c, d) ==
    ~d.deferred => d.authority /\ (d.whole => \A a \in Addr : ShownOf(c, d, a))

\* nothing in the store is of a height above h
Behind(d, h) ==
    /\ \A a \in Addr : d.row[a].required <= h /\ d.row[a].source <= h
    /\ \A r \in d.receipts : r.bound <= h /\ r.reconciled <= h

Held(c, t, d) ==
    /\ d \in Database
    /\ d.cursor <= t
    /\ Behind(d, d.cursor)
    /\ Sourced(c, d)
    /\ d.whole => Named(c, d) /\ Marked(c, d) /\ Fresh(c, d)

Sound(c, t, d) == Held(c, t, d) /\ Shown(c, d)

\* The loop goes forward only, and a crash back only; with the activation at
\* block 2 nothing is ever left out.
Forward ==
    /\ durable.cursor <= db.cursor
    /\ up => db.cursor < next /\ next <= tip + 1
    /\ Activation = 2 => db.whole /\ durable.whole

Inv ==
    /\ TypeOK
    /\ Attributed(chain, tip)
    /\ Sound(chain, tip, db)
    /\ Sound(chain, tip, durable)
    /\ Forward

-----------------------------------------------------------------------------
(* The database operators.                                                 *)

\* A set of addresses has a cardinality.
LEMMA CardinalityType ==
    ASSUME NEW as \in SUBSET Addr
    PROVE  Cardinality(as) \in Nat
BY NativeAssumption, FS_Subset, FS_CardinalityType

\* Clearing retry times keeps the order a function to the integers.
LEMMA HurriedType ==
    ASSUME NEW retry \in [Addr -> Int], NEW as \in SUBSET Addr
    PROVE  Hurried(retry, as) \in [Addr -> Int]
<1> DEFINE Earlier(a) == {b \in as : retry[b] > 0 /\ retry[b] < retry[a]}
<1>1. ASSUME NEW a \in Addr
      PROVE  Cardinality(Earlier(a)) \in Int
  <2>1. Earlier(a) \in SUBSET Addr
    OBVIOUS
  <2> HIDE DEF Earlier
  <2> QED  BY <2>1, CardinalityType
<1> DEFINE new(a) == IF a \in as \/ retry[a] = 0 THEN 0
                     ELSE retry[a] - Cardinality(Earlier(a))
<1>2. Hurried(retry, as) = [a \in Addr |-> new(a)]
  BY DEF Hurried
<1> HIDE DEF Earlier
<1>3. ASSUME NEW a \in Addr PROVE new(a) \in Int
  <2>1. retry[a] \in Int /\ Cardinality(Earlier(a)) \in Int
    BY <1>1
  <2> DEFINE n == Cardinality(Earlier(a))
  <2> HIDE DEF n
  <2>2. n \in Int
    BY <2>1 DEF n
  <2>3. new(a) = IF a \in as \/ retry[a] = 0 THEN 0 ELSE retry[a] - n
    BY DEF n
  <2>4. new(a) = 0 \/ new(a) = retry[a] - n
    BY <2>3
  <2>5. retry[a] - n \in Int
    BY <2>1, <2>2
  <2> HIDE DEF new
  <2> QED  BY <2>4, <2>5
<1> HIDE DEF new
<1> QED  BY <1>2, <1>3

\* Delaying an address does, too.
LEMMA DelayedType ==
    ASSUME NEW retry \in [Addr -> Int], NEW a \in Addr
    PROVE  Delayed(retry, a) \in [Addr -> Int]
<1> DEFINE cleared == Hurried(retry, {a})
           late == {b \in Addr : cleared[b] > 0}
<1>1. cleared \in [Addr -> Int]
  BY HurriedType
<1>2. late \in SUBSET Addr
  OBVIOUS
<1>3. Delayed(retry, a) = [cleared EXCEPT ![a] = 1 + Cardinality(late)]
  BY DEF Delayed
<1> HIDE DEF cleared, late
<1>4. Cardinality(late) \in Int
  BY <1>2, CardinalityType
<1> QED  BY <1>1, <1>3, <1>4

\* e knows no more than d, and requires no less.
Invalidates(d, e) ==
    /\ e \in Database
    /\ e.cursor = d.cursor /\ e.exposure = d.exposure
    /\ e.shown = d.shown /\ e.deferred = d.deferred
    /\ e.authority = d.authority /\ e.whole = d.whole
    /\ \A a \in Addr : /\ e.row[a].source = d.row[a].source
                       /\ e.row[a].version = d.row[a].version
                       /\ d.row[a].required <= e.row[a].required
    /\ \A v \in Validators \cup {AnyValidator} : d.watermark[v] <= e.watermark[v]

\* Doing nothing invalidates, in this sense.
LEMMA InvalidatesReflexive ==
    ASSUME NEW d \in Database
    PROVE  Invalidates(d, d)
BY DEF Invalidates, Database, Rows

\* Invalidations compose.
LEMMA InvalidatesTransitive ==
    ASSUME NEW d \in Database, NEW e \in Database, NEW f \in Database,
           Invalidates(d, e), Invalidates(e, f)
    PROVE  Invalidates(d, f)
BY DEF Invalidates, Database, Rows

\* Projecting writes what inventories show of the addresses as, nothing else.
LEMMA ProjectedType ==
    ASSUME NEW d \in Database, NEW as \in SUBSET Addr
    PROVE  /\ Projected(d, as) \in Database
           /\ Projected(d, as).cursor = d.cursor
           /\ Projected(d, as).row = d.row
           /\ Projected(d, as).exposure = d.exposure
           /\ Projected(d, as).watermark = d.watermark
           /\ Projected(d, as).receipts = d.receipts
           /\ Projected(d, as).deferred = d.deferred
           /\ Projected(d, as).authority = d.authority
           /\ Projected(d, as).whole = d.whole
           /\ \A a \in Addr : Projected(d, as).shown[a] =
                                IF a \in as THEN Claim(d, a) ELSE d.shown[a]
<1>1. \A a \in Addr : Claim(d, a) \in 0..MaxHeight
  BY NativeAssumption DEF Claim, Unknown, Database, Rows
<1>2. [a \in Addr |-> IF a \in as THEN Claim(d, a) ELSE d.shown[a]] \in [Addr -> 0..MaxHeight]
  BY <1>1 DEF Database
<1> QED  BY <1>2 DEF Projected, Database

\* Recompute stamps the authority as well.
LEMMA RecomputedType ==
    ASSUME NEW d \in Database, NEW as \in SUBSET Addr
    PROVE  /\ Recomputed(d, as) \in Database
           /\ Recomputed(d, as).cursor = d.cursor
           /\ Recomputed(d, as).row = d.row
           /\ Recomputed(d, as).exposure = d.exposure
           /\ Recomputed(d, as).watermark = d.watermark
           /\ Recomputed(d, as).receipts = d.receipts
           /\ Recomputed(d, as).deferred = d.deferred
           /\ Recomputed(d, as).authority = TRUE
           /\ Recomputed(d, as).whole = d.whole
           /\ \A a \in Addr : Recomputed(d, as).shown[a] =
                                IF a \in as THEN Claim(d, a) ELSE d.shown[a]
<1> DEFINE p == Projected(d, as)
<1>1. /\ p \in Database
      /\ p.cursor = d.cursor /\ p.row = d.row /\ p.exposure = d.exposure
      /\ p.watermark = d.watermark /\ p.receipts = d.receipts
      /\ p.deferred = d.deferred /\ p.whole = d.whole
      /\ \A a \in Addr : p.shown[a] = IF a \in as THEN Claim(d, a) ELSE d.shown[a]
  BY ProjectedType
<1>2. Recomputed(d, as) = [p EXCEPT !.authority = TRUE]
  BY DEF Recomputed
<1> HIDE DEF p
<1> QED  BY <1>1, <1>2 DEF Database

\* A raised requirement changes nothing else of a row.
LEMMA RequireType ==
    ASSUME NEW r \in Rows, NEW h \in Heights
    PROVE  /\ [r EXCEPT !.required = h] \in Rows
           /\ [r EXCEPT !.required = h].required = h
           /\ [r EXCEPT !.required = h].source = r.source
           /\ [r EXCEPT !.required = h].version = r.version
BY DEF Rows, Heights

\* Ensure only adds rows.
LEMMA EnsureInvalidates ==
    ASSUME NEW d \in Database, NEW h \in Heights, NEW as \in SUBSET Addr
    PROVE  /\ Invalidates(d, Ensure(d, h, as))
           /\ \A g \in Heights : h <= g /\ Behind(d, g) => Behind(Ensure(d, h, as), g)
<1> DEFINE rows == [a \in Addr |->
        IF a \in as /\ ~HasRow(d, a) THEN [d.row[a] EXCEPT !.required = h] ELSE d.row[a]]
<1>1. \A a \in Addr :
        /\ rows[a] \in Rows
        /\ rows[a].source = d.row[a].source
        /\ rows[a].version = d.row[a].version
        /\ d.row[a].required <= rows[a].required
        /\ rows[a].required \in {d.row[a].required, h}
  <2> SUFFICES ASSUME NEW a \in Addr
               PROVE  /\ rows[a] \in Rows
                      /\ rows[a].source = d.row[a].source
                      /\ rows[a].version = d.row[a].version
                      /\ d.row[a].required <= rows[a].required
                      /\ rows[a].required \in {d.row[a].required, h}
    BY Zenon
  <2>1. d.row[a] \in Rows /\ d.row[a].required \in 0..MaxHeight /\ h \in 1..MaxHeight
    BY DEF Database, Rows, Heights
  <2>2. CASE a \in as /\ ~HasRow(d, a)
    <3>1. rows[a] = [d.row[a] EXCEPT !.required = h]
      BY <2>2
    <3>2. d.row[a].required <= h
      BY <2>1, <2>2, NativeAssumption DEF HasRow
    <3> HIDE DEF rows
    <3> QED  BY <2>1, <3>1, <3>2, RequireType
  <2>3. CASE ~(a \in as /\ ~HasRow(d, a))
    <3>1. rows[a] = d.row[a]
      BY <2>3
    <3> HIDE DEF rows
    <3> QED  BY <2>1, <3>1, NativeAssumption
  <2> QED  BY <2>2, <2>3
<1>2. rows \in [Addr -> Rows]
  BY <1>1
<1>3. Ensure(d, h, as) = [d EXCEPT !.row = rows]
  BY DEF Ensure
<1> HIDE DEF rows
<1>4. \A v \in Validators \cup {AnyValidator} : d.watermark[v] <= d.watermark[v]
  BY DEF Database
<1>5. /\ Ensure(d, h, as) \in Database
      /\ Ensure(d, h, as).row = rows
      /\ Ensure(d, h, as).cursor = d.cursor
      /\ Ensure(d, h, as).exposure = d.exposure
      /\ Ensure(d, h, as).watermark = d.watermark
      /\ Ensure(d, h, as).receipts = d.receipts
      /\ Ensure(d, h, as).shown = d.shown
      /\ Ensure(d, h, as).deferred = d.deferred
      /\ Ensure(d, h, as).authority = d.authority
      /\ Ensure(d, h, as).whole = d.whole
  BY <1>2, <1>3 DEF Database
<1>6. Invalidates(d, Ensure(d, h, as))
  BY <1>1, <1>4, <1>5 DEF Invalidates
<1>7. \A g \in Heights : h <= g /\ Behind(d, g) => Behind(Ensure(d, h, as), g)
  BY <1>1, <1>5 DEF Behind, Heights
<1> QED  BY <1>6, <1>7

\* A request for reconciliation only raises what rows require.
LEMMA RequestedInvalidates ==
    ASSUME NEW d \in Database, NEW as \in SUBSET Addr, NEW of \in [Addr -> 0..MaxHeight],
           NEW h \in Heights, \A a \in as : of[a] <= h
    PROVE  /\ Invalidates(d, Requested(d, as, of))
           /\ Behind(d, h) => Behind(Requested(d, as, of), h)
           /\ Requested(d, as, of).receipts = d.receipts
<1> DEFINE requested(a) == [d.row[a] EXCEPT !.receipts = TRUE,
                              !.required = Greatest(d.row[a].required, of[a])]
           rows == [a \in Addr |-> IF a \in as THEN requested(a) ELSE d.row[a]]
<1>1. ASSUME NEW a \in Addr
      PROVE  /\ rows[a] \in Rows
             /\ rows[a].source = d.row[a].source
             /\ rows[a].version = d.row[a].version
             /\ d.row[a].required <= rows[a].required
             /\ d.row[a].required <= h => rows[a].required <= h
  <2>1. /\ d.row[a] \in Rows /\ d.row[a].required \in 0..MaxHeight
        /\ h \in 1..MaxHeight /\ of[a] \in 0..MaxHeight
    BY DEF Database, Rows, Heights
  <2>2. CASE a \in as
    <3>1. rows[a] = requested(a)
      BY <2>2
    <3>2. /\ requested(a) \in Rows
          /\ requested(a).source = d.row[a].source
          /\ requested(a).version = d.row[a].version
          /\ requested(a).required = Greatest(d.row[a].required, of[a])
      BY <2>1 DEF Rows, Greatest
    <3>3. of[a] <= h
      BY <2>2
    <3>4. /\ d.row[a].required <= Greatest(d.row[a].required, of[a])
          /\ d.row[a].required <= h => Greatest(d.row[a].required, of[a]) <= h
      BY <2>1, <3>3, NativeAssumption DEF Greatest
    <3> HIDE DEF rows, requested
    <3> QED  BY <3>1, <3>2, <3>4
  <2>3. CASE a \notin as
    <3>1. rows[a] = d.row[a]
      BY <2>3
    <3> HIDE DEF rows
    <3> QED  BY <2>1, <3>1, NativeAssumption
  <2> QED  BY <2>2, <2>3
<1>2. rows \in [Addr -> Rows]
  BY <1>1
<1>3. Requested(d, as, of) = [d EXCEPT !.row = rows, !.retry = Hurried(d.retry, as)]
  BY DEF Requested
<1> HIDE DEF rows
<1>4. Hurried(d.retry, as) \in [Addr -> Int]
  BY HurriedType DEF Database
<1>5. /\ Requested(d, as, of) \in Database
      /\ Requested(d, as, of).row = rows
      /\ Requested(d, as, of).cursor = d.cursor
      /\ Requested(d, as, of).exposure = d.exposure
      /\ Requested(d, as, of).watermark = d.watermark
      /\ Requested(d, as, of).receipts = d.receipts
      /\ Requested(d, as, of).shown = d.shown
      /\ Requested(d, as, of).deferred = d.deferred
      /\ Requested(d, as, of).authority = d.authority
      /\ Requested(d, as, of).whole = d.whole
  BY <1>2, <1>3, <1>4 DEF Database
<1>6. \A v \in Validators \cup {AnyValidator} : d.watermark[v] <= d.watermark[v]
  BY DEF Database
<1>7. Invalidates(d, Requested(d, as, of))
  BY <1>1, <1>5, <1>6 DEF Invalidates
<1>8. Behind(d, h) => Behind(Requested(d, as, of), h)
  BY <1>1, <1>5 DEF Behind
<1> QED  BY <1>5, <1>7, <1>8

\* the changes that a block or a repeated event names
ChangesOK(changes) ==
    /\ changes.addresses \in SUBSET Addr
    /\ changes.validators \in SUBSET Validators
    /\ changes.all \in BOOLEAN
    /\ {"addresses", "validators", "all"} \subseteq DOMAIN changes

\* The upgrade block has the changes of its events, and everyone's.
LEMMA ForcedType ==
    ASSUME NEW h, NEW changes, ChangesOK(changes)
    PROVE  /\ ChangesOK(Forced(h, changes))
           /\ Forced(h, changes).addresses = changes.addresses
           /\ Forced(h, changes).validators = changes.validators
           /\ Forced(h, changes).all <=> changes.all \/ h = Activation
BY DEF ChangesOK, Forced

\* A block is a change.
LEMMA BlockChanges ==
    ASSUME NEW b \in Block
    PROVE  ChangesOK(b)
BY DEF Block, ChangesOK

\* What a request for height h affects then requires h, and what it marks has a
\* watermark of h.
Requires(d, h, changes) ==
    /\ \A a \in Affected(d, changes) : h <= d.row[a].required
    /\ \A v \in changes.validators : h <= d.watermark[v]
    /\ changes.all => h <= d.watermark[AnyValidator]

\* Watermarks only rise, and those of a change rise to its height.
LEMMA WatermarkedType ==
    ASSUME NEW d \in Database, NEW h \in Heights, NEW changes, ChangesOK(changes)
    PROVE  /\ Watermarked(d, h, changes) \in [Validators \cup {AnyValidator} -> 0..MaxHeight]
           /\ \A v \in Validators \cup {AnyValidator} :
                d.watermark[v] <= Watermarked(d, h, changes)[v]
           /\ \A v \in changes.validators : h <= Watermarked(d, h, changes)[v]
           /\ changes.all => h <= Watermarked(d, h, changes)[AnyValidator]
<1> DEFINE marks == changes.validators \cup IF changes.all THEN {AnyValidator} ELSE {}
           all == Validators \cup {AnyValidator}
<1>1. DOMAIN d.watermark = all /\ d.watermark \in [all -> 0..MaxHeight]
  BY DEF Database
<1>2. h \in 1..MaxHeight
  BY DEF Heights
<1>3. Watermarked(d, h, changes) =
        [v \in all |-> IF v \in marks /\ d.watermark[v] < h THEN h ELSE d.watermark[v]]
  BY <1>1 DEF Watermarked
<1>4. changes.validators \subseteq marks /\ marks \subseteq all
  BY DEF ChangesOK
<1>5. changes.all => AnyValidator \in marks
  OBVIOUS
<1>6. changes.validators \subseteq all /\ AnyValidator \in all
  BY DEF ChangesOK
<1> HIDE DEF marks, all
<1>7. \A v \in all :
        /\ Watermarked(d, h, changes)[v] \in 0..MaxHeight
        /\ d.watermark[v] <= Watermarked(d, h, changes)[v]
        /\ v \in marks => h <= Watermarked(d, h, changes)[v]
  BY <1>1, <1>2, <1>3, NativeAssumption
<1>8. Watermarked(d, h, changes) \in [all -> 0..MaxHeight]
  BY <1>3, <1>7
<1> QED  BY <1>4, <1>5, <1>6, <1>7, <1>8 DEF all

\* What a request affects is what its changes touch.
LEMMA AffectedType ==
    ASSUME NEW d \in Database, NEW h \in Heights, NEW changes, ChangesOK(changes)
    PROVE  /\ Affected(d, changes) \in SUBSET Addr
           /\ Raised(d, h, changes) \in SUBSET Addr
           /\ \A a \in Addr : a \in Affected(d, changes) <=> Touches(changes, a, d.exposure[a])
BY DEF Affected, Raised, Touches, ChangesOK

\* What is dirty is what the changes of the block at its height affect.
LEMMA DirtiedType ==
    ASSUME NEW d \in Database, NEW h \in Heights, NEW changes, ChangesOK(changes)
    PROVE  Dirtied(d, h, changes) \in SUBSET Addr
BY ForcedType, AffectedType DEF Dirtied

\* A request raises what it affects and marks what it names.
LEMMA RequestInvalidates ==
    ASSUME NEW d \in Database, NEW h \in Heights, NEW changes, ChangesOK(changes)
    PROVE  /\ Invalidates(d, Request(d, h, changes))
           /\ \A g \in Heights : h <= g /\ Behind(d, g) => Behind(Request(d, h, changes), g)
           /\ Requires(Request(d, h, changes), h, changes)
<1> DEFINE raised == Raised(d, h, changes)
           rows == [a \in Addr |->
                      IF a \in raised THEN [d.row[a] EXCEPT !.required = h] ELSE d.row[a]]
           marks == Watermarked(d, h, changes)
           e == Request(d, h, changes)
<1>1. raised \in SUBSET Addr
  BY AffectedType
<1>2. ASSUME NEW a \in Addr
      PROVE  /\ rows[a] \in Rows
             /\ rows[a].source = d.row[a].source
             /\ rows[a].version = d.row[a].version
             /\ d.row[a].required <= rows[a].required
             /\ rows[a].required \in {d.row[a].required, h}
             /\ a \in Affected(d, changes) => h <= rows[a].required
  <2>1. /\ d.row[a] \in Rows /\ d.row[a].required \in 0..MaxHeight
        /\ h \in 1..MaxHeight
    BY DEF Database, Rows, Heights
  <2>2. CASE a \in raised
    <3>1. rows[a] = [d.row[a] EXCEPT !.required = h]
      BY <2>2
    <3>2. d.row[a].required < h
      BY <2>2 DEF Raised
    <3> HIDE DEF rows
    <3> QED  BY <2>1, <3>1, <3>2, RequireType, NativeAssumption
  <2>3. CASE a \notin raised
    <3>1. rows[a] = d.row[a]
      BY <2>3
    <3>2. a \in Affected(d, changes) => ~(d.row[a].required < h)
      BY <2>3 DEF Raised
    <3> HIDE DEF rows
    <3> QED  BY <2>1, <3>1, <3>2, NativeAssumption
  <2> QED  BY <2>2, <2>3
<1>3. rows \in [Addr -> Rows]
  BY <1>2
<1>4. e = [d EXCEPT !.watermark = marks, !.row = rows, !.retry = Hurried(d.retry, raised)]
  BY DEF Request
<1>5. Hurried(d.retry, raised) \in [Addr -> Int]
  BY <1>1, HurriedType DEF Database
<1> HIDE DEF rows, raised, e
<1>6. /\ marks \in [Validators \cup {AnyValidator} -> 0..MaxHeight]
      /\ \A v \in Validators \cup {AnyValidator} : d.watermark[v] <= marks[v]
      /\ \A v \in changes.validators : h <= marks[v]
      /\ changes.all => h <= marks[AnyValidator]
  BY WatermarkedType
<1> HIDE DEF marks
<1>7. /\ e \in Database
      /\ e.row = rows /\ e.watermark = marks
      /\ e.cursor = d.cursor /\ e.exposure = d.exposure
      /\ e.receipts = d.receipts
      /\ e.shown = d.shown /\ e.deferred = d.deferred
      /\ e.authority = d.authority /\ e.whole = d.whole
  BY <1>3, <1>4, <1>5, <1>6 DEF Database
<1>8. Invalidates(d, e)
  BY <1>2, <1>6, <1>7 DEF Invalidates
<1>9. \A g \in Heights : h <= g /\ Behind(d, g) => Behind(e, g)
  BY <1>2, <1>7 DEF Behind
<1>10. Affected(e, changes) = Affected(d, changes)
  BY <1>7 DEF Affected
<1>11. \A a \in Affected(e, changes) : h <= e.row[a].required
  BY <1>2, <1>7, <1>10, AffectedType
<1>12. Requires(e, h, changes)
  BY <1>6, <1>7, <1>11 DEF Requires
<1> QED  BY <1>8, <1>9, <1>12 DEF e

\* Further invalidation keeps what a request requires.
LEMMA RequiresKept ==
    ASSUME NEW d \in Database, NEW e \in Database, NEW h \in Heights,
           NEW changes, ChangesOK(changes),
           Invalidates(d, e), Requires(d, h, changes)
    PROVE  Requires(e, h, changes)
<1>1. Affected(e, changes) = Affected(d, changes)
  BY DEF Affected, Invalidates
<1>2. \A a \in Affected(e, changes) : h <= e.row[a].required
  <2> SUFFICES ASSUME NEW a \in Affected(d, changes)
               PROVE  h <= e.row[a].required
    BY <1>1
  <2>1. a \in Addr
    BY AffectedType
  <2>2. h \in Int /\ d.row[a].required \in Int /\ e.row[a].required \in Int
    BY <2>1 DEF Heights, Database, Rows
  <2>3. h <= d.row[a].required /\ d.row[a].required <= e.row[a].required
    BY <2>1 DEF Requires, Invalidates
  <2> QED  BY <2>2, <2>3
<1>3. \A v \in Validators \cup {AnyValidator} :
        /\ d.watermark[v] \in Int /\ e.watermark[v] \in Int /\ h \in Int
        /\ d.watermark[v] <= e.watermark[v]
  BY DEF Database, Heights, Invalidates
<1>4. \A v \in changes.validators : h <= e.watermark[v]
  BY <1>3 DEF Requires, ChangesOK
<1>5. changes.all => h <= e.watermark[AnyValidator]
  BY <1>3 DEF Requires
<1> QED  BY <1>2, <1>4, <1>5 DEF Requires

\* staking.Invalidate.
LEMMA InvalidateInvalidates ==
    ASSUME NEW d \in Database, NEW h \in Heights, NEW changes, ChangesOK(changes),
           NEW moved, NEW owned \in SUBSET Addr
    PROVE  /\ Invalidates(d, Invalidate(d, h, changes, moved, owned))
           /\ \A g \in Heights :
                h <= g /\ Behind(d, g) => Behind(Invalidate(d, h, changes, moved, owned), g)
           /\ Requires(Invalidate(d, h, changes, moved, owned), h, Forced(h, changes))
<1> DEFINE forced == Forced(h, changes)
           e == Request(d, h, forced)
           as == owned \cap (moved \cup Dirtied(d, h, changes))
           f == Ensure(e, h, as)
<1>0. ChangesOK(forced)
  BY ForcedType
<1>1. /\ Invalidates(d, e) /\ Requires(e, h, forced)
      /\ \A g \in Heights : h <= g /\ Behind(d, g) => Behind(e, g)
  BY <1>0, RequestInvalidates
<1>2. as \in SUBSET Addr /\ Invalidate(d, h, changes, moved, owned) = f
  BY DEF Invalidate
<1>3. e \in Database
  BY <1>1 DEF Invalidates
<1> HIDE DEF e, as
<1>4. /\ Invalidates(e, f)
      /\ \A g \in Heights : h <= g /\ Behind(e, g) => Behind(f, g)
  BY <1>2, <1>3, EnsureInvalidates
<1>5. f \in Database
  BY <1>4 DEF Invalidates
<1> HIDE DEF f
<1>6. Requires(f, h, forced)
  BY <1>0, <1>1, <1>3, <1>4, <1>5, RequiresKept
<1>7. Invalidates(d, f)
  BY <1>1, <1>3, <1>4, <1>5, InvalidatesTransitive
<1> QED  BY <1>1, <1>2, <1>4, <1>6, <1>7

\* New receipts are of the block that records them.
LEMMA FlushDefusionInvalidates ==
    ASSUME NEW d \in Database, NEW h \in Heights, NEW as \in SUBSET Addr
    PROVE  /\ Invalidates(d, FlushDefusion(d, h, as))
           /\ Behind(d, h) => Behind(FlushDefusion(d, h, as), h)
<1> DEFINE inserted == {a \in as : ~Recorded(d, h, a)}
           new == {[addr |-> a, born |-> h, legacy |-> FALSE, bound |-> h,
                    reconciled |-> 0, retired |-> 0] : a \in inserted}
           e == [d EXCEPT !.receipts = d.receipts \cup new]
           of == [a \in Addr |-> h]
           f == Requested(e, inserted, of)
<1>1. h \in 1..MaxHeight /\ h \in 0..MaxHeight
  BY NativeAssumption DEF Heights
<1>2. FlushDefusion(d, h, as) = f
  BY DEF FlushDefusion
<1>3. inserted \in SUBSET Addr
  OBVIOUS
<1>4. of \in [Addr -> 0..MaxHeight]
  BY <1>1
<1>5. \A a \in inserted : of[a] <= h
  <2>1. \A a \in inserted : of[a] = h
    BY <1>3
  <2>2. h <= h
    BY <1>1
  <2> HIDE DEF of
  <2> QED  BY <2>1, <2>2
<1> HIDE DEF inserted, of
<1>6. \A r \in new : r \in Receipts /\ r.bound = h /\ r.reconciled = 0
  <2> SUFFICES ASSUME NEW a \in inserted, NEW r,
                      r = [addr |-> a, born |-> h, legacy |-> FALSE, bound |-> h,
                           reconciled |-> 0, retired |-> 0]
               PROVE  r \in Receipts /\ r.bound = h /\ r.reconciled = 0
    OBVIOUS
  <2> QED  BY <1>1, <1>3, NativeAssumption DEF Receipts, Heights
<1> HIDE DEF new
<1>7. /\ e \in Database
      /\ e.row = d.row /\ e.watermark = d.watermark
      /\ e.cursor = d.cursor /\ e.exposure = d.exposure
      /\ e.receipts = d.receipts \cup new
      /\ e.shown = d.shown /\ e.deferred = d.deferred
      /\ e.authority = d.authority /\ e.whole = d.whole
  BY <1>6 DEF Database
<1> HIDE DEF e
<1>8. Invalidates(d, e)
  BY <1>7 DEF Invalidates, Database, Rows
<1>9. Behind(d, h) => Behind(e, h)
  BY <1>1, <1>6, <1>7 DEF Behind
<1>10. Invalidates(e, f) /\ (Behind(e, h) => Behind(f, h))
  BY <1>3, <1>4, <1>5, <1>7, RequestedInvalidates
<1>11. f \in Database
  BY <1>10 DEF Invalidates
<1> HIDE DEF f
<1>12. Invalidates(d, f)
  BY <1>7, <1>8, <1>10, <1>11, InvalidatesTransitive
<1> QED  BY <1>2, <1>9, <1>10, <1>12

\* The transaction of a block, before its projections.
LEMMA IndexedInvalidates ==
    ASSUME NEW d \in Database, NEW h \in Heights, NEW b \in Block
    PROVE  /\ Invalidates(d, Indexed(d, h, b))
           /\ Behind(d, h) => Behind(Indexed(d, h, b), h)
           /\ Requires(Indexed(d, h, b), h, Forced(h, b))
<1> DEFINE e == Invalidate(d, h, b, b.moved, b.owned)
           f == FlushDefusion(e, h, b.unbonds)
<1>1. ChangesOK(b) /\ b.owned \in SUBSET Addr /\ b.unbonds \in SUBSET Addr
  BY DEF Block, ChangesOK
<1>2. Invalidates(d, e) /\ (Behind(d, h) => Behind(e, h)) /\ Requires(e, h, Forced(h, b))
  BY <1>1, InvalidateInvalidates DEF Heights
<1>3. Indexed(d, h, b) = f
  BY DEF Indexed
<1>4. e \in Database
  BY <1>2 DEF Invalidates
<1> HIDE DEF e
<1>5. Invalidates(e, f) /\ (Behind(e, h) => Behind(f, h))
  BY <1>1, <1>4, FlushDefusionInvalidates
<1>6. f \in Database
  BY <1>5 DEF Invalidates
<1> HIDE DEF f
<1>7. Invalidates(d, f) /\ Requires(f, h, Forced(h, b))
  BY <1>1, ForcedType, <1>2, <1>4, <1>5, <1>6, InvalidatesTransitive, RequiresKept
<1> QED  BY <1>2, <1>3, <1>5, <1>7

\* A set of heights has a greatest element.
LEMMA GreatestExists ==
    ASSUME NEW n \in Nat, NEW S \in SUBSET (0..n), S # {}
    PROVE  \E x \in S : \A y \in S : y <= x
<1> DEFINE T == {n - x : x \in S}
<1>1. T \subseteq Nat /\ T # {}
  <2>1. \A x \in S : n - x \in Nat /\ n - x \in T
    OBVIOUS
  <2> QED  BY <2>1
<1>2. PICK m \in T : \A k \in T : ~(<<k, m>> \in OpToRel(<, Nat))
  <2> HIDE DEF T
  <2> QED  BY <1>1, NatLessThanWellFounded, WFMin, Zenon
<1>3. PICK x \in S : m = n - x
  OBVIOUS
<1>4. ASSUME NEW y \in S PROVE y <= x
  <2>1. n - y \in T /\ n - y \in Nat /\ m \in Nat
    BY <1>1
  <2>2. ~(n - y < m)
    BY <1>2, <2>1 DEF OpToRel
  <2> QED  BY <1>3, <2>2
<1> QED  BY <1>4

\* The latest bound of receipts behind h is not above h.
LEMMA LatestBoundType ==
    ASSUME NEW h \in Heights, NEW rs \in SUBSET Receipts, \A r \in rs : r.bound <= h
    PROVE  LatestBound(rs) \in 0..MaxHeight /\ LatestBound(rs) <= h
<1> DEFINE bounds == {r.bound : r \in rs}
<1>1. h \in Nat /\ h \in 0..MaxHeight /\ MaxHeight \in Nat
  BY NativeAssumption DEF Heights
<1>2. CASE rs = {}
  <2>1. LatestBound(rs) = 0
    BY <1>2 DEF LatestBound
  <2> QED  BY <1>1, <2>1
<1>3. CASE rs # {}
  <2>1. bounds \in SUBSET (0..h) /\ bounds # {}
    BY <1>1, <1>3 DEF Receipts
  <2>2. \E x \in bounds : \A y \in bounds : y <= x
    BY <1>1, <2>1, GreatestExists
  <2>3. \E x \in bounds : \A r \in rs : r.bound <= x
    BY <2>2
  <2>4. LatestBound(rs) = CHOOSE x \in bounds : \A r \in rs : r.bound <= x
    BY <1>3 DEF LatestBound
  <2> HIDE DEF bounds
  <2>5. LatestBound(rs) \in 0..h
    BY <2>1, <2>3, <2>4
  <2> QED  BY <1>1, <2>5
<1> QED  BY <1>2, <1>3

\* The seed invalidates, and bounds receipts by the cursor.
LEMMA SeedReceiptsInvalidates ==
    ASSUME NEW d \in Database, Behind(d, d.cursor)
    PROVE  /\ Invalidates(d, SeedReceipts(d))
           /\ Behind(SeedReceipts(d), d.cursor)
<1> DEFINE h == d.cursor
           e == [d EXCEPT !.receipts = Adopted(d)]
           open(a) == Unreconciled(Adopted(d), a)
           as == {a \in Addr : open(a) # {}}
           of == [a \in Addr |-> LatestBound(open(a))]
           f == Requested(e, as, of)
<1>1. h \in Heights /\ h \in 1..MaxHeight /\ h \in 0..MaxHeight
  BY NativeAssumption DEF Heights, Database
<1>2. \A r \in Adopted(d) : r \in Receipts /\ r.bound <= h /\ r.reconciled <= h
  <2> SUFFICES ASSUME NEW q \in d.receipts, NEW r,
                      r = IF q.bound = 0 /\ q.retired = 0
                            THEN [q EXCEPT !.bound = d.cursor] ELSE q
               PROVE  r \in Receipts /\ r.bound <= h /\ r.reconciled <= h
    BY DEF Adopted
  <2>1. q \in Receipts /\ q.bound <= h /\ q.reconciled <= h
    BY DEF Database, Behind
  <2> QED  BY <1>1, <2>1, NativeAssumption DEF Receipts
<1>3. /\ e \in Database
      /\ e.row = d.row /\ e.watermark = d.watermark
      /\ e.cursor = d.cursor /\ e.exposure = d.exposure
      /\ e.receipts = Adopted(d)
      /\ e.shown = d.shown /\ e.deferred = d.deferred
      /\ e.authority = d.authority /\ e.whole = d.whole
  <2>1. Adopted(d) \in SUBSET Receipts
    BY <1>2
  <2> QED  BY <2>1 DEF Database
<1>4. SeedReceipts(d) = f
  BY <1>3 DEF SeedReceipts
<1>5. ASSUME NEW a \in Addr
      PROVE  LatestBound(open(a)) \in 0..MaxHeight /\ LatestBound(open(a)) <= h
  <2>1. open(a) \in SUBSET Receipts /\ \A r \in open(a) : r.bound <= h
    BY <1>2 DEF Unreconciled
  <2> HIDE DEF open, h
  <2> QED  BY <1>1, <2>1, LatestBoundType
<1> HIDE DEF open, h
<1>6. of \in [Addr -> 0..MaxHeight] /\ \A a \in as : of[a] <= h
  BY <1>5
<1>7. as \in SUBSET Addr
  OBVIOUS
<1> HIDE DEF e, of, as
<1>8. Behind(e, h)
  BY <1>2, <1>3 DEF Behind, h
<1>9. Invalidates(d, e)
  BY <1>3 DEF Invalidates, Database, Rows
<1>10. Invalidates(e, f) /\ Behind(f, h)
  BY <1>1, <1>3, <1>6, <1>7, <1>8, RequestedInvalidates
<1>11. f \in Database
  BY <1>10 DEF Invalidates
<1> HIDE DEF f
<1>12. Invalidates(d, f)
  BY <1>3, <1>9, <1>10, <1>11, InvalidatesTransitive
<1> QED  BY <1>4, <1>10, <1>12 DEF h

\* The candidates are addresses.
LEMMA CandidatesType ==
    ASSUME NEW d, NEW b \in Block
    PROVE  Candidates(d, b) \in SUBSET Addr
BY DEF Candidates, Block

\* So does the whole seed: candidates, then receipts.
LEMMA SeededInvalidates ==
    ASSUME NEW d \in Database, NEW b \in Block, Behind(d, d.cursor)
    PROVE  /\ Invalidates(d, Seeded(d, b))
           /\ Behind(Seeded(d, b), d.cursor)
<1> DEFINE as == Candidates(d, b)
           e == Ensure(d, d.cursor, as)
<1>0. as \in SUBSET Addr
  BY CandidatesType
<1> HIDE DEF as
<1>1. d.cursor \in Heights /\ d.cursor <= d.cursor
  BY DEF Database, Heights
<1>2. Invalidates(d, e) /\ Behind(e, d.cursor)
  BY <1>0, <1>1, EnsureInvalidates
<1>3. e \in Database /\ e.cursor = d.cursor
  BY <1>2 DEF Invalidates
<1>4. Seeded(d, b) = SeedReceipts(e)
  BY DEF Seeded, as
<1> HIDE DEF e
<1>5. Invalidates(e, SeedReceipts(e)) /\ Behind(SeedReceipts(e), d.cursor)
  BY <1>2, <1>3, SeedReceiptsInvalidates
<1>6. SeedReceipts(e) \in Database
  BY <1>5 DEF Invalidates
<1>7. Invalidates(d, SeedReceipts(e))
  BY <1>2, <1>3, <1>5, <1>6, InvalidatesTransitive
<1> QED  BY <1>4, <1>5, <1>7

-----------------------------------------------------------------------------
(* The chain.                                                              *)

\* b follows p and its events name every claim that it changes
Names(p, b) ==
    /\ b \in Block
    /\ \A a \in Addr :
         ~Touches(b, a, p.exposed[a]) =>
             b.exposed[a] = p.exposed[a] /\ b.version[a] = p.version[a]

\* A quiet block changes no claim.
LEMMA QuietType ==
    ASSUME NEW p \in Block
    PROVE  /\ Quiet(p) \in Block
           /\ Quiet(p).exposed = p.exposed
           /\ Quiet(p).version = p.version
BY DEF Quiet, Block

\* Versions change for the addresses named.
LEMMA VersionsType ==
    ASSUME NEW p \in Block, NEW h \in Heights, NEW as
    PROVE  /\ Versions(p, h, as) \in [Addr -> Heights]
           /\ \A a \in Addr : a \notin as => Versions(p, h, as)[a] = p.version[a]
BY DEF Versions, Block

\* A staking event names its delegator and its validators.
LEMMA StakingNames ==
    ASSUME NEW p \in Block, NEW h \in Heights, NEW a \in Addr,
           NEW vs \in SUBSET Validators, NEW exposed \in SUBSET Validators,
           NEW groups \in SUBSET Heights, NEW unbonds \in SUBSET Addr
    PROVE  /\ Names(p, Staking(p, h, a, vs, exposed, groups))
           /\ Names(p, [Staking(p, h, a, vs, exposed, groups) EXCEPT !.unbonds = unbonds])
<1> DEFINE b == Staking(p, h, a, vs, exposed, groups)
           c == [b EXCEPT !.unbonds = unbonds]
           as == {a} \cup ExposedTo(p, vs)
           versions == Versions(p, h, as)
<1>1. /\ versions \in [Addr -> Heights]
      /\ \A x \in Addr : x \notin as => versions[x] = p.version[x]
  BY VersionsType
<1>2. /\ Quiet(p) \in Block /\ Quiet(p).exposed = p.exposed
      /\ p.exposed \in [Addr -> SUBSET Validators]
  BY QuietType DEF Block
<1>3. b = [Quiet(p) EXCEPT !.addresses = {a}, !.validators = vs, !.moved = {a},
                           !.exposed[a] = exposed, !.groups[a] = groups,
                           !.version = versions]
  BY DEF Staking
<1>4. \A x \in Addr : x \in as <=> x = a \/ p.exposed[x] \cap vs # {}
  BY DEF ExposedTo
<1> HIDE DEF b, versions, as
<1>5. /\ b \in Block
      /\ b.addresses = {a} /\ b.validators = vs
      /\ b.version = versions
      /\ b.exposed = [p.exposed EXCEPT ![a] = exposed]
  BY <1>1, <1>2, <1>3 DEF Block
<1>6. /\ c \in Block
      /\ c.addresses = b.addresses /\ c.validators = b.validators /\ c.all = b.all
      /\ c.version = b.version /\ c.exposed = b.exposed
  BY <1>5 DEF Block
<1> HIDE DEF c
<1>7. ASSUME NEW x \in Addr, x # a, p.exposed[x] \cap vs = {}
      PROVE  b.exposed[x] = p.exposed[x] /\ b.version[x] = p.version[x]
  BY <1>1, <1>2, <1>4, <1>5, <1>7
<1>8. Names(p, b)
  BY <1>5, <1>7 DEF Names, Touches
<1>9. Names(p, c)
  BY <1>5, <1>6, <1>7 DEF Names, Touches
<1> QED  BY <1>8, <1>9 DEF b, c

\* A change of a pool names the validator, or everyone who is exposed.
LEMMA PoolChangeNames ==
    ASSUME NEW p \in Block, NEW h \in Heights, NEW v \in Validators
    PROVE  /\ Names(p, PoolChange(p, h, v, {v}, FALSE))
           /\ Names(p, PoolChange(p, h, v, {}, TRUE))
<1> DEFINE versions == Versions(p, h, ExposedTo(p, {v}))
<1>1. versions \in [Addr -> Heights]
  BY VersionsType
<1>2. \A x \in Addr : v \notin p.exposed[x] => versions[x] = p.version[x]
  BY VersionsType DEF ExposedTo
<1>3. Quiet(p) \in Block /\ Quiet(p).exposed = p.exposed
  BY QuietType
<1> HIDE DEF versions
<1>4. ASSUME NEW vs \in SUBSET Validators, NEW all \in BOOLEAN
      PROVE  /\ PoolChange(p, h, v, vs, all) \in Block
             /\ PoolChange(p, h, v, vs, all).validators = vs
             /\ PoolChange(p, h, v, vs, all).all = all
             /\ PoolChange(p, h, v, vs, all).exposed = p.exposed
             /\ PoolChange(p, h, v, vs, all).version = versions
  <2>1. PoolChange(p, h, v, vs, all) =
          [Quiet(p) EXCEPT !.validators = vs, !.all = all, !.version = versions]
    BY DEF PoolChange, versions
  <2> QED  BY <1>1, <1>3, <2>1 DEF Block
<1>5. Names(p, PoolChange(p, h, v, {v}, FALSE))
  <2> DEFINE b == PoolChange(p, h, v, {v}, FALSE)
  <2>1. b \in Block /\ b.validators = {v} /\ b.exposed = p.exposed /\ b.version = versions
    BY <1>4
  <2> HIDE DEF b
  <2>2. ASSUME NEW x \in Addr, ~Touches(b, x, p.exposed[x])
        PROVE  v \notin p.exposed[x]
    BY <2>1, <2>2 DEF Touches
  <2>3. Names(p, b)
    BY <1>2, <2>1, <2>2 DEF Names
  <2> QED  BY <2>3 DEF b
<1>6. Names(p, PoolChange(p, h, v, {}, TRUE))
  BY <1>2, <1>4 DEF Names, Touches
<1> QED  BY <1>5, <1>6

\* No kind of block changes a claim that it does not name.
LEMMA NextBlocksName ==
    ASSUME NEW p \in Block, NEW h \in Heights, NEW b \in NextBlocks(p, h)
    PROVE  Names(p, b)
<1>0. /\ p.exposed \in [Addr -> SUBSET Validators]
      /\ p.groups \in [Addr -> SUBSET Heights]
  BY DEF Block
<1>1. CASE b \in Delegations(p, h)
  <2>1. PICK a \in Addr : \E v \in Validators :
          b = Staking(p, h, a, {v}, p.exposed[a] \cup {v}, p.groups[a])
    BY <1>1 DEF Delegations
  <2>2. PICK v \in Validators :
          b = Staking(p, h, a, {v}, p.exposed[a] \cup {v}, p.groups[a])
    BY <2>1
  <2>3. /\ {v} \in SUBSET Validators /\ p.exposed[a] \cup {v} \in SUBSET Validators
        /\ p.groups[a] \in SUBSET Heights
    BY <1>0
  <2> QED  BY <2>2, <2>3, StakingNames
<1>2. CASE b \in Redelegations(p, h)
  <2>1. PICK a \in Addr : b \in RedelegationsOf(p, h, a)
    BY <1>2 DEF Redelegations
  <2>2. PICK s \in p.exposed[a] : \E v \in Validators :
          b = Staking(p, h, a, {s, v}, p.exposed[a] \cup {v}, p.groups[a])
    BY <2>1 DEF RedelegationsOf
  <2>3. PICK v \in Validators :
          b = Staking(p, h, a, {s, v}, p.exposed[a] \cup {v}, p.groups[a])
    BY <2>2
  <2>4. /\ {s, v} \in SUBSET Validators /\ p.exposed[a] \cup {v} \in SUBSET Validators
        /\ p.groups[a] \in SUBSET Heights
    BY <1>0
  <2> QED  BY <2>3, <2>4, StakingNames
<1>3. CASE b \in Unbondings(p, h)
  <2>1. PICK a \in Addr : \E v \in p.exposed[a] :
          b = [Staking(p, h, a, {v}, p.exposed[a], p.groups[a] \cup {h})
                  EXCEPT !.unbonds = {a}]
    BY <1>3 DEF Unbondings
  <2>2. PICK v \in p.exposed[a] :
          b = [Staking(p, h, a, {v}, p.exposed[a], p.groups[a] \cup {h})
                  EXCEPT !.unbonds = {a}]
    BY <2>1
  <2>3. /\ {v} \in SUBSET Validators /\ p.exposed[a] \in SUBSET Validators
        /\ p.groups[a] \cup {h} \in SUBSET Heights /\ {a} \in SUBSET Addr
    BY <1>0
  <2> QED  BY <2>2, <2>3, StakingNames
<1>4. CASE b \in Completions(p, h)
  <2>1. PICK a \in Addr : b \in Payouts(p, h, a) \/ b \in Departures(p, h, a)
    BY <1>4 DEF Completions
  <2>2. ASSUME NEW v \in p.exposed[a], NEW g \in Nat
        PROVE  /\ Names(p, Staking(p, h, a, {v}, p.exposed[a], p.groups[a] \ {g}))
               /\ Names(p, Staking(p, h, a, {v}, p.exposed[a] \ {v}, p.groups[a] \ {g}))
    <3>1. /\ {v} \in SUBSET Validators /\ p.exposed[a] \in SUBSET Validators
          /\ p.exposed[a] \ {v} \in SUBSET Validators
          /\ p.groups[a] \ {g} \in SUBSET Heights
      BY <1>0
    <3> QED  BY <3>1, StakingNames
  <2>3. p.groups[a] \subseteq Nat /\ h \in Nat
    BY <1>0 DEF Heights
  <2>4. CASE b \in Payouts(p, h, a)
    <3>1. \E g \in p.groups[a] : \E v \in p.exposed[a] :
            b = Staking(p, h, a, {v}, p.exposed[a], p.groups[a] \ {g})
      BY <2>4 DEF Payouts
    <3> QED  BY <2>2, <2>3, <3>1
  <2>5. CASE b \in Departures(p, h, a)
    <3>1. \E g \in p.groups[a] \cup {h} : \E v \in p.exposed[a] :
            b = Staking(p, h, a, {v}, p.exposed[a] \ {v}, p.groups[a] \ {g})
      BY <2>5 DEF Departures
    <3> QED  BY <2>2, <2>3, <3>1
  <2> QED  BY <2>1, <2>4, <2>5
<1>5. CASE b \in Unattributed(p, h)
  BY <1>5, PoolChangeNames DEF Unattributed
<1>6. CASE b \in ReactorChanges(p, h)
  BY <1>6, PoolChangeNames DEF ReactorChanges
<1>7. CASE b \in Transfers(p)
  <2>1. PICK a \in Addr :
          b = [Quiet(p) EXCEPT !.moved = {a}]
          \/ b = [Quiet(p) EXCEPT !.moved = {a}, !.owned = Quiet(p).owned \cup {a}]
    BY <1>7 DEF Transfers
  <2>2. Quiet(p) \in Block /\ Quiet(p).exposed = p.exposed /\ Quiet(p).version = p.version
    BY QuietType
  <2> DEFINE q == Quiet(p)
  <2> HIDE DEF q
  <2>3. q \in Block /\ q.owned \cup {a} \in SUBSET Addr /\ {a} \in SUBSET Addr
    BY <2>2 DEF q, Block
  <2>4. \/ b = [q EXCEPT !.moved = {a}]
        \/ b = [q EXCEPT !.moved = {a}, !.owned = q.owned \cup {a}]
    BY <2>1 DEF q
  <2>5. b \in Block /\ b.exposed = q.exposed /\ b.version = q.version
    BY <2>3, <2>4 DEF Block
  <2> QED  BY <2>2, <2>5 DEF Names, q
<1>8. CASE b = Quiet(p)
  BY <1>8, QuietType DEF Names
<1> QED  BY <1>1, <1>2, <1>3, <1>4, <1>5, <1>6, <1>7, <1>8 DEF NextBlocks

\* block b at height h follows p, and indexing it invalidates what it changes
NamesAt(p, h, b) ==
    /\ b \in Block
    /\ \A a \in Addr :
         ~Touches(Forced(h, b), a, p.exposed[a]) =>
             b.exposed[a] = p.exposed[a] /\ b.version[a] = p.version[a]

\* The upgrade changes the claims of everyone exposed, and its block names them.
LEMMA UpgradedNames ==
    ASSUME NEW p \in Block, NEW h \in Heights, NEW b, Names(p, b)
    PROVE  NamesAt(p, h, Upgraded(p, b, h))
<1> DEFINE u == Upgraded(p, b, h)
           versions == [a \in Addr |-> IF p.exposed[a] # {} THEN h ELSE b.version[a]]
<1>1. b \in Block /\ ChangesOK(b)
  BY BlockChanges DEF Names
<1>2. CASE h # Activation
  <2>1. u = b /\ Forced(h, b) = b
    BY <1>2 DEF Upgraded, Forced
  <2> HIDE DEF u
  <2>2. NamesAt(p, h, u)
    BY <2>1 DEF Names, NamesAt
  <2> QED  BY <2>2 DEF u
<1>3. CASE h = Activation
  <2>1. versions \in [Addr -> Heights]
    BY <1>1 DEF Block
  <2>2. u = [b EXCEPT !.version = versions]
    BY <1>3 DEF Upgraded
  <2>3. \A a \in Addr : p.exposed[a] = {} => versions[a] = b.version[a]
    OBVIOUS
  <2> HIDE DEF u, versions
  <2>4. /\ u \in Block /\ u.addresses = b.addresses
        /\ u.exposed = b.exposed /\ u.version = versions
    BY <1>1, <2>1, <2>2 DEF Block
  <2>5. Forced(h, u).all /\ Forced(h, u).addresses = b.addresses
    BY <1>3, <2>4, BlockChanges, ForcedType
  <2>6. ASSUME NEW a \in Addr, ~Touches(Forced(h, u), a, p.exposed[a])
        PROVE  u.exposed[a] = p.exposed[a] /\ u.version[a] = p.version[a]
    <3>1. p.exposed[a] = {} /\ a \notin b.addresses
      BY <2>5, <2>6 DEF Touches
    <3>2. ~Touches(b, a, p.exposed[a])
      BY <3>1 DEF Touches
    <3> QED  BY <2>3, <2>4, <3>1, <3>2 DEF Names
  <2>7. NamesAt(p, h, u)
    BY <2>4, <2>6 DEF NamesAt
  <2> QED  BY <2>7 DEF u
<1> QED  BY <1>2, <1>3

\* The chain stays attributed when a block follows that names what it changes.
LEMMA ChainGrows ==
    ASSUME NEW c \in [Heights -> Block], NEW t \in Heights, t + 1 \in Heights,
           NEW b, NamesAt(c[t], t + 1, b), Attributed(c, t)
    PROVE  /\ [c EXCEPT ![t + 1] = b] \in [Heights -> Block]
           /\ Attributed([c EXCEPT ![t + 1] = b], t + 1)
<1> DEFINE e == [c EXCEPT ![t + 1] = b]
<1>1. /\ e \in [Heights -> Block] /\ e[t + 1] = b
      /\ \A k \in 1..t : e[k] = c[k] /\ Change(e, k) = Change(c, k)
      /\ Change(e, t + 1) = Forced(t + 1, b)
  BY DEF NamesAt, Heights, Change
<1> HIDE DEF e
<1>2. t \in Nat /\ t >= 1
  BY DEF Heights
<1>3. ASSUME NEW a \in Addr, NEW g \in 1..t+1, NEW h \in 1..t+1,
             g <= h, Untouched(e, a, g, h)
      PROVE  e[h].exposed[a] = e[g].exposed[a] /\ e[h].version[a] = e[g].version[a]
  <2>1. CASE h <= t
    <3>1. g \in 1..t /\ h \in 1..t
      BY <1>2, <1>3, <2>1
    <3>2. Untouched(c, a, g, h)
      BY <1>1, <1>2, <1>3, <3>1 DEF Untouched
    <3> QED  BY <1>1, <1>3, <3>1, <3>2 DEF Attributed
  <2>2. CASE h = t + 1 /\ g = t + 1
    BY <2>2
  <2>3. CASE h = t + 1 /\ g \in 1..t
    <3>1. Untouched(c, a, g, t)
      BY <1>1, <1>2, <1>3, <2>3 DEF Untouched
    <3>2. t \in 1..t /\ g <= t
      BY <1>2, <2>3
    <3>3. c[t].exposed[a] = c[g].exposed[a] /\ c[t].version[a] = c[g].version[a]
      BY <2>3, <3>1, <3>2 DEF Attributed
    <3>4. t + 1 \in g+1..h
      BY <1>2, <2>3
    <3>5. ~Touches(Forced(t + 1, b), a, c[g].exposed[a])
      BY <1>1, <1>3, <2>3, <3>4 DEF Untouched
    <3> QED  BY <1>1, <2>3, <3>3, <3>5 DEF NamesAt
  <2> QED  BY <1>2, <1>3, <2>1, <2>2, <2>3
<1>4. Attributed(e, t + 1)
  BY <1>3 DEF Attributed
<1> QED  BY <1>1, <1>4 DEF e

-----------------------------------------------------------------------------
(* Soundness of a database.                                                *)

\* What is sound of a chain is sound of a longer one.
LEMMA SoundOfLonger ==
    ASSUME NEW c \in [Heights -> Block], NEW e, NEW t \in Heights, NEW u \in Heights,
           NEW d, t <= u, \A k \in 1..t : e[k] = c[k], Sound(c, t, d)
    PROVE  Sound(e, u, d)
<1>1. /\ d \in Database /\ d.cursor \in 1..MaxHeight /\ d.cursor <= t
      /\ t \in Int /\ u \in Int
  BY DEF Sound, Held, Database, Heights
<1>2. \A k \in 1..d.cursor : k \in 1..t /\ e[k] = c[k] /\ Change(e, k) = Change(c, k)
  BY <1>1 DEF Change
<1>3. \A k \in 2..d.cursor : k \in 1..d.cursor
  BY <1>1
<1>4. d.whole => Named(e, d) /\ Marked(e, d)
  BY <1>2, <1>3 DEF Sound, Held, Named, Marked
<1>5. \A a \in Addr :
        /\ d.row[a].source \in 0..MaxHeight
        /\ d.row[a].source <= d.cursor
        /\ d.row[a].source > 0 => d.row[a].source \in 1..d.cursor
  BY <1>1, NativeAssumption DEF Sound, Held, Behind, Database, Rows
<1>6. Sourced(e, d)
  BY <1>2, <1>5 DEF Sound, Held, Sourced
<1>7. ASSUME NEW a \in Addr, d.row[a].source > 0,
             Untouched(c, a, d.row[a].source, d.cursor)
      PROVE  Untouched(e, a, d.row[a].source, d.cursor)
  <2> DEFINE g == d.row[a].source
  <2>1. g \in 1..d.cursor
    BY <1>5, <1>7
  <2> HIDE DEF g
  <2>2. \A k \in g+1..d.cursor : k \in 1..d.cursor
    BY <1>1, <2>1
  <2>3. Untouched(c, a, g, d.cursor)
    BY <1>7 DEF g
  <2>4. Untouched(e, a, g, d.cursor)
    BY <1>2, <2>1, <2>2, <2>3 DEF Untouched
  <2> QED  BY <2>4 DEF g
<1>8. d.whole => Fresh(e, d)
  BY <1>7 DEF Sound, Held, Fresh
<1>9. Shown(e, d)
  BY <1>7 DEF Sound, Shown, ShownOf
<1>10. d.cursor <= u
  BY <1>1
<1> QED  BY <1>1, <1>4, <1>6, <1>8, <1>9, <1>10 DEF Sound, Held

\* Invalidation keeps what is held, and what is shown.
LEMMA InvalidatedSound ==
    ASSUME NEW c \in [Heights -> Block], NEW t \in Heights, NEW d, NEW e,
           Invalidates(d, e), Behind(e, e.cursor)
    PROVE  /\ Held(c, t, d) => Held(c, t, e)
           /\ Sound(c, t, d) => Sound(c, t, e)
<1>1. ASSUME Held(c, t, d) PROVE Held(c, t, e)
  <2>1. d \in Database /\ e \in Database /\ e.cursor = d.cursor /\ e.exposure = d.exposure
    BY <1>1 DEF Held, Invalidates
  <2>2. \A a \in Addr : /\ e.row[a].source = d.row[a].source
                        /\ e.row[a].version = d.row[a].version
                        /\ d.row[a].required <= e.row[a].required
                        /\ d.row[a].required \in Int /\ e.row[a].required \in Int
                        /\ d.row[a].source \in Int
    BY <2>1 DEF Invalidates, Database, Rows
  <2>3. \A v \in Validators \cup {AnyValidator} :
          d.watermark[v] <= e.watermark[v] /\ d.watermark[v] \in Int /\ e.watermark[v] \in Int
    BY <2>1 DEF Invalidates, Database
  <2>4. ASSUME d.whole, NEW k \in 2..d.cursor
        PROVE  /\ \A a \in c[k].addresses : k <= e.row[a].required
               /\ \A v \in c[k].validators : k <= e.watermark[v]
               /\ Change(c, k).all => k <= e.watermark[AnyValidator]
    <3>1. c[k] \in Block
      <4>1. d.cursor \in 1..MaxHeight
        BY <2>1 DEF Database, Heights
      <4>2. k \in Heights
        BY <4>1, NativeAssumption DEF Heights
      <4> QED  BY <4>2
    <3>2. /\ c[k].addresses \subseteq Addr /\ c[k].validators \subseteq Validators
          /\ k \in Int
      BY <3>1 DEF Block
    <3> QED  BY <1>1, <2>2, <2>3, <2>4, <3>2 DEF Held, Named, Marked
  <2>5. d.whole => Named(c, e) /\ Marked(c, e)
    BY <2>1, <2>4 DEF Named, Marked
  <2>6. Sourced(c, e)
    BY <1>1, <2>1, <2>2 DEF Held, Sourced
  <2>7. \A a \in Addr : ~Pending(e.row[a]) => ~Pending(d.row[a])
    BY <2>2 DEF Pending
  <2>8. d.whole => Fresh(c, e)
    BY <1>1, <2>1, <2>2, <2>7 DEF Held, Fresh
  <2>9. e.whole = d.whole
    BY DEF Invalidates
  <2> QED  BY <1>1, <2>1, <2>5, <2>6, <2>8, <2>9 DEF Held
<1>2. ASSUME Shown(c, d) PROVE Shown(c, e)
  BY <1>2 DEF Shown, ShownOf, Invalidates
<1> QED  BY <1>1, <1>2 DEF Sound

\* Evidence that is complete is shown as what it is.
LEMMA ClaimShown ==
    ASSUME NEW c, NEW t, NEW d, Held(c, t, d), d.whole,
           NEW a \in Addr, Claim(d, a) # Unknown
    PROVE  /\ d.row[a].source > 0
           /\ Untouched(c, a, d.row[a].source, d.cursor)
           /\ Claim(d, a) = d.row[a].version
<1>1. d \in Database
  BY DEF Held
<1>2. Complete(d, a) /\ Claim(d, a) = d.row[a].version
  BY DEF Claim
<1>3. d.row[a].required \in Nat /\ d.row[a].source \in Nat
  BY <1>1, NativeAssumption DEF Database, Rows
<1>4. d.row[a].source > 0 /\ ~Pending(d.row[a])
  BY <1>2, <1>3 DEF Complete, HasRow, Pending
<1> QED  BY <1>2, <1>4 DEF Held, Fresh

\* Projecting the addresses as leaves the others to be shown as they were.
LEMMA ProjectedSound ==
    ASSUME NEW c, NEW t, NEW d, Held(c, t, d), NEW as \in SUBSET Addr, NEW e \in Database,
           e \in {Projected(d, as), Recomputed(d, as)}, ~d.deferred => e.authority,
           ~d.deferred /\ d.whole => \A a \in Addr \ as : ShownOf(c, d, a)
    PROVE  Sound(c, t, e)
<1>1. d \in Database
  BY DEF Held
<1>2. /\ e.cursor = d.cursor /\ e.row = d.row /\ e.exposure = d.exposure
      /\ e.watermark = d.watermark /\ e.receipts = d.receipts
      /\ e.deferred = d.deferred /\ e.whole = d.whole
      /\ \A a \in Addr : e.shown[a] = IF a \in as THEN Claim(d, a) ELSE d.shown[a]
  <2>1. CASE e = Projected(d, as)
    <3>1. /\ Projected(d, as).cursor = d.cursor /\ Projected(d, as).row = d.row
          /\ Projected(d, as).exposure = d.exposure
          /\ Projected(d, as).watermark = d.watermark
          /\ Projected(d, as).receipts = d.receipts
          /\ Projected(d, as).deferred = d.deferred
          /\ Projected(d, as).whole = d.whole
      BY <1>1 DEF Projected, Database
    <3>2. \A a \in Addr : Projected(d, as).shown[a] =
                            IF a \in as THEN Claim(d, a) ELSE d.shown[a]
      BY <1>1, ProjectedType
    <3>3. /\ e.cursor = d.cursor /\ e.row = d.row /\ e.exposure = d.exposure
          /\ e.watermark = d.watermark /\ e.receipts = d.receipts
          /\ e.deferred = d.deferred /\ e.whole = d.whole
      BY <2>1, <3>1, Zenon
    <3>4. \A a \in Addr : e.shown[a] = IF a \in as THEN Claim(d, a) ELSE d.shown[a]
      BY <2>1, <3>2
    <3> QED  BY <3>3, <3>4
  <2>2. CASE e = Recomputed(d, as)
    <3>1. /\ Recomputed(d, as).cursor = d.cursor /\ Recomputed(d, as).row = d.row
          /\ Recomputed(d, as).exposure = d.exposure
          /\ Recomputed(d, as).watermark = d.watermark
          /\ Recomputed(d, as).receipts = d.receipts
          /\ Recomputed(d, as).deferred = d.deferred
          /\ Recomputed(d, as).whole = d.whole
      BY <1>1, RecomputedType
    <3>2. \A a \in Addr : Recomputed(d, as).shown[a] =
                            IF a \in as THEN Claim(d, a) ELSE d.shown[a]
      BY <1>1, RecomputedType
    <3>3. /\ e.cursor = d.cursor /\ e.row = d.row /\ e.exposure = d.exposure
          /\ e.watermark = d.watermark /\ e.receipts = d.receipts
          /\ e.deferred = d.deferred /\ e.whole = d.whole
      BY <2>2, <3>1, Zenon
    <3>4. \A a \in Addr : e.shown[a] = IF a \in as THEN Claim(d, a) ELSE d.shown[a]
      BY <2>2, <3>2
    <3> QED  BY <3>3, <3>4
  <2> QED  BY <2>1, <2>2
<1>3. Held(c, t, e)
  BY <1>2 DEF Held, Behind, Named, Marked, Sourced, Fresh
<1>4. ASSUME NEW a \in Addr, ~d.deferred, d.whole PROVE ShownOf(c, e, a)
  <2>1. CASE a \in as
    <3>1. Claim(d, a) # Unknown =>
            /\ d.row[a].source > 0
            /\ Untouched(c, a, d.row[a].source, d.cursor)
            /\ Claim(d, a) = d.row[a].version
      BY <1>4, ClaimShown
    <3> QED  BY <1>2, <2>1, <3>1 DEF ShownOf
  <2>2. CASE a \notin as
    BY <1>2, <1>4, <2>2 DEF ShownOf
  <2> QED  BY <2>1, <2>2
<1>5. Shown(c, e)
  BY <1>2, <1>4 DEF Shown
<1> QED  BY <1>3, <1>5 DEF Sound

\* ensureProjections.
LEMMA RebuiltSound ==
    ASSUME NEW c, NEW t, NEW d, Held(c, t, d)
    PROVE  /\ Sound(c, t, Rebuilt(d))
           /\ Rebuilt(d).cursor = d.cursor /\ Rebuilt(d).whole = d.whole
<1> DEFINE e == Recomputed(d, Addr)
           f == [e EXCEPT !.deferred = FALSE]
<1>1. d \in Database
  BY DEF Held
<1>2. /\ e \in Database
      /\ e.cursor = d.cursor /\ e.row = d.row /\ e.authority = TRUE /\ e.whole = d.whole
      /\ \A a \in Addr : e.shown[a] = Claim(d, a)
  BY <1>1, RecomputedType
<1>3. Held(c, t, e)
  BY <1>2, ProjectedSound DEF Sound
<1>4. Rebuilt(d) = f
  BY DEF Rebuilt
<1> HIDE DEF e
<1>5. /\ f \in Database
      /\ f.cursor = e.cursor /\ f.row = e.row /\ f.exposure = e.exposure
      /\ f.watermark = e.watermark /\ f.receipts = e.receipts /\ f.shown = e.shown
      /\ f.authority = e.authority /\ f.whole = e.whole
  BY <1>2 DEF Database
<1> HIDE DEF f
<1>6. Held(c, t, f)
  BY <1>3, <1>5 DEF Held, Behind, Named, Marked, Sourced, Fresh
<1>7. d.whole => \A a \in Addr : ShownOf(c, f, a)
  BY <1>2, <1>5, ClaimShown DEF ShownOf
<1>8. Sound(c, t, f)
  BY <1>2, <1>5, <1>6, <1>7 DEF Sound, Shown
<1> QED  BY <1>2, <1>4, <1>5, <1>8

\* Advancing the cursor changes nothing else that the invariant speaks of.
LEMMA AdvancedType ==
    ASSUME NEW d \in Database, NEW h \in Heights
    PROVE  /\ Advanced(d, h) \in Database
           /\ Advanced(d, h).cursor = h
           /\ Advanced(d, h).row = d.row
           /\ Advanced(d, h).exposure = d.exposure
           /\ Advanced(d, h).watermark = d.watermark
           /\ Advanced(d, h).receipts = d.receipts
           /\ Advanced(d, h).shown = d.shown
           /\ Advanced(d, h).deferred = d.deferred
           /\ Advanced(d, h).authority = d.authority
           /\ Advanced(d, h).whole <=> d.whole /\ h <= d.cursor + 1
<1> DEFINE current == tip - h <= 1
           whole == d.whole /\ h <= d.cursor + 1
<1>1. current \in BOOLEAN /\ whole \in BOOLEAN
  BY DEF Database
<1>2. Advanced(d, h) = [d EXCEPT !.cursor = h, !.current = current, !.whole = whole]
  BY DEF Advanced
<1> HIDE DEF current, whole
<1>3. Advanced(d, h).whole = whole
  BY <1>2 DEF Database
<1> QED  BY <1>1, <1>2, <1>3 DEF Database, whole

\* The next block touches no claim whose evidence it does not invalidate.
LEMMA NextUntouched ==
    ASSUME NEW c \in [Heights -> Block], NEW t \in Heights, NEW d, Held(c, t, d),
           NEW h \in Heights, h = d.cursor + 1, NEW a \in Addr,
           d.row[a].source > 0, Untouched(c, a, d.row[a].source, d.cursor),
           ~Touches(Change(c, h), a, d.exposure[a])
    PROVE  Untouched(c, a, d.row[a].source, h)
<1>1. d \in Database
  BY DEF Held
<1>2. d.cursor \in Nat /\ d.row[a].source \in Nat
  BY <1>1, NativeAssumption DEF Database, Rows, Heights
<1>3. d.exposure[a] = c[d.row[a].source].exposed[a]
  BY DEF Held, Sourced
<1> DEFINE g == d.row[a].source
           n == d.cursor
<1> HIDE DEF g, n
<1>4. \A k \in g+1..h : k = h \/ k \in g+1..n
  BY <1>2 DEF g, n
<1>5. Untouched(c, a, g, n) /\ ~Touches(Change(c, h), a, c[g].exposed[a])
  BY <1>3 DEF g, n
<1>6. Untouched(c, a, g, h)
  BY <1>4, <1>5 DEF Untouched
<1> QED  BY <1>6 DEF g

\* The transaction of the next block keeps what is held.
LEMMA NextHeld ==
    ASSUME NEW c \in [Heights -> Block], NEW t \in Heights, NEW d, Held(c, t, d),
           NEW h \in Heights, d.cursor < h, h <= t,
           NEW e \in Database, Invalidates(d, e), Behind(e, h), Requires(e, h, Change(c, h)),
           NEW f \in Database, f.cursor = h, f.row = e.row, f.exposure = e.exposure,
           f.watermark = e.watermark, f.receipts = e.receipts,
           f.whole => d.whole /\ h <= d.cursor + 1
    PROVE  Held(c, t, f)
<1>1. d \in Database
  BY DEF Held
<1>2. ChangesOK(Change(c, h)) /\ c[h].addresses = Change(c, h).addresses
      /\ c[h].validators = Change(c, h).validators
  BY BlockChanges, ForcedType DEF Change
<1>3. \A a \in Addr : /\ f.row[a].source = d.row[a].source
                      /\ f.row[a].version = d.row[a].version
                      /\ f.exposure[a] = d.exposure[a]
                      /\ d.row[a].required <= f.row[a].required
                      /\ d.row[a].required \in Int /\ f.row[a].required \in Int
                      /\ d.row[a].source \in Int /\ d.row[a].source <= d.cursor
                      /\ Touches(Change(c, h), a, d.exposure[a]) => h <= f.row[a].required
  <2>1. \A a \in Addr :
          Touches(Change(c, h), a, d.exposure[a]) => a \in Affected(e, Change(c, h))
    BY <1>1, <1>2, AffectedType DEF Invalidates
  <2> QED  BY <1>1, <2>1 DEF Invalidates, Database, Rows, Requires, Held, Behind
<1>4. \A v \in Validators \cup {AnyValidator} :
        d.watermark[v] <= f.watermark[v] /\ d.watermark[v] \in Int /\ f.watermark[v] \in Int
  BY <1>1 DEF Invalidates, Database
<1>5. d.cursor \in Nat /\ h \in Nat /\ h \in 1..MaxHeight
  BY <1>1 DEF Database, Heights
<1>6. ASSUME f.whole, NEW k \in 2..h
      PROVE  /\ \A a \in c[k].addresses : k <= f.row[a].required
             /\ \A v \in c[k].validators : k <= f.watermark[v]
             /\ Change(c, k).all => k <= f.watermark[AnyValidator]
  <2>0. d.whole /\ h = d.cursor + 1
    BY <1>5, <1>6
  <2>1. k \in Heights
    BY <1>5, NativeAssumption DEF Heights
  <2>2. /\ c[k].addresses \subseteq Addr /\ c[k].validators \subseteq Validators
        /\ k \in Int
    BY <2>1 DEF Block
  <2>3. CASE k = h
    <3>1. \A a \in c[k].addresses : a \in Affected(e, Change(c, h))
      BY <1>2, <2>3 DEF Affected
    <3> QED  BY <1>2, <2>3, <3>1 DEF Requires
  <2>4. CASE k \in 2..d.cursor
    BY <1>3, <1>4, <2>0, <2>2, <2>4 DEF Held, Named, Marked
  <2> QED  BY <1>5, <2>0, <2>3, <2>4
<1>7. f.whole => Named(c, f) /\ Marked(c, f)
  BY <1>6 DEF Named, Marked
<1>8. Sourced(c, f)
  BY <1>3 DEF Held, Sourced
<1>9. ASSUME f.whole, NEW a \in Addr, f.row[a].source > 0, ~Pending(f.row[a])
      PROVE  Untouched(c, a, f.row[a].source, h)
  <2>0. d.whole /\ h = d.cursor + 1
    BY <1>5, <1>9
  <2>1. ~Pending(d.row[a]) /\ ~Touches(Change(c, h), a, d.exposure[a])
    BY <1>3, <1>5, <1>9 DEF Pending
  <2>2. Untouched(c, a, d.row[a].source, d.cursor)
    BY <1>3, <1>9, <2>0, <2>1 DEF Held, Fresh
  <2> QED  BY <1>3, <1>9, <2>0, <2>1, <2>2, NextUntouched
<1>10. f.whole => Fresh(c, f)
  BY <1>9 DEF Fresh
<1>11. Behind(f, h)
  BY DEF Behind
<1> QED  BY <1>7, <1>8, <1>10, <1>11 DEF Held

\* A block of a streaming window.
LEMMA StreamSound ==
    ASSUME NEW c \in [Heights -> Block], NEW t \in Heights, NEW d, Sound(c, t, d),
           NEW h \in Heights, d.cursor < h, h <= t,
           NEW f, f = Advanced(IndexedAndProjected(d, h, c[h]), h)
    PROVE  /\ Sound(c, t, f)
           /\ f.cursor = h /\ (f.whole <=> d.whole /\ h <= d.cursor + 1)
<1> DEFINE e == Indexed(d, h, c[h])
           as == c[h].moved \cup Dirtied(d, h, c[h])
           p == Recomputed(e, as)
<1>1. d \in Database /\ Held(c, t, d) /\ c[h] \in Block
  BY DEF Sound, Held
<1>2. d.cursor \in Nat /\ d.cursor <= h
  BY <1>1 DEF Database, Heights
<1>3. Behind(d, h)
  BY <1>1, <1>2 DEF Held, Behind, Database, Rows, Receipts, Heights
<1>4. Invalidates(d, e) /\ Behind(e, h) /\ Requires(e, h, Change(c, h))
  BY <1>1, <1>3, IndexedInvalidates DEF Change
<1>5. e \in Database
  BY <1>4 DEF Invalidates
<1>6. ChangesOK(c[h]) /\ as \in SUBSET Addr /\ ChangesOK(Change(c, h))
  BY <1>1, BlockChanges, ForcedType, DirtiedType DEF Block, Change
<1>7. f = Advanced(p, h)
  BY DEF IndexedAndProjected
<1> HIDE DEF e
<1>8. /\ p \in Database
      /\ p.row = e.row /\ p.exposure = e.exposure
      /\ p.watermark = e.watermark /\ p.receipts = e.receipts
      /\ p.deferred = d.deferred /\ p.authority = TRUE
      /\ p.whole = d.whole /\ p.cursor = d.cursor
      /\ \A a \in Addr : p.shown[a] = IF a \in as THEN Claim(e, a) ELSE d.shown[a]
  <2>1. /\ e.deferred = d.deferred /\ e.whole = d.whole /\ e.cursor = d.cursor
        /\ e.shown = d.shown
    BY <1>4 DEF Invalidates
  <2> HIDE DEF as
  <2>2. /\ p \in Database
        /\ p.row = e.row /\ p.exposure = e.exposure
        /\ p.watermark = e.watermark /\ p.receipts = e.receipts
        /\ p.cursor = e.cursor /\ p.authority = TRUE
    BY <1>5, <1>6, RecomputedType, Zenon
  <2>3. p.deferred = e.deferred /\ p.whole = e.whole
    BY <1>5, <1>6, RecomputedType
  <2>4. p.deferred = d.deferred /\ p.whole = d.whole
    BY <2>1, <2>3, Zenon
  <2>5. \A a \in Addr : p.shown[a] = IF a \in as THEN Claim(e, a) ELSE e.shown[a]
    BY <1>5, <1>6, RecomputedType
  <2>6. \A a \in Addr : p.shown[a] = IF a \in as THEN Claim(e, a) ELSE d.shown[a]
    BY <2>1, <2>5
  <2>7. p.cursor = d.cursor
    BY <2>1, <2>2
  <2> QED  BY <2>2, <2>4, <2>6, <2>7, Zenon
<1> HIDE DEF p
<1>9. /\ f \in Database /\ f.cursor = h
      /\ f.row = e.row /\ f.exposure = e.exposure
      /\ f.watermark = e.watermark /\ f.receipts = e.receipts
      /\ f.deferred = d.deferred /\ f.shown = p.shown /\ f.authority = TRUE
      /\ f.whole <=> d.whole /\ h <= d.cursor + 1
  BY <1>7, <1>8, AdvancedType
<1>10. Held(c, t, f)
  BY <1>1, <1>4, <1>5, <1>9, NextHeld
<1>11. ASSUME NEW a \in Addr, ~d.deferred, f.whole, f.shown[a] # Unknown
       PROVE  /\ f.row[a].source > 0
              /\ Untouched(c, a, f.row[a].source, h)
              /\ f.shown[a] = f.row[a].version
  <2>0. d.whole /\ h = d.cursor + 1
    BY <1>2, <1>9, <1>11 DEF Heights
  <2>1. CASE a \in as
    <3>1. f.shown[a] = Claim(e, a) /\ Complete(e, a) /\ Claim(e, a) = e.row[a].version
      BY <1>8, <1>9, <1>11, <2>1 DEF Claim
    <3>2. e.row[a].required \in Nat /\ e.row[a].source \in Nat
      BY <1>5, NativeAssumption DEF Database, Rows
    <3>3. e.row[a].source > 0 /\ ~Pending(e.row[a])
      BY <3>1, <3>2 DEF Complete, HasRow, Pending
    <3>4. Untouched(c, a, f.row[a].source, f.cursor)
      BY <1>9, <1>10, <1>11, <3>3 DEF Held, Fresh
    <3> QED  BY <1>9, <3>1, <3>3, <3>4
  <2>2. CASE a \notin as
    <3>1. f.shown[a] = d.shown[a] /\ a \notin Raised(d, h, Change(c, h))
      BY <1>8, <1>9, <2>2 DEF Dirtied, Change
    <3>2. ShownOf(c, d, a)
      BY <1>11, <2>0 DEF Sound, Shown
    <3>3. /\ d.row[a].source > 0
          /\ Untouched(c, a, d.row[a].source, d.cursor)
          /\ d.shown[a] = d.row[a].version
      BY <1>11, <3>1, <3>2 DEF ShownOf
    <3>4. d.row[a].required \in Int /\ d.row[a].required <= d.cursor
      BY <1>1 DEF Held, Behind, Database, Rows
    <3>5. a \notin Affected(d, Change(c, h))
      BY <1>2, <3>1, <3>4 DEF Raised, Heights
    <3>6. ~Touches(Change(c, h), a, d.exposure[a])
      BY <1>1, <1>6, <3>5, AffectedType
    <3>7. Untouched(c, a, d.row[a].source, h)
      BY <1>1, <2>0, <3>3, <3>6, NextUntouched
    <3>8. f.row[a].source = d.row[a].source /\ f.row[a].version = d.row[a].version
      BY <1>4, <1>9 DEF Invalidates
    <3> QED  BY <3>1, <3>3, <3>7, <3>8
  <2> QED  BY <2>1, <2>2
<1>12. Shown(c, f)
  BY <1>9, <1>11 DEF Shown, ShownOf
<1> QED  BY <1>9, <1>10, <1>12 DEF Sound

\* block b, indexed at height h with its projections deferred
DeferredBlock(d, h, b) == [Advanced(Indexed(d, h, b), h) EXCEPT !.deferred = TRUE]

\* A block of a bulk window that defers its projections.
LEMMA BulkSound ==
    ASSUME NEW c \in [Heights -> Block], NEW t \in Heights, NEW d, Sound(c, t, d),
           NEW h \in Heights, d.cursor < h, h <= t,
           NEW f, f = DeferredBlock(d, h, c[h])
    PROVE  /\ Sound(c, t, f)
           /\ f.cursor = h /\ (f.whole <=> d.whole /\ h <= d.cursor + 1)
<1> DEFINE e == Indexed(d, h, c[h])
           p == Advanced(e, h)
<1>1. d \in Database /\ Held(c, t, d) /\ c[h] \in Block
  BY DEF Sound, Held
<1>2. d.cursor \in Nat /\ d.cursor <= h
  BY <1>1 DEF Database, Heights
<1>3. Behind(d, h)
  BY <1>1, <1>2 DEF Held, Behind, Database, Rows, Receipts, Heights
<1>4. Invalidates(d, e) /\ Behind(e, h) /\ Requires(e, h, Change(c, h))
  BY <1>1, <1>3, IndexedInvalidates DEF Change
<1>5. e \in Database /\ e.cursor = d.cursor /\ e.whole = d.whole
  BY <1>4 DEF Invalidates
<1>0. f = [p EXCEPT !.deferred = TRUE]
  BY DEF DeferredBlock
<1> HIDE DEF e
<1>6. /\ p \in Database /\ p.cursor = h
      /\ p.row = e.row /\ p.exposure = e.exposure
      /\ p.watermark = e.watermark /\ p.receipts = e.receipts
      /\ p.whole <=> d.whole /\ h <= d.cursor + 1
  BY <1>5, AdvancedType
<1> HIDE DEF p
<1>7. /\ f \in Database /\ f.cursor = h
      /\ f.row = e.row /\ f.exposure = e.exposure
      /\ f.watermark = e.watermark /\ f.receipts = e.receipts
      /\ f.deferred = TRUE
      /\ f.whole <=> d.whole /\ h <= d.cursor + 1
  BY <1>0, <1>6 DEF Database
<1>8. Held(c, t, f)
  BY <1>1, <1>4, <1>5, <1>7, NextHeld
<1>9. Shown(c, f)
  BY <1>7 DEF Shown
<1> QED  BY <1>7, <1>8, <1>9 DEF Sound

\* reconcile-current-block: the block at the cursor again.
LEMMA ReconcileSound ==
    ASSUME NEW c \in [Heights -> Block], NEW t \in Heights, NEW d, Sound(c, t, d)
    PROVE  LET f == Rebuilt(Advanced(Indexed(d, d.cursor, c[d.cursor]), d.cursor))
           IN  Sound(c, t, f) /\ f.cursor = d.cursor /\ f.whole = d.whole
<1> DEFINE h == d.cursor
           e == Indexed(d, h, c[h])
           f == Advanced(e, h)
<1>1. d \in Database /\ Held(c, t, d) /\ h \in Heights /\ Behind(d, h)
  BY DEF Sound, Held, Database
<1>2. c[h] \in Block
  BY <1>1
<1> HIDE DEF h
<1>3. Invalidates(d, e) /\ Behind(e, h)
  BY <1>1, <1>2, IndexedInvalidates
<1>4. e \in Database /\ e.cursor = h /\ e.whole = d.whole
  BY <1>3 DEF Invalidates, h
<1> HIDE DEF e
<1>5. Held(c, t, e)
  BY <1>1, <1>3, <1>4, InvalidatedSound
<1>6. /\ f \in Database /\ f.cursor = e.cursor
      /\ f.row = e.row /\ f.exposure = e.exposure
      /\ f.watermark = e.watermark /\ f.receipts = e.receipts
      /\ f.whole = e.whole
  <2>1. h <= h + 1
    BY <1>1, NativeAssumption DEF Heights
  <2>2. e.cursor + 1 = h + 1
    BY <1>4
  <2>3. f \in Database /\ (f.whole <=> e.whole)
    BY <1>1, <1>4, <2>1, <2>2, AdvancedType
  <2>4. e.whole \in BOOLEAN /\ f.whole \in BOOLEAN
    BY <1>4, <2>3 DEF Database
  <2>5. f.whole = e.whole
    BY <2>3, <2>4
  <2> QED  BY <1>1, <1>4, <2>5, AdvancedType
<1> HIDE DEF f
<1>7. Held(c, t, f)
  BY <1>5, <1>6 DEF Held, Behind, Named, Marked, Sourced, Fresh
<1>8. Sound(c, t, Rebuilt(f)) /\ Rebuilt(f).cursor = h /\ Rebuilt(f).whole = d.whole
  BY <1>4, <1>6, <1>7, RebuiltSound
<1> QED  BY <1>8 DEF f, e, h

\* reprocess-errors: events of an indexed block again.
LEMMA ReprocessedSound ==
    ASSUME NEW c \in [Heights -> Block], NEW t \in Heights, NEW d, Sound(c, t, d),
           NEW h \in Heights, h <= d.cursor,
           NEW changes, ChangesOK(changes), NEW owned \in SUBSET Addr
    PROVE  LET f == Reprocessed(d, h, changes, owned)
           IN  Sound(c, t, f) /\ f.cursor = d.cursor /\ f.whole = d.whole
<1> DEFINE e == Invalidate(d, h, changes, {}, owned)
           as == Dirtied(d, h, changes)
<1>1. d \in Database /\ d.cursor \in Heights /\ Behind(d, d.cursor)
  BY DEF Sound, Held, Database
<1>2. Invalidates(d, e) /\ Behind(e, d.cursor)
  BY <1>1, InvalidateInvalidates
<1>3. Reprocessed(d, h, changes, owned) = Recomputed(e, as)
  BY DEF Reprocessed
<1>4. as \in SUBSET Addr
  BY <1>1, DirtiedType
<1> HIDE DEF e, as
<1>5. Sound(c, t, e) /\ e \in Database /\ e.cursor = d.cursor /\ e.whole = d.whole
  BY <1>2, InvalidatedSound DEF Invalidates
<1>6. /\ Recomputed(e, as) \in Database /\ Recomputed(e, as).authority = TRUE
      /\ Recomputed(e, as).cursor = e.cursor /\ Recomputed(e, as).whole = e.whole
  BY <1>4, <1>5, RecomputedType
<1>7. Sound(c, t, Recomputed(e, as))
  BY <1>4, <1>5, <1>6, ProjectedSound DEF Sound, Shown
<1> QED  BY <1>3, <1>5, <1>6, <1>7

\* The seed of the worker.
LEMMA SeededSound ==
    ASSUME NEW c \in [Heights -> Block], NEW t \in Heights, NEW d, Sound(c, t, d),
           NEW b \in Block
    PROVE  /\ Sound(c, t, Seeded(d, b))
           /\ Seeded(d, b).cursor = d.cursor /\ Seeded(d, b).whole = d.whole
<1>1. d \in Database /\ Behind(d, d.cursor)
  BY DEF Sound, Held
<1>2. Invalidates(d, Seeded(d, b)) /\ Behind(Seeded(d, b), d.cursor)
  BY <1>1, SeededInvalidates
<1> QED  BY <1>2, InvalidatedSound DEF Invalidates

\* RetryLater delays an address and nothing else.
LEMMA RetrySound ==
    ASSUME NEW c \in [Heights -> Block], NEW t \in Heights, NEW d, Sound(c, t, d),
           NEW retry \in [Addr -> Int]
    PROVE  Sound(c, t, [d EXCEPT !.retry = retry])
<1> DEFINE e == [d EXCEPT !.retry = retry]
<1>1. d \in Database
  BY DEF Sound, Held
<1>2. /\ e \in Database
      /\ e.cursor = d.cursor /\ e.row = d.row /\ e.exposure = d.exposure
      /\ e.watermark = d.watermark /\ e.receipts = d.receipts
      /\ e.shown = d.shown /\ e.deferred = d.deferred
      /\ e.authority = d.authority /\ e.whole = d.whole
  BY <1>1 DEF Database
<1> HIDE DEF e
<1>3. Sound(c, t, e)
  BY <1>2 DEF Sound, Held, Behind, Named, Marked, Sourced, Fresh, Shown, ShownOf
<1> QED  BY <1>3 DEF e

\* The receipts that a snapshot reconciles are reconciled at its height.
LEMMA ReconciledType ==
    ASSUME NEW rs \in SUBSET Receipts, NEW a, NEW h \in Heights, NEW groups,
           NEW n \in Heights, h <= n, \A r \in rs : r.bound <= n /\ r.reconciled <= n
    PROVE  /\ Reconciled(rs, a, h, groups) \in SUBSET Receipts
           /\ \A r \in Reconciled(rs, a, h, groups) : r.bound <= n /\ r.reconciled <= n
<1>1. h \in 0..MaxHeight /\ h \in 1..MaxHeight
  BY NativeAssumption DEF Heights
<1>2. ASSUME NEW q \in rs
      PROVE  LET r == [q EXCEPT !.reconciled = h,
                                !.retired = IF q.born \in groups THEN 0 ELSE h]
             IN  r \in Receipts /\ r.bound <= n /\ r.reconciled <= n
  <2> DEFINE retired == IF q.born \in groups THEN 0 ELSE h
             r == [q EXCEPT !.reconciled = h, !.retired = retired]
  <2>1. retired \in 0..MaxHeight
    BY <1>1, NativeAssumption
  <2>2. q \in Receipts /\ q.bound <= n
    OBVIOUS
  <2> HIDE DEF retired
  <2>3. r \in Receipts /\ r.bound = q.bound /\ r.reconciled = h
    BY <1>1, <2>1, <2>2 DEF Receipts
  <2> HIDE DEF r
  <2>4. r \in Receipts /\ r.bound <= n /\ r.reconciled <= n
    BY <2>2, <2>3
  <2> QED  BY <2>4 DEF r, retired
<1>3. \A r \in Reconciled(rs, a, h, groups) :
        r \in Receipts /\ r.bound <= n /\ r.reconciled <= n
  BY <1>2 DEF Reconciled
<1> QED  BY <1>3

\* An accepted publication: what was fetched at h is still the claim.
LEMMA PublishedSound ==
    ASSUME NEW c \in [Heights -> Block], NEW t \in Heights, NEW d, Sound(c, t, d),
           NEW a \in Addr, NEW h \in Heights, Publishable(d, a, h, c[h].exposed[a])
    PROVE  LET f == Published(d, a, h, c[h])
           IN  Sound(c, t, f) /\ f.cursor = d.cursor /\ f.whole = d.whole
<1> DEFINE new == [required |-> d.row[a].required, source |-> h,
                   version |-> c[h].version[a], receipts |-> FALSE, positions |-> TRUE]
           rs == Reconciled(d.receipts, a, h, c[h].groups[a])
           e == [d EXCEPT !.row[a] = new, !.retry = Hurried(d.retry, {a}),
                          !.exposure[a] = c[h].exposed[a], !.receipts = rs]
<1>1. d \in Database /\ Held(c, t, d) /\ c[h] \in Block
  BY DEF Sound, Held
<1>2. /\ d.cursor \in Heights /\ d.cursor \in Int /\ h \in Int /\ h >= 1 /\ h <= d.cursor
      /\ d.row[a].required \in 0..MaxHeight /\ d.row[a].required <= h
  BY <1>1 DEF Publishable, Database, Rows, Heights
<1>3. /\ new \in Rows
      /\ new.required = d.row[a].required /\ new.source = h
      /\ new.version = c[h].version[a]
  BY <1>1, <1>2, NativeAssumption DEF Rows, Block, Heights
<1>4. rs \in SUBSET Receipts /\ \A r \in rs : r.bound <= d.cursor /\ r.reconciled <= d.cursor
  <2>1. d.receipts \in SUBSET Receipts
    BY <1>1 DEF Database
  <2>2. \A r \in d.receipts : r.bound <= d.cursor /\ r.reconciled <= d.cursor
    BY <1>1 DEF Held, Behind
  <2> QED  BY <1>2, <2>1, <2>2, ReconciledType
<1>5. Hurried(d.retry, {a}) \in [Addr -> Int]
  BY <1>1, HurriedType DEF Database
<1>6. c[h].exposed[a] \in SUBSET Validators
  BY <1>1 DEF Block
<1>7. Published(d, a, h, c[h]) = RefreshedClaims(e, a)
  BY DEF Published
<1> HIDE DEF new, rs
<1>8. /\ e \in Database
      /\ e.row = [d.row EXCEPT ![a] = new]
      /\ e.exposure = [d.exposure EXCEPT ![a] = c[h].exposed[a]]
      /\ e.receipts = rs
      /\ e.cursor = d.cursor /\ e.watermark = d.watermark
      /\ e.shown = d.shown /\ e.deferred = d.deferred
      /\ e.authority = d.authority /\ e.whole = d.whole
  BY <1>1, <1>3, <1>4, <1>5, <1>6 DEF Database
<1> HIDE DEF e
<1>9. /\ e.row[a] = new /\ e.exposure[a] = c[h].exposed[a]
      /\ \A x \in Addr : x # a => e.row[x] = d.row[x] /\ e.exposure[x] = d.exposure[x]
      /\ \A x \in Addr : e.row[x].required = d.row[x].required
  BY <1>1, <1>3, <1>8 DEF Database
<1>10. Behind(e, e.cursor)
  BY <1>1, <1>2, <1>3, <1>4, <1>8, <1>9 DEF Held, Behind
<1>11. d.whole => Named(c, e) /\ Marked(c, e)
  <2>1. \A k \in 2..d.cursor : c[k].addresses \subseteq Addr
    <3>1. \A k \in 2..d.cursor : k \in Heights
      BY <1>2, NativeAssumption DEF Heights
    <3> QED  BY <3>1 DEF Block
  <2> QED  BY <1>1, <1>8, <1>9, <2>1 DEF Held, Named, Marked
<1>12. Sourced(c, e)
  <2> SUFFICES ASSUME NEW x \in Addr, e.row[x].source > 0
               PROVE  /\ e.row[x].version = c[e.row[x].source].version[x]
                      /\ e.exposure[x] = c[e.row[x].source].exposed[x]
    BY DEF Sourced
  <2>1. CASE x = a
    BY <1>3, <1>9, <2>1
  <2>2. CASE x # a
    BY <1>1, <1>9, <2>2 DEF Held, Sourced
  <2> QED  BY <2>1, <2>2
<1>13. ASSUME d.whole PROVE Untouched(c, a, h, d.cursor)
  <2> SUFFICES ASSUME NEW k \in h+1..d.cursor, Touches(Change(c, k), a, c[h].exposed[a])
               PROVE  FALSE
    BY DEF Untouched
  <2>0. Named(c, d) /\ Marked(c, d)
    BY <1>1, <1>13 DEF Held
  <2>1. k \in 2..d.cursor /\ k \in Heights /\ k \in Int /\ k > h
    BY <1>2, NativeAssumption DEF Heights
  <2>2. c[k] \in Block /\ c[k].validators \subseteq Validators
    BY <2>1 DEF Block
  <2>3. \A v \in c[h].exposed[a] \cup {AnyValidator} :
          d.watermark[v] <= h /\ d.watermark[v] \in Int
    BY <1>1, <1>6 DEF Publishable, Database
  <2>4. a \notin c[k].addresses
    BY <1>1, <1>2, <2>0, <2>1 DEF Named
  <2>5. c[h].exposed[a] \cap c[k].validators = {}
    BY <1>1, <1>2, <2>0, <2>1, <2>2, <2>3 DEF Marked
  <2>6. ~Change(c, k).all
    BY <1>1, <1>2, <2>0, <2>1, <2>3 DEF Marked
  <2>7. /\ Change(c, k).addresses = c[k].addresses
        /\ Change(c, k).validators = c[k].validators
    BY <2>2, BlockChanges, ForcedType DEF Change
  <2> QED  BY <2>4, <2>5, <2>6, <2>7 DEF Touches
<1>14. ASSUME d.whole PROVE Fresh(c, e)
  <2> SUFFICES ASSUME NEW x \in Addr, e.row[x].source > 0, ~Pending(e.row[x])
               PROVE  Untouched(c, x, e.row[x].source, e.cursor)
    BY DEF Fresh
  <2>1. CASE x = a
    BY <1>3, <1>8, <1>9, <1>13, <1>14, <2>1
  <2>2. CASE x # a
    BY <1>1, <1>8, <1>9, <1>14, <2>2 DEF Held, Fresh
  <2> QED  BY <2>1, <2>2
<1>15. Held(c, t, e)
  BY <1>1, <1>8, <1>10, <1>11, <1>12, <1>14 DEF Held
<1>16. ~e.deferred /\ e.whole => \A x \in Addr \ {a} : ShownOf(c, e, x)
  BY <1>8, <1>9 DEF Sound, Shown, ShownOf
<1>17. ~e.deferred => e.authority
  BY <1>8 DEF Sound, Shown
<1>18. CASE e.authority
  <2>1. RefreshedClaims(e, a) = Projected(e, {a})
    BY <1>18 DEF RefreshedClaims
  <2>2. /\ Projected(e, {a}) \in Database /\ Projected(e, {a}).cursor = e.cursor
        /\ Projected(e, {a}).whole = e.whole /\ Projected(e, {a}).authority = e.authority
    BY <1>8, ProjectedType
  <2>3. Sound(c, t, Projected(e, {a}))
    BY <1>15, <1>16, <1>17, <2>2, ProjectedSound
  <2> QED  BY <1>7, <1>8, <2>1, <2>2, <2>3
<1>19. CASE ~e.authority
  <2>1. RefreshedClaims(e, a) = e
    BY <1>19 DEF RefreshedClaims
  <2>2. Sound(c, t, e)
    BY <1>15, <1>17, <1>19 DEF Sound, Shown
  <2> QED  BY <1>7, <1>8, <2>1, <2>2
<1> QED  BY <1>18, <1>19

-----------------------------------------------------------------------------
(* The invariant.                                                          *)

\* block 1 is indexed, and the snapshots of it are what it says
LEMMA InitInv ==
    ASSUME Init
    PROVE  Inv
<1>1. PICK exposed \in [Addr -> SUBSET Validators] :
        chain = [h \in Heights |-> Genesis(exposed)]
  BY DEF Init
<1>2. 1 \in Heights /\ MaxHeight \in Nat
  BY NativeAssumption DEF Heights
<1> DEFINE b == Genesis(exposed)
<1>3. /\ b \in Block /\ b.exposed = exposed /\ b.version = [a \in Addr |-> 1]
  <2>1. [a \in Addr |-> IF a \in Open THEN {1} ELSE {}] \in [Addr -> SUBSET Heights]
    BY <1>2
  <2>2. [a \in Addr |-> 1] \in [Addr -> Heights] /\ Owned \in SUBSET Addr
    BY <1>2, NativeAssumption
  <2> QED  BY <2>1, <2>2 DEF Genesis, Block
<1>4. chain \in [Heights -> Block] /\ chain[1] = b /\ tip = 1
  BY <1>1, <1>2, <1>3 DEF Init
<1> HIDE DEF b
<1> DEFINE row == [a \in Addr |->
                     IF a \in Inherited
                       THEN [required |-> 1, source |-> 1, version |-> b.version[a],
                             receipts |-> FALSE, positions |-> FALSE]
                       ELSE NoRow]
           exposure == [a \in Addr |-> IF a \in Inherited THEN b.exposed[a] ELSE {}]
           watermark == [v \in Validators \cup {AnyValidator} |-> 0]
           receipts == {InitialReceipt(a) : a \in Legacy}
           shown == [a \in Addr |-> IF a \in Inherited THEN b.version[a] ELSE Unknown]
           retry == [a \in Addr |-> 0]
<1>5. ASSUME NEW a \in Addr
      PROVE  /\ row[a] \in Rows
             /\ row[a].required <= 1 /\ row[a].source <= 1
             /\ row[a].source > 0 =>
                  row[a].source = 1 /\ row[a].version = b.version[a] /\ a \in Inherited
             /\ a \in Inherited => row[a].source = 1 /\ row[a].version = b.version[a]
  <2>1. b.version[a] = 1 /\ 1 \in 0..MaxHeight /\ 0 \in 0..MaxHeight
    BY <1>2, <1>3, NativeAssumption
  <2>2. CASE a \in Inherited
    BY <2>1, <2>2 DEF Rows
  <2>3. CASE a \notin Inherited
    BY <2>1, <2>3 DEF Rows, NoRow, Unknown
  <2> QED  BY <2>2, <2>3
<1>6. /\ row \in [Addr -> Rows]
      /\ exposure \in [Addr -> SUBSET Validators]
      /\ watermark \in [Validators \cup {AnyValidator} -> 0..MaxHeight]
      /\ shown \in [Addr -> 0..MaxHeight]
      /\ retry \in [Addr -> Int]
  <2>1. row \in [Addr -> Rows]
    BY <1>5
  <2>2. exposure \in [Addr -> SUBSET Validators]
    BY <1>3
  <2>3. watermark \in [Validators \cup {AnyValidator} -> 0..MaxHeight]
    BY <1>2
  <2>4. shown \in [Addr -> 0..MaxHeight]
    BY <1>2, <1>3, NativeAssumption DEF Unknown
  <2> QED  BY <2>1, <2>2, <2>3, <2>4
<1>7. receipts \in SUBSET Receipts /\ \A r \in receipts : r.bound = 0 /\ r.reconciled = 0
  <2>1. \A a \in Legacy : /\ InitialReceipt(a) \in Receipts
                          /\ InitialReceipt(a).bound = 0
                          /\ InitialReceipt(a).reconciled = 0
    BY <1>2, NativeAssumption DEF InitialReceipt, Receipts
  <2>2. \A r \in receipts : \E a \in Legacy : r = InitialReceipt(a)
    OBVIOUS
  <2> HIDE DEF receipts
  <2> QED  BY <2>1, <2>2
<1>8. PICK old \in BOOLEAN :
        db = [cursor |-> 1, current |-> TRUE, row |-> row, exposure |-> exposure,
              watermark |-> watermark, receipts |-> receipts, shown |-> shown,
              deferred |-> old, authority |-> ~old, retry |-> retry, whole |-> TRUE]
  BY <1>4 DEF Init, InitialDatabase
<1>9. \A a \in Addr : /\ exposure[a] = IF a \in Inherited THEN b.exposed[a] ELSE {}
                      /\ shown[a] = IF a \in Inherited THEN b.version[a] ELSE Unknown
  OBVIOUS
<1> HIDE DEF row, exposure, watermark, receipts, shown, retry
<1>10. /\ db \in Database
       /\ db.cursor = 1 /\ db.row = row /\ db.exposure = exposure
       /\ db.watermark = watermark /\ db.receipts = receipts /\ db.shown = shown
       /\ db.deferred = old /\ db.authority = ~old /\ db.whole
  BY <1>2, <1>6, <1>7, <1>8 DEF Database
<1>11. Behind(db, 1)
  BY <1>5, <1>7, <1>10 DEF Behind
<1>12. Named(chain, db) /\ Marked(chain, db)
  <2>1. \A k \in 2..1 : FALSE
    OBVIOUS
  <2> QED  BY <1>10, <2>1 DEF Named, Marked
<1>13. Sourced(chain, db)
  BY <1>4, <1>5, <1>9, <1>10 DEF Sourced
<1>14. \A a \in Addr : Untouched(chain, a, 1, 1)
  BY DEF Untouched
<1>15. Fresh(chain, db)
  BY <1>5, <1>10, <1>14 DEF Fresh
<1>16. Shown(chain, db)
  <2>1. \A a \in Addr : ShownOf(chain, db, a)
    BY <1>5, <1>9, <1>10, <1>14 DEF ShownOf
  <2>2. ~db.deferred => db.authority
    BY <1>10, Zenon
  <2> QED  BY <2>1, <2>2 DEF Shown
<1>17. Sound(chain, tip, db)
  BY <1>4, <1>10, <1>11, <1>12, <1>13, <1>15, <1>16 DEF Sound, Held
<1>18. Attributed(chain, tip)
  BY <1>4 DEF Attributed
<1>19. TypeOK
  <2>1. NoItems \in [Addr -> Int] /\ 0 \in 0..MaxHeight /\ 0 \in 0..MaxFaults
    BY <1>2, NativeAssumption DEF NoItems
  <2>2. /\ durable = db /\ up = TRUE /\ seeded = FALSE /\ batch = NoItems
        /\ at = 0 /\ answer = "none" /\ due = {} /\ faults = 0
        /\ next = 2 /\ stale = db.deferred
    BY DEF Init
  <2>3. next \in 0..MaxHeight + 1
    BY <2>2, NativeAssumption
  <2> QED  BY <1>2, <1>4, <1>10, <2>1, <2>2, <2>3 DEF TypeOK
<1>20. Forward
  BY <1>4, <1>10 DEF Init, Forward
<1> QED  BY <1>17, <1>18, <1>19, <1>20 DEF Inv, Init

\* the process and its worker
WorkerOK ==
    /\ up \in BOOLEAN /\ stale \in BOOLEAN /\ seeded \in BOOLEAN
    /\ next \in 0..MaxHeight + 1
    /\ batch \in [Addr -> Int]
    /\ at \in 0..MaxHeight
    /\ answer \in {"none", "ok", "failed"}
    /\ faults \in 0..MaxFaults

\* Going on to the next item keeps the types of the batch.
LEMMA NextItemType ==
    ASSUME TypeOK, NEW a \in Addr, NextItem(a)
    PROVE  batch' \in [Addr -> Int] /\ at' \in 0..MaxHeight /\ answer' = "none"
BY NativeAssumption DEF TypeOK, NextItem, NoItems

\* The place of an address in a batch is a number.
LEMMA SelectBatchType ==
    ASSUME TypeOK, SelectBatch
    PROVE  batch' \in [Addr -> Int]
<1> DEFINE ahead(a) == {b \in Ready : Precedes(b, a)}
<1>1. ASSUME NEW a \in Addr PROVE Place(a) \in Int
  <2>1. ahead(a) \in SUBSET Addr
    BY DEF Ready
  <2>2. Place(a) = 1 + Cardinality(ahead(a))
    BY DEF Place
  <2> HIDE DEF ahead
  <2>3. Cardinality(ahead(a)) \in Nat
    BY <2>1, CardinalityType
  <2> QED  BY <2>2, <2>3
<1> QED  BY <1>1 DEF SelectBatch

\* Every step keeps the types of the process and its worker.
LEMMA WorkerStep ==
    ASSUME TypeOK, [Next]_vars
    PROVE  WorkerOK'
<1>1. WorkerOK /\ db \in Database /\ tip \in Heights
  BY DEF TypeOK, WorkerOK
<1>2. ASSUME NEW kind, Inject(kind) PROVE faults' \in 0..MaxFaults
  BY <1>1, <1>2, NativeAssumption DEF Inject, WorkerOK
<1>3. ASSUME EndBatch
      PROVE  /\ batch' \in [Addr -> Int] /\ at' \in 0..MaxHeight
             /\ answer' \in {"none", "ok", "failed"}
  BY <1>3, NativeAssumption DEF EndBatch, NoItems
<1>0. ASSUME next <= tip PROVE next + 1 \in 0..MaxHeight + 1
  BY <1>0, <1>1, NativeAssumption DEF WorkerOK, Heights
<1>20. CASE Stream \/ BulkWindow
  <2>1. /\ next' \in 0..MaxHeight + 1 /\ UNCHANGED <<up, workerVars, faults>>
        /\ stale' \in BOOLEAN
    BY <1>0, <1>1, <1>20, NativeAssumption
       DEF Stream, BulkWindow, CanStream, CanBulk, WorkerOK
  <2> QED  BY <1>1, <2>1 DEF WorkerOK, workerVars
<1>21. CASE Rebuild
  BY <1>1, <1>21 DEF Rebuild, WorkerOK, workerVars
<1>4. CASE Produce \/ Expire
  BY <1>1, <1>4 DEF Produce, Expire, WorkerOK, workerVars, loopVars
<1>5. CASE Seed
  BY <1>1, <1>5 DEF Seed, WorkerOK, loopVars
<1>6. CASE SeedFails \/ SeedUnacknowledged
  BY <1>1, <1>2, <1>6 DEF SeedFails, SeedUnacknowledged, WorkerOK, workerVars, loopVars
<1>7. CASE SelectBatch
  <2>1. at' \in 0..MaxHeight
    BY <1>1, <1>7, NativeAssumption DEF SelectBatch, Database, Heights
  <2> QED  BY <1>1, <1>7, <2>1, SelectBatchType DEF SelectBatch, WorkerOK, loopVars
<1>8. ASSUME NEW a \in Addr, FetchSucceeds(a) \/ FetchFails(a)
      PROVE  WorkerOK'
  BY <1>1, <1>8 DEF FetchSucceeds, FetchFails, WorkerOK, loopVars
<1>9. ASSUME NEW a \in Addr, Publish(a) \/ Postpone(a)
      PROVE  WorkerOK'
  BY <1>1, <1>9, NextItemType DEF Publish, Postpone, WorkerOK, loopVars
<1>10. CASE WriteFails
  BY <1>1, <1>2, <1>3, <1>10 DEF WriteFails, WorkerOK, loopVars
<1>22. ASSUME Exit, faults' \in 0..MaxFaults PROVE WorkerOK'
  <2>1. EndBatch /\ up' = FALSE /\ stale' = FALSE /\ seeded' = FALSE /\ next' = 0
    BY <1>22 DEF Exit
  <2>2. 0 \in 0..MaxHeight + 1
    BY NativeAssumption
  <2>3. /\ batch' \in [Addr -> Int] /\ at' \in 0..MaxHeight
        /\ answer' \in {"none", "ok", "failed"}
    BY <1>3, <2>1
  <2> QED  BY <1>22, <2>1, <2>2, <2>3 DEF WorkerOK
<1>11. CASE Stop \/ HostCrash \/ CoverageGap
  BY <1>1, <1>2, <1>11, <1>22 DEF Stop, HostCrash, CoverageGap, WorkerOK
<1>12. CASE Start
  <2>1. db.cursor + 1 \in 0..MaxHeight + 1 /\ db.deferred \in BOOLEAN
    BY <1>1, NativeAssumption DEF Database, Heights
  <2> QED  BY <1>1, <1>12, <2>1 DEF Start, WorkerOK, workerVars
<1>13. CASE PostgresCrash \/ Reconcile \/ \E h \in Heights : Reprocess(h)
  BY <1>1, <1>2, <1>13 DEF PostgresCrash, Reconcile, Reprocess, WorkerOK, workerVars, loopVars
<1>14. CASE UNCHANGED vars
  BY <1>1, <1>14 DEF vars, WorkerOK, workerVars, loopVars
<1> QED  BY <1>4, <1>5, <1>6, <1>7, <1>8, <1>9, <1>10, <1>11, <1>12, <1>13, <1>14,
            <1>20, <1>21 DEF Next

\* the chain, the database, and what is durable of it
DataOK ==
    /\ tip \in Heights
    /\ chain \in [Heights -> Block]
    /\ Attributed(chain, tip)
    /\ Sound(chain, tip, db)
    /\ Sound(chain, tip, durable)
    /\ due \subseteq Addr
    /\ Forward

\* A commit of a sound database keeps the database sound, whether or not it is
\* durable at once.
LEMMA CommitSound ==
    ASSUME DataOK, UNCHANGED <<tip, chain>>, NEW d, NEW durably \in BOOLEAN,
           Sound(chain, tip, d), Commit(d, durably),
           durable.cursor <= d.cursor, Activation = 2 => d.whole,
           up' => d.cursor < next' /\ next' <= tip + 1
    PROVE  DataOK'
<1>1. /\ tip' = tip /\ chain' = chain /\ db' = d
      /\ durable' = (IF durably THEN d ELSE durable) /\ due' \subseteq Addr
  BY DEF DataOK, Commit
<1>2. d.cursor <= d.cursor
  BY DEF Sound, Held, Database, Heights
<1>3. Forward'
  BY <1>1, <1>2 DEF DataOK, Forward
<1> QED  BY <1>1, <1>3 DEF DataOK

\* So does one that leaves the cursor and the loop where they are.
LEMMA CommitStays ==
    ASSUME DataOK, UNCHANGED <<tip, chain, up, next>>, NEW d, Sound(chain, tip, d),
           Commit(d, TRUE), d.cursor = db.cursor, d.whole = db.whole
    PROVE  DataOK'
<1>1. /\ durable.cursor <= d.cursor /\ (Activation = 2 => d.whole)
      /\ up' => d.cursor < next' /\ next' <= tip + 1
  BY DEF DataOK, Forward
<1>2. TRUE \in BOOLEAN
  OBVIOUS
<1> QED  BY <1>1, <1>2, CommitSound

\* what the handlers of a repeated event name
LEMMA RepeatedChangesType ==
    ASSUME NEW changes \in RepeatedChanges
    PROVE  ChangesOK(changes)
<1> DEFINE ofAddress(a) == [addresses |-> {a}, validators |-> {}, all |-> FALSE]
           ofValidator(v) == [addresses |-> {}, validators |-> {v}, all |-> FALSE]
           ofAny == [addresses |-> {}, validators |-> {}, all |-> TRUE]
<1>1. \/ \E a \in Addr : changes = ofAddress(a)
      \/ \E v \in Validators : changes = ofValidator(v)
      \/ changes = ofAny
  BY DEF RepeatedChanges
<1>2. /\ \A a \in Addr : ChangesOK(ofAddress(a))
      /\ \A v \in Validators : ChangesOK(ofValidator(v))
      /\ ChangesOK(ofAny)
  BY DEF ChangesOK
<1> HIDE DEF ofAddress, ofValidator, ofAny
<1> QED  BY <1>1, <1>2

\* The chain produces a block.
LEMMA ProduceStep ==
    ASSUME TypeOK, DataOK, Produce
    PROVE  DataOK'
<1>1. PICK n \in NextBlocks(chain[tip], tip + 1) :
        chain' = [chain EXCEPT ![tip + 1] = Upgraded(chain[tip], n, tip + 1)]
  BY DEF Produce
<1> DEFINE b == Upgraded(chain[tip], n, tip + 1)
<1>2. /\ tip' = tip + 1 /\ tip + 1 \in Heights /\ tip \in Heights
      /\ UNCHANGED <<db, durable, due, up, next>>
  BY NativeAssumption DEF Produce, DataOK, Heights, loopVars
<1>3. chain \in [Heights -> Block] /\ chain[tip] \in Block
  BY <1>2 DEF DataOK
<1>4. NamesAt(chain[tip], tip + 1, b)
  BY <1>2, <1>3, NextBlocksName, UpgradedNames
<1> HIDE DEF b
<1>5. chain' \in [Heights -> Block] /\ Attributed(chain', tip + 1)
  BY <1>1, <1>2, <1>3, <1>4, ChainGrows DEF DataOK, b
<1>6. tip <= tip + 1 /\ \A k \in 1..tip : chain'[k] = chain[k]
  BY <1>1, <1>2, <1>3 DEF Heights
<1>7. Sound(chain', tip + 1, db) /\ Sound(chain', tip + 1, durable)
  BY <1>2, <1>3, <1>6, SoundOfLonger DEF DataOK
<1>8. Forward'
  <2>1. up => next <= tip + 1 + 1
    BY <1>2 DEF DataOK, Forward, TypeOK, Heights
  <2> QED  BY <1>2, <2>1 DEF DataOK, Forward
<1> QED  BY <1>2, <1>5, <1>7, <1>8 DEF DataOK

\* Every step keeps the chain attributed and the database sound.
LEMMA DataStep ==
    ASSUME TypeOK, DataOK, [Next]_vars
    PROVE  DataOK'
<1>1. /\ chain \in [Heights -> Block] /\ tip \in Heights
      /\ Sound(chain, tip, db) /\ Sound(chain, tip, durable)
      /\ db \in Database /\ db.cursor \in Heights /\ db.cursor <= tip
  BY DEF DataOK, Sound, Held, Database
<1>2. ASSUME up, next <= tip, CoverageAccepts(db, next)
      PROVE  /\ next \in Heights /\ db.cursor < next /\ durable.cursor <= next
             /\ next < next + 1 /\ next + 1 <= tip + 1
             /\ Activation = 2 => db.whole /\ next <= db.cursor + 1
  <2>1. /\ db.cursor \in 1..MaxHeight /\ tip \in 1..MaxHeight /\ MaxHeight \in Nat
        /\ durable.cursor \in 1..MaxHeight /\ next \in 0..MaxHeight + 1
    BY <1>1, NativeAssumption DEF Sound, Held, Database, Heights, TypeOK
  <2>2. /\ db.cursor < next /\ durable.cursor <= db.cursor
        /\ Activation = 2 => db.whole
        /\ next > Activation => db.cursor \in {next - 1, next}
    BY <1>2 DEF DataOK, Forward, CoverageAccepts
  <2> DEFINE n == db.cursor
             m == durable.cursor
  <2> HIDE DEF n, m
  <2>3. /\ n \in 1..MaxHeight /\ m \in 1..MaxHeight /\ n < next /\ m <= n
        /\ Activation = 2 /\ next > 2 => n \in {next - 1, next}
    BY <2>1, <2>2 DEF n, m
  <2>4. /\ next \in 1..MaxHeight /\ m <= next /\ next < next + 1 /\ next + 1 <= tip + 1
        /\ Activation = 2 => next <= n + 1
    BY <1>2, <2>1, <2>3
  <2> QED  BY <2>2, <2>4 DEF n, m, Heights
<1>3. chain[db.cursor] \in Block /\ chain[db.cursor].owned \in SUBSET Addr
  BY <1>1 DEF Block
<1>17. TRUE \in BOOLEAN /\ (~AsyncCommit) \in BOOLEAN
  BY Zenon
<1>4. CASE Produce
  BY <1>4, ProduceStep
<1>5. CASE Stream
  <2>1. PICK d : d = Advanced(IndexedAndProjected(db, next, chain[next]), next)
    OBVIOUS
  <2>2. /\ Commit(d, TRUE) /\ UNCHANGED <<tip, chain>> /\ next' = next + 1
        /\ up /\ next <= tip /\ CoverageAccepts(db, next)
    BY <1>5, <2>1 DEF Stream, CanStream
  <2>3. Sound(chain, tip, d) /\ d.cursor = next
        /\ (d.whole <=> db.whole /\ next <= db.cursor + 1)
    BY <1>1, <1>2, <2>1, <2>2, StreamSound
  <2> QED  BY <1>2, <1>17, <2>2, <2>3, CommitSound
<1>6. CASE BulkWindow
  <2>1. /\ UNCHANGED <<tip, chain>> /\ next' = next + 1
        /\ up /\ next <= tip /\ CoverageAccepts(db, next)
    BY <1>6 DEF BulkWindow, CanBulk
  <2>2. CASE Defer
    <3>1. PICK d : d = DeferredBlock(db, next, chain[next])
      OBVIOUS
    <3>2. Commit(d, ~AsyncCommit)
      BY <1>6, <2>2, <3>1 DEF BulkWindow, DeferredBlock
    <3>3. Sound(chain, tip, d) /\ d.cursor = next
          /\ (d.whole <=> db.whole /\ next <= db.cursor + 1)
      BY <1>1, <1>2, <2>1, <3>1, BulkSound
    <3> QED  BY <1>2, <1>17, <2>1, <3>2, <3>3, CommitSound
  <2>3. CASE ~Defer
    <3>1. PICK d : d = Advanced(IndexedAndProjected(db, next, chain[next]), next)
      OBVIOUS
    <3>2. Commit(d, ~AsyncCommit)
      BY <1>6, <2>3, <3>1 DEF BulkWindow
    <3>3. Sound(chain, tip, d) /\ d.cursor = next
          /\ (d.whole <=> db.whole /\ next <= db.cursor + 1)
      BY <1>1, <1>2, <2>1, <3>1, StreamSound
    <3> QED  BY <1>2, <1>17, <2>1, <3>2, <3>3, CommitSound
  <2> QED  BY <2>2, <2>3
<1>7. CASE Rebuild
  <2>1. Commit(Rebuilt(db), TRUE) /\ UNCHANGED <<tip, chain, up, next>>
    BY <1>7 DEF Rebuild
  <2>2. /\ Sound(chain, tip, Rebuilt(db))
        /\ Rebuilt(db).cursor = db.cursor /\ Rebuilt(db).whole = db.whole
    BY <1>1, RebuiltSound DEF Sound
  <2> QED  BY <2>1, <2>2, CommitStays
<1>8. CASE Seed
  <2>1. Commit(Seeded(db, chain[db.cursor]), TRUE) /\ UNCHANGED <<tip, chain, up, next>>
    BY <1>8 DEF Seed, loopVars
  <2>2. /\ Sound(chain, tip, Seeded(db, chain[db.cursor]))
        /\ Seeded(db, chain[db.cursor]).cursor = db.cursor
        /\ Seeded(db, chain[db.cursor]).whole = db.whole
    BY <1>1, <1>3, SeededSound
  <2> QED  BY <2>1, <2>2, CommitStays
<1>9. ASSUME NEW a \in Addr, Publish(a)
      PROVE  DataOK'
  <2>1. UNCHANGED <<tip, chain, up, next>>
    BY <1>9 DEF Publish, loopVars
  <2>2. CASE Publishable(db, a, at, chain[at].exposed[a])
    <3>1. at \in Heights
      <4>1. db.row[a].required > 0 /\ db.row[a].required <= at /\ at \in 0..MaxHeight
        BY <2>2 DEF Publishable, HasRow, TypeOK
      <4>2. db.row[a].required \in Int
        BY <1>1 DEF Database, Rows
      <4> QED  BY <4>1, <4>2, NativeAssumption DEF Heights
    <3>2. Commit(Published(db, a, at, chain[at]), TRUE)
      BY <1>9, <2>2 DEF Publish
    <3>3. /\ Sound(chain, tip, Published(db, a, at, chain[at]))
          /\ Published(db, a, at, chain[at]).cursor = db.cursor
          /\ Published(db, a, at, chain[at]).whole = db.whole
      BY <1>1, <2>2, <3>1, PublishedSound
    <3> QED  BY <2>1, <3>2, <3>3, CommitStays
  <2>3. CASE ~Publishable(db, a, at, chain[at].exposed[a])
    BY <1>9, <2>1, <2>3 DEF Publish, DataOK, Forward
  <2> QED  BY <2>2, <2>3
<1>10. ASSUME NEW a \in Addr, Postpone(a)
       PROVE  DataOK'
  <2>1. UNCHANGED <<tip, chain, up, next>>
    BY <1>10 DEF Postpone, loopVars
  <2>2. CASE Delays(db, a, at)
    <3>1. /\ db' = [db EXCEPT !.retry = Delayed(db.retry, a)]
          /\ durable' = db' /\ due' = due \ {a}
      BY <1>10, <2>2 DEF Postpone
    <3>2. Delayed(db.retry, a) \in [Addr -> Int]
      BY <1>1, DelayedType DEF Database
    <3>3. Sound(chain, tip, db')
      BY <1>1, <3>1, <3>2, RetrySound
    <3>4. db'.cursor = db.cursor /\ db'.whole = db.whole /\ db.cursor <= db.cursor
      BY <1>1, <3>1 DEF Database, Heights
    <3>5. Forward'
      BY <2>1, <3>1, <3>4 DEF DataOK, Forward
    <3> QED  BY <2>1, <3>1, <3>3, <3>5 DEF DataOK
  <2>3. CASE ~Delays(db, a, at)
    BY <1>10, <2>1, <2>3 DEF Postpone, DataOK, Forward
  <2> QED  BY <2>2, <2>3
<1>11. CASE PostgresCrash \/ HostCrash
  <2>1. /\ Commit(durable, TRUE) /\ UNCHANGED <<tip, chain>>
        /\ UNCHANGED <<up, next>> \/ ~up'
    BY <1>11 DEF PostgresCrash, HostCrash, Exit, loopVars
  <2>2. durable.cursor <= durable.cursor /\ (Activation = 2 => durable.whole)
    BY <1>1 DEF DataOK, Forward, Sound, Held, Database, Heights
  <2>3. up' => durable.cursor < next' /\ next' <= tip + 1
    <3>1. durable.cursor \in Int /\ db.cursor \in Int /\ next \in Int
      BY <1>1 DEF Sound, Held, Database, Heights, TypeOK
    <3>2. ASSUME UNCHANGED <<up, next>>, up'
          PROVE  durable.cursor < next' /\ next' <= tip + 1
      BY <3>1, <3>2 DEF DataOK, Forward
    <3> QED  BY <2>1, <3>2
  <2> QED  BY <1>1, <1>17, <2>1, <2>2, <2>3, CommitSound
<1>12. ASSUME NEW h \in Heights, Reprocess(h)
       PROVE  DataOK'
  <2>1. PICK changes \in RepeatedChanges :
          Commit(Reprocessed(db, h, changes, chain[db.cursor].owned), TRUE)
    BY <1>12 DEF Reprocess
  <2>2. h <= db.cursor /\ UNCHANGED <<tip, chain, up, next>>
    BY <1>12 DEF Reprocess, loopVars
  <2>3. ChangesOK(changes)
    BY RepeatedChangesType
  <2>4. /\ Sound(chain, tip, Reprocessed(db, h, changes, chain[db.cursor].owned))
        /\ Reprocessed(db, h, changes, chain[db.cursor].owned).cursor = db.cursor
        /\ Reprocessed(db, h, changes, chain[db.cursor].owned).whole = db.whole
    BY <1>1, <1>3, <2>2, <2>3, ReprocessedSound
  <2> QED  BY <2>1, <2>2, <2>4, CommitStays
<1>13. CASE Reconcile
  <2>1. PICK d : d = Rebuilt(Advanced(Indexed(db, db.cursor, chain[db.cursor]), db.cursor))
    OBVIOUS
  <2>2. Commit(d, TRUE) /\ UNCHANGED <<tip, chain, up, next>>
    BY <1>13, <2>1 DEF Reconcile, loopVars
  <2>3. Sound(chain, tip, d) /\ d.cursor = db.cursor /\ d.whole = db.whole
    BY <1>1, <2>1, ReconcileSound
  <2> QED  BY <2>2, <2>3, CommitStays
<1>14. CASE Expire
  BY <1>14 DEF Expire, DataOK, Forward, loopVars
<1>15. CASE UNCHANGED <<tip, chain, db, durable, due>> /\ (UNCHANGED <<up, next>> \/ ~up')
  BY <1>15 DEF DataOK, Forward
<1>16. ASSUME \/ SeedFails \/ SeedUnacknowledged \/ SelectBatch \/ WriteFails
              \/ Stop \/ CoverageGap \/ UNCHANGED vars
              \/ \E a \in Addr : FetchSucceeds(a) \/ FetchFails(a)
       PROVE  UNCHANGED <<tip, chain, db, durable, due>> /\ (UNCHANGED <<up, next>> \/ ~up')
  BY <1>16 DEF SeedFails, SeedUnacknowledged, SelectBatch, WriteFails, Stop, CoverageGap,
               Exit, FetchSucceeds, FetchFails, vars, loopVars
<1>18. CASE Start
  <2>1. /\ UNCHANGED <<tip, chain, db, durable, due>> /\ next' = db.cursor + 1
    BY <1>18 DEF Start
  <2>2. db.cursor < db.cursor + 1 /\ db.cursor + 1 <= tip + 1
    BY <1>1 DEF Heights
  <2>3. Forward'
    BY <2>1, <2>2 DEF DataOK, Forward
  <2> QED  BY <2>1, <2>3 DEF DataOK
<1> QED
  BY <1>4, <1>5, <1>6, <1>7, <1>8, <1>9, <1>10, <1>11, <1>12, <1>13, <1>14, <1>15, <1>16,
     <1>18 DEF Next

\* The invariant is inductive.
LEMMA InvStep ==
    ASSUME Inv, [Next]_vars
    PROVE  Inv'
<1>1. TypeOK /\ DataOK
  BY DEF Inv, TypeOK, DataOK
<1>2. WorkerOK'
  BY <1>1, WorkerStep
<1>3. DataOK'
  BY <1>1, DataStep
<1>4. TypeOK'
  BY <1>2, <1>3 DEF TypeOK, WorkerOK, DataOK, Sound, Held
<1> QED  BY <1>3, <1>4 DEF Inv, DataOK

\* The invariant holds of every behaviour.
LEMMA Invariant == Spec => []Inv
<1>1. Init => Inv
  BY InitInv
<1>2. Inv /\ [Next]_vars => Inv'
  BY InvStep
<1> QED  BY <1>1, <1>2, PTL DEF Spec

-----------------------------------------------------------------------------
(* The theorems.                                                           *)

\* Every variable has its type: no operation of the store or the worker leaves
\* a row, a receipt, a retry time or a batch that the tables could not hold.
THEOREM TypeCorrect == Spec => []TypeOK
<1>1. Inv => TypeOK
  BY DEF Inv
<1> QED  BY <1>1, Invariant, PTL

\* With the activation at block 2 no block is ever left out, and otherwise the
\* property itself asks for it.
LEMMA GaplessIsWhole ==
    ASSUME Inv, Gapless
    PROVE  db.whole
BY DEF Inv, Forward, Gapless

\* Evidence that counts as complete is the claim of the indexed height, for
\* every chain whose events name what they change, every interleaving of the
\* worker with the blocks, and every crash that leaves no block out:
\* staking.Request and staking.Publish.
THEOREM EvidenceCurrent == Spec => []EvidenceIsCurrent
<1>1. ASSUME Inv, Gapless, NEW a \in Addr, Complete(db, a)
      PROVE  db.row[a].version = chain[db.cursor].version[a]
  <2>1. /\ Held(chain, tip, db) /\ Attributed(chain, tip)
        /\ db \in Database /\ tip \in Heights /\ db.whole
    BY <1>1, GaplessIsWhole DEF Inv, Sound, TypeOK
  <2>2. db.row[a].required \in Nat /\ db.row[a].source \in Nat /\ db.cursor \in Nat
    BY <2>1, NativeAssumption DEF Database, Rows, Heights
  <2>3. db.row[a].source > 0 /\ ~Pending(db.row[a]) /\ db.row[a].source <= db.cursor
    BY <1>1, <2>2 DEF Complete, HasRow, Pending
  <2>4. Untouched(chain, a, db.row[a].source, db.cursor)
    BY <2>1, <2>3 DEF Held, Fresh
  <2>5. db.row[a].source \in 1..tip /\ db.cursor \in 1..tip
    BY <2>1, <2>2, <2>3 DEF Held, Heights
  <2>6. chain[db.cursor].version[a] = chain[db.row[a].source].version[a]
    BY <2>1, <2>3, <2>4, <2>5 DEF Attributed
  <2> QED  BY <2>1, <2>3, <2>6 DEF Held, Sourced
<1>2. Inv => EvidenceIsCurrent
  BY <1>1 DEF EvidenceIsCurrent
<1> QED  BY <1>2, Invariant, PTL

\* What inventories show is the claim of the indexed height or unknown, while
\* no projection is deferred: an invalidation and the projection of what it
\* invalidates are of one transaction.  staking.Invalidate, readmodel.Recompute.
THEOREM InventoriesCurrent == Spec => []ShownIsCurrent
<1>1. ASSUME Inv, Gapless, ~db.deferred, NEW a \in Addr, db.shown[a] # Unknown
      PROVE  db.shown[a] = chain[db.cursor].version[a]
  <2>1. /\ Held(chain, tip, db) /\ Attributed(chain, tip) /\ ShownOf(chain, db, a)
        /\ db \in Database /\ tip \in Heights
    BY <1>1, GaplessIsWhole DEF Inv, Sound, Shown, TypeOK
  <2>2. /\ db.row[a].source > 0
        /\ Untouched(chain, a, db.row[a].source, db.cursor)
        /\ db.shown[a] = db.row[a].version
    BY <1>1, <2>1 DEF ShownOf
  <2>3. db.row[a].source \in Nat /\ db.cursor \in Nat /\ db.row[a].source <= db.cursor
    BY <2>1, NativeAssumption DEF Held, Behind, Database, Rows, Heights
  <2>4. db.row[a].source \in 1..tip /\ db.cursor \in 1..tip
    BY <2>1, <2>2, <2>3 DEF Held, Heights
  <2>5. chain[db.cursor].version[a] = chain[db.row[a].source].version[a]
    BY <2>1, <2>2, <2>3, <2>4 DEF Attributed
  <2> QED  BY <2>1, <2>2, <2>5 DEF Held, Sourced
<1>2. Inv => ShownIsCurrent
  BY <1>1 DEF ShownIsCurrent
<1> QED  BY <1>2, Invariant, PTL

\* No evidence, bound or reconciliation is of a height above the cursor, though
\* a crash may take the cursor back below what had been published: whatever is
\* durable was published by a transaction that is durable with its blocks.
THEOREM NeverAhead == Spec => []EvidenceNeverAhead
<1>1. Inv => EvidenceNeverAhead
  BY DEF Inv, Sound, Held, Behind, EvidenceNeverAhead
<1> QED  BY <1>1, Invariant, PTL

=============================================================================
