---------------------------- MODULE ReceiptProofs ----------------------------
(***************************************************************************)
(* Theorems about the receipts of NativeStaking: an open receipt has the   *)
(* request that will reconcile it, only a receipt whose unbonding group is *)
(* gone for good is retired, and with complete evidence the open receipts  *)
(* are the groups that the chain still has.                                *)
(*                                                                         *)
(* A receipt, the row of its address and the chain meet at three heights:  *)
(* its bound, which the row requires; the source of the row, where it was  *)
(* last compared with the groups of the chain; and its retirement.         *)
(***************************************************************************)
EXTENDS NativeProofs

-----------------------------------------------------------------------------
(* The inductive invariant, of a chain c, its tip t and a database d.      *)

\* bounded, and not yet retired
IsOpen(r) == r.bound > 0 /\ r.retired = 0

\* a receipt without coordinates was never compared with the chain
Unbound(d, r) == r.bound = 0 => r.reconciled = 0 /\ r.retired = 0 /\ r.born <= d.cursor

\* the row of a receipt requires evidence of its bound, at or after its birth
Bounded(d, r) ==
    /\ r.bound > 0 => r.born <= r.bound /\ r.bound <= d.row[r.addr].required
    /\ r.reconciled <= d.row[r.addr].source

\* a receipt that was never reconciled has asked for it
Owing(d, r) == IsOpen(r) /\ r.reconciled = 0 => d.row[r.addr].receipts

\* where nothing is asked for, the chain had the group at the source
HeldAtSource(c, d, r) ==
    IsOpen(r) /\ ~d.row[r.addr].receipts =>
        /\ d.row[r.addr].source > 0
        /\ r.born \in c[d.row[r.addr].source].groups[r.addr]

\* the chain did not have the group any more where the receipt was retired
GoneAtRetirement(c, d, r) ==
    r.retired > 0 =>
        /\ r.born <= r.retired /\ r.retired <= d.cursor
        /\ r.born \notin c[r.retired].groups[r.addr]

SettledOf(c, d, r) ==
    Unbound(d, r) /\ Bounded(d, r) /\ Owing(d, r) /\ HeldAtSource(c, d, r)
    /\ GoneAtRetirement(c, d, r)

Settled(c, d) == \A r \in d.receipts : SettledOf(c, d, r)

\* No group comes back, and none of an address changes that no event names.
GroupsKept(c, t) ==
    \A a \in Addr, g \in 1..t, h \in 1..t : g <= h =>
        /\ c[h].groups[a] \subseteq c[g].groups[a] \cup (g+1..h)
        /\ (\A k \in g+1..h : a \notin c[k].addresses) => c[h].groups[a] = c[g].groups[a]

ReceiptInv ==
    /\ GroupsKept(chain, tip)
    /\ Settled(chain, db) /\ Settled(chain, durable)

-----------------------------------------------------------------------------
(* The database operators. What invalidates only asks for more.            *)

\* a receipt that has just got its bound and asked to be reconciled
IsNew(d, r) ==
    /\ r.bound > 0 /\ r.retired = 0 /\ r.reconciled = 0
    /\ r.born <= r.bound /\ r.bound <= d.row[r.addr].required
    /\ d.row[r.addr].receipts

\* e has the evidence of d, and what d asks for and more
AsksMore(d, e) ==
    \A a \in Addr : /\ e.row[a].source = d.row[a].source
                    /\ d.row[a].required <= e.row[a].required
                    /\ d.row[a].receipts => e.row[a].receipts

Furthers(d, e) ==
    /\ e \in Database
    /\ d.cursor <= e.cursor
    /\ AsksMore(d, e)
    /\ \A r \in e.receipts : r \in d.receipts \/ IsNew(e, r)

\* Doing nothing asks for more, in this sense.
LEMMA FurthersReflexive ==
    ASSUME NEW d \in Database
    PROVE  Furthers(d, d)
BY DEF Furthers, AsksMore, Database, Rows, Heights

\* A receipt that is new stays new while more is asked for.
LEMMA StaysNew ==
    ASSUME NEW d \in Database, NEW e \in Database, AsksMore(d, e),
           NEW r \in Receipts, IsNew(d, r)
    PROVE  IsNew(e, r)
<1>1. r.addr \in Addr /\ r.bound \in Int
  BY DEF Receipts
<1>2. d.row[r.addr].required \in Int /\ e.row[r.addr].required \in Int
  BY <1>1 DEF Database, Rows
<1>3. d.row[r.addr].required <= e.row[r.addr].required
      /\ (d.row[r.addr].receipts => e.row[r.addr].receipts)
  BY <1>1 DEF AsksMore
<1>4. QED
  BY <1>1, <1>2, <1>3 DEF IsNew

\* Requests compose.
LEMMA FurthersTransitive ==
    ASSUME NEW d \in Database, NEW e, NEW f, Furthers(d, e), Furthers(e, f)
    PROVE  Furthers(d, f)
<1>1. e \in Database /\ f \in Database
  BY DEF Furthers
<1>2. d.cursor <= f.cursor
  BY <1>1 DEF Furthers, Database, Heights
<1>3. AsksMore(d, f)
  BY <1>1 DEF Furthers, AsksMore, Database, Rows
<1>4. ASSUME NEW r \in f.receipts PROVE r \in d.receipts \/ IsNew(f, r)
  <2>1. r \in Receipts
    BY <1>1 DEF Database
  <2>2. r \in e.receipts => r \in d.receipts \/ IsNew(e, r)
    BY DEF Furthers
  <2>3. IsNew(e, r) => IsNew(f, r)
    BY <1>1, <2>1, StaysNew DEF Furthers
  <2>4. QED
    BY <2>2, <2>3 DEF Furthers
<1>5. QED
  BY <1>1, <1>2, <1>3, <1>4 DEF Furthers

\* What asks for more keeps the receipts settled.
LEMMA FurthersSettled ==
    ASSUME NEW c, NEW d \in Database, NEW e, Furthers(d, e), Settled(c, d)
    PROVE  Settled(c, e)
<1>1. e \in Database
  BY DEF Furthers
<1> SUFFICES ASSUME NEW r \in e.receipts PROVE SettledOf(c, e, r)
  BY DEF Settled
<1>2. r \in Receipts /\ r.addr \in Addr
  BY <1>1 DEF Database, Receipts
<1> DEFINE old == d.row[r.addr]
           new == e.row[r.addr]
<1>3. /\ new.source = old.source /\ old.required <= new.required
      /\ (old.receipts => new.receipts)
  BY <1>2 DEF Furthers, AsksMore
<1>4. old \in Rows /\ new \in Rows
  BY <1>1, <1>2 DEF Database
<1>5. old.required \in Int /\ new.required \in Int /\ new.source \in Nat
      /\ r.bound \in Int /\ r.born \in Int /\ r.retired \in Int
      /\ d.cursor \in Int /\ e.cursor \in Int /\ d.cursor <= e.cursor
  BY <1>1, <1>2, <1>4, NativeAssumption DEF Rows, Receipts, Database, Heights, Furthers
<1>6. CASE r \in d.receipts
  <2>1. SettledOf(c, d, r)
    BY <1>6 DEF Settled
  <2> HIDE DEF old, new
  <2>2. old = d.row[r.addr] /\ new = e.row[r.addr]
    BY DEF old, new
  <2>3. Unbound(e, r)
    BY <1>5, <2>1 DEF SettledOf, Unbound
  <2>4. Bounded(e, r)
    BY <1>3, <1>5, <2>1, <2>2 DEF SettledOf, Bounded
  <2>5. Owing(e, r)
    BY <1>3, <2>1, <2>2 DEF SettledOf, Owing
  <2>6. HeldAtSource(c, e, r)
    BY <1>3, <2>1, <2>2 DEF SettledOf, HeldAtSource
  <2>7. GoneAtRetirement(c, e, r)
    BY <1>5, <2>1 DEF SettledOf, GoneAtRetirement
  <2>8. QED
    BY <2>3, <2>4, <2>5, <2>6, <2>7 DEF SettledOf
<1>7. CASE IsNew(e, r)
  BY <1>5, <1>7 DEF IsNew, SettledOf, Unbound, Bounded, Owing, HeldAtSource, GoneAtRetirement,
                    IsOpen
<1>8. QED
  BY <1>6, <1>7 DEF Furthers

\* A step that keeps cursor, rows and receipts keeps the receipts settled.
LEMMA SettledAlike ==
    ASSUME NEW c, NEW d, NEW e, Settled(c, d),
           e.cursor = d.cursor, e.row = d.row, e.receipts = d.receipts
    PROVE  Settled(c, e)
BY DEF Settled, SettledOf, Unbound, Bounded, Owing, HeldAtSource, GoneAtRetirement

\* Likewise for what asks for more.
LEMMA FurthersAlike ==
    ASSUME NEW d, NEW e, NEW f \in Database, Furthers(d, e), e.cursor <= f.cursor,
           e.cursor \in Int, d.cursor \in Int, f.row = e.row, f.receipts = e.receipts
    PROVE  Furthers(d, f)
<1>1. d.cursor <= f.cursor
  BY DEF Furthers, Database, Heights
<1>2. QED
  BY <1>1 DEF Furthers, AsksMore, IsNew


\* A raised requirement leaves the request for reconciliation.
LEMMA RequireKeepsRequest ==
    ASSUME NEW r \in Rows, NEW h \in Heights
    PROVE  [r EXCEPT !.required = h].receipts = r.receipts
BY DEF Rows

\* Ensure gives rows to those that have none.
LEMMA EnsureFurthers ==
    ASSUME NEW d \in Database, NEW h \in Heights, NEW as \in SUBSET Addr
    PROVE  Furthers(d, Ensure(d, h, as))
<1> DEFINE e == Ensure(d, h, as)
<1>1. Invalidates(d, e)
  BY EnsureInvalidates
<1>2. /\ e.receipts = d.receipts /\ e.cursor = d.cursor /\ e \in Database
      /\ \A a \in Addr : e.row[a] = IF a \in as /\ ~HasRow(d, a)
                                      THEN [d.row[a] EXCEPT !.required = h] ELSE d.row[a]
  BY <1>1 DEF Ensure, Database, Invalidates
<1> HIDE DEF e
<1>3. ASSUME NEW a \in Addr
      PROVE  d.row[a].receipts => e.row[a].receipts
  <2>1. d.row[a] \in Rows
    BY DEF Database
  <2>2. e.row[a] = [d.row[a] EXCEPT !.required = h] \/ e.row[a] = d.row[a]
    BY <1>2
  <2>3. QED
    BY <2>1, <2>2, RequireKeepsRequest
<1>4. AsksMore(d, e)
  BY <1>1, <1>3 DEF Invalidates, AsksMore, e
<1>5. Furthers(d, e)
  BY <1>2, <1>4 DEF Furthers, Database, Heights
<1>6. QED
  BY <1>5 DEF e

\* Request raises requirements.
LEMMA RequestFurthers ==
    ASSUME NEW d \in Database, NEW h \in Heights, NEW changes, ChangesOK(changes)
    PROVE  Furthers(d, Request(d, h, changes))
<1> DEFINE e == Request(d, h, changes)
           raised == Raised(d, h, changes)
<1>1. Invalidates(d, e)
  BY RequestInvalidates
<1>2. /\ e.receipts = d.receipts /\ e.cursor = d.cursor /\ e \in Database
      /\ \A a \in Addr : e.row[a] = IF a \in raised
                                      THEN [d.row[a] EXCEPT !.required = h] ELSE d.row[a]
  BY <1>1 DEF Request, Database, Invalidates
<1> HIDE DEF e, raised
<1>3. ASSUME NEW a \in Addr
      PROVE  d.row[a].receipts => e.row[a].receipts
  <2>1. d.row[a] \in Rows
    BY DEF Database
  <2>2. e.row[a] = [d.row[a] EXCEPT !.required = h] \/ e.row[a] = d.row[a]
    BY <1>2
  <2>3. QED
    BY <2>1, <2>2, RequireKeepsRequest
<1>4. AsksMore(d, e)
  BY <1>1, <1>3 DEF Invalidates, AsksMore, e
<1>5. Furthers(d, e)
  BY <1>2, <1>4 DEF Furthers, Database, Heights
<1>6. QED
  BY <1>5 DEF e

\* Invalidate does both.
LEMMA InvalidateFurthers ==
    ASSUME NEW d \in Database, NEW h \in Heights, NEW changes, ChangesOK(changes),
           NEW moved, NEW owned \in SUBSET Addr
    PROVE  Furthers(d, Invalidate(d, h, changes, moved, owned))
<1> DEFINE e == Request(d, h, Forced(h, changes))
           as == owned \cap (moved \cup Dirtied(d, h, changes))
<1>0. ChangesOK(Forced(h, changes))
  BY ForcedType
<1>1. Furthers(d, e) /\ e \in Database
  BY <1>0, RequestFurthers DEF Furthers
<1>2. as \in SUBSET Addr /\ Invalidate(d, h, changes, moved, owned) = Ensure(e, h, as)
  BY DEF Invalidate
<1> HIDE DEF e, as
<1>3. Furthers(e, Ensure(e, h, as))
  BY <1>1, <1>2, EnsureFurthers
<1>4. QED
  BY <1>1, <1>2, <1>3, FurthersTransitive

\* A request for reconciliation asks for the heights it is given.
LEMMA RequestedAsks ==
    ASSUME NEW d \in Database, NEW as \in SUBSET Addr, NEW of \in [Addr -> 0..MaxHeight],
           NEW h \in Heights, \A a \in as : of[a] <= h
    PROVE  /\ Requested(d, as, of) \in Database
           /\ Requested(d, as, of).receipts = d.receipts
           /\ Requested(d, as, of).cursor = d.cursor
           /\ AsksMore(d, Requested(d, as, of))
           /\ \A a \in as : /\ Requested(d, as, of).row[a].receipts
                            /\ of[a] <= Requested(d, as, of).row[a].required
<1> DEFINE e == Requested(d, as, of)
<1>1. Invalidates(d, e) /\ e.receipts = d.receipts /\ e \in Database /\ e.cursor = d.cursor
  BY RequestedInvalidates DEF Invalidates
<1>2. \A a \in Addr :
        e.row[a] = IF a \in as
                     THEN [d.row[a] EXCEPT !.receipts = TRUE,
                                           !.required = Greatest(d.row[a].required, of[a])]
                     ELSE d.row[a]
  BY DEF Requested, Database
<1> HIDE DEF e
<1>3. ASSUME NEW a \in Addr
      PROVE  /\ d.row[a].receipts => e.row[a].receipts
             /\ a \in as => e.row[a].receipts /\ of[a] <= e.row[a].required
  <2>1. d.row[a] \in Rows /\ of[a] \in 0..MaxHeight
    BY DEF Database
  <2>2. CASE a \in as
    <3>1. e.row[a].receipts = TRUE /\ e.row[a].required = Greatest(d.row[a].required, of[a])
      BY <1>2, <2>1, <2>2 DEF Rows
    <3>2. of[a] <= Greatest(d.row[a].required, of[a])
      BY <2>1, NativeAssumption DEF Rows, Greatest
    <3>3. QED
      BY <3>1, <3>2
  <2>3. CASE a \notin as
    BY <1>2, <2>3
  <2>4. QED
    BY <2>2, <2>3
<1>4. AsksMore(d, e)
  BY <1>1, <1>3 DEF Invalidates, AsksMore
<1>5. \A a \in as : e.row[a].receipts /\ of[a] <= e.row[a].required
  BY <1>3
<1>6. QED
  BY <1>1, <1>4, <1>5 DEF e

\* flushDefusion adds receipts that are new.
LEMMA FlushDefusionFurthers ==
    ASSUME NEW d \in Database, NEW h \in Heights, NEW as \in SUBSET Addr
    PROVE  Furthers(d, FlushDefusion(d, h, as))
<1> DEFINE inserted == {a \in as : ~Recorded(d, h, a)}
           fresh(a) == [addr |-> a, born |-> h, legacy |-> FALSE, bound |-> h,
                        reconciled |-> 0, retired |-> 0]
           new == {fresh(a) : a \in inserted}
           e == [d EXCEPT !.receipts = d.receipts \cup new]
           of == [a \in Addr |-> h]
           f == Requested(e, inserted, of)
<1>1. h \in 1..MaxHeight /\ h \in 0..MaxHeight /\ h <= h
  BY NativeAssumption DEF Heights
<1>2. FlushDefusion(d, h, as) = f
  BY DEF FlushDefusion
<1>3. inserted \in SUBSET Addr
  OBVIOUS
<1>4. of \in [Addr -> 0..MaxHeight] /\ \A a \in Addr : of[a] = h
  BY <1>1
<1> HIDE DEF inserted, of
<1>5. \A r \in new : /\ r \in Receipts /\ r.addr \in inserted /\ r.born = h /\ r.bound = h
                     /\ r.reconciled = 0 /\ r.retired = 0
  <2> SUFFICES ASSUME NEW a \in inserted
               PROVE  /\ fresh(a) \in Receipts /\ fresh(a).addr \in inserted
                      /\ fresh(a).born = h /\ fresh(a).bound = h
                      /\ fresh(a).reconciled = 0 /\ fresh(a).retired = 0
    BY Zenon DEF new
  <2>1. QED
    BY <1>1, <1>3, NativeAssumption DEF Receipts, Heights
<1> HIDE DEF new
<1>6. e \in Database /\ e.row = d.row /\ e.cursor = d.cursor /\ e.receipts = d.receipts \cup new
  BY <1>5 DEF Database
<1> HIDE DEF e
<1>7. /\ f \in Database /\ f.receipts = e.receipts /\ f.cursor = e.cursor /\ AsksMore(e, f)
      /\ \A a \in inserted : f.row[a].receipts /\ of[a] <= f.row[a].required
  <2>1. \A a \in inserted : of[a] <= h
    BY <1>1, <1>3, <1>4
  <2>2. QED
    BY <1>3, <1>4, <1>6, <2>1, RequestedAsks
<1> HIDE DEF f
<1>8. AsksMore(d, f)
  BY <1>6, <1>7 DEF AsksMore
<1>9. ASSUME NEW r \in new PROVE IsNew(f, r)
  <2>1. f.row[r.addr].receipts /\ h <= f.row[r.addr].required
    BY <1>3, <1>4, <1>5, <1>7
  <2>2. h > 0
    BY <1>1
  <2>3. QED
    BY <1>1, <1>5, <2>1, <2>2 DEF IsNew
<1>10. Furthers(d, f)
  BY <1>6, <1>7, <1>8, <1>9 DEF Furthers, Database, Heights
<1>11. QED
  BY <1>2, <1>10

\* The transaction of a block, before its projections.
LEMMA IndexedFurthers ==
    ASSUME NEW d \in Database, NEW h \in Heights, NEW b \in Block
    PROVE  Furthers(d, Indexed(d, h, b))
<1> DEFINE e == Invalidate(d, h, b, b.moved, b.owned)
<1>1. ChangesOK(b) /\ b.owned \in SUBSET Addr /\ b.unbonds \in SUBSET Addr
  BY BlockChanges DEF Block
<1>2. Furthers(d, e) /\ e \in Database
  BY <1>1, InvalidateFurthers DEF Furthers
<1>3. Indexed(d, h, b) = FlushDefusion(e, h, b.unbonds)
  BY DEF Indexed
<1> HIDE DEF e
<1>4. Furthers(e, FlushDefusion(e, h, b.unbonds))
  BY <1>1, <1>2, FlushDefusionFurthers
<1>5. QED
  BY <1>2, <1>3, <1>4, FurthersTransitive

\* The latest bound of receipts is not below the bound of any of them.
LEMMA LatestBoundReaches ==
    ASSUME NEW rs \in SUBSET Receipts, NEW r \in rs
    PROVE  r.bound <= LatestBound(rs)
<1> DEFINE bounds == {q.bound : q \in rs}
<1>1. bounds \in SUBSET (0..MaxHeight) /\ bounds # {} /\ MaxHeight \in Nat
  BY NativeAssumption DEF Receipts
<1>2. \E x \in bounds : \A y \in bounds : y <= x
  BY <1>1, GreatestExists
<1>3. \E x \in bounds : \A q \in rs : q.bound <= x
  BY <1>2
<1>4. LatestBound(rs) = CHOOSE x \in bounds : \A q \in rs : q.bound <= x
  BY DEF LatestBound
<1> HIDE DEF bounds
<1>5. \A q \in rs : q.bound <= LatestBound(rs)
  BY <1>3, <1>4
<1>6. QED
  BY <1>5

\* SeedReceipts bounds what has no bound, and asks for what was never reconciled.
LEMMA SeedReceiptsFurthers ==
    ASSUME NEW c, NEW d \in Database, Behind(d, d.cursor), Settled(c, d)
    PROVE  Furthers(d, SeedReceipts(d))
<1> DEFINE h == d.cursor
           adopt(r) == IF r.bound = 0 /\ r.retired = 0 THEN [r EXCEPT !.bound = d.cursor] ELSE r
           e == [d EXCEPT !.receipts = Adopted(d)]
           open(a) == Unreconciled(Adopted(d), a)
           as == {a \in Addr : open(a) # {}}
           of == [a \in Addr |-> LatestBound(open(a))]
           f == Requested(e, as, of)
<1>1. h \in Heights /\ h \in 1..MaxHeight /\ h \in 0..MaxHeight /\ h <= h
  BY NativeAssumption DEF Heights, Database
<1>2. ASSUME NEW q \in d.receipts
      PROVE  /\ adopt(q) \in Receipts /\ adopt(q).bound <= h
             /\ adopt(q) = q \/ (adopt(q) \in open(q.addr) /\ adopt(q).addr = q.addr
                                 /\ adopt(q).born <= adopt(q).bound)
  <2>1. q \in Receipts /\ q.bound <= h /\ Unbound(d, q)
    BY DEF Database, Behind, Settled, SettledOf
  <2>2. CASE q.bound = 0 /\ q.retired = 0
    <3>1. adopt(q) = [q EXCEPT !.bound = h]
      BY <2>2
    <3>2. q.reconciled = 0 /\ q.born <= h
      BY <2>1, <2>2 DEF Unbound
    <3>3. /\ adopt(q) \in Receipts /\ adopt(q).bound = h /\ adopt(q).addr = q.addr
          /\ adopt(q).born = q.born /\ adopt(q).reconciled = 0 /\ adopt(q).retired = 0
      BY <1>1, <2>1, <2>2, <3>1, <3>2 DEF Receipts
    <3>4. adopt(q) \in Adopted(d)
      BY DEF Adopted
    <3> HIDE DEF adopt
    <3>5. adopt(q) \in open(q.addr)
      BY <1>1, <3>3, <3>4 DEF Unreconciled
    <3>6. QED
      BY <1>1, <3>2, <3>3, <3>5
  <2>3. CASE ~(q.bound = 0 /\ q.retired = 0)
    <3>1. adopt(q) = q
      BY <2>3
    <3>2. QED
      BY <2>1, <3>1
  <2>4. QED
    BY <2>2, <2>3
<1>3. \A r \in Adopted(d) : \E q \in d.receipts : r = adopt(q)
  BY DEF Adopted
<1> HIDE DEF adopt, open
<1>4. \A r \in Adopted(d) : r \in Receipts /\ r.bound <= h
  BY <1>2, <1>3
<1>5. e \in Database /\ e.row = d.row /\ e.cursor = d.cursor /\ e.receipts = Adopted(d)
  <2>1. Adopted(d) \in SUBSET Receipts
    BY <1>4
  <2>2. QED
    BY <2>1 DEF Database
<1>6. SeedReceipts(d) = f
  BY <1>5 DEF SeedReceipts, open
<1>7. ASSUME NEW a \in Addr
      PROVE  /\ open(a) \in SUBSET Receipts
             /\ LatestBound(open(a)) \in 0..MaxHeight /\ LatestBound(open(a)) <= h
  <2>1. open(a) \in SUBSET Receipts /\ \A r \in open(a) : r.bound <= h
    BY <1>4 DEF Unreconciled, open
  <2> HIDE DEF h
  <2>2. QED
    BY <1>1, <2>1, LatestBoundType
<1>8. /\ of \in [Addr -> 0..MaxHeight] /\ \A a \in as : of[a] <= h
      /\ \A a \in Addr : of[a] = LatestBound(open(a))
  BY <1>7
<1>9. as \in SUBSET Addr /\ \A a \in Addr : open(a) # {} => a \in as
  OBVIOUS
<1> HIDE DEF e, of, as, h
<1>10. /\ f \in Database /\ f.receipts = Adopted(d) /\ f.cursor = d.cursor /\ AsksMore(e, f)
       /\ \A a \in as : f.row[a].receipts /\ of[a] <= f.row[a].required
  BY <1>1, <1>5, <1>8, <1>9, RequestedAsks
<1> HIDE DEF f
<1>11. AsksMore(d, f)
  BY <1>5, <1>10 DEF AsksMore
<1>12. ASSUME NEW r \in Adopted(d), r \notin d.receipts PROVE IsNew(f, r)
  <2>1. PICK q \in d.receipts : r = adopt(q)
    BY <1>3
  <2>2. r \in open(q.addr) /\ r.addr = q.addr /\ r.born <= r.bound /\ r \in Receipts
    BY <1>2, <1>12, <2>1
  <2>3. r.addr \in Addr /\ r.addr \in as
    BY <1>9, <2>2 DEF Receipts
  <2>4. r.bound <= of[r.addr]
    BY <1>7, <1>8, <2>2, <2>3, LatestBoundReaches
  <2>5. f.row[r.addr].receipts /\ of[r.addr] <= f.row[r.addr].required
    BY <1>10, <2>3
  <2>6. r.bound \in Int /\ of[r.addr] \in Int /\ f.row[r.addr].required \in Int
    BY <1>8, <1>10, <2>2, <2>3 DEF Receipts, Database, Rows
  <2>7. r.bound <= f.row[r.addr].required
    BY <2>4, <2>5, <2>6
  <2>8. r.bound > 0 /\ r.retired = 0 /\ r.reconciled = 0
    BY <2>2 DEF open, Unreconciled
  <2>9. QED
    BY <2>2, <2>5, <2>7, <2>8 DEF IsNew
<1>13. Furthers(d, f)
  BY <1>10, <1>11, <1>12 DEF Furthers, Database, Heights
<1>14. QED
  BY <1>6, <1>13

\* The whole seed.
LEMMA SeededFurthers ==
    ASSUME NEW c, NEW d \in Database, Behind(d, d.cursor), Settled(c, d), NEW b \in Block
    PROVE  Furthers(d, Seeded(d, b))
<1> DEFINE as == Candidates(d, b)
           e == Ensure(d, d.cursor, as)
<1>1. d.cursor \in Heights /\ d.cursor \in Int /\ d.cursor <= d.cursor
  BY DEF Database, Heights
<1>0. as \in SUBSET Addr
  BY CandidatesType
<1> HIDE DEF as
<1>2. Furthers(d, e) /\ Invalidates(d, e) /\ Behind(e, d.cursor)
  BY <1>0, <1>1, EnsureFurthers, EnsureInvalidates
<1>3. e \in Database /\ e.cursor = d.cursor
  BY <1>2 DEF Invalidates
<1>4. Seeded(d, b) = SeedReceipts(e)
  BY DEF Seeded, as
<1> HIDE DEF e
<1>5. Settled(c, e)
  BY <1>2, FurthersSettled
<1>6. Furthers(e, SeedReceipts(e))
  BY <1>2, <1>3, <1>5, SeedReceiptsFurthers
<1>7. QED
  BY <1>2, <1>4, <1>6, FurthersTransitive

-----------------------------------------------------------------------------
(* The chain.                                                              *)

\* b follows p at height h: groups are born at h and of addresses it names
Follows(p, h, b) ==
    \A a \in Addr : /\ b.groups[a] \subseteq p.groups[a] \cup {h}
                    /\ a \notin b.addresses => b.groups[a] = p.groups[a]

\* A staking event changes the groups of its delegator, which it names.
LEMMA StakingFollows ==
    ASSUME NEW p \in Block, NEW h \in Heights, NEW a \in Addr, NEW vs, NEW exposed,
           NEW groups \in SUBSET Heights, groups \subseteq p.groups[a] \cup {h}, NEW unbonds
    PROVE  /\ Follows(p, h, Staking(p, h, a, vs, exposed, groups))
           /\ Follows(p, h, [Staking(p, h, a, vs, exposed, groups) EXCEPT !.unbonds = unbonds])
<1> DEFINE b == Staking(p, h, a, vs, exposed, groups)
           c == [b EXCEPT !.unbonds = unbonds]
<1>1. p.groups \in [Addr -> SUBSET Heights]
  BY DEF Block
<1>2. /\ b.addresses = {a}
      /\ b.groups = [p.groups EXCEPT ![a] = groups]
  BY DEF Staking, Quiet, Block
<1>3. /\ c.addresses = {a}
      /\ c.groups = [p.groups EXCEPT ![a] = groups]
  BY DEF Staking, Quiet, Block
<1> HIDE DEF b, c
<1>4. \A x \in Addr :
        [p.groups EXCEPT ![a] = groups][x] = IF x = a THEN groups ELSE p.groups[x]
  BY <1>1
<1>5. QED
  BY <1>1, <1>2, <1>3, <1>4 DEF Follows, b, c

\* A block with the groups of the one before follows it.
LEMMA SameGroupsFollow ==
    ASSUME NEW p \in Block, NEW h, NEW b, b.groups = p.groups
    PROVE  Follows(p, h, b)
BY DEF Follows

\* Every kind of block follows the one before.
LEMMA NextBlocksFollow ==
    ASSUME NEW p \in Block, NEW h \in Heights, NEW b \in NextBlocks(p, h)
    PROVE  Follows(p, h, b)
<1>0. /\ p.groups \in [Addr -> SUBSET Heights]
      /\ \A a \in Addr : /\ p.groups[a] \in SUBSET Heights
                         /\ p.groups[a] \subseteq p.groups[a] \cup {h}
                         /\ p.groups[a] \cup {h} \in SUBSET Heights
                         /\ \A g : /\ p.groups[a] \ {g} \in SUBSET Heights
                                   /\ p.groups[a] \ {g} \subseteq p.groups[a] \cup {h}
  BY DEF Block
<1>1. CASE b \in Delegations(p, h)
  <2>1. PICK a \in Addr : \E v \in Validators :
          b = Staking(p, h, a, {v}, p.exposed[a] \cup {v}, p.groups[a])
    BY <1>1 DEF Delegations
  <2>2. PICK v \in Validators :
          b = Staking(p, h, a, {v}, p.exposed[a] \cup {v}, p.groups[a])
    BY <2>1
  <2>3. QED
    BY <1>0, <2>2, StakingFollows
<1>2. CASE b \in Redelegations(p, h)
  <2>1. PICK a \in Addr : b \in RedelegationsOf(p, h, a)
    BY <1>2 DEF Redelegations
  <2>2. PICK s \in p.exposed[a], v \in Validators :
          b = Staking(p, h, a, {s, v}, p.exposed[a] \cup {v}, p.groups[a])
    BY <2>1 DEF RedelegationsOf
  <2>3. QED
    BY <1>0, <2>2, StakingFollows
<1>3. CASE b \in Unbondings(p, h)
  <2>1. PICK a \in Addr : \E v \in p.exposed[a] :
          b = [Staking(p, h, a, {v}, p.exposed[a], p.groups[a] \cup {h})
                  EXCEPT !.unbonds = {a}]
    BY <1>3 DEF Unbondings
  <2>2. PICK v \in p.exposed[a] :
          b = [Staking(p, h, a, {v}, p.exposed[a], p.groups[a] \cup {h})
                  EXCEPT !.unbonds = {a}]
    BY <2>1
  <2>3. p.groups[a] \cup {h} \subseteq p.groups[a] \cup {h}
    OBVIOUS
  <2>4. QED
    BY <1>0, <2>2, <2>3, StakingFollows
<1>4. CASE b \in Completions(p, h)
  <2>1. PICK a \in Addr : b \in Payouts(p, h, a) \/ b \in Departures(p, h, a)
    BY <1>4 DEF Completions
  <2>2. CASE b \in Payouts(p, h, a)
    <3>1. PICK g \in p.groups[a], v \in p.exposed[a] :
            b = Staking(p, h, a, {v}, p.exposed[a], p.groups[a] \ {g})
      BY <2>2 DEF Payouts
    <3>2. QED
      BY <1>0, <3>1, StakingFollows
  <2>3. CASE b \in Departures(p, h, a)
    <3>1. PICK g \in p.groups[a] \cup {h}, v \in p.exposed[a] :
            b = Staking(p, h, a, {v}, p.exposed[a] \ {v}, p.groups[a] \ {g})
      BY <2>3 DEF Departures
    <3>2. QED
      BY <1>0, <3>1, StakingFollows
  <2>4. QED
    BY <2>1, <2>2, <2>3
<1>5. ASSUME NEW v \in Validators, NEW vs, NEW all, b = PoolChange(p, h, v, vs, all)
      PROVE  b.groups = p.groups
  BY <1>5 DEF PoolChange, Quiet, Block
<1>6. CASE b \in Unattributed(p, h) \/ b \in ReactorChanges(p, h)
  <2>1. b.groups = p.groups
    BY <1>5, <1>6 DEF Unattributed, ReactorChanges
  <2>2. QED
    BY <2>1, SameGroupsFollow
<1>7. CASE b \in Transfers(p)
  <2>1. PICK a \in Addr :
          b = [Quiet(p) EXCEPT !.moved = {a}]
          \/ b = [Quiet(p) EXCEPT !.moved = {a}, !.owned = Quiet(p).owned \cup {a}]
    BY <1>7 DEF Transfers
  <2>2. b.groups = p.groups
    BY <2>1 DEF Quiet, Block
  <2>3. QED
    BY <2>2, SameGroupsFollow
<1>8. CASE b = Quiet(p)
  <2>1. b.groups = p.groups
    BY <1>8 DEF Quiet, Block
  <2>2. QED
    BY <2>1, SameGroupsFollow
<1>9. QED
  BY <1>1, <1>2, <1>3, <1>4, <1>6, <1>7, <1>8 DEF NextBlocks

\* The upgrade changes claims, not groups.
LEMMA UpgradedFollows ==
    ASSUME NEW p, NEW h, NEW b \in Block, Follows(p, h, b), NEW k
    PROVE  Follows(p, h, Upgraded(p, b, k))
<1>1. Upgraded(p, b, k).groups = b.groups /\ Upgraded(p, b, k).addresses = b.addresses
  BY DEF Upgraded, Block
<1>2. QED
  BY <1>1 DEF Follows

\* The groups of a longer chain are kept.
LEMMA GroupsGrow ==
    ASSUME NEW c \in [Heights -> Block], NEW t \in Heights, t + 1 \in Heights,
           NEW b \in Block, Follows(c[t], t + 1, b), GroupsKept(c, t)
    PROVE  GroupsKept([c EXCEPT ![t + 1] = b], t + 1)
<1> DEFINE e == [c EXCEPT ![t + 1] = b]
<1>1. e[t + 1] = b /\ \A k \in 1..t : e[k] = c[k]
  BY DEF Heights
<1> HIDE DEF e
<1>2. t \in Nat /\ t >= 1 /\ t \in 1..t
  BY DEF Heights
<1>3. ASSUME NEW a \in Addr, NEW g \in 1..t+1, NEW h \in 1..t+1, g <= h
      PROVE  /\ e[h].groups[a] \subseteq e[g].groups[a] \cup (g+1..h)
             /\ (\A k \in g+1..h : a \notin e[k].addresses) => e[h].groups[a] = e[g].groups[a]
  <2>1. CASE h <= t
    <3>1. g \in 1..t /\ h \in 1..t
      BY <1>2, <1>3, <2>1
    <3>2. \A k \in g+1..h : k \in 1..t /\ e[k] = c[k]
      BY <1>1, <1>2, <2>1, <3>1
    <3>3. e[h] = c[h] /\ e[g] = c[g]
      BY <1>1, <3>1
    <3>4. QED
      BY <1>3, <3>1, <3>2, <3>3 DEF GroupsKept
  <2>2. CASE h = t + 1 /\ g = t + 1
    BY <2>2
  <2>3. CASE h = t + 1 /\ g \in 1..t
    <3>1. g <= t /\ e[g] = c[g] /\ e[h] = b
      BY <1>1, <1>2, <2>3
    <3>2. /\ c[t].groups[a] \subseteq c[g].groups[a] \cup (g+1..t)
          /\ (\A k \in g+1..t : a \notin c[k].addresses) => c[t].groups[a] = c[g].groups[a]
      BY <1>2, <2>3, <3>1 DEF GroupsKept
    <3>3. /\ b.groups[a] \subseteq c[t].groups[a] \cup {t + 1}
          /\ a \notin b.addresses => b.groups[a] = c[t].groups[a]
      BY DEF Follows
    <3>4. (g+1..t) \cup {t + 1} \subseteq g+1..h
      BY <1>2, <2>3
    <3>5. t + 1 \in g+1..h /\ \A k \in g+1..t : k \in g+1..h /\ e[k] = c[k]
      BY <1>1, <1>2, <2>3
    <3>6. b.groups[a] \subseteq c[g].groups[a] \cup (g+1..h)
      BY <3>2, <3>3, <3>4
    <3>7. ASSUME \A k \in g+1..h : a \notin e[k].addresses
          PROVE  b.groups[a] = c[g].groups[a]
      <4>1. a \notin b.addresses
        BY <1>1, <3>5, <3>7
      <4>2. \A k \in g+1..t : a \notin c[k].addresses
        BY <3>5, <3>7
      <4>3. QED
        BY <3>2, <3>3, <4>1, <4>2
    <3>8. QED
      BY <3>1, <3>6, <3>7
  <2>4. QED
    BY <1>2, <1>3, <2>1, <2>2, <2>3
<1>4. GroupsKept(e, t + 1)
  BY <1>3, Zenon DEF GroupsKept
<1>5. QED
  BY <1>4 DEF e

\* What is settled of a chain is settled of a longer one.
LEMMA SettledOfLonger ==
    ASSUME NEW c, NEW e, NEW t \in Heights, NEW d \in Database, d.cursor <= t,
           \A a \in Addr : d.row[a].source <= d.cursor,
           \A k \in 1..t : e[k] = c[k], Settled(c, d)
    PROVE  Settled(e, d)
<1> SUFFICES ASSUME NEW r \in d.receipts PROVE SettledOf(e, d, r)
  BY DEF Settled
<1>1. SettledOf(c, d, r) /\ r \in Receipts /\ r.addr \in Addr
  BY DEF Settled, Database, Receipts
<1>2. r.retired \in Nat /\ d.row[r.addr].source \in Nat /\ d.cursor \in Nat /\ t \in Nat
  <2>1. d.row[r.addr] \in Rows /\ d.cursor \in Heights
    BY <1>1 DEF Database
  <2>2. QED
    BY <1>1, <2>1, NativeAssumption DEF Receipts, Rows, Heights
<1>3. r.retired > 0 /\ r.retired <= d.cursor => r.retired \in 1..t
  BY <1>2
<1>4. d.row[r.addr].source > 0 => d.row[r.addr].source \in 1..t
  BY <1>1, <1>2
<1>5. HeldAtSource(e, d, r)
  BY <1>1, <1>4 DEF SettledOf, HeldAtSource
<1>6. GoneAtRetirement(e, d, r)
  BY <1>1, <1>3 DEF SettledOf, GoneAtRetirement
<1>7. QED
  BY <1>1, <1>5, <1>6 DEF SettledOf

-----------------------------------------------------------------------------
(* Publication, and the steps.                                             *)

\* A publication replaces one row and compares the receipts of its address.
LEMMA PublishedType ==
    ASSUME NEW d \in Database, NEW a \in Addr, NEW h \in Heights, NEW b \in Block,
           NEW e, e = Published(d, a, h, b)
    PROVE  /\ e.cursor = d.cursor
           /\ e.receipts = Reconciled(d.receipts, a, h, b.groups[a])
           /\ e.row[a].required = d.row[a].required
           /\ e.row[a].source = h /\ ~e.row[a].receipts
           /\ \A x \in Addr : x # a => e.row[x] = d.row[x]
<1> DEFINE new == [required |-> d.row[a].required, source |-> h,
                   version |-> b.version[a], receipts |-> FALSE, positions |-> TRUE]
           rs == Reconciled(d.receipts, a, h, b.groups[a])
           p == [d EXCEPT !.row[a] = new, !.retry = Hurried(d.retry, {a}),
                          !.exposure[a] = b.exposed[a], !.receipts = rs]
<1>1. new.required = d.row[a].required /\ new.source = h /\ new.receipts = FALSE
  OBVIOUS
<1>2. e = Projected(p, {a}) \/ e = p
  BY DEF Published, RefreshedClaims
<1> HIDE DEF new, rs
<1>3. p.row = [d.row EXCEPT ![a] = new] /\ p.cursor = d.cursor /\ p.receipts = rs
  BY DEF Database
<1>4. /\ DOMAIN p = DOMAIN d
      /\ {"row", "cursor", "receipts"} \subseteq DOMAIN p
  BY DEF Database
<1> HIDE DEF p
<1>5. e.row = p.row /\ e.cursor = p.cursor /\ e.receipts = p.receipts
  BY <1>2, <1>4 DEF Projected
<1>6. d.row \in [Addr -> Rows]
  BY DEF Database
<1>7. e.row[a] = new /\ \A x \in Addr : x # a => e.row[x] = d.row[x]
  BY <1>3, <1>5, <1>6
<1>8. QED
  BY <1>1, <1>3, <1>5, <1>7 DEF rs

\* A publication settles the receipts of its address, and leaves the others.
LEMMA PublishedSettled ==
    ASSUME NEW c \in [Heights -> Block], NEW t, NEW d, Held(c, t, d), Settled(c, d),
           NEW a \in Addr, NEW h \in Heights, NEW vs, Publishable(d, a, h, vs)
    PROVE  Settled(c, Published(d, a, h, c[h]))
<1> DEFINE groups == c[h].groups[a]
           Due(q) == /\ q.addr = a /\ q.retired = 0 /\ q.bound > 0 /\ q.bound <= h
                      /\ q.reconciled <= h
           compared(q) == [q EXCEPT !.reconciled = h,
                                    !.retired = IF q.born \in groups THEN 0 ELSE h]
<1>1. d \in Database /\ c[h] \in Block
  BY DEF Held
<1>2. PICK e : e = Published(d, a, h, c[h])
  OBVIOUS
<1>3. /\ e.cursor = d.cursor /\ e.receipts = Reconciled(d.receipts, a, h, groups)
      /\ e.row[a].required = d.row[a].required
      /\ e.row[a].source = h /\ ~e.row[a].receipts
      /\ \A x \in Addr : x # a => e.row[x] = d.row[x]
  BY <1>1, <1>2, PublishedType
<1>4. d.row[a] \in Rows /\ d.cursor \in Heights
  BY <1>1 DEF Database
<1>5. /\ h \in Nat /\ h > 0 /\ h <= d.cursor /\ d.cursor \in Nat
      /\ d.row[a].required \in Nat /\ d.row[a].required <= h
      /\ d.row[a].source \in Nat /\ d.row[a].source <= h
  BY <1>4, NativeAssumption DEF Publishable, Rows, Heights
<1> DEFINE after(q) == IF Due(q) THEN compared(q) ELSE q
<1>0. \A r \in e.receipts : \E q \in d.receipts : r = after(q)
  <2>1. Reconciled(d.receipts, a, h, groups) = {after(q) : q \in d.receipts}
    BY DEF Reconciled
  <2> HIDE DEF after
  <2>2. QED
    BY <1>3, <2>1
<1> SUFFICES ASSUME NEW q \in d.receipts, NEW r, r = after(q)
             PROVE  SettledOf(c, e, r)
  <2> HIDE DEF after
  <2>1. QED
    BY <1>0, <1>2 DEF Settled
<1>6. q \in Receipts /\ SettledOf(c, d, q)
  BY <1>1 DEF Database, Settled
<1>7. /\ q.addr \in Addr /\ q.born \in Nat /\ q.bound \in Nat /\ q.reconciled \in Nat
      /\ q.retired \in Nat
  BY <1>6, NativeAssumption DEF Receipts, Heights
<1>8. CASE q.addr # a
  <2>1. r = q /\ e.row[q.addr] = d.row[q.addr]
    BY <1>3, <1>7, <1>8
  <2>2. QED
    BY <1>3, <1>6, <2>1
       DEF SettledOf, Unbound, Bounded, Owing, HeldAtSource, GoneAtRetirement
<1>9. CASE q.addr = a
  <2>1. q.bound <= h /\ q.reconciled <= h
    BY <1>5, <1>6, <1>7, <1>9 DEF SettledOf, Bounded
  <2>2. CASE ~IsOpen(q)
    <3>1. r = q
      BY <1>7, <2>2 DEF IsOpen
    <3>2. Unbound(e, q) /\ GoneAtRetirement(c, e, q)
      BY <1>3, <1>6 DEF SettledOf, Unbound, GoneAtRetirement
    <3>3. Bounded(e, q)
      BY <1>3, <1>6, <1>9, <2>1 DEF SettledOf, Bounded
    <3>4. QED
      BY <2>2, <3>1, <3>2, <3>3 DEF SettledOf, Owing, HeldAtSource
  <2>3. CASE IsOpen(q)
    <3>1. r = compared(q)
      BY <1>9, <2>1, <2>3 DEF IsOpen
    <3>2. /\ r.addr = a /\ r.born = q.born /\ r.bound = q.bound /\ r.reconciled = h
          /\ r.retired = IF q.born \in groups THEN 0 ELSE h
      BY <1>6, <1>9, <3>1 DEF Receipts
    <3>3. q.born <= q.bound /\ q.bound <= d.row[a].required /\ q.bound > 0
      BY <1>6, <1>9, <2>3 DEF SettledOf, Bounded, IsOpen
    <3>4. Unbound(e, r)
      BY <1>7, <3>2, <3>3 DEF Unbound
    <3>5. Bounded(e, r)
      BY <1>3, <1>5, <3>2, <3>3 DEF Bounded
    <3>6. Owing(e, r)
      BY <1>5, <3>2 DEF Owing
    <3>7. HeldAtSource(c, e, r)
      BY <1>3, <1>5, <3>2 DEF HeldAtSource, IsOpen
    <3>8. GoneAtRetirement(c, e, r)
      <4>1. r.retired > 0 => r.retired = h /\ r.born \notin groups
        BY <3>2
      <4>2. q.born <= h
        BY <1>5, <1>7, <3>3
      <4>3. QED
        BY <1>3, <1>5, <3>2, <4>1, <4>2 DEF GoneAtRetirement
    <3>9. QED
      BY <3>4, <3>5, <3>6, <3>7, <3>8 DEF SettledOf
  <2>4. QED
    BY <2>2, <2>3
<1>10. QED
  BY <1>8, <1>9

\* A commit of a database with settled receipts.
LEMMA CommitSettled ==
    ASSUME ReceiptInv, UNCHANGED <<tip, chain>>, NEW d, NEW durably \in BOOLEAN,
           Settled(chain, d), Commit(d, durably)
    PROVE  ReceiptInv'
BY DEF ReceiptInv, Commit

\* The next block, or the one at the cursor again, in a transaction that may
\* project and set what the invariant does not speak of.
LEMMA BlockFurthers ==
    ASSUME NEW d \in Database, NEW h \in Heights, d.cursor <= h, NEW b \in Block,
           NEW f \in Database, f.cursor = h,
           f.row = Indexed(d, h, b).row, f.receipts = Indexed(d, h, b).receipts
    PROVE  Furthers(d, f)
<1> DEFINE e == Indexed(d, h, b)
<1>1. Furthers(d, e)
  BY IndexedFurthers
<1>2. Invalidates(d, e)
  BY IndexedInvalidates
<1>3. e.cursor = d.cursor /\ d.cursor \in Int /\ h \in Int
  BY <1>2 DEF Invalidates, Database, Heights
<1> HIDE DEF e
<1>4. Furthers(d, f)
  BY <1>1, <1>3, FurthersAlike DEF e
<1>5. QED
  BY <1>4

\* The database that each operation of the loop commits asks for more.
LEMMA StreamFurthers ==
    ASSUME NEW d \in Database, NEW h \in Heights, d.cursor <= h, NEW b \in Block
    PROVE  Furthers(d, Advanced(IndexedAndProjected(d, h, b), h))
<1> DEFINE e == Indexed(d, h, b)
           as == b.moved \cup Dirtied(d, h, b)
           p == Recomputed(e, as)
<1>1. e \in Database
  BY IndexedFurthers DEF Furthers
<1>2. as \in SUBSET Addr
  BY BlockChanges, DirtiedType DEF Block
<1>3. IndexedAndProjected(d, h, b) = p
  BY DEF IndexedAndProjected
<1> HIDE DEF as
<1>4. p \in Database /\ p.row = e.row /\ p.receipts = e.receipts
  BY <1>1, <1>2, RecomputedType
<1> HIDE DEF p
<1>5. /\ Advanced(p, h) \in Database /\ Advanced(p, h).cursor = h
      /\ Advanced(p, h).row = e.row /\ Advanced(p, h).receipts = e.receipts
  BY <1>4, AdvancedType
<1>6. QED
  BY <1>3, <1>5, BlockFurthers

\* A bulk window that leaves the projection for later.
LEMMA BulkFurthers ==
    ASSUME NEW d \in Database, NEW h \in Heights, d.cursor <= h, NEW b \in Block
    PROVE  Furthers(d, DeferredBlock(d, h, b))
<1> DEFINE e == Indexed(d, h, b)
           p == Advanced(e, h)
           f == [p EXCEPT !.deferred = TRUE]
<1>1. e \in Database
  BY IndexedFurthers DEF Furthers
<1>2. p \in Database /\ p.cursor = h /\ p.row = e.row /\ p.receipts = e.receipts
  BY <1>1, AdvancedType
<1> HIDE DEF p
<1>3. f \in Database /\ f.cursor = h /\ f.row = e.row /\ f.receipts = e.receipts
  BY <1>2 DEF Database
<1> HIDE DEF f
<1>4. Furthers(d, f)
  BY <1>3, BlockFurthers
<1>5. QED
  BY <1>4 DEF f, p, DeferredBlock

\* A rebuild touches neither rows of evidence nor receipts.
LEMMA RebuiltAlike ==
    ASSUME NEW d \in Database
    PROVE  /\ Rebuilt(d) \in Database
           /\ Rebuilt(d).cursor = d.cursor
           /\ Rebuilt(d).row = d.row
           /\ Rebuilt(d).receipts = d.receipts
<1> DEFINE p == Recomputed(d, Addr)
<1>1. p \in Database /\ p.cursor = d.cursor /\ p.row = d.row /\ p.receipts = d.receipts
  BY RecomputedType
<1>2. Rebuilt(d) = [p EXCEPT !.deferred = FALSE]
  BY DEF Rebuilt
<1> HIDE DEF p
<1>3. QED
  BY <1>1, <1>2 DEF Database

\* reconcile-current-block: the block at the cursor again.
LEMMA ReconcileFurthers ==
    ASSUME NEW d \in Database, NEW b \in Block
    PROVE  Furthers(d, Rebuilt(Advanced(Indexed(d, d.cursor, b), d.cursor)))
<1> DEFINE h == d.cursor
           e == Indexed(d, h, b)
           p == Advanced(e, h)
<1>1. h \in Heights /\ h <= h
  BY DEF Database, Heights
<1>2. e \in Database
  BY <1>1, IndexedFurthers DEF Furthers
<1>3. p \in Database /\ p.cursor = h /\ p.row = e.row /\ p.receipts = e.receipts
  BY <1>1, <1>2, AdvancedType
<1> HIDE DEF p
<1>4. /\ Rebuilt(p) \in Database /\ Rebuilt(p).cursor = h
      /\ Rebuilt(p).row = e.row /\ Rebuilt(p).receipts = e.receipts
  BY <1>3, RebuiltAlike
<1>5. Furthers(d, Rebuilt(p))
  BY <1>1, <1>4, BlockFurthers
<1>6. QED
  BY <1>5 DEF p

\* reprocess-errors: events of an indexed block again.
LEMMA ReprocessedFurthers ==
    ASSUME NEW d \in Database, NEW h \in Heights, NEW changes, ChangesOK(changes),
           NEW owned \in SUBSET Addr
    PROVE  Furthers(d, Reprocessed(d, h, changes, owned))
<1> DEFINE e == Invalidate(d, h, changes, {}, owned)
           as == Dirtied(d, h, changes)
           p == Recomputed(e, as)
<1>1. Furthers(d, e) /\ e \in Database
  BY InvalidateFurthers DEF Furthers
<1>2. as \in SUBSET Addr
  BY DirtiedType
<1>3. Reprocessed(d, h, changes, owned) = p
  BY DEF Reprocessed
<1> HIDE DEF e, as
<1>4. p \in Database /\ p.cursor = e.cursor /\ p.row = e.row /\ p.receipts = e.receipts
  BY <1>1, <1>2, RecomputedType
<1>5. e.cursor <= p.cursor /\ e.cursor \in Int /\ d.cursor \in Int
  BY <1>1, <1>4 DEF Database, Heights
<1> HIDE DEF p
<1>6. QED
  BY <1>1, <1>3, <1>4, <1>5, FurthersAlike

\* The invariant of block 1.
LEMMA ReceiptInit ==
    ASSUME Init, Inv
    PROVE  ReceiptInv
<1>1. PICK exposed \in [Addr -> SUBSET Validators] :
        chain = [h \in Heights |-> Genesis(exposed)]
  BY DEF Init
<1>2. tip = 1
  BY DEF Init
<1>3. GroupsKept(chain, tip)
  BY <1>2 DEF GroupsKept
<1>5. /\ db.receipts = {InitialReceipt(a) : a \in Legacy} /\ db.cursor = 1
      /\ durable = db /\ db \in Database
  BY DEF Init, InitialDatabase, Inv, TypeOK
<1>6. ASSUME NEW r \in db.receipts PROVE SettledOf(chain, db, r)
  <2>1. /\ r.addr \in Addr /\ r.born = 1 /\ r.bound = 0 /\ r.reconciled = 0 /\ r.retired = 0
    <3>1. PICK a \in Legacy : r = InitialReceipt(a)
      BY <1>5, <1>6
    <3>2. QED
      BY <3>1, NativeAssumption DEF InitialReceipt
  <2>2. db.row[r.addr] \in Rows
    BY <1>5, <2>1 DEF Database
  <2>3. 0 <= db.row[r.addr].source
    BY <2>2, NativeAssumption DEF Rows
  <2>4. QED
    BY <1>5, <2>1, <2>3 DEF SettledOf, Unbound, Bounded, Owing, HeldAtSource,
                            GoneAtRetirement, IsOpen
<1>7. QED
  BY <1>3, <1>5, <1>6 DEF ReceiptInv, Settled

\* Every step keeps the receipts settled.
LEMMA ReceiptStep ==
    ASSUME Inv, ReceiptInv, [Next]_vars
    PROVE  ReceiptInv'
<1>1. /\ chain \in [Heights -> Block] /\ tip \in Heights
      /\ Held(chain, tip, db) /\ Held(chain, tip, durable)
      /\ db \in Database /\ durable \in Database /\ db.cursor \in Heights
      /\ Settled(chain, db) /\ Settled(chain, durable)
  BY DEF Inv, TypeOK, Sound, Held, Database, ReceiptInv
<1>2. ASSUME NEW d, Furthers(db, d) PROVE Settled(chain, d)
  BY <1>1, <1>2, FurthersSettled
<1>3. chain[db.cursor] \in Block /\ chain[db.cursor].owned \in SUBSET Addr
  BY <1>1 DEF Block
<1>4. ASSUME up, next <= tip
      PROVE  next \in Heights /\ db.cursor <= next /\ chain[next] \in Block
  <2>1. db.cursor < next /\ next \in 0..MaxHeight + 1
    BY <1>4 DEF Inv, Forward, TypeOK
  <2>2. db.cursor \in 1..MaxHeight /\ tip \in 1..MaxHeight /\ MaxHeight \in Nat
    BY <1>1, NativeAssumption DEF Heights
  <2>3. next \in 1..MaxHeight /\ db.cursor <= next
    BY <1>4, <2>1, <2>2
  <2>4. QED
    BY <1>1, <2>3 DEF Heights
<1>5. TRUE \in BOOLEAN /\ FALSE \in BOOLEAN
  OBVIOUS
<1>6. CASE Produce
  <2>1. PICK n \in NextBlocks(chain[tip], tip + 1) :
          chain' = [chain EXCEPT ![tip + 1] = Upgraded(chain[tip], n, tip + 1)]
    BY <1>6 DEF Produce
  <2> DEFINE b == Upgraded(chain[tip], n, tip + 1)
  <2>2. /\ tip' = tip + 1 /\ tip + 1 \in Heights /\ UNCHANGED <<db, durable>>
    BY <1>1, <1>6, NativeAssumption DEF Produce, Heights
  <2>3. chain[tip] \in Block
    BY <1>1
  <2>4. b \in Block /\ Follows(chain[tip], tip + 1, b)
    <3>1. Names(chain[tip], n) /\ n \in Block /\ Follows(chain[tip], tip + 1, n)
      BY <2>1, <2>2, <2>3, NextBlocksName, NextBlocksFollow DEF Names
    <3>2. QED
      BY <2>2, <2>3, <3>1, UpgradedNames, UpgradedFollows DEF NamesAt
  <2> HIDE DEF b
  <2>5. GroupsKept(chain', tip')
    BY <1>1, <2>1, <2>2, <2>4, GroupsGrow DEF ReceiptInv, b
  <2>6. \A k \in 1..tip : chain'[k] = chain[k]
    BY <1>1, <2>1, <2>2 DEF Heights
  <2>7. ASSUME NEW d \in Database, Held(chain, tip, d), Settled(chain, d)
        PROVE  Settled(chain', d)
    BY <1>1, <2>6, <2>7, SettledOfLonger DEF Held, Behind
  <2>8. QED
    BY <1>1, <2>2, <2>5, <2>7 DEF ReceiptInv
<1>7. CASE Stream
  <2>1. PICK d : d = Advanced(IndexedAndProjected(db, next, chain[next]), next)
    OBVIOUS
  <2>2. up /\ next <= tip /\ Commit(d, TRUE) /\ UNCHANGED <<tip, chain>>
    BY <1>7, <2>1 DEF Stream, CanStream
  <2>3. Furthers(db, d)
    BY <1>1, <1>4, <2>1, <2>2, StreamFurthers
  <2>4. QED
    BY <1>2, <1>5, <2>2, <2>3, CommitSettled
<1>8. CASE BulkWindow
  <2>1. up /\ next <= tip /\ UNCHANGED <<tip, chain>>
    BY <1>8 DEF BulkWindow, CanBulk
  <2> DEFINE p == Advanced(IndexedAndProjected(db, next, chain[next]), next)
             q == DeferredBlock(db, next, chain[next])
  <2>6. Commit(p, ~AsyncCommit) \/ Commit(q, ~AsyncCommit)
    BY <1>8 DEF BulkWindow, DeferredBlock
  <2>7. Furthers(db, p) /\ Furthers(db, q)
    BY <1>1, <1>4, <2>1, BulkFurthers, StreamFurthers
  <2> HIDE DEF p, q
  <2>2. ASSUME NEW d, Furthers(db, d), Commit(d, ~AsyncCommit) PROVE ReceiptInv'
    <3>1. (~AsyncCommit) \in BOOLEAN
      OBVIOUS
    <3>2. QED
      BY <1>2, <2>1, <2>2, <3>1, CommitSettled
  <2>3. QED
    BY <2>2, <2>6, <2>7
<1>9. CASE Rebuild
  <2>1. Commit(Rebuilt(db), TRUE) /\ UNCHANGED <<tip, chain>>
    BY <1>9 DEF Rebuild
  <2>2. Settled(chain, Rebuilt(db))
    BY <1>1, RebuiltAlike, SettledAlike
  <2>3. QED
    BY <1>5, <2>1, <2>2, CommitSettled
<1>10. CASE Seed
  <2>1. Commit(Seeded(db, chain[db.cursor]), TRUE) /\ UNCHANGED <<tip, chain>>
    BY <1>10 DEF Seed
  <2>2. Furthers(db, Seeded(db, chain[db.cursor]))
    BY <1>1, <1>3, SeededFurthers DEF Held
  <2>3. QED
    BY <1>2, <1>5, <2>1, <2>2, CommitSettled
<1>11. ASSUME NEW a \in Addr, Publish(a)
       PROVE  ReceiptInv'
  <2>1. UNCHANGED <<tip, chain>>
    BY <1>11 DEF Publish
  <2>2. CASE Publishable(db, a, at, chain[at].exposed[a])
    <3>1. at \in Heights
      <4>1. db.row[a].required > 0 /\ db.row[a].required <= at /\ at \in 0..MaxHeight
        BY <2>2 DEF Publishable, HasRow, Inv, TypeOK
      <4>2. db.row[a].required \in Int
        BY <1>1 DEF Database, Rows
      <4>3. QED
        BY <4>1, <4>2, NativeAssumption DEF Heights
    <3>2. Commit(Published(db, a, at, chain[at]), TRUE)
      BY <1>11, <2>2 DEF Publish
    <3>3. Settled(chain, Published(db, a, at, chain[at]))
      BY <1>1, <2>2, <3>1, PublishedSettled
    <3>4. QED
      BY <1>5, <2>1, <3>2, <3>3, CommitSettled
  <2>3. CASE ~Publishable(db, a, at, chain[at].exposed[a])
    BY <1>11, <2>1, <2>3 DEF Publish, ReceiptInv
  <2>4. QED
    BY <2>2, <2>3
<1>12. ASSUME NEW a \in Addr, Postpone(a)
       PROVE  ReceiptInv'
  <2>1. UNCHANGED <<tip, chain>>
    BY <1>12 DEF Postpone
  <2>2. CASE Delays(db, a, at)
    <3>1. db' = [db EXCEPT !.retry = Delayed(db.retry, a)] /\ durable' = db'
      BY <1>12, <2>2 DEF Postpone
    <3>2. db'.cursor = db.cursor /\ db'.row = db.row /\ db'.receipts = db.receipts
      BY <1>1, <3>1 DEF Database
    <3>3. Settled(chain, db')
      BY <1>1, <3>2, SettledAlike
    <3>4. QED
      BY <2>1, <3>1, <3>3 DEF ReceiptInv
  <2>3. CASE ~Delays(db, a, at)
    BY <1>12, <2>1, <2>3 DEF Postpone, ReceiptInv
  <2>4. QED
    BY <2>2, <2>3
<1>13. CASE PostgresCrash \/ HostCrash
  <2>1. Commit(durable, TRUE) /\ UNCHANGED <<tip, chain>>
    BY <1>13 DEF PostgresCrash, HostCrash
  <2>2. QED
    BY <1>1, <1>5, <2>1, CommitSettled
<1>14. ASSUME NEW h \in Heights, Reprocess(h)
       PROVE  ReceiptInv'
  <2>1. PICK changes \in RepeatedChanges :
          Commit(Reprocessed(db, h, changes, chain[db.cursor].owned), TRUE)
    BY <1>14 DEF Reprocess
  <2>2. UNCHANGED <<tip, chain>>
    BY <1>14 DEF Reprocess
  <2>3. ChangesOK(changes)
    BY RepeatedChangesType
  <2>4. Furthers(db, Reprocessed(db, h, changes, chain[db.cursor].owned))
    BY <1>1, <1>3, <2>3, ReprocessedFurthers
  <2>5. QED
    BY <1>2, <1>5, <2>1, <2>2, <2>4, CommitSettled
<1>15. CASE Reconcile
  <2>1. /\ Commit(Rebuilt(Advanced(Indexed(db, db.cursor, chain[db.cursor]), db.cursor)), TRUE)
        /\ UNCHANGED <<tip, chain>>
    BY <1>15 DEF Reconcile
  <2>2. Furthers(db, Rebuilt(Advanced(Indexed(db, db.cursor, chain[db.cursor]), db.cursor)))
    BY <1>1, <1>3, ReconcileFurthers
  <2>3. QED
    BY <1>2, <1>5, <2>1, <2>2, CommitSettled
<1>16. CASE UNCHANGED <<tip, chain, db, durable>>
  BY <1>16 DEF ReceiptInv
<1>17. ASSUME \/ SeedFails \/ SeedUnacknowledged \/ SelectBatch \/ WriteFails \/ Expire
              \/ Stop \/ CoverageGap \/ Start \/ UNCHANGED vars
              \/ \E a \in Addr : FetchSucceeds(a) \/ FetchFails(a)
       PROVE  UNCHANGED <<tip, chain, db, durable>>
  BY <1>17 DEF SeedFails, SeedUnacknowledged, SelectBatch, WriteFails, Expire, Stop,
               CoverageGap, Start, FetchSucceeds, FetchFails, vars
<1>18. QED
  BY <1>6, <1>7, <1>8, <1>9, <1>10, <1>11, <1>12, <1>13, <1>14, <1>15, <1>16, <1>17 DEF Next

\* The receipts of both databases are settled in every reachable state.
LEMMA ReceiptInvariant == Spec => [](Inv /\ ReceiptInv)
<1>1. Init /\ Inv => ReceiptInv
  BY ReceiptInit
<1>2. Inv /\ ReceiptInv /\ [Next]_vars => ReceiptInv'
  BY ReceiptStep
<1>3. QED
  BY <1>1, <1>2, Invariant, PTL DEF Spec

-----------------------------------------------------------------------------
(* The theorems.                                                           *)

\* An open receipt that was never reconciled has a row that asks for it: the
\* transaction that records or adopts a receipt also requests it, and only a
\* publication that compares the receipt clears the request.
THEOREM RequestsStand == Spec => []ReceiptsAreRequested
<1>1. ASSUME Inv, ReceiptInv, NEW r \in db.receipts,
             r.bound > 0, r.retired = 0, r.reconciled = 0
      PROVE  HasRow(db, r.addr) /\ db.row[r.addr].receipts
  <2>1. SettledOf(chain, db, r) /\ r \in Receipts /\ db \in Database
    BY <1>1 DEF ReceiptInv, Settled, Inv, TypeOK, Database
  <2>2. r.addr \in Addr /\ r.bound \in Int /\ db.row[r.addr].required \in Int
    BY <2>1 DEF Receipts, Database, Rows
  <2>3. QED
    BY <1>1, <2>1, <2>2 DEF SettledOf, Bounded, Owing, IsOpen, HasRow
<1>2. Inv /\ ReceiptInv => ReceiptsAreRequested
  BY <1>1 DEF ReceiptsAreRequested
<1>3. QED
  BY <1>2, ReceiptInvariant, PTL

\* Only what is gone for good is retired: the group of a retired receipt was not
\* on the chain at its retirement, which is not before its birth, and no group
\* comes back.
THEOREM RetiredForGood == Spec => []RetiredMeansGone
<1>1. ASSUME Inv, ReceiptInv, NEW r \in db.receipts, r.retired > 0
      PROVE  r.born \notin chain[db.cursor].groups[r.addr]
  <2>1. SettledOf(chain, db, r) /\ r \in Receipts /\ db \in Database /\ tip \in Heights
        /\ db.cursor <= tip
    BY <1>1 DEF ReceiptInv, Settled, Inv, TypeOK, Database, Sound, Held
  <2>2. r.addr \in Addr /\ r.born \in Nat /\ r.retired \in Nat /\ db.cursor \in Nat
        /\ tip \in Nat
    BY <2>1, NativeAssumption DEF Receipts, Database, Heights
  <2>3. /\ r.born <= r.retired /\ r.retired <= db.cursor
        /\ r.born \notin chain[r.retired].groups[r.addr]
    BY <1>1, <2>1 DEF SettledOf, GoneAtRetirement
  <2>4. r.retired \in 1..tip /\ db.cursor \in 1..tip
    BY <1>1, <2>1, <2>2, <2>3
  <2>5. chain[db.cursor].groups[r.addr]
          \subseteq chain[r.retired].groups[r.addr] \cup (r.retired+1..db.cursor)
    BY <1>1, <2>2, <2>3, <2>4 DEF ReceiptInv, GroupsKept
  <2>6. r.born \notin r.retired+1..db.cursor
    BY <2>2, <2>3
  <2>7. QED
    BY <2>3, <2>5, <2>6
<1>2. Inv /\ ReceiptInv => RetiredMeansGone
  BY <1>1 DEF RetiredMeansGone
<1>3. QED
  BY <1>2, ReceiptInvariant, PTL

\* With complete evidence and nothing asked for, the open receipts of an address
\* are groups that the chain still has at the cursor: they were at the source,
\* and had a block since paid one out, its event would have raised the
\* requirement. Unless that block is in a window that Postgres lost and the loop
\* left out, which from the activation on it cannot do.
THEOREM OpenReceiptsHeld == Spec => []OpenMeansHeld
<1>1. ASSUME Inv, ReceiptInv, Gapless, NEW r \in db.receipts,
             Complete(db, r.addr), ~db.row[r.addr].receipts, r.bound > 0, r.retired = 0
      PROVE  r.born \in chain[db.cursor].groups[r.addr]
  <2> DEFINE a == r.addr
             g == db.row[r.addr].source
  <2>0. db.whole
    BY <1>1, GaplessIsWhole
  <2>1. /\ SettledOf(chain, db, r) /\ r \in Receipts /\ db \in Database
        /\ tip \in Heights /\ db.cursor <= tip /\ Fresh(chain, db)
        /\ chain \in [Heights -> Block]
    BY <1>1, <2>0 DEF ReceiptInv, Settled, Inv, TypeOK, Database, Sound, Held
  <2>2. a \in Addr /\ db.row[a] \in Rows /\ db.cursor \in Heights
    BY <2>1 DEF Receipts, Database
  <2>3. g \in Nat /\ db.cursor \in Nat /\ tip \in Nat
    BY <2>1, <2>2, NativeAssumption DEF Rows, Heights
  <2>4. g > 0 /\ r.born \in chain[g].groups[a]
    BY <1>1, <2>1 DEF SettledOf, HeldAtSource, IsOpen
  <2>5. ~Pending(db.row[a]) /\ g <= db.cursor
    BY <1>1 DEF Complete
  <2>6. Untouched(chain, a, g, db.cursor)
    BY <2>1, <2>2, <2>4, <2>5 DEF Fresh
  <2>7. g \in 1..tip /\ db.cursor \in 1..tip
    BY <2>1, <2>3, <2>4, <2>5
  <2>8. ASSUME NEW k \in g+1..db.cursor PROVE a \notin chain[k].addresses
    <3>1. k \in Heights
      BY <2>2, <2>3, NativeAssumption DEF Heights
    <3>2. Change(chain, k).addresses = chain[k].addresses
      BY <2>1, <3>1, BlockChanges, ForcedType DEF Change
    <3>3. QED
      BY <2>6, <3>2 DEF Untouched, Touches
  <2> HIDE DEF a, g
  <2>9. chain[db.cursor].groups[a] = chain[g].groups[a]
    BY <1>1, <2>2, <2>5, <2>7, <2>8 DEF ReceiptInv, GroupsKept
  <2>10. r.born \in chain[db.cursor].groups[a]
    BY <2>4, <2>9
  <2>11. QED
    BY <2>10 DEF a
<1>2. Inv /\ ReceiptInv => OpenMeansHeld
  BY <1>1 DEF OpenMeansHeld
<1>3. QED
  BY <1>2, ReceiptInvariant, PTL

-----------------------------------------------------------------------------
(* Repeated events.                                                        *)

\* An invalidation for height h requires h, or what was required.
LEMMA InvalidateRequires ==
    ASSUME NEW d \in Database, NEW h \in Heights, NEW changes, ChangesOK(changes),
           NEW moved, NEW owned \in SUBSET Addr, NEW a \in Addr, HasRow(d, a)
    PROVE  Invalidate(d, h, changes, moved, owned).row[a].required \in {d.row[a].required, h}
<1> DEFINE forced == Forced(h, changes)
           e == Request(d, h, forced)
           as == owned \cap (moved \cup Dirtied(d, h, changes))
           f == Ensure(e, h, as)
<1>1. d.row[a] \in Rows /\ d.row[a].required \in Nat /\ h \in Nat /\ h > 0
  <2>1. d.row[a] \in Rows
    BY DEF Database
  <2>2. QED
    BY <2>1, NativeAssumption DEF Rows, Heights
<1>0. ChangesOK(forced)
  BY ForcedType
<1>6. Invalidate(d, h, changes, moved, owned) = f
  BY DEF Invalidate
<1> HIDE DEF forced
<1>2. e.row[a] = IF a \in Raised(d, h, forced)
                   THEN [d.row[a] EXCEPT !.required = h] ELSE d.row[a]
  BY DEF Request, Database
<1>3. e.row[a].required \in {d.row[a].required, h}
  BY <1>1, <1>2, RequireType
<1>4. HasRow(e, a)
  BY <1>1, <1>3 DEF HasRow
<1>5. e \in Database
  BY <1>0, RequestFurthers DEF Furthers
<1> HIDE DEF e, as
<1>7. f.row[a] = e.row[a]
  BY <1>4, <1>5 DEF Ensure, Database
<1>8. QED
  BY <1>3, <1>6, <1>7

\* Repeating an event of an old block requires no more of newer evidence than it
\* has: Request raises a requirement to the height of the event, not of the
\* cursor.
THEOREM ReplayKeeps == Spec => ReplayKeepsNewerEvidence
<1>1. ASSUME Inv, NEW h \in Heights, NEW a \in Addr,
             Reprocess(h), Complete(db, a), h <= db.row[a].source
      PROVE  Complete(db', a)
  <2>1. PICK changes \in RepeatedChanges :
          Commit(Reprocessed(db, h, changes, chain[db.cursor].owned), TRUE)
    BY <1>1 DEF Reprocess
  <2> DEFINE owned == chain[db.cursor].owned
             e == Invalidate(db, h, changes, {}, owned)
  <2>2. db \in Database /\ ChangesOK(changes) /\ owned \in SUBSET Addr
    <3>1. chain \in [Heights -> Block] /\ db \in Database
      BY <1>1 DEF Inv, TypeOK
    <3>2. chain[db.cursor] \in Block
      BY <3>1 DEF Database
    <3>3. QED
      BY <3>1, <3>2, RepeatedChangesType DEF Block
  <2>3. db' = Recomputed(e, Dirtied(db, h, changes))
    BY <2>1 DEF Commit, Reprocessed
  <2>4. h \in Heights /\ Dirtied(db, h, changes) \in SUBSET Addr
    BY <2>2, DirtiedType
  <2>5. Invalidates(db, e)
    BY <2>2, InvalidateInvalidates
  <2>6. HasRow(db, a)
    BY <1>1 DEF Complete
  <2>7. e.row[a].required \in {db.row[a].required, h}
    BY <2>2, <2>6, InvalidateRequires
  <2>8. e \in Database /\ e.cursor = db.cursor /\ e.row[a].source = db.row[a].source
    BY <2>5 DEF Invalidates
  <2> HIDE DEF e
  <2>9. db'.row = e.row /\ db'.cursor = db.cursor
    BY <2>3, <2>4, <2>8, RecomputedType
  <2>10. db.row[a] \in Rows /\ h \in Nat /\ h > 0
    BY <2>2 DEF Database, Heights
  <2>11. db.row[a].required \in Nat /\ db.row[a].source \in Nat
    BY <2>10, NativeAssumption DEF Rows
  <2>12. e.row[a].required > 0 /\ ~(e.row[a].source < e.row[a].required)
    BY <1>1, <2>7, <2>8, <2>10, <2>11 DEF Complete, HasRow, Pending
  <2>13. QED
    BY <1>1, <2>8, <2>9, <2>12 DEF Complete, HasRow, Pending
<1>2. Inv /\ [Next]_vars
        => [\A h \in Heights, a \in Addr :
              Reprocess(h) /\ Complete(db, a) /\ h <= db.row[a].source
                => Complete(db', a)]_vars
  BY <1>1
<1>3. QED
  BY <1>2, Invariant, PTL DEF ReplayKeepsNewerEvidence, Spec

=============================================================================
