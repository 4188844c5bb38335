----------------------------- MODULE BlockProofs -----------------------------
(***************************************************************************)
(* Proofs about module BlockEvents, for every chain, every older database, *)
(* every number of blocks, faults and repairs: the inventory is the sum of *)
(* the ledger, timelines are numbered densely, every attack of an indexed  *)
(* block is on its timeline once no error is left, a row of the error log  *)
(* is resolved only after its event took effect, and the raw mirror has    *)
(* whole blocks and no hole.                                               *)
(*                                                                         *)
(* The work on a block is a fold over its events and a sum over its rows;  *)
(* both are functions defined by recursion on finite sets, and the first   *)
(* two sections say what the proofs need to know of them. Then come the    *)
(* invariant of the work on one block, event by event (WorkOK, Follows,    *)
(* Did), what flushing it does to the tables (TablesOK, Flushes), and the  *)
(* inductive invariant of the commands (Inv), action by action.            *)
(***************************************************************************)
EXTENDS BlockEvents, WellFoundedInduction, SequenceTheorems, FunctionTheorems,
        FiniteSetTheorems, TLAPS

------------------------------------------------------------------------------
(* Folds. A fold over a sequence is a function on sets of its indices that *)
(* is defined by recursion; it exists, and its values along 1..0, 1..1,    *)
(* 1..2, ... are what a loop over the sequence computes.                   *)

\* A set of numbers that is not empty has a least one.
LEMMA LeastNumber ==
    ASSUME NEW T \in SUBSET Nat, T # {}
    PROVE  \E x \in T : \A y \in T : x <= y
<1>1. \E x \in T : \A y \in T : ~ (<< y, x >> \in OpToRel(<, Nat))
    BY WFMin, NatLessThanWellFounded
<1>2. PICK x \in T : \A y \in T : ~ (<< y, x >> \in OpToRel(<, Nat))
    BY <1>1
<1>3. ASSUME NEW y \in T PROVE x <= y
    <2>1. ~(y < x)
        BY <1>2 DEF OpToRel
    <2> QED BY <2>1
<1> QED BY <1>3

\* Induction along 0..n, for a set instead of a formula.
LEMMA Steps ==
    ASSUME NEW n \in Nat, NEW T, 0 \in T, \A i \in 0..(n - 1) : i \in T => i + 1 \in T
    PROVE  \A i \in 0..n : i \in T
<1> DEFINE missing == { i \in 0..n : i \notin T }
<1> SUFFICES ASSUME missing # {} PROVE FALSE
    OBVIOUS
<1>1. missing \in SUBSET Nat
    OBVIOUS
<1>2. PICK m \in missing : \A i \in missing : m <= i
    BY <1>1, LeastNumber
<1>3. m # 0 /\ m - 1 \in 0..(n - 1) /\ m - 1 \notin missing
    BY <1>2
<1> QED BY <1>2, <1>3

\* The largest of a set up to m + 1 that has m + 1.
LEMMA Top ==
    ASSUME NEW m \in Nat, NEW S \in SUBSET (1..(m + 1)), m + 1 \in S
    PROVE  Max(S) = m + 1 /\ S \ {m + 1} \in SUBSET (1..m)
<1>1. \A x \in S : m + 1 >= x
  OBVIOUS
<1>2. \A x \in S : (\A y \in S : x >= y) => x = m + 1
  OBVIOUS
<1>3. Max(S) = m + 1
  BY <1>1, <1>2 DEF Max
<1>4. ASSUME NEW x \in S \ {m + 1} PROVE x \in 1..m
  OBVIOUS
<1> QED BY <1>3, <1>4

\* The three folds: events of a block, rows of a timeline, rows of the error log.
Step(kind, h, acc, x) ==
    CASE kind = "dispatch" -> DispatchOneEvent(acc, h, x)
      [] kind = "timeline" -> SequenceRow(acc, x)
      [] OTHER -> ReplayRow(acc, x)

\* g is the recursive function of a fold over the first n elements of s.
IsFold(g, kind, h, base, s, n) ==
    g = [S \in SUBSET (1..n) |->
            IF S = {} THEN base ELSE Step(kind, h, g[S \ {Max(S)}], s[Max(S)])]

\* The recursive function of a fold exists, whatever is folded: over the events
\* of a block, the rows of a timeline or the rows of the error log.
LEMMA FoldExists ==
    ASSUME NEW kind, NEW h, NEW base, NEW s, NEW n \in Nat
    PROVE  \E g : IsFold(g, kind, h, base, s, n)
<1> DEFINE T == { m \in 0..n : \E g : IsFold(g, kind, h, base, s, m) }
<1>1. 0 \in T
  <2>1. SUBSET (1..0) = {{}}
    OBVIOUS
  <2>2. IsFold([S \in SUBSET (1..0) |-> base], kind, h, base, s, 0)
    BY <2>1 DEF IsFold
  <2> QED BY <2>2
<1>2. ASSUME NEW m \in 0..(n - 1), m \in T PROVE m + 1 \in T
  <2>1. PICK g : IsFold(g, kind, h, base, s, m)
    BY <1>2
  <2> DEFINE e == [S \in SUBSET (1..(m + 1)) |->
                     IF m + 1 \in S THEN Step(kind, h, g[S \ {m + 1}], s[m + 1]) ELSE g[S]]
  <2>2. ASSUME NEW S \in SUBSET (1..(m + 1)), S # {}
        PROVE  e[S] = Step(kind, h, e[S \ {Max(S)}], s[Max(S)])
    <3>1. CASE m + 1 \in S
      <4>1. Max(S) = m + 1 /\ S \ {m + 1} \in SUBSET (1..m)
        BY <3>1, Top
      <4>2. m + 1 \notin S \ {m + 1} /\ S \ {m + 1} \in SUBSET (1..(m + 1))
        BY <4>1
      <4> QED BY <3>1, <4>1, <4>2
    <3>2. CASE m + 1 \notin S
      <4>1. ASSUME NEW x \in S PROVE x \in 1..m
        BY <3>2
      <4>4. S \in SUBSET (1..m) /\ S \ {Max(S)} \in SUBSET (1..m)
        BY <4>1
      <4>2. g[S] = Step(kind, h, g[S \ {Max(S)}], s[Max(S)])
        BY <2>1, <2>2, <4>4 DEF IsFold
      <4>3. e[S \ {Max(S)}] = g[S \ {Max(S)}] /\ e[S] = g[S]
        BY <3>2, <4>4
      <4> QED BY <4>2, <4>3
    <3> QED BY <3>1, <3>2
  <2>3. e[{}] = base
    BY <2>1 DEF IsFold
  <2>4. e = [S \in SUBSET (1..(m + 1)) |->
               IF S = {} THEN base ELSE Step(kind, h, e[S \ {Max(S)}], s[Max(S)])]
    BY <2>2, <2>3
  <2>5. IsFold(e, kind, h, base, s, m + 1)
    BY <2>4 DEF IsFold
  <2> QED BY <2>5
<1>3. \A i \in 0..n : i \in T
  BY <1>1, <1>2, Steps
<1> QED BY <1>3

\* f is the loop over s: f[i] is what it has after i elements.
Chain(f, kind, h, base, s) ==
    /\ f[0] = base
    /\ \A i \in 1..Len(s) : f[i] = Step(kind, h, f[i - 1], s[i])

\* Along 1..0, 1..1, ... the function of a fold takes one step at a time, as the
\* loops of the router, of the buffers and of the replay do.
LEMMA FoldChain ==
    ASSUME NEW kind, NEW h, NEW base, NEW E, NEW s \in Seq(E),
           NEW g, IsFold(g, kind, h, base, s, Len(s))
    PROVE  Chain([i \in 0..Len(s) |-> g[1..i]], kind, h, base, s)
<1>1. g[1..0] = base
  <2>1. 1..0 = {} /\ 1..0 \in SUBSET (1..Len(s))
    OBVIOUS
  <2> QED BY <2>1 DEF IsFold
<1>2. ASSUME NEW i \in 1..Len(s) PROVE g[1..i] = Step(kind, h, g[1..(i - 1)], s[i])
  <2>1. 1..i \in SUBSET (1..Len(s)) /\ 1..i # {}
    OBVIOUS
  <2>2. Max(1..i) = i /\ (1..i) \ {i} = 1..(i - 1)
    BY DEF Max
  <2> QED BY <2>1, <2>2 DEF IsFold
<1> QED BY <1>1, <1>2 DEF Chain

\* DispatchEvents is a loop over the events, DispatchOneEvent by DispatchOneEvent.
LEMMA DispatchChain ==
    ASSUME NEW w, NEW h, NEW E, NEW s \in Seq(E)
    PROVE  \E f : /\ f[0] = w
                  /\ \A i \in 1..Len(s) : f[i] = DispatchOneEvent(f[i - 1], h, s[i])
                  /\ DispatchEvents(w, h, s) = f[Len(s)]
<1> DEFINE Equation(g) ==
      g = [S \in SUBSET (DOMAIN s) |->
             IF S = {} THEN w ELSE DispatchOneEvent(g[S \ {Max(S)}], h, s[Max(S)])]
<1>1. DOMAIN s = 1..Len(s) /\ Len(s) \in Nat
  OBVIOUS
<1>2. PICK e : IsFold(e, "dispatch", h, w, s, Len(s))
  BY <1>1, FoldExists
<1>3. Equation(e)
  BY <1>1, <1>2 DEF IsFold, Step
<1>4. \E g : Equation(g) /\ DispatchEvents(w, h, s) = g[DOMAIN s]
  BY <1>3 DEF DispatchEvents, FoldLeft, MapThenFoldSet
<1>5. PICK g : Equation(g) /\ DispatchEvents(w, h, s) = g[DOMAIN s]
  BY <1>4
<1>6. IsFold(g, "dispatch", h, w, s, Len(s))
  BY <1>1, <1>5 DEF IsFold, Step
<1>7. Chain([i \in 0..Len(s) |-> g[1..i]], "dispatch", h, w, s)
  BY <1>6, FoldChain
<1> DEFINE f == [i \in 0..Len(s) |-> g[1..i]]
<1>8. f[0] = w
  BY <1>7 DEF Chain
<1>9. \A i \in 1..Len(s) : f[i] = DispatchOneEvent(f[i - 1], h, s[i])
  BY <1>7 DEF Chain, Step
<1>10. DispatchEvents(w, h, s) = f[Len(s)]
  BY <1>1, <1>5
<1> QED BY <1>8, <1>9, <1>10

\* FlushPlanetActivity is a loop over the buffered rows, SequenceRow by SequenceRow.
LEMMA TimelineChain ==
    ASSUME NEW w, NEW E, NEW s \in Seq(E)
    PROVE  \E f : /\ f[0] = w
                  /\ \A i \in 1..Len(s) : f[i] = SequenceRow(f[i - 1], s[i])
                  /\ FlushPlanetActivity(w, s) = f[Len(s)]
<1> DEFINE Equation(g) ==
      g = [S \in SUBSET (DOMAIN s) |->
             IF S = {} THEN w ELSE SequenceRow(g[S \ {Max(S)}], s[Max(S)])]
<1>1. DOMAIN s = 1..Len(s) /\ Len(s) \in Nat
  OBVIOUS
<1>2. PICK e : IsFold(e, "timeline", 0, w, s, Len(s))
  BY <1>1, FoldExists
<1>3. Equation(e)
  BY <1>1, <1>2 DEF IsFold, Step
<1>4. \E g : Equation(g) /\ FlushPlanetActivity(w, s) = g[DOMAIN s]
  BY <1>3 DEF FlushPlanetActivity, FoldLeft, MapThenFoldSet
<1>5. PICK g : Equation(g) /\ FlushPlanetActivity(w, s) = g[DOMAIN s]
  BY <1>4
<1>6. IsFold(g, "timeline", 0, w, s, Len(s))
  BY <1>1, <1>5 DEF IsFold, Step
<1>7. Chain([i \in 0..Len(s) |-> g[1..i]], "timeline", 0, w, s)
  BY <1>6, FoldChain
<1> DEFINE f == [i \in 0..Len(s) |-> g[1..i]]
<1>8. f[0] = w
  BY <1>7 DEF Chain
<1>9. \A i \in 1..Len(s) : f[i] = SequenceRow(f[i - 1], s[i])
  BY <1>7 DEF Chain, Step
<1>10. FlushPlanetActivity(w, s) = f[Len(s)]
  BY <1>1, <1>5
<1> QED BY <1>8, <1>9, <1>10

\* Replayed is a loop over row ids, ReplayRow by ReplayRow.
LEMMA ReplayFold ==
    ASSUME NEW trip, NEW E, NEW s \in Seq(E)
    PROVE  \E f : /\ f[0] = [work |-> Work(db, << >>, trip), done |-> << >>]
                  /\ \A i \in 1..Len(s) : f[i] = ReplayRow(f[i - 1], s[i])
                  /\ Replayed(s, trip) = f[Len(s)]
<1> DEFINE w == [work |-> Work(db, << >>, trip), done |-> << >>]
<1> DEFINE Equation(g) ==
      g = [S \in SUBSET (DOMAIN s) |->
             IF S = {} THEN w ELSE ReplayRow(g[S \ {Max(S)}], s[Max(S)])]
<1>1. DOMAIN s = 1..Len(s) /\ Len(s) \in Nat
  OBVIOUS
<1>2. PICK e : IsFold(e, "replay", 0, w, s, Len(s))
  BY <1>1, FoldExists
<1>3. Equation(e)
  BY <1>1, <1>2 DEF IsFold, Step
<1>4. \E g : Equation(g) /\ Replayed(s, trip) = g[DOMAIN s]
  BY <1>3 DEF Replayed, FoldLeft, MapThenFoldSet
<1>5. PICK g : Equation(g) /\ Replayed(s, trip) = g[DOMAIN s]
  BY <1>4
<1>6. IsFold(g, "replay", 0, w, s, Len(s))
  BY <1>1, <1>5 DEF IsFold, Step
<1>7. Chain([i \in 0..Len(s) |-> g[1..i]], "replay", 0, w, s)
  BY <1>6, FoldChain
<1> DEFINE f == [i \in 0..Len(s) |-> g[1..i]]
<1>8. f[0] = w
  BY <1>7 DEF Chain
<1>9. \A i \in 1..Len(s) : f[i] = ReplayRow(f[i - 1], s[i])
  BY <1>7 DEF Chain, Step
<1>10. Replayed(s, trip) = f[Len(s)]
  BY <1>1, <1>5
<1> QED BY <1>8, <1>9, <1>10

\* A replay of a height goes through the error log by ascending id.
LEMMA ReplayChain ==
    ASSUME NEW trip, NEW E, errorLog \in Seq(E)
    PROVE  \E f : /\ f[0] = [work |-> Work(db, << >>, trip), done |-> << >>]
                  /\ \A i \in 1..Len(errorLog) : f[i] = ReplayRow(f[i - 1], i)
                  /\ Replayed(AllIds, trip) = f[Len(errorLog)]
<1>1. /\ AllIds \in Seq(Nat) /\ Len(AllIds) = Len(errorLog)
      /\ \A i \in 1..Len(errorLog) : AllIds[i] = i
  BY DEF AllIds
<1>2. PICK f : /\ f[0] = [work |-> Work(db, << >>, trip), done |-> << >>]
               /\ \A i \in 1..Len(AllIds) : f[i] = ReplayRow(f[i - 1], AllIds[i])
               /\ Replayed(AllIds, trip) = f[Len(AllIds)]
  BY <1>1, ReplayFold
<1> QED BY <1>1, <1>2
------------------------------------------------------------------------------
(* Sums of ledger rows. MapThenSumSet takes the rows in an order that it   *)
(* does not say; the sum is the same in every order.                       *)

\* Induction over the subsets of a finite set, for a set F instead of a formula.
LEMMA Grow ==
    ASSUME NEW S, IsFiniteSet(S), NEW F, {} \in F,
           \A T \in SUBSET S : \A x \in S \ T : T \in F => T \cup {x} \in F
    PROVE  \A T \in SUBSET S : T \in F
<1> DEFINE N == { n \in Nat : \A T \in SUBSET S : Cardinality(T) = n => T \in F }
<1> DEFINE m == Cardinality(S)
<1>1. \A T \in SUBSET S : IsFiniteSet(T) /\ Cardinality(T) \in Nat /\ Cardinality(T) <= m
  BY FS_Subset, FS_CardinalityType
<1>2. m \in Nat
  BY FS_CardinalityType
<1>3. 0 \in N
  BY <1>1, FS_EmptySet
<1>4. ASSUME NEW n \in 0..(m - 1), n \in N PROVE n + 1 \in N
  <2>1. ASSUME NEW T \in SUBSET S, Cardinality(T) = n + 1 PROVE T \in F
    <3>1. T # {} /\ IsFiniteSet(T)
      BY <1>1, <1>4, <2>1, FS_EmptySet
    <3>2. PICK x \in T : TRUE
      BY <3>1
    <3>3. Cardinality(T \ {x}) = n /\ T \ {x} \in SUBSET S
      <4>1. Cardinality(T \ {x}) = Cardinality(T) - 1
        BY <3>1, <3>2, FS_RemoveElement
      <4> QED BY <1>2, <2>1, <4>1
    <3>4. T \ {x} \in F /\ x \in S \ (T \ {x})
      BY <1>4, <3>2, <3>3
    <3>5. (T \ {x}) \cup {x} = T
      BY <3>2
    <3> QED BY <3>3, <3>4, <3>5
  <2> QED BY <2>1
<1>5. \A n \in 0..m : n \in N
  <2> HIDE DEF m, N
  <2> QED BY <1>2, <1>3, <1>4, Steps
<1> QED BY <1>1, <1>2, <1>5

\* The sum of the changes of ledger rows.
Total(rows) == MapThenSumSet(LAMBDA r : r.change, rows)

\* g is the recursive function of a sum over the subsets of S.
IsSum(g, S) ==
    g = [T \in SUBSET S |->
            IF T = {} THEN 0
            ELSE (CHOOSE x \in T : TRUE).change + g[T \ {CHOOSE x \in T : TRUE}]]

\* The recursive function of a sum exists.
LEMMA SumExists ==
    ASSUME NEW S, IsFiniteSet(S)
    PROVE  \E g : IsSum(g, S)
<1> DEFINE First(T) == CHOOSE x \in T : TRUE
<1> DEFINE UpTo(n, g) == g = [T \in SUBSET S |->
              IF T = {} \/ Cardinality(T) > n THEN 0 ELSE First(T).change + g[T \ {First(T)}]]
<1> DEFINE N == { n \in Nat : \E g : UpTo(n, g) }
<1> DEFINE m == Cardinality(S)
<1>1. \A T \in SUBSET S : IsFiniteSet(T) /\ Cardinality(T) \in Nat /\ Cardinality(T) <= m
  BY FS_Subset, FS_CardinalityType
<1>2. m \in Nat
  BY FS_CardinalityType
<1>3. \A T \in SUBSET S : T # {} =>
         First(T) \in T /\ T \ {First(T)} \in SUBSET S
         /\ Cardinality(T \ {First(T)}) = Cardinality(T) - 1 /\ Cardinality(T) > 0
  <2> SUFFICES ASSUME NEW T \in SUBSET S, T # {}
               PROVE  First(T) \in T /\ T \ {First(T)} \in SUBSET S
                      /\ Cardinality(T \ {First(T)}) = Cardinality(T) - 1 /\ Cardinality(T) > 0
    OBVIOUS
  <2>1. First(T) \in T
    OBVIOUS
  <2>2. Cardinality(T \ {First(T)}) = Cardinality(T) - 1
    BY <1>1, <2>1, FS_RemoveElement
  <2>3. Cardinality(T) \in Nat /\ Cardinality(T) # 0
    BY <1>1, FS_EmptySet
  <2> QED BY <2>1, <2>2, <2>3
<1>4. 0 \in N
  <2>1. UpTo(0, [T \in SUBSET S |-> 0])
    BY <1>3
  <2> QED BY <2>1
<1>5. ASSUME NEW n \in 0..(m - 1), n \in N PROVE n + 1 \in N
  <2>1. PICK g : UpTo(n, g)
    BY <1>5
  <2> DEFINE e == [T \in SUBSET S |->
                     IF Cardinality(T) = n + 1 THEN First(T).change + g[T \ {First(T)}] ELSE g[T]]
  <2>2. ASSUME NEW T \in SUBSET S
        PROVE  e[T] = IF T = {} \/ Cardinality(T) > n + 1 THEN 0
                      ELSE First(T).change + e[T \ {First(T)}]
    <3>1. CASE T = {}
      BY <1>5, <2>1, <3>1, FS_EmptySet
    <3>2. CASE T # {} /\ Cardinality(T) > n + 1
      <4>1. g[T] = 0
        BY <1>1, <2>1, <3>2
      <4> QED BY <3>2, <4>1
    <3>3. CASE T # {} /\ Cardinality(T) <= n + 1
      <4> DEFINE R == T \ {First(T)}
      <4>1. R \in SUBSET S /\ Cardinality(R) = Cardinality(T) - 1 /\ Cardinality(T) \in Nat
        BY <1>1, <1>3, <3>3
      <4>2. e[R] = g[R]
        BY <3>3, <4>1
      <4>3. e[T] = First(T).change + g[R]
        <5>1. CASE Cardinality(T) = n + 1
          BY <5>1
        <5>2. CASE Cardinality(T) <= n
          <6>1. g[T] = First(T).change + g[R]
            BY <2>1, <3>3, <4>1, <5>2
          <6> QED BY <4>1, <5>2, <6>1
        <5> QED BY <3>3, <4>1, <5>1, <5>2
      <4> HIDE DEF R
      <4>4. e[T] = First(T).change + e[R]
        BY <4>2, <4>3
      <4> QED BY <3>3, <4>1, <4>4 DEF R
    <3> QED BY <1>1, <3>1, <3>2, <3>3
  <2>3. n + 1 \in Nat
    BY <1>2
  <2>4. \E f : UpTo(n + 1, f)
    <3>1. e = [T \in SUBSET S |-> e[T]]
      OBVIOUS
    <3> HIDE DEF e, First
    <3>2. UpTo(n + 1, e)
      BY <2>2, <3>1, Zenon
    <3> QED BY <3>2
  <2> QED BY <2>3, <2>4
<1>6. \A n \in 0..m : n \in N
  <2> HIDE DEF m, N
  <2> QED BY <1>2, <1>4, <1>5, Steps
<1>7. PICK g : UpTo(m, g)
  <2>1. m \in 0..m
    BY <1>2
  <2> QED BY <1>6, <2>1
<1>8. \A T \in SUBSET S : ~(Cardinality(T) > m)
  BY <1>1, <1>2
<1>9. IsSum(g, S)
  BY <1>7, <1>8 DEF IsSum
<1> QED BY <1>9

\* The total of ledger rows is a value of such a function.
LEMMA TotalIsSum ==
    ASSUME NEW S, IsFiniteSet(S)
    PROVE  \E g : IsSum(g, S) /\ Total(S) = g[S]
<1>1. PICK e : IsSum(e, S)
  BY SumExists
<1> QED BY <1>1 DEF IsSum, Total, MapThenSumSet, MapThenFoldSet

\* A sum does not depend on the order in which the rows are taken.
LEMMA SumOrder ==
    ASSUME NEW S, IsFiniteSet(S), \A r \in S : r.change \in Int, NEW g, IsSum(g, S)
    PROVE  \A T \in SUBSET S : g[T] \in Int /\ \A y \in T : g[T] = y.change + g[T \ {y}]
<1> DEFINE Good(T) == g[T] \in Int /\ \A y \in T : g[T] = y.change + g[T \ {y}]
<1> DEFINE N == { n \in Nat : \A T \in SUBSET S : Cardinality(T) <= n => Good(T) }
<1> DEFINE m == Cardinality(S)
<1>1. \A T \in SUBSET S : IsFiniteSet(T) /\ Cardinality(T) \in Nat /\ Cardinality(T) <= m
  BY FS_Subset, FS_CardinalityType
<1>2. m \in Nat
  BY FS_CardinalityType
<1>3. 0 \in N
  <2>1. \A T \in SUBSET S : Cardinality(T) <= 0 => T = {}
    BY <1>1, FS_EmptySet
  <2>2. g[{}] = 0
    BY DEF IsSum
  <2>3. Good({})
    BY <2>2
  <2> HIDE DEF Good
  <2> QED BY <2>1, <2>3
<1>4. ASSUME NEW n \in 0..(m - 1), n \in N PROVE n + 1 \in N
  <2>1. ASSUME NEW T \in SUBSET S, Cardinality(T) = n + 1 PROVE Good(T)
    <3>1. n \in Nat /\ T # {}
      BY <1>2, <2>1, FS_EmptySet
    <3>2. ASSUME NEW y \in T PROVE T \ {y} \in SUBSET S /\ Good(T \ {y})
      <4>1. Cardinality(T \ {y}) = Cardinality(T) - 1
        BY <1>1, FS_RemoveElement
      <4>2. Cardinality(T \ {y}) = n
        BY <2>1, <3>1, <4>1
      <4>3. T \ {y} \in SUBSET S /\ Cardinality(T \ {y}) <= n
        BY <3>1, <4>2
      <4> HIDE DEF Good
      <4> QED BY <1>4, <4>3
    <3>3. ASSUME NEW y \in T, NEW z \in T PROVE g[(T \ {z}) \ {y}] \in Int
      <4>1. Cardinality((T \ {z}) \ {y}) <= Cardinality(T \ {z})
        BY <1>1, FS_Subset
      <4>2. Cardinality(T \ {z}) = Cardinality(T) - 1
        BY <1>1, FS_RemoveElement
      <4>3. Cardinality((T \ {z}) \ {y}) <= n
        BY <1>1, <2>1, <3>1, <4>1, <4>2
      <4> QED BY <1>4, <4>3
    <3> DEFINE c == CHOOSE x \in T : TRUE
    <3>4. c \in T /\ g[T] = c.change + g[T \ {c}]
      BY <3>1 DEF IsSum
    <3> HIDE DEF c
    <3>5. g[T] \in Int
      <4>1. g[T \ {c}] \in Int /\ c.change \in Int
        BY <3>2, <3>4
      <4> QED BY <3>4, <4>1
    <3>6. ASSUME NEW y \in T, y # c PROVE g[T] = y.change + g[T \ {y}]
      <4>1. g[T \ {c}] = y.change + g[(T \ {c}) \ {y}]
        BY <3>2, <3>4, <3>6
      <4>2. g[T \ {y}] = c.change + g[(T \ {y}) \ {c}]
        BY <3>2, <3>4, <3>6
      <4>3. (T \ {c}) \ {y} = (T \ {y}) \ {c}
        OBVIOUS
      <4>4. c.change \in Int /\ y.change \in Int /\ g[(T \ {c}) \ {y}] \in Int
        BY <3>3, <3>4
      <4> DEFINE u == g[(T \ {c}) \ {y}]
      <4>5. g[T \ {y}] = c.change + u /\ g[T] = c.change + (y.change + u)
        BY <3>4, <4>1, <4>2, <4>3
      <4>6. u \in Int
        BY <4>4
      <4> HIDE DEF u
      <4> QED BY <4>4, <4>5, <4>6
    <3> QED BY <3>4, <3>5, <3>6
  <2>2. ASSUME NEW T \in SUBSET S, Cardinality(T) <= n + 1, Cardinality(T) # n + 1 PROVE Good(T)
    <3>1. Cardinality(T) <= n
      BY <1>1, <1>2, <2>2
    <3> QED BY <1>4, <3>1
  <2>3. n + 1 \in Nat
    BY <1>2
  <2> HIDE DEF Good
  <2> QED BY <2>1, <2>2, <2>3
<1>5. m \in N
  <2> HIDE DEF m, N
  <2>1. \A n \in 0..m : n \in N
    BY <1>2, <1>3, <1>4, Steps
  <2> QED BY <1>2, <2>1
<1> QED BY <1>1, <1>5

\* The sum of a subset is the same whatever set it is taken of.
LEMMA SumsAgree ==
    ASSUME NEW S, IsFiniteSet(S), NEW R \in SUBSET S,
           NEW g, IsSum(g, S), NEW e, IsSum(e, R)
    PROVE  g[R] = e[R]
<1> DEFINE N == { n \in Nat : \A T \in SUBSET R : Cardinality(T) <= n => g[T] = e[T] }
<1> DEFINE m == Cardinality(R)
<1>1. \A T \in SUBSET R : IsFiniteSet(T) /\ Cardinality(T) \in Nat /\ Cardinality(T) <= m
  <2>1. IsFiniteSet(R)
    BY FS_Subset
  <2> QED BY <2>1, FS_Subset, FS_CardinalityType
<1>2. m \in Nat
  BY <1>1
<1>3. 0 \in N
  <2>1. \A T \in SUBSET R : Cardinality(T) <= 0 => T = {}
    BY <1>1, FS_EmptySet
  <2>2. g[{}] = 0 /\ e[{}] = 0
    BY DEF IsSum
  <2> QED BY <2>1, <2>2
<1>4. ASSUME NEW n \in 0..(m - 1), n \in N PROVE n + 1 \in N
  <2>1. ASSUME NEW T \in SUBSET R, Cardinality(T) <= n + 1 PROVE g[T] = e[T]
    <3>1. CASE T = {}
      BY <3>1 DEF IsSum
    <3>2. CASE T # {}
      <4> DEFINE c == CHOOSE x \in T : TRUE
      <4>1. c \in T /\ g[T] = c.change + g[T \ {c}] /\ e[T] = c.change + e[T \ {c}]
        BY <3>2 DEF IsSum
      <4>2. Cardinality(T \ {c}) = Cardinality(T) - 1
        BY <1>1, <4>1, FS_RemoveElement
      <4>3. Cardinality(T \ {c}) <= n
        BY <1>1, <1>2, <2>1, <4>2
      <4>4. g[T \ {c}] = e[T \ {c}]
        BY <1>4, <4>3
      <4> QED BY <4>1, <4>4
    <3> QED BY <3>1, <3>2
  <2> QED BY <1>2, <2>1
<1>5. m \in N
  <2> HIDE DEF m, N
  <2>1. \A n \in 0..m : n \in N
    BY <1>2, <1>3, <1>4, Steps
  <2> QED BY <1>2, <2>1
<1> QED BY <1>1, <1>5

\* The total of ledger rows is that of all but one, and the change of that one.
LEMMA TotalStep ==
    ASSUME NEW S, IsFiniteSet(S), \A r \in S : r.change \in Int
    PROVE  /\ Total(S) \in Int
           /\ \A y \in S : Total(S) = y.change + Total(S \ {y})
<1>1. PICK g : IsSum(g, S) /\ Total(S) = g[S]
  BY TotalIsSum
<1>2. ASSUME NEW y \in S PROVE Total(S \ {y}) = g[S \ {y}]
  <2>1. IsFiniteSet(S \ {y})
    BY FS_Subset
  <2>2. PICK e : IsSum(e, S \ {y}) /\ Total(S \ {y}) = e[S \ {y}]
    BY <2>1, TotalIsSum
  <2> QED BY <1>1, <2>2, SumsAgree
<1> QED BY <1>1, <1>2, SumOrder

\* No rows sum to zero: an account without rows has no inventory.
LEMMA TotalOfNone == Total({}) = 0
<1>1. PICK g : IsSum(g, {}) /\ Total({}) = g[{}]
  BY FS_EmptySet, TotalIsSum
<1> QED BY <1>1 DEF IsSum

\* The total of two sets of rows without a common row is the sum of their totals:
\* rows that are inserted add their own total to the inventory.
LEMMA TotalUnion ==
    ASSUME NEW A, NEW B, IsFiniteSet(A), IsFiniteSet(B), A \cap B = {},
           \A r \in A \cup B : r.change \in Int
    PROVE  Total(A \cup B) = Total(A) + Total(B)
<1> DEFINE F == { T \in SUBSET B : Total(A \cup T) = Total(A) + Total(T) }
<1>1. Total(A) \in Int
  BY TotalStep
<1>2. {} \in F
  BY <1>1, TotalOfNone
<1>3. ASSUME NEW T \in SUBSET B, NEW x \in B \ T, T \in F PROVE T \cup {x} \in F
  <2>1. IsFiniteSet(T \cup {x}) /\ IsFiniteSet(A \cup (T \cup {x})) /\ IsFiniteSet(T)
    <3>1. IsFiniteSet(A \cup B)
      BY FS_Union
    <3> QED BY <3>1, FS_Subset
  <2>2. (T \cup {x}) \ {x} = T /\ (A \cup (T \cup {x})) \ {x} = A \cup T
    BY <1>3
  <2>3. Total(T \cup {x}) = x.change + Total(T)
    BY <2>1, <2>2, TotalStep
  <2>4. Total(A \cup (T \cup {x})) = x.change + Total(A \cup T)
    BY <2>1, <2>2, TotalStep
  <2>5. Total(T) \in Int
    BY <2>1, TotalStep
  <2> QED BY <1>1, <1>3, <2>3, <2>4, <2>5
<1>4. B \in F
  <2> HIDE DEF F
  <2> QED BY <1>2, <1>3, Grow
<1> QED BY <1>4
------------------------------------------------------------------------------
(* The work on one block. The tables that a transaction changes at once,   *)
(* and the buffers of rows, reports and sightings to flush later.          *)

\* The tables, the fields of work, and the tables that work leaves alone until a
\* flush: handlers write the other four at once.
Columns == DOMAIN EmptyDb
WorkFields ==
    {"db", "ledger", "defusion", "activity", "stats", "errors", "failed", "unknown", "trip"}

Buffered == Columns \ {"infusion", "grid", "revisions", "positions"}

\* The events of a block; those that warn; the rows they may report; the timeline
\* rows that they may buffer.
EventsAt(f, h) == ToSet(f[h].ordered)

Warns(p) == p.event.type = "EventGrid" /\ Value(p.event, "gridRecord").id = ""

BlockErrors == { <<"bank.process_block">>, <<"bank.native_claims">> }

Reports(f, h) ==
    { ErrorRow(h, p.tx, p.index, KeyOf(p.event), "error") :
        p \in { q \in EventsAt(f, h) : Registered(q.event.type) } }
    \cup { ErrorRow(h, p.tx, p.index, KeyOf(p.event), "warn") :
             p \in { q \in EventsAt(f, h) : Warns(q) } }
    \cup { ErrorRow(h, NoIndex, NoIndex, key, "error") : key \in BlockErrors }

Sightings(f, h) ==
    { [planet |-> Value(p.event, "eventAttackDetail").planet, at |-> Position(h, p)] :
        p \in EventsAt(f, h) }

\* Finitely many rows of whole amounts; whole fuel; counters of at least one event.
WholeRows(rows) == IsFiniteSet(rows) /\ \A r \in rows : r.change \in Int
WholeFuel(infusion) ==
    \A who \in DOMAIN infusion :
       DOMAIN infusion[who] = {"fuel", "position"} /\ infusion[who].fuel \in Int
Counted(deltas) ==
    \A k \in DOMAIN deltas :
       /\ deltas[k].count \in Nat \ {0} /\ deltas[k].first \in Int /\ deltas[k].last \in Int
       /\ deltas[k].first <= deltas[k].last

\* The work w on the block of height h, on top of the tables b.
WorkOK(w, b, h) ==
    /\ DOMAIN w = WorkFields /\ DOMAIN w.db = Columns
    /\ \A c \in Buffered : w.db[c] = b[c]
    /\ WholeFuel(w.db.infusion) /\ WholeRows(w.ledger)
    /\ w.activity \in Seq(Sightings(feed, h)) /\ w.errors \in Seq(Reports(feed, h))
    /\ Counted(w.unknown) /\ w.failed \in BOOLEAN

\* The tables, by name.
LEMMA Lists ==
  Columns = {"cursor", "ledger", "inventory", "receipts", "infusion", "grid", "stats", "revisions",
     "positions", "activity", "counters", "raw"}
  BY DEF Columns, EmptyDb

\* Buffering whole ledger rows keeps the work of a block well formed.
LEMMA BookedOK ==
    ASSUME NEW w, NEW b, NEW h, WorkOK(w, b, h), NEW rows, WholeRows(rows)
    PROVE  WorkOK([w EXCEPT !.ledger = @ \cup rows], b, h)
<1>1. WholeRows(w.ledger \cup rows)
  BY FS_Union DEF WorkOK, WholeRows
<1> QED BY <1>1 DEF WorkOK, WorkFields

\* So does reporting an error or a warning of one of its events.
LEMMA ReportOK ==
    ASSUME NEW w, NEW b, NEW h, WorkOK(w, b, h), NEW p, NEW s,
           ErrorRow(h, p.tx, p.index, KeyOf(p.event), s) \in Reports(feed, h)
    PROVE  WorkOK(Report(w, h, p, s), b, h) /\ WorkOK([Report(w, h, p, s) EXCEPT !.failed = TRUE], b, h)
<1> DEFINE r == ErrorRow(h, p.tx, p.index, KeyOf(p.event), s)
<1>1. Append(w.errors, r) \in Seq(Reports(feed, h))
  BY DEF WorkOK
<1> HIDE DEF r
<1>2. Report(w, h, p, s) = [w EXCEPT !.errors = Append(@, r)]
  BY DEF Report, r
<1> QED BY <1>1, <1>2 DEF WorkOK, WorkFields

\* So does storing an infusion snapshot.
LEMMA FuelOK ==
    ASSUME NEW w, NEW b, NEW h, WorkOK(w, b, h), NEW X, WholeFuel(X)
    PROVE  WorkOK([w EXCEPT !.db.infusion = X], b, h)
  BY Lists DEF WorkOK, WorkFields, Buffered

\* So does writing the grid or its statistics.
LEMMA GridOK ==
    ASSUME NEW w, NEW b, NEW h, WorkOK(w, b, h), NEW X, NEW Y
    PROVE  WorkOK([w EXCEPT !.db.grid = X], b, h)  /\ WorkOK([w EXCEPT !.stats = Y], b, h)
  BY Lists DEF WorkOK, WorkFields, Buffered

\* So does storing a commission revision with its position.
LEMMA EconomyOK ==
    ASSUME NEW w, NEW b, NEW h, WorkOK(w, b, h), NEW X, NEW Y
    PROVE  WorkOK([w EXCEPT !.db.revisions = X, !.db.positions = Y], b, h)
  BY Lists DEF WorkOK, WorkFields, Buffered

\* So does buffering a sighting for a timeline.
LEMMA TimelineOK ==
    ASSUME NEW w, NEW b, NEW h, WorkOK(w, b, h), NEW r \in Sightings(feed, h)
    PROVE  WorkOK([w EXCEPT !.activity = Append(@, r)], b, h)
<1>1. Append(w.activity, r) \in Seq(Sightings(feed, h))
  BY DEF WorkOK
<1> QED BY <1>1 DEF WorkOK, WorkFields
------------------------------------------------------------------------------
(* Work only grows while the events of a block are handled, and a failure  *)
(* is never taken back.                                                    *)

\* The work v comes after the work w.
Follows(v, w) ==
    /\ ToSet(w.activity) \subseteq ToSet(v.activity) /\ w.ledger \subseteq v.ledger
    /\ v.trip = w.trip /\ (w.failed => v.failed)

\* Work follows itself.
LEMMA FollowsSelf == ASSUME NEW w PROVE Follows(w, w)
  BY DEF Follows

\* Work that follows work that follows other work follows that one.
LEMMA FollowsOn ==
  ASSUME NEW u, NEW v, NEW w, Follows(u, v), Follows(v, w) PROVE Follows(u, w)
  BY DEF Follows

\* Buffering ledger rows takes nothing back.
LEMMA LedgerFollows ==
    ASSUME NEW w, NEW b, NEW h, WorkOK(w, b, h), NEW rows
    PROVE  Follows([w EXCEPT !.ledger = @ \cup rows], w)
  BY DEF Follows, WorkOK, WorkFields

\* Reporting takes nothing back; an error of a handler fails the block.
LEMMA ReportFollows ==
    ASSUME NEW w, NEW b, NEW h, WorkOK(w, b, h), NEW p, NEW s
    PROVE  Follows(Report(w, h, p, s), w) /\ Follows(Fail(w, h, p), w)
           /\ Report(w, h, p, s).errors = Append(w.errors, ErrorRow(h, p.tx, p.index, KeyOf(p.event), s))
           /\ Fail(w, h, p).failed
  BY DEF Follows, Report, Fail, WorkOK, WorkFields

\* Writing the infusion, grid or economy tables takes nothing back.
LEMMA TablesFollow ==
    ASSUME NEW w, NEW b, NEW h, WorkOK(w, b, h), NEW X, NEW Y
    PROVE  /\ Follows([w EXCEPT !.db.infusion = X], w)
           /\ Follows([w EXCEPT !.db.grid = X], w)
           /\ Follows([w EXCEPT !.stats = X], w)
           /\ Follows([w EXCEPT !.db.revisions = X, !.db.positions = Y], w)
  BY DEF Follows, WorkOK, WorkFields

\* Buffering a sighting takes nothing back, and the sighting is buffered.
LEMMA TimelineFollows ==
    ASSUME NEW w, NEW b, NEW h, WorkOK(w, b, h), NEW r \in Sightings(feed, h)
    PROVE  /\ Follows([w EXCEPT !.activity = Append(@, r)], w)
           /\ r \in ToSet([w EXCEPT !.activity = Append(@, r)].activity)
<1>1. w.activity \in Seq(Sightings(feed, h))
  BY DEF WorkOK
<1>2. DOMAIN Append(w.activity, r) = 1..(Len(w.activity) + 1) /\ DOMAIN w.activity = 1..Len(w.activity)
      /\ Len(w.activity) \in Nat
  BY <1>1
<1>3. ToSet(w.activity) \subseteq ToSet(Append(w.activity, r))
  BY <1>1, <1>2 DEF ToSet
<1>4. r \in ToSet(Append(w.activity, r))
  <2>1. Append(w.activity, r)[Len(w.activity) + 1] = r
    BY <1>1
  <2> QED BY <1>2, <2>1 DEF ToSet
<1> QED BY <1>3, <1>4 DEF Follows, WorkOK, WorkFields

\* The ledger has a row for this event.
RowOf(rows, h, p) ==
    \E r \in rows : SubSeq(r.key, 1, 4) = <<h, p.tx, p.msg, LedgerLegStride * p.index>>

\* The key of a row of leg 0 has the event index of its event without an offset.
LEMMA LegZero ==
    ASSUME NEW h, NEW p, p.index \in Int, NEW l, l.leg = 0
    PROVE  SubSeq(LedgerRow(h, p, p.msg, l).key, 1, 4) = <<h, p.tx, p.msg, LedgerLegStride * p.index>>
<1>1. LedgerRow(h, p, p.msg, l).key = <<h, p.tx, p.msg, LedgerLegStride * p.index, l.denom>>
  BY DEF LedgerRow, RowKey, EncodeLedgerEventIndex, LedgerLegStride
<1>2. ASSUME NEW a, NEW b, NEW c, NEW d, NEW e
      PROVE  SubSeq(<<a, b, c, d, e>>, 1, 4) = <<a, b, c, d>>
  <2> DEFINE s == <<a, b, c, d, e>>
  <2>1. s \in Seq({a, b, c, d, e}) /\ Len(s) = 5
    OBVIOUS
  <2>2. SubSeq(s, 1, 4) = [i \in 1..4 |-> s[i]]
    BY <2>1, SubSeqProperties
  <2>3. [i \in 1..4 |-> s[i]] = <<a, b, c, d>>
    OBVIOUS
  <2> QED BY <2>2, <2>3
<1> QED BY <1>1, <1>2

\* A handler that books one leg: its row is buffered, and no error is reported.
LEMMA OneLeg ==
    ASSUME NEW w, NEW b, NEW h, WorkOK(w, b, h), NEW p, NEW l, l.change \in Int
    PROVE  /\ WorkOK(AppendLedger(w, h, p, {l}), b, h) /\ Follows(AppendLedger(w, h, p, {l}), w)
           /\ LedgerRow(h, p, p.msg, l) \in AppendLedger(w, h, p, {l}).ledger
           /\ AppendLedger(w, h, p, {l}).errors = w.errors
<1> DEFINE rows == { LedgerRow(h, p, p.msg, x) : x \in {l} }
<1>1. rows = { LedgerRow(h, p, p.msg, l) }
  OBVIOUS
<1>2. LedgerRow(h, p, p.msg, l).change \in Int
  BY DEF LedgerRow
<1>3. WholeRows(rows)
  <2> HIDE DEF rows
  <2> QED BY <1>1, <1>2, FS_Singleton DEF WholeRows
<1>4. AppendLedger(w, h, p, {l}) = [w EXCEPT !.ledger = @ \cup rows]
  BY DEF AppendLedger
<1>5. [w EXCEPT !.ledger = @ \cup rows].ledger = w.ledger \cup rows
      /\ [w EXCEPT !.ledger = @ \cup rows].errors = w.errors
  <2> HIDE DEF rows
  <2> QED BY DEF WorkOK, WorkFields
<1> HIDE DEF rows
<1> DEFINE v == [w EXCEPT !.ledger = @ \cup rows]
<1>6. WorkOK(v, b, h) /\ Follows(v, w)
  BY <1>3, BookedOK, LedgerFollows
<1>7. LedgerRow(h, p, p.msg, l) \in v.ledger /\ v.errors = w.errors
  BY <1>1, <1>5
<1> HIDE DEF v
<1> QED BY <1>4, <1>6, <1>7 DEF v

\* A handler that books two legs: the row of the first is buffered, and no error
\* is reported.
LEMMA TwoLegs ==
    ASSUME NEW w, NEW b, NEW h, WorkOK(w, b, h), NEW p,
           NEW l, l.change \in Int, NEW k, k.change \in Int
    PROVE  /\ WorkOK(AppendLedger(w, h, p, {l, k}), b, h) /\ Follows(AppendLedger(w, h, p, {l, k}), w)
           /\ LedgerRow(h, p, p.msg, l) \in AppendLedger(w, h, p, {l, k}).ledger
           /\ AppendLedger(w, h, p, {l, k}).errors = w.errors
<1> DEFINE rows == { LedgerRow(h, p, p.msg, x) : x \in {l, k} }
<1>1. rows = { LedgerRow(h, p, p.msg, l) } \cup { LedgerRow(h, p, p.msg, k) }
  OBVIOUS
<1>2. LedgerRow(h, p, p.msg, l).change \in Int /\ LedgerRow(h, p, p.msg, k).change \in Int
  BY DEF LedgerRow
<1>3. WholeRows(rows)
  <2> HIDE DEF rows
  <2>1. IsFiniteSet(rows)
    BY <1>1, FS_Singleton, FS_Union
  <2> QED BY <1>1, <1>2, <2>1 DEF WholeRows
<1>4. AppendLedger(w, h, p, {l, k}) = [w EXCEPT !.ledger = @ \cup rows]
  BY DEF AppendLedger
<1>5. [w EXCEPT !.ledger = @ \cup rows].ledger = w.ledger \cup rows
      /\ [w EXCEPT !.ledger = @ \cup rows].errors = w.errors
  <2> HIDE DEF rows
  <2> QED BY DEF WorkOK, WorkFields
<1> HIDE DEF rows
<1> DEFINE v == [w EXCEPT !.ledger = @ \cup rows]
<1>6. WorkOK(v, b, h) /\ Follows(v, w)
  BY <1>3, BookedOK, LedgerFollows
<1>7. LedgerRow(h, p, p.msg, l) \in v.ledger /\ v.errors = w.errors
  BY <1>1, <1>5
<1> HIDE DEF v
<1> QED BY <1>4, <1>6, <1>7 DEF v
------------------------------------------------------------------------------
(* The handlers, one by one: what an event does to the work.               *)

\* A timeline row before it is numbered; the events that are due one, and those
\* that are due a ledger row.
Sighting(h, p) == [planet |-> Value(p.event, "eventAttackDetail").planet, at |-> Position(h, p)]
IsAttack(p) == p.event.type = "EventAttack" /\ Value(p.event, "eventAttackDetail").planet # ""
IsBooked(p) == p.event.type \in {"EventOreMine", "EventOreTheft", "EventAlphaRefine"}

\* More work on the same block.
Stepped(v, w, b, h) == WorkOK(v, b, h) /\ Follows(v, w)

\* What an event did to the work, unless it raised an error.
Did(v, w, h, p) ==
    /\ v.errors = w.errors \/ v.failed \/ Warns(p)
    /\ v.errors = w.errors =>
          /\ ~Warns(p)
          /\ IsAttack(p) => Sighting(h, p) \in ToSet(v.activity)
          /\ IsBooked(p) => RowOf(v.ledger, h, p)

\* What handling an event comes to.
Handled(v, w, b, h, p) == Stepped(v, w, b, h) /\ Did(v, w, h, p)

\* An event of the served block, with its amounts.
ServedAt(h, p) == p \in EventsAt(feed, h) /\ p.index \in Int /\ WholeAmounts(p.event)

\* A handler that does nothing: right for an event that is due no row.
LEMMA SelfHandled ==
    ASSUME NEW w, NEW b, NEW h, WorkOK(w, b, h), NEW p, ~Warns(p), ~IsAttack(p), ~IsBooked(p)
    PROVE  Handled(w, w, b, h, p)
  BY FollowsSelf DEF Handled, Stepped, Did

\* A handler that fails, or that trips on its way to the database: the error is
\* reported and the block fails.
LEMMA FailHandled ==
    ASSUME NEW w, NEW b, NEW h, WorkOK(w, b, h), NEW p \in EventsAt(feed, h),
           Registered(p.event.type)
    PROVE  Handled(Fail(w, h, p), w, b, h, p)
<1> DEFINE r == ErrorRow(h, p.tx, p.index, KeyOf(p.event), "error")
<1>1. r \in Reports(feed, h)
  BY DEF Reports
<1>2. WorkOK(Fail(w, h, p), b, h)
  BY <1>1, ReportOK DEF Fail
<1>3. Follows(Fail(w, h, p), w) /\ Fail(w, h, p).failed
  BY ReportFollows
<1>4. Fail(w, h, p).errors = Append(w.errors, r)
  <2> HIDE DEF r
  <2> QED BY DEF Fail, Report, WorkOK, WorkFields, r
<1>5. Append(w.errors, r) # w.errors
  <2>1. w.errors \in Seq(Reports(feed, h))
    BY DEF WorkOK
  <2>2. Len(Append(w.errors, r)) = Len(w.errors) + 1 /\ Len(w.errors) \in Nat
    BY <1>1, <2>1
  <2> QED BY <2>2
<1> QED BY <1>2, <1>3, <1>4, <1>5 DEF Handled, Stepped, Did

\* A handler that warns: the warning is reported.
LEMMA WarnHandled ==
    ASSUME NEW w, NEW b, NEW h, WorkOK(w, b, h), NEW p \in EventsAt(feed, h), Warns(p)
    PROVE  Handled(Warn(w, h, p), w, b, h, p)
<1> DEFINE r == ErrorRow(h, p.tx, p.index, KeyOf(p.event), "warn")
<1>1. r \in Reports(feed, h)
  BY DEF Reports
<1>2. WorkOK(Warn(w, h, p), b, h)
  BY <1>1, ReportOK DEF Warn
<1>3. Follows(Warn(w, h, p), w) /\ Warn(w, h, p).errors = Append(w.errors, r)
  BY ReportFollows DEF Warn
<1>5. Append(w.errors, r) # w.errors
  <2>1. w.errors \in Seq(Reports(feed, h))
    BY DEF WorkOK
  <2>2. Len(Append(w.errors, r)) = Len(w.errors) + 1 /\ Len(w.errors) \in Nat
    BY <1>1, <2>1
  <2> QED BY <2>2
<1> QED BY <1>2, <1>3, <1>5 DEF Handled, Stepped, Did

\* EventOreMine books the mined ore.
LEMMA MineHandled ==
    ASSUME NEW w, NEW b, NEW h, WorkOK(w, b, h), NEW p, ServedAt(h, p),
           p.event.type = "EventOreMine"
    PROVE  Handled(OreMine(w, h, p), w, b, h, p)
<1> DEFINE d == Value(p.event, "eventOreMineDetail")
<1> DEFINE l == Leg(0, d.primaryAddress, "", "mined", d.amount, Ore)
<1>1. d.amount \in Int
  BY DEF ServedAt, WholeAmounts, NestedAttribute
<1>2. l.change \in Int /\ l.leg = 0
  BY <1>1 DEF Leg
<1>3. OreMine(w, h, p) = AppendLedger(w, h, p, {l})
  BY DEF OreMine
<1> HIDE DEF l
<1>4. RowOf(AppendLedger(w, h, p, {l}).ledger, h, p)
  BY <1>2, OneLeg, LegZero DEF RowOf, ServedAt
<1>5. Stepped(AppendLedger(w, h, p, {l}), w, b, h)
      /\ AppendLedger(w, h, p, {l}).errors = w.errors
  BY <1>2, OneLeg DEF Stepped
<1> QED BY <1>3, <1>4, <1>5 DEF Handled, Did, Warns, IsAttack

\* EventOreTheft books the seized and the forfeited ore.
LEMMA TheftHandled ==
    ASSUME NEW w, NEW b, NEW h, WorkOK(w, b, h), NEW p, ServedAt(h, p),
           p.event.type = "EventOreTheft"
    PROVE  Handled(OreTheft(w, h, p), w, b, h, p)
<1> DEFINE d == Value(p.event, "eventOreTheftDetail")
<1> DEFINE l == Leg(0, d.thief, d.victim, "seized", d.amount, Ore)
<1> DEFINE k == Leg(1, d.victim, d.thief, "forfeited", -d.amount, Ore)
<1>1. d.amount \in Int
  BY DEF ServedAt, WholeAmounts, NestedAttribute
<1>2. l.change \in Int /\ l.leg = 0 /\ k.change \in Int
  BY <1>1 DEF Leg
<1>3. OreTheft(w, h, p) = AppendLedger(w, h, p, {l, k})
  BY DEF OreTheft
<1> HIDE DEF l, k
<1>4. RowOf(AppendLedger(w, h, p, {l, k}).ledger, h, p)
  BY <1>2, TwoLegs, LegZero DEF RowOf, ServedAt
<1>5. Stepped(AppendLedger(w, h, p, {l, k}), w, b, h)
      /\ AppendLedger(w, h, p, {l, k}).errors = w.errors
  BY <1>2, TwoLegs DEF Stepped
<1> QED BY <1>3, <1>4, <1>5 DEF Handled, Did, Warns, IsAttack

\* EventOreMigrate books the move to the primary address.
LEMMA MigrateHandled ==
    ASSUME NEW w, NEW b, NEW h, WorkOK(w, b, h), NEW p, ServedAt(h, p),
           p.event.type = "EventOreMigrate"
    PROVE  Handled(OreMigrate(w, h, p), w, b, h, p)
<1> DEFINE d == Value(p.event, "eventOreMigrateDetail")
<1> DEFINE l == Leg(0, d.primaryAddress, d.old, "migrated", d.amount, Ore)
<1> DEFINE k == Leg(1, d.old, d.primaryAddress, "migrated", -d.amount, Ore)
<1>1. d.amount \in Int
  BY DEF ServedAt, WholeAmounts, NestedAttribute
<1>2. l.change \in Int /\ k.change \in Int
  BY <1>1 DEF Leg
<1>3. OreMigrate(w, h, p) = AppendLedger(w, h, p, {l, k})
  BY DEF OreMigrate
<1> HIDE DEF l, k
<1>5. Stepped(AppendLedger(w, h, p, {l, k}), w, b, h)
      /\ AppendLedger(w, h, p, {l, k}).errors = w.errors
  BY <1>2, TwoLegs DEF Stepped
<1> QED BY <1>3, <1>5 DEF Handled, Did, Warns, IsAttack, IsBooked

\* EventAlphaRefine books the refined ore and the alpha.
LEMMA RefineHandled ==
    ASSUME NEW w, NEW b, NEW h, WorkOK(w, b, h), NEW p, ServedAt(h, p),
           p.event.type = "EventAlphaRefine"
    PROVE  Handled(AlphaRefine(w, h, p), w, b, h, p)
<1> DEFINE d == Value(p.event, "eventAlphaRefineDetail")
<1> DEFINE l == Leg(0, d.primaryAddress, "", "refined", -d.amount, Ore)
<1> DEFINE k == Leg(1, ReceiptOwner(d), "", "refined", Micro * d.amount, Alpha)
<1>1. d.amount \in Int
  BY DEF ServedAt, WholeAmounts, NestedAttribute
<1>2. l.change \in Int /\ l.leg = 0 /\ k.change \in Int
  BY <1>1, ChainAssumption DEF Leg
<1>3. AlphaRefine(w, h, p) = AppendLedger(w, h, p, {l, k})
  BY DEF AlphaRefine
<1> HIDE DEF l, k
<1>4. RowOf(AppendLedger(w, h, p, {l, k}).ledger, h, p)
  BY <1>2, TwoLegs, LegZero DEF RowOf, ServedAt
<1>5. Stepped(AppendLedger(w, h, p, {l, k}), w, b, h)
      /\ AppendLedger(w, h, p, {l, k}).errors = w.errors
  BY <1>2, TwoLegs DEF Stepped
<1> QED BY <1>3, <1>4, <1>5 DEF Handled, Did, Warns, IsAttack

\* EventInfusion fails on a position without a phase, skips a snapshot that is not
\* new, or stores it and books what was added.
LEMMA InfusionHandled ==
    ASSUME NEW w, NEW b, NEW h, WorkOK(w, b, h), NEW p, ServedAt(h, p),
           p.event.type = "EventInfusion"
    PROVE  Handled(Infusion(w, h, p), w, b, h, p)
<1> DEFINE d == Value(p.event, "infusion")
           at == Position(h, p)
           known == d.address \in DOMAIN w.db.infusion
           added == IF known THEN d.fuel - w.db.infusion[d.address].fuel ELSE d.fuel
           row == [fuel |-> d.fuel, position |-> at]
           table == Upsert(w.db.infusion, d.address, row)
           stored == [w EXCEPT !.db.infusion = table]
           l == Leg(0, d.address, Generator, "infused", -added, Alpha)
           k == Leg(1, d.address, Generator, "infused", added, Infused("ualpha"))
<1>1. d.fuel \in Int
  BY DEF ServedAt, WholeAmounts
<1>2. added \in Int
  BY <1>1 DEF WorkOK, WholeFuel
<1>3. l.change \in Int /\ k.change \in Int
  BY <1>2 DEF Leg
<1>4. WholeFuel(table)
  <2>1. row.fuel \in Int /\ DOMAIN row = {"fuel", "position"}
    BY <1>1
  <2> HIDE DEF row, d
  <2> QED BY <2>1 DEF WholeFuel, Upsert, WorkOK
<1>5. \/ Infusion(w, h, p) = Fail(w, h, p) \/ Infusion(w, h, p) = w
      \/ Infusion(w, h, p) = stored \/ Infusion(w, h, p) = AppendLedger(stored, h, p, {l, k})
  BY DEF Infusion
<1>6. ~Warns(p) /\ ~IsAttack(p) /\ ~IsBooked(p)
  BY DEF Warns, IsAttack, IsBooked
<1>7. stored.errors = w.errors /\ Stepped(stored, w, b, h)
  <2> HIDE DEF table
  <2>1. WorkOK(stored, b, h) /\ Follows(stored, w)
    BY <1>4, FuelOK, TablesFollow
  <2>2. stored.errors = w.errors
    BY DEF WorkOK, WorkFields
  <2> QED BY <2>1, <2>2 DEF Stepped
<1> HIDE DEF stored, l, k
<1>8. CASE Infusion(w, h, p) = Fail(w, h, p)
  <2>1. Registered(p.event.type)
    BY DEF Registered, NestedAttribute
  <2> QED BY <1>8, <2>1, FailHandled DEF ServedAt
<1>9. CASE Infusion(w, h, p) = w
  BY <1>9, <1>6, SelfHandled
<1>10. CASE Infusion(w, h, p) = stored
  BY <1>10, <1>6, <1>7 DEF Handled, Did
<1>11. CASE Infusion(w, h, p) = AppendLedger(stored, h, p, {l, k})
  <2>1. WorkOK(stored, b, h) /\ Follows(stored, w)
    BY <1>7 DEF Stepped
  <2>2. /\ WorkOK(AppendLedger(stored, h, p, {l, k}), b, h)
        /\ Follows(AppendLedger(stored, h, p, {l, k}), stored)
        /\ AppendLedger(stored, h, p, {l, k}).errors = stored.errors
    BY <1>3, <2>1, TwoLegs
  <2>3. Follows(AppendLedger(stored, h, p, {l, k}), w)
    BY <2>1, <2>2, FollowsOn
  <2> QED BY <1>11, <1>6, <1>7, <2>2, <2>3 DEF Handled, Stepped, Did
<1> QED BY <1>5, <1>8, <1>9, <1>10, <1>11

\* Writing the grid and its statistics in one handler.
LEMMA StatHandled ==
    ASSUME NEW w, NEW b, NEW h, WorkOK(w, b, h), NEW X, NEW Y
    PROVE  /\ Stepped([[w EXCEPT !.db.grid = X] EXCEPT !.stats = Y], w, b, h)
           /\ [[w EXCEPT !.db.grid = X] EXCEPT !.stats = Y].errors = w.errors
<1> DEFINE u == [w EXCEPT !.db.grid = X]
<1>1. WorkOK(u, b, h) /\ Follows(u, w)
  BY GridOK, TablesFollow
<1>2. u.errors = w.errors
  BY DEF WorkOK, WorkFields
<1> HIDE DEF u
<1> DEFINE v == [u EXCEPT !.stats = Y]
<1>3. WorkOK(v, b, h) /\ Follows(v, u)
  BY <1>1, GridOK, TablesFollow
<1>4. v.errors = u.errors
  BY <1>1 DEF WorkOK, WorkFields
<1>5. Stepped(v, w, b, h) /\ v.errors = w.errors
  BY <1>1, <1>2, <1>3, <1>4, FollowsOn DEF Stepped
<1> QED BY <1>5 DEF u

\* EventGrid warns without an id, or writes the grid with its statistic if it changed.
LEMMA GridHandled ==
    ASSUME NEW w, NEW b, NEW h, WorkOK(w, b, h), NEW p, ServedAt(h, p),
           p.event.type = "EventGrid"
    PROVE  Handled(Grid(w, h, p), w, b, h, p)
<1> DEFINE d == Value(p.event, "gridRecord")
<1>1. CASE d.id = ""
  <2>1. Warns(p) /\ Grid(w, h, p) = Warn(w, h, p)
    BY <1>1 DEF Warns, Grid
  <2> QED BY <2>1, WarnHandled DEF ServedAt
<1>2. CASE d.id # ""
  <2>1. ~Warns(p) /\ ~IsAttack(p) /\ ~IsBooked(p)
    BY <1>2 DEF Warns, IsAttack, IsBooked
  <2>2. \/ Grid(w, h, p) = w
        \/ \E X, Y : Grid(w, h, p) = [[w EXCEPT !.db.grid = X] EXCEPT !.stats = Y]
    <3> DEFINE removed == [w EXCEPT !.db.grid = Restrict(@, DOMAIN @ \ {d.id})]
               written == [w EXCEPT !.db.grid = Upsert(@, d.id, d.val)]
    <3>1. \/ Grid(w, h, p) = w
          \/ Grid(w, h, p) = WriteGridStat(removed, h, d.id, 0)
          \/ Grid(w, h, p) = WriteGridStat(written, h, d.id, d.val)
      BY <1>2 DEF Grid
    <3>2. CASE Grid(w, h, p) = WriteGridStat(removed, h, d.id, 0)
      <4> DEFINE X == Restrict(w.db.grid, DOMAIN w.db.grid \ {d.id})
      <4>1. removed = [w EXCEPT !.db.grid = X]
        OBVIOUS
      <4> HIDE DEF X, removed
      <4>2. \E Y : WriteGridStat(removed, h, d.id, 0) = [removed EXCEPT !.stats = Y]
        BY DEF WriteGridStat
      <4> QED BY <3>2, <4>1, <4>2
    <3>3. CASE Grid(w, h, p) = WriteGridStat(written, h, d.id, d.val)
      <4> DEFINE X == Upsert(w.db.grid, d.id, d.val)
      <4>1. written = [w EXCEPT !.db.grid = X]
        OBVIOUS
      <4> HIDE DEF X, written
      <4>2. \E Y : WriteGridStat(written, h, d.id, d.val) = [written EXCEPT !.stats = Y]
        BY DEF WriteGridStat
      <4> QED BY <3>3, <4>1, <4>2
    <3> QED BY <3>1, <3>2, <3>3
  <2>3. CASE Grid(w, h, p) = w
    BY <2>1, <2>3, SelfHandled
  <2>4. ASSUME NEW X, NEW Y, Grid(w, h, p) = [[w EXCEPT !.db.grid = X] EXCEPT !.stats = Y]
        PROVE  Handled(Grid(w, h, p), w, b, h, p)
    <3> DEFINE v == [[w EXCEPT !.db.grid = X] EXCEPT !.stats = Y]
    <3>1. Stepped(v, w, b, h) /\ v.errors = w.errors
      BY StatHandled
    <3> HIDE DEF v
    <3>2. Handled(v, w, b, h, p)
      BY <2>1, <3>1 DEF Handled, Did
    <3> QED BY <2>4, <3>2 DEF v
  <2> QED BY <2>2, <2>3, <2>4
<1> QED BY <1>1, <1>2

\* EventAttack buffers a sighting of the planet, if there is one.
LEMMA AttackHandled ==
    ASSUME NEW w, NEW b, NEW h, WorkOK(w, b, h), NEW p, ServedAt(h, p),
           p.event.type = "EventAttack"
    PROVE  Handled(Attack(w, h, p), w, b, h, p)
<1> DEFINE planet == Value(p.event, "eventAttackDetail").planet
<1>1. CASE planet = ""
  <2>1. Attack(w, h, p) = w
    BY <1>1 DEF Attack
  <2>2. ~Warns(p) /\ ~IsAttack(p) /\ ~IsBooked(p)
    BY <1>1 DEF Warns, IsAttack, IsBooked
  <2> QED BY <2>1, <2>2, SelfHandled
<1>2. CASE planet # ""
  <2> DEFINE r == Sighting(h, p)
  <2>1. r \in Sightings(feed, h)
    BY DEF Sighting, Sightings, ServedAt
  <2>2. Attack(w, h, p) = [w EXCEPT !.activity = Append(@, r)]
    BY <1>2 DEF Attack, Sighting
  <2>3. ~Warns(p) /\ ~IsBooked(p)
    BY DEF Warns, IsBooked
  <2> HIDE DEF r
  <2> DEFINE v == [w EXCEPT !.activity = Append(@, r)]
  <2>4. WorkOK(v, b, h)
    BY <2>1, TimelineOK
  <2>5. Follows(v, w) /\ r \in ToSet(v.activity)
    BY <2>1, TimelineFollows
  <2>6. v.errors = w.errors
    BY DEF WorkOK, WorkFields
  <2> HIDE DEF v
  <2>7. Handled(v, w, b, h, p)
    BY <2>3, <2>4, <2>5, <2>6 DEF Handled, Stepped, Did, r
  <2> QED BY <2>2, <2>7 DEF v
<1> QED BY <1>1, <1>2

\* Commission revisions and resets write the economy tables only.
LEMMA EconomyHandled ==
    ASSUME NEW w, NEW b, NEW h, WorkOK(w, b, h), NEW p, ServedAt(h, p), p.event.type \in WholeEvents
    PROVE  /\ Handled(CommissionRevision(w, h, p), w, b, h, p)
           /\ Handled(CommissionReset(w, h, p), w, b, h, p)
<1>1. ~Warns(p) /\ ~IsAttack(p) /\ ~IsBooked(p)
  BY DEF Warns, IsAttack, IsBooked, WholeEvents
<1>2. ASSUME NEW X, NEW Y
      PROVE  Handled([w EXCEPT !.db.revisions = X, !.db.positions = Y], w, b, h, p)
  <2> DEFINE v == [w EXCEPT !.db.revisions = X, !.db.positions = Y]
  <2>1. Stepped(v, w, b, h)
    BY EconomyOK, TablesFollow DEF Stepped
  <2>2. v.errors = w.errors
    BY DEF WorkOK, WorkFields
  <2> HIDE DEF v
  <2>3. Handled(v, w, b, h, p)
    BY <1>1, <2>1, <2>2 DEF Handled, Did
  <2> QED BY <2>3 DEF v
<1>3. Handled(w, w, b, h, p)
  BY <1>1, SelfHandled
<1>4. Handled(CommissionRevision(w, h, p), w, b, h, p)
  <2> DEFINE id == Value(p.event, "reactorId")
             X == Upsert(w.db.revisions, id, Value(p.event, "slashRevision"))
             Y == Upsert(w.db.positions, id, Position(h, p))
  <2>1. \/ CommissionRevision(w, h, p) = w
        \/ CommissionRevision(w, h, p) = [w EXCEPT !.db.revisions = X, !.db.positions = Y]
    BY Lists DEF CommissionRevision, WorkOK, WorkFields
  <2> HIDE DEF X, Y
  <2> DEFINE v == [w EXCEPT !.db.revisions = X, !.db.positions = Y]
  <2>2. Handled(v, w, b, h, p)
    BY <1>2
  <2> HIDE DEF v
  <2>3. CASE CommissionRevision(w, h, p) = w
    BY <1>3, <2>3
  <2>4. CASE CommissionRevision(w, h, p) = v
    BY <2>2, <2>4
  <2> QED BY <2>1, <2>3, <2>4 DEF v
<1>5. Handled(CommissionReset(w, h, p), w, b, h, p)
  <2> DEFINE at == Position(h, p)
             newer == { k \in DOMAIN w.db.positions : PositionBefore(at, w.db.positions[k]) }
             X == Restrict(w.db.revisions, DOMAIN w.db.revisions \cap newer)
             Y == Upsert(Restrict(w.db.positions, newer), "", at)
  <2>1. \/ CommissionReset(w, h, p) = w
        \/ CommissionReset(w, h, p) = [w EXCEPT !.db.revisions = X, !.db.positions = Y]
    BY Lists DEF CommissionReset, WorkOK, WorkFields
  <2> HIDE DEF X, Y
  <2> DEFINE v == [w EXCEPT !.db.revisions = X, !.db.positions = Y]
  <2>2. Handled(v, w, b, h, p)
    BY <1>2
  <2> HIDE DEF v
  <2>3. CASE CommissionReset(w, h, p) = w
    BY <1>3, <2>3
  <2>4. CASE CommissionReset(w, h, p) = v
    BY <2>2, <2>4
  <2> QED BY <2>1, <2>3, <2>4 DEF v
<1> QED BY <1>4, <1>5

\* Every registered event is handled as its kind demands.
LEMMA HandleHandled ==
    ASSUME NEW w, NEW b, NEW h, WorkOK(w, b, h), NEW p, ServedAt(h, p), Registered(p.event.type)
    PROVE  Handled(Handle(w, h, p), w, b, h, p)
<1> DEFINE type == p.event.type
<1>0. type \in WholeEvents \/ type \in {"EventOreMine", "EventOreTheft", "EventOreMigrate",
         "EventAlphaRefine", "EventAlphaInfuse", "EventInfusion", "EventAttack", "EventGrid"}
  BY DEF Registered, NestedAttribute
<1>1. CASE type = "EventOreMine"
  BY <1>1, MineHandled DEF Handle
<1>2. CASE type = "EventOreTheft"
  BY <1>2, TheftHandled DEF Handle
<1>3. CASE type = "EventOreMigrate"
  BY <1>3, MigrateHandled DEF Handle
<1>4. CASE type = "EventAlphaRefine"
  BY <1>4, RefineHandled DEF Handle
<1>5. CASE type = "EventAlphaInfuse"
  <2>1. Handle(w, h, p) = w
    BY <1>5 DEF Handle, AlphaInfuse
  <2>2. ~Warns(p) /\ ~IsAttack(p) /\ ~IsBooked(p)
    BY <1>5 DEF Warns, IsAttack, IsBooked
  <2> QED BY <2>1, <2>2, SelfHandled
<1>6. CASE type = "EventInfusion"
  BY <1>6, InfusionHandled DEF Handle
<1>7. CASE type = "EventGrid"
  BY <1>7, GridHandled DEF Handle
<1>8. CASE type = "EventAttack"
  BY <1>8, AttackHandled DEF Handle
<1>9. CASE type \in WholeEvents
  <2>1. Handle(w, h, p) \in {CommissionRevision(w, h, p), CommissionReset(w, h, p)}
    BY <1>9 DEF Handle, WholeEvents
  <2> QED BY <1>9, <2>1, EconomyHandled
<1> QED BY <1>0, <1>1, <1>2, <1>3, <1>4, <1>5, <1>6, <1>7, <1>8, <1>9

\* Also when the handler trips.
LEMMA RunHandled ==
    ASSUME NEW w, NEW b, NEW h, WorkOK(w, b, h), NEW p, ServedAt(h, p), Registered(p.event.type)
    PROVE  Handled(Run(w, h, p), w, b, h, p)
  BY FailHandled, HandleHandled DEF Run, ServedAt
------------------------------------------------------------------------------
(* Dispatch of the events of a block, and its bank rows.                   *)

\* The lesser and the greater of two numbers.
LEMMA MinMax ==
    ASSUME NEW a \in Int, NEW c \in Int
    PROVE  /\ Min({a, c}) \in Int /\ Min({a, c}) <= a /\ Min({a, c}) <= c
           /\ Max({a, c}) \in Int /\ Max({a, c}) >= a /\ Max({a, c}) >= c
<1>1. \E x \in {a, c} : \A y \in {a, c} : x <= y
  OBVIOUS
<1>2. \E x \in {a, c} : \A y \in {a, c} : x >= y
  OBVIOUS
<1> QED BY <1>1, <1>2 DEF Min, Max

\* Counting an unknown key keeps its counter a count of at least one event, first
\* seen no later than last.
LEMMA CountOK ==
    ASSUME NEW deltas, Counted(deltas), NEW keys, NEW h \in Int
    PROVE  Counted(Count(deltas, keys, h))
<1> DEFINE c == Count(deltas, keys, h)
<1>1. DOMAIN c = DOMAIN deltas \cup keys
  BY DEF Count
<1>2. ASSUME NEW k \in DOMAIN c
      PROVE  /\ c[k].count \in Nat \ {0} /\ c[k].first \in Int /\ c[k].last \in Int
             /\ c[k].first <= c[k].last
  <2>1. CASE k \notin keys
    BY <1>1, <1>2, <2>1 DEF Count, Counted
  <2>2. CASE k \in keys /\ k \notin DOMAIN deltas
    BY <1>1, <1>2, <2>2 DEF Count
  <2>3. CASE k \in keys /\ k \in DOMAIN deltas
    <3>1. c[k] = [count |-> deltas[k].count + 1,
                  first |-> Min({deltas[k].first, h}), last |-> Max({deltas[k].last, h})]
      BY <2>3 DEF Count
    <3> HIDE DEF c
    <3>2. /\ deltas[k].count \in Nat \ {0} /\ deltas[k].first \in Int /\ deltas[k].last \in Int
      BY <2>3 DEF Counted
    <3>3. Min({deltas[k].first, h}) \in Int /\ Max({deltas[k].last, h}) \in Int
          /\ Min({deltas[k].first, h}) <= h /\ h <= Max({deltas[k].last, h})
      BY <3>2, MinMax
    <3> QED BY <3>1, <3>2, <3>3
  <2> QED BY <1>1, <2>1, <2>2, <2>3
<1> HIDE DEF c
<1> QED BY <1>2 DEF Counted, c

\* What dispatching an event comes to.
Dispatched(v, w, b, h, p) ==
    /\ Stepped(v, w, b, h)
    /\ ~v.failed /\ IsAttack(p) => Sighting(h, p) \in ToSet(v.activity)

\* One event of a block: an attack is buffered unless the block failed.
LEMMA DispatchOne ==
    ASSUME NEW w, NEW b, NEW h \in Int, WorkOK(w, b, h), NEW p, ServedAt(h, p)
    PROVE  Dispatched(DispatchOneEvent(w, h, p), w, b, h, p)
<1>1. CASE w.failed
  <2>1. DispatchOneEvent(w, h, p) = w
    BY <1>1 DEF DispatchOneEvent
  <2> QED BY <1>1, <2>1, FollowsSelf DEF Dispatched, Stepped
<1>2. CASE ~w.failed /\ ~Registered(p.event.type)
  <2> DEFINE X == Count(w.unknown, UnknownKeys(p.event), h)
             Y == StrictUnknown /\ UnknownKeys(p.event) # {}
             v == [w EXCEPT !.unknown = X, !.failed = Y]
  <2>1. DispatchOneEvent(w, h, p) = v
    BY <1>2 DEF DispatchOneEvent
  <2>2. Counted(X)
    BY CountOK DEF WorkOK
  <2>3. Y \in BOOLEAN
    OBVIOUS
  <2>4. ~IsAttack(p)
    BY <1>2 DEF IsAttack, Registered, NestedAttribute
  <2> HIDE DEF X, Y
  <2>5. WorkOK(v, b, h)
    BY <2>2, <2>3 DEF WorkOK, WorkFields
  <2>6. Follows(v, w)
    BY <1>2 DEF Follows, WorkOK, WorkFields
  <2> HIDE DEF v
  <2> QED BY <2>1, <2>4, <2>5, <2>6 DEF Dispatched, Stepped
<1>3. CASE ~w.failed /\ Registered(p.event.type) /\ WellFormed(p.event)
  <2>1. DispatchOneEvent(w, h, p) = Run(w, h, p)
    BY <1>3 DEF DispatchOneEvent
  <2>2. Handled(Run(w, h, p), w, b, h, p)
    BY <1>3, RunHandled
  <2>3. IsAttack(p) => ~Warns(p)
    BY DEF IsAttack, Warns
  <2> QED BY <2>1, <2>2, <2>3 DEF Handled, Did, Dispatched
<1>4. CASE ~w.failed /\ Registered(p.event.type) /\ ~WellFormed(p.event)
  <2>1. DispatchOneEvent(w, h, p) = Fail(w, h, p)
    BY <1>4 DEF DispatchOneEvent
  <2>2. Fail(w, h, p).failed /\ Handled(Fail(w, h, p), w, b, h, p)
    BY <1>4, ReportFollows, FailHandled DEF ServedAt
  <2> QED BY <2>1, <2>2 DEF Handled, Dispatched
<1> QED BY <1>1, <1>2, <1>3, <1>4

\* The first n attacks of the list are buffered.
AllSeen(v, h, s, n) ==
    ~v.failed => \A j \in 1..n : IsAttack(s[j]) => Sighting(h, s[j]) \in ToSet(v.activity)

\* All of them: every attack of the block is buffered unless it failed.
LEMMA DispatchAll ==
    ASSUME NEW w, NEW b, NEW h \in Int, WorkOK(w, b, h), NEW E, NEW s \in Seq(E),
           \A p \in E : ServedAt(h, p)
    PROVE  Stepped(DispatchEvents(w, h, s), w, b, h) /\ AllSeen(DispatchEvents(w, h, s), h, s, Len(s))
<1>1. PICK f : /\ f[0] = w
               /\ \A i \in 1..Len(s) : f[i] = DispatchOneEvent(f[i - 1], h, s[i])
               /\ DispatchEvents(w, h, s) = f[Len(s)]
  BY DispatchChain
<1>2. Len(s) \in Nat /\ \A i \in 1..Len(s) : s[i] \in E
  OBVIOUS
<1> DEFINE T == { i \in 0..Len(s) : Stepped(f[i], w, b, h) /\ AllSeen(f[i], h, s, i) }
<1>3. 0 \in T
  BY <1>1, <1>2, FollowsSelf DEF Stepped, AllSeen
<1>4. ASSUME NEW i \in 0..(Len(s) - 1), i \in T PROVE i + 1 \in T
  <2>1. i + 1 \in 1..Len(s) /\ (i + 1) - 1 = i
    BY <1>2
  <2>2. f[i + 1] = DispatchOneEvent(f[i], h, s[i + 1])
    BY <1>1, <2>1
  <2>3. WorkOK(f[i], b, h) /\ Follows(f[i], w) /\ AllSeen(f[i], h, s, i)
    BY <1>4 DEF Stepped
  <2>4. ServedAt(h, s[i + 1])
    BY <1>2, <2>1
  <2>5. Dispatched(f[i + 1], f[i], b, h, s[i + 1])
    BY <2>2, <2>3, <2>4, DispatchOne
  <2>6. Stepped(f[i + 1], w, b, h)
    BY <2>3, <2>5, FollowsOn DEF Dispatched, Stepped
  <2>7. AllSeen(f[i + 1], h, s, i + 1)
    <3> SUFFICES ASSUME ~f[i + 1].failed, NEW j \in 1..(i + 1), IsAttack(s[j])
                 PROVE  Sighting(h, s[j]) \in ToSet(f[i + 1].activity)
      BY DEF AllSeen
    <3>1. CASE j = i + 1
      BY <2>5, <3>1 DEF Dispatched
    <3>2. CASE j # i + 1
      <4>1. j \in 1..i
        BY <3>2
      <4>2. Follows(f[i + 1], f[i])
        BY <2>5 DEF Dispatched, Stepped
      <4>3. ~f[i].failed
        BY <4>2 DEF Follows
      <4>4. Sighting(h, s[j]) \in ToSet(f[i].activity)
        BY <2>3, <4>1, <4>3 DEF AllSeen
      <4> QED BY <4>2, <4>4 DEF Follows
    <3> QED BY <3>1, <3>2
  <2> QED BY <2>1, <2>6, <2>7
<1>5. \A i \in 0..Len(s) : i \in T
  <2> HIDE DEF T
  <2> QED BY <1>2, <1>3, <1>4, Steps
<1>6. Stepped(f[Len(s)], w, b, h) /\ AllSeen(f[Len(s)], h, s, Len(s))
  BY <1>2, <1>5
<1> QED BY <1>1, <1>6

\* The bank rows of a block are buffered, or their error is reported and the block
\* fails.
LEMMA BankOK ==
    ASSUME NEW w, NEW b, NEW h, WorkOK(w, b, h), NEW block, WholeRows(block.ledger)
    PROVE  Stepped(ProcessBank(w, h, block), w, b, h)
<1>1. CASE w.failed
  <2>1. ProcessBank(w, h, block) = w
    BY <1>1 DEF ProcessBank
  <2> QED BY <2>1, FollowsSelf DEF Stepped
<1>2. CASE ~w.failed /\ block.bankValid
  <2> DEFINE u == [w EXCEPT !.ledger = @ \cup block.ledger]
             X == w.defusion \cup block.defusion
             v == [u EXCEPT !.defusion = X]
  <2>1. ProcessBank(w, h, block) = v
    BY <1>2 DEF ProcessBank, WorkOK, WorkFields
  <2>2. WorkOK(u, b, h) /\ Follows(u, w)
    BY BookedOK, LedgerFollows
  <2> HIDE DEF u, X
  <2>3. WorkOK(v, b, h)
    BY <2>2 DEF WorkOK, WorkFields
  <2>4. Follows(v, w)
    BY <2>2 DEF Follows, WorkOK, WorkFields
  <2> HIDE DEF v
  <2> QED BY <2>1, <2>3, <2>4 DEF Stepped
<1>3. CASE ~w.failed /\ ~block.bankValid
  <2> DEFINE r == ErrorRow(h, NoIndex, NoIndex, <<"bank.process_block">>, "error")
             X == Append(w.errors, r)
             v == [w EXCEPT !.failed = TRUE, !.errors = X]
  <2>1. ProcessBank(w, h, block) = v
    BY <1>3 DEF ProcessBank
  <2>2. r \in Reports(feed, h)
    BY DEF Reports, BlockErrors
  <2> HIDE DEF r
  <2>3. X \in Seq(Reports(feed, h))
    BY <2>2 DEF WorkOK
  <2> HIDE DEF X
  <2>4. WorkOK(v, b, h)
    BY <2>3 DEF WorkOK, WorkFields
  <2>5. Follows(v, w)
    BY DEF Follows, WorkOK, WorkFields
  <2> HIDE DEF v
  <2> QED BY <2>1, <2>4, <2>5 DEF Stepped
<1> QED BY <1>1, <1>2, <1>3

\* The invalidation of the native claims may only fail the block, with a report.
LEMMA InvalidateOK ==
    ASSUME NEW w, NEW b, NEW h, WorkOK(w, b, h)
    PROVE  Stepped(InvalidateNative(w, h), w, b, h)
<1>1. CASE w.failed \/ w.trip # NativeTrip
  <2>1. InvalidateNative(w, h) = w
    BY <1>1 DEF InvalidateNative
  <2> QED BY <2>1, FollowsSelf DEF Stepped
<1>2. CASE ~(w.failed \/ w.trip # NativeTrip)
  <2> DEFINE r == ErrorRow(h, NoIndex, NoIndex, <<"bank.native_claims">>, "error")
             X == Append(w.errors, r)
             v == [w EXCEPT !.failed = TRUE, !.errors = X]
  <2>1. InvalidateNative(w, h) = v
    BY <1>2 DEF InvalidateNative
  <2>2. r \in Reports(feed, h)
    BY DEF Reports, BlockErrors
  <2> HIDE DEF r
  <2>3. X \in Seq(Reports(feed, h))
    BY <2>2 DEF WorkOK
  <2> HIDE DEF X
  <2>4. WorkOK(v, b, h)
    BY <2>3 DEF WorkOK, WorkFields
  <2>5. Follows(v, w)
    BY DEF Follows, WorkOK, WorkFields
  <2> HIDE DEF v
  <2> QED BY <2>1, <2>4, <2>5 DEF Stepped
<1> QED BY <1>1, <1>2
------------------------------------------------------------------------------
(* The committed tables: timelines and inventory.                          *)

\* Timelines numbered 0, 1, 2, ... up to their counter, each number once.
Dense(t) ==
    /\ \A r \in t.activity :
          r.planet \in DOMAIN t.counters /\ r.seq \in 0..t.counters[r.planet]
    /\ \A planet \in DOMAIN t.counters :
          /\ t.counters[planet] \in Nat
          /\ \A n \in 0..t.counters[planet] :
                \E r \in t.activity : r.planet = planet /\ r.seq = n
    /\ \A r, q \in t.activity : r.planet = q.planet /\ r.seq = q.seq => r = q

\* The account of a row, its rows, and an inventory that is the sum of them.
Account(r) == <<r.address, r.denom>>
RowsOf(rows, a) == { r \in rows : Account(r) = a }

SumsOf(inventory, rows) ==
    /\ DOMAIN inventory = { Account(r) : r \in rows }
    /\ \A a \in DOMAIN inventory : inventory[a] = Total(RowsOf(rows, a))

Summed(t) == SumsOf(t.inventory, t.ledger)

\* The invariant of the tables on their own.
TablesOK(t) ==
    /\ DOMAIN t = Columns /\ WholeRows(t.ledger) /\ WholeFuel(t.infusion)
    /\ Dense(t) /\ Summed(t)

\* What INSERT ... ON CONFLICT DO UPDATE leaves in a table.
LEMMA UpsertOK ==
    ASSUME NEW table, NEW k, NEW row
    PROVE  /\ DOMAIN Upsert(table, k, row) = DOMAIN table \cup {k}
           /\ Upsert(table, k, row)[k] = row
           /\ \A x \in DOMAIN table : x # k => Upsert(table, k, row)[x] = table[x]
  BY DEF Upsert

\* The tables that a timeline row leaves alone.
Sequenced == Columns \ {"activity", "counters"}

\* A sighting is on the timeline.
OnTimeline(activity, planet, at) == \E q \in activity : q.planet = planet /\ q.at = at

\* The tables u are t with more timeline rows.
Extends(u, t) ==
    /\ DOMAIN u = Columns /\ Dense(u) /\ t.activity \subseteq u.activity
    /\ \A c \in Sequenced : u[c] = t[c]

\* A row that takes the next number of its planet's counter keeps the timeline
\* dense, and is on it (ReserveSequence).
LEMMA SequenceOK ==
    ASSUME NEW t, DOMAIN t = Columns, Dense(t), NEW r
    PROVE  /\ Extends(SequenceRow(t, r), t)
           /\ OnTimeline(SequenceRow(t, r).activity, r.planet, r.at)
<1> DEFINE seq == ReserveSequence(t.counters, r.planet)
           row == [planet |-> r.planet, at |-> r.at, seq |-> seq]
           C == Upsert(t.counters, r.planet, seq)
           A == t.activity \cup {row}
           u == [t EXCEPT !.counters = C, !.activity = A]
<1>1. SequenceRow(t, r) = u
  BY DEF SequenceRow
<1>2. row.planet = r.planet /\ row.at = r.at /\ row.seq = seq
  OBVIOUS
<1>4. \/ r.planet \notin DOMAIN t.counters /\ seq = 0
      \/ r.planet \in DOMAIN t.counters /\ seq = t.counters[r.planet] + 1
  BY DEF ReserveSequence
<1> HIDE DEF seq
<1>3. /\ DOMAIN C = DOMAIN t.counters \cup {r.planet} /\ C[r.planet] = seq
      /\ \A x \in DOMAIN t.counters : x # r.planet => C[x] = t.counters[x]
  BY DEF Upsert
<1> HIDE DEF row, C
<1>5. u.counters = C /\ u.activity = A /\ DOMAIN u = Columns /\ \A c \in Sequenced : u[c] = t[c]
  BY Lists DEF Sequenced
<1> HIDE DEF u
<1>6. seq \in Nat
  BY <1>4 DEF Dense
<1>7. ASSUME NEW q \in A PROVE q.planet \in DOMAIN C /\ q.seq \in 0..C[q.planet]
  <2>1. CASE q = row
    BY <1>2, <1>3, <1>6, <2>1
  <2>2. CASE q \in t.activity
    <3>1. q.planet \in DOMAIN t.counters /\ q.seq \in 0..t.counters[q.planet]
          /\ t.counters[q.planet] \in Nat
      BY <2>2 DEF Dense
    <3> QED BY <1>3, <1>4, <3>1
  <2> QED BY <2>1, <2>2
<1>8. ASSUME NEW planet \in DOMAIN C
      PROVE  /\ C[planet] \in Nat
             /\ \A n \in 0..C[planet] : \E q \in A : q.planet = planet /\ q.seq = n
  <2>1. CASE planet # r.planet
    <3>1. planet \in DOMAIN t.counters /\ C[planet] = t.counters[planet]
      BY <1>3, <1>8, <2>1
    <3> QED BY <3>1 DEF Dense
  <2>2. CASE planet = r.planet
    <3>1. C[planet] = seq
      BY <1>3, <2>2
    <3>2. ASSUME NEW n \in 0..seq PROVE \E q \in A : q.planet = planet /\ q.seq = n
      <4>1. CASE n = seq
        BY <1>2, <2>2, <4>1
      <4>2. CASE n # seq
        <5>1. r.planet \in DOMAIN t.counters /\ n \in 0..t.counters[r.planet]
          <6>1. n < seq /\ n \in Nat
            BY <1>6, <4>2
          <6>2. r.planet \in DOMAIN t.counters /\ seq = t.counters[r.planet] + 1
            BY <1>4, <6>1
          <6>3. t.counters[r.planet] \in Nat
            BY <6>2 DEF Dense
          <6> QED BY <6>1, <6>2, <6>3
        <5> QED BY <2>2, <5>1 DEF Dense
      <4> QED BY <4>1, <4>2
    <3> QED BY <1>6, <3>1, <3>2
  <2> QED BY <2>1, <2>2
<1>9. ASSUME NEW q \in t.activity, q.planet = r.planet PROVE q.seq # seq
  <2>1. q.planet \in DOMAIN t.counters /\ q.seq \in 0..t.counters[q.planet]
        /\ t.counters[q.planet] \in Nat
    BY DEF Dense
  <2> QED BY <1>4, <1>9, <2>1
<1>10. ASSUME NEW q \in A, NEW x \in A, q.planet = x.planet, q.seq = x.seq PROVE q = x
  BY <1>2, <1>9, <1>10 DEF Dense
<1>11. Dense(u)
  <2> HIDE DEF A
  <2> QED BY <1>5, <1>7, <1>8, <1>10 DEF Dense
<1> QED BY <1>1, <1>2, <1>5, <1>11 DEF Extends, OnTimeline

\* The rows of a flush, numbered one after the other: dense again, and all there.
LEMMA TimelineAll ==
    ASSUME NEW t, DOMAIN t = Columns, Dense(t), NEW E, NEW s \in Seq(E)
    PROVE  /\ Extends(FlushPlanetActivity(t, s), t)
           /\ \A j \in 1..Len(s) :
                 OnTimeline(FlushPlanetActivity(t, s).activity, s[j].planet, s[j].at)
<1> DEFINE Good(u, i) ==
              /\ Extends(u, t)
              /\ \A j \in 1..i : OnTimeline(u.activity, s[j].planet, s[j].at)
<1>1. PICK f : /\ f[0] = t
               /\ \A i \in 1..Len(s) : f[i] = SequenceRow(f[i - 1], s[i])
               /\ FlushPlanetActivity(t, s) = f[Len(s)]
  BY TimelineChain
<1>2. Len(s) \in Nat
  OBVIOUS
<1> DEFINE T == { i \in 0..Len(s) : Good(f[i], i) }
<1>3. 0 \in T
  BY <1>1, <1>2 DEF Extends
<1>4. ASSUME NEW i \in 0..(Len(s) - 1), i \in T PROVE i + 1 \in T
  <2>1. i + 1 \in 1..Len(s) /\ (i + 1) - 1 = i
    BY <1>2
  <2>2. f[i + 1] = SequenceRow(f[i], s[i + 1])
    BY <1>1, <2>1
  <2>3. Good(f[i], i)
    BY <1>4
  <2>4. /\ Extends(f[i + 1], f[i])
        /\ OnTimeline(f[i + 1].activity, s[i + 1].planet, s[i + 1].at)
    <3>1. DOMAIN f[i] = Columns /\ Dense(f[i])
      BY <2>3 DEF Extends
    <3> QED BY <2>2, <3>1, SequenceOK
  <2>5. ASSUME NEW j \in 1..(i + 1) PROVE OnTimeline(f[i + 1].activity, s[j].planet, s[j].at)
    <3>1. CASE j = i + 1
      BY <2>4, <3>1
    <3>2. CASE j # i + 1
      <4>1. j \in 1..i
        BY <3>2
      <4> QED BY <2>3, <2>4, <4>1 DEF OnTimeline, Extends
    <3> QED BY <3>1, <3>2
  <2>6. Good(f[i + 1], i + 1)
    BY <2>3, <2>4, <2>5 DEF Extends
  <2> QED BY <2>1, <2>6
<1>5. \A i \in 0..Len(s) : i \in T
  <2> HIDE DEF T
  <2> QED BY <1>2, <1>3, <1>4, Steps
<1>6. Good(f[Len(s)], Len(s))
  BY <1>2, <1>5
<1> QED BY <1>1, <1>6

\* ON CONFLICT DO NOTHING: the inserted rows are new to the table, and every
\* buffered key is there afterwards.
LEMMA NewRowsOK ==
    ASSUME NEW stored, NEW rows, WholeRows(rows)
    PROVE  /\ NewRows(stored, rows) \subseteq rows /\ NewRows(stored, rows) \cap stored = {}
           /\ WholeRows(NewRows(stored, rows))
           /\ \A r \in rows : \E q \in stored \cup NewRows(stored, rows) : q.key = r.key
<1> DEFINE Like(k) == { q \in rows : q.key = k }
           K == { r.key : r \in rows } \ { q.key : q \in stored }
           new == NewRows(stored, rows)
<1>1. new = { The(Like(k)) : k \in K }
  BY DEF NewRows
<1>2. ASSUME NEW k \in K PROVE The(Like(k)) \in rows /\ The(Like(k)).key = k
  <2>1. Like(k) # {}
    OBVIOUS
  <2>2. The(Like(k)) \in Like(k)
    BY <2>1 DEF The
  <2> QED BY <2>2
<1>3. new \subseteq rows
  BY <1>1, <1>2
<1>4. new \cap stored = {}
  BY <1>1, <1>2
<1>5. WholeRows(new)
  BY <1>3, FS_Subset DEF WholeRows
<1>6. ASSUME NEW r \in rows PROVE \E q \in stored \cup new : q.key = r.key
  <2>1. CASE r.key \in K
    <3>1. The(Like(r.key)) \in new /\ The(Like(r.key)).key = r.key
      <4> HIDE DEF Like, K, new
      <4> QED BY <1>1, <1>2, <2>1
    <3> QED BY <3>1
  <2>2. CASE r.key \notin K
    BY <2>2
  <2> QED BY <2>1, <2>2
<1> QED BY <1>3, <1>4, <1>5, <1>6

\* Moving the inventory by the inserted rows keeps it the sum of the ledger.
LEMMA AddOK ==
    ASSUME NEW inv, NEW old, NEW new, WholeRows(old), WholeRows(new), old \cap new = {},
           SumsOf(inv, old)
    PROVE  SumsOf(AddToInventory(inv, new), old \cup new)
<1> DEFINE sum == AddToInventory(inv, new)
<1>1. DOMAIN sum = { Account(r) : r \in old } \cup { Account(r) : r \in new }
  <2>1. DOMAIN sum = DOMAIN inv \cup { <<r.address, r.denom>> : r \in new }
    BY DEF AddToInventory
  <2>2. DOMAIN inv = { Account(r) : r \in old }
    BY DEF SumsOf
  <2> HIDE DEF sum
  <2> QED BY <2>1, <2>2 DEF Account
<1>2. ASSUME NEW a \in DOMAIN sum
      PROVE  sum[a] = (IF a \in DOMAIN inv THEN inv[a] ELSE 0) + Total(RowsOf(new, a))
  <2>1. a \in DOMAIN inv \cup { <<r.address, r.denom>> : r \in new }
    BY <1>2 DEF AddToInventory
  <2> QED BY <2>1 DEF AddToInventory, Total, RowsOf, Account
<1> HIDE DEF sum
<1>3. ASSUME NEW a \in DOMAIN sum PROVE sum[a] = Total(RowsOf(old \cup new, a))
  <2> DEFINE A == RowsOf(old, a)
             B == RowsOf(new, a)
  <2>1. /\ A \subseteq old /\ B \subseteq new /\ RowsOf(old \cup new, a) = A \cup B
    BY DEF RowsOf
  <2>2. /\ IsFiniteSet(A) /\ IsFiniteSet(B) /\ A \cap B = {}
        /\ \A r \in A \cup B : r.change \in Int
    BY <2>1, FS_Subset DEF WholeRows
  <2>3. a \notin DOMAIN inv => A = {}
    BY DEF RowsOf, SumsOf
  <2>4. a \in DOMAIN inv => inv[a] = Total(A)
    BY DEF SumsOf
  <2> HIDE DEF A, B
  <2>5. (IF a \in DOMAIN inv THEN inv[a] ELSE 0) = Total(A)
    BY <2>3, <2>4, TotalOfNone
  <2>6. Total(A \cup B) = Total(A) + Total(B)
    BY <2>2, TotalUnion
  <2>7. sum[a] = Total(A) + Total(B)
    BY <1>2, <2>5 DEF B
  <2> QED BY <2>1, <2>6, <2>7
<1>4. { Account(r) : r \in old } \cup { Account(r) : r \in new } = { Account(r) : r \in old \cup new }
  OBVIOUS
<1>5. SumsOf(sum, old \cup new)
  BY <1>1, <1>3, <1>4 DEF SumsOf
<1> QED BY <1>5 DEF sum
------------------------------------------------------------------------------
(* Flushing the work of a block.                                           *)

\* What flushing the work w on the tables b keeps of them, and adds to them.
Flushes(t, w, b) ==
    /\ TablesOK(t) /\ t.cursor = b.cursor /\ t.raw = b.raw
    /\ b.ledger \subseteq t.ledger /\ b.activity \subseteq t.activity
    /\ \A r \in w.ledger : \E q \in t.ledger : q.key = r.key
    /\ \A x \in ToSet(w.activity) : OnTimeline(t.activity, x.planet, x.at)

\* A flush keeps the tables right, loses no row, and leaves a ledger row for every
\* buffered key and a timeline row for every sighting.
LEMMA FlushOK ==
    ASSUME NEW b, TablesOK(b), NEW w, NEW h, WorkOK(w, b, h)
    PROVE  Flushes(Flush(w), w, b)
<1> DEFINE t == FlushPlanetActivity(w.db, w.activity)
           new == NewRows(w.db.ledger, w.ledger)
           L == t.ledger \cup new
           I == AddToInventory(t.inventory, new)
           D == FlushDefusion(t.receipts, w.defusion)
           G == t.stats \cup w.stats
           u == [t EXCEPT !.ledger = L, !.inventory = I, !.receipts = D, !.stats = G]
<1>1. DOMAIN w.db = Columns /\ w.activity \in Seq(Sightings(feed, h)) /\ WholeFuel(w.db.infusion)
      /\ WholeRows(w.ledger) /\ \A c \in Buffered : w.db[c] = b[c]
  BY DEF WorkOK
<1>2. /\ w.db.activity = b.activity /\ w.db.counters = b.counters /\ w.db.ledger = b.ledger
      /\ w.db.inventory = b.inventory /\ w.db.cursor = b.cursor /\ w.db.raw = b.raw
  BY <1>1, Lists DEF Buffered
<1>3. Dense(w.db)
  BY <1>2 DEF Dense, TablesOK
<1>4. /\ Extends(t, w.db)
      /\ \A j \in 1..Len(w.activity) :
            OnTimeline(t.activity, w.activity[j].planet, w.activity[j].at)
  BY <1>1, <1>3, TimelineAll
<1>5. /\ DOMAIN t = Columns /\ Dense(t) /\ b.activity \subseteq t.activity
      /\ t.ledger = b.ledger /\ t.inventory = b.inventory /\ t.cursor = b.cursor
      /\ t.raw = b.raw /\ t.infusion = w.db.infusion
  BY <1>2, <1>4, Lists DEF Extends, Sequenced
<1>6. /\ new \cap b.ledger = {} /\ WholeRows(new)
      /\ \A r \in w.ledger : \E q \in b.ledger \cup new : q.key = r.key
  BY <1>1, <1>2, NewRowsOK
<1>7. Flush(w) = u
  BY DEF Flush, FlushInto, FlushLedger
<1>8. WholeRows(L)
  BY <1>5, <1>6, FS_Union DEF WholeRows, TablesOK
<1>9. SumsOf(I, L)
  <2> HIDE DEF new
  <2>1. WholeRows(b.ledger) /\ SumsOf(b.inventory, b.ledger)
    BY DEF TablesOK, Summed
  <2>2. b.ledger \cap new = {}
    BY <1>6
  <2> QED BY <1>5, <1>6, <2>1, <2>2, AddOK
<1> HIDE DEF t, new
<1>10. L = b.ledger \cup new
  BY <1>5
<1> HIDE DEF L, I, D, G
<1>11. /\ u.ledger = L /\ u.inventory = I /\ DOMAIN u = Columns /\ u.activity = t.activity
       /\ u.counters = t.counters /\ u.cursor = t.cursor /\ u.raw = t.raw
       /\ u.infusion = t.infusion
  BY <1>5, Lists
<1> HIDE DEF u
<1>12. Dense(u)
  BY <1>5, <1>11 DEF Dense
<1>13. Summed(u)
  BY <1>9, <1>11 DEF Summed
<1>14. TablesOK(u)
  BY <1>1, <1>5, <1>8, <1>11, <1>12, <1>13 DEF TablesOK
<1>15. \A x \in ToSet(w.activity) : OnTimeline(u.activity, x.planet, x.at)
  <2>1. DOMAIN w.activity = 1..Len(w.activity)
    BY <1>1
  <2> QED BY <1>4, <1>11, <2>1 DEF ToSet
<1>16. b.ledger \subseteq u.ledger /\ b.activity \subseteq u.activity
       /\ u.cursor = b.cursor /\ u.raw = b.raw
       /\ \A r \in w.ledger : \E q \in u.ledger : q.key = r.key
  BY <1>5, <1>6, <1>10, <1>11
<1> QED BY <1>7, <1>14, <1>15, <1>16 DEF Flushes
------------------------------------------------------------------------------
(* One block inside its transaction.                                       *)

\* What the RPC node serves of a block: events at coordinates of their own.
LEMMA ServedEvents ==
    ASSUME NEW h, WellServed(feed[h])
    PROVE  /\ feed[h].ordered \in Seq(EventsAt(feed, h)) /\ \A p \in EventsAt(feed, h) : ServedAt(h, p)
           /\ WholeRows(feed[h].ledger)
           /\ \A p \in EventsAt(feed, h) : p.tx \in Int
           /\ \A p, q \in EventsAt(feed, h) : p.tx = q.tx /\ p.index = q.index => p = q
  BY DEF WellServed, EventsAt, ServedAt, WholeRows

\* The work on a block starts well formed.
LEMMA WorkStarts ==
    ASSUME NEW b, TablesOK(b), NEW deltas, Counted(deltas), NEW trip, NEW h
    PROVE  WorkOK(Work(b, deltas, trip), b, h) /\ Work(b, deltas, trip).trip = trip
<1> DEFINE w == Work(b, deltas, trip)
<1>1. /\ DOMAIN w = WorkFields /\ w.db = b /\ w.ledger = {} /\ w.activity = << >>
      /\ w.errors = << >> /\ w.failed = FALSE /\ w.unknown = deltas /\ w.trip = trip
  BY DEF Work, WorkFields
<1> HIDE DEF w
<1>2. WholeRows({})
  BY FS_EmptySet DEF WholeRows
<1>3. << >> \in Seq(Sightings(feed, h)) /\ << >> \in Seq(Reports(feed, h))
  OBVIOUS
<1>4. WorkOK(w, b, h)
  BY <1>1, <1>2, <1>3 DEF WorkOK, TablesOK
<1> QED BY <1>1, <1>4 DEF w

\* The attacks of a block that name a planet; all of them are on their timelines.
Attacks(f, h) == { p \in EventsAt(f, h) : IsAttack(p) }

Covered(f, activity, h) ==
    \A p \in Attacks(f, h) :
       OnTimeline(activity, Value(p.event, "eventAttackDetail").planet, Position(h, p))

\* The tables t came from b by more work.
Grown(t, b) ==
    /\ TablesOK(t) /\ t.cursor = b.cursor /\ t.raw = b.raw
    /\ b.ledger \subseteq t.ledger /\ b.activity \subseteq t.activity

\* What applying the block of height h to the tables b comes to.
Applied(w, b, h) ==
    /\ DOMAIN w = WorkFields
    /\ w.failed \in BOOLEAN /\ w.errors \in Seq(Reports(feed, h)) /\ Counted(w.unknown)
    /\ ~w.failed => Grown(w.db, b) /\ Covered(feed, w.db.activity, h)

\* Applying a block inside its transaction: it fails with reports, or its work is
\* flushed and every attack of the block is on its timeline.
LEMMA AppliedOK ==
    ASSUME NEW b, TablesOK(b), NEW deltas, Counted(deltas), NEW trip, NEW h \in Int,
           WellServed(feed[h])
    PROVE  /\ Applied(ApplyBlockInTx(Work(b, deltas, trip), h, feed[h]), b, h)
           /\ ApplyBlockInTx(Work(b, deltas, trip), h, feed[h]).trip = trip
<1> DEFINE w == Work(b, deltas, trip)
           s == feed[h].ordered
           v == DispatchEvents(w, h, s)
           z == ProcessBank(v, h, feed[h])
           x == InvalidateNative(z, h)
<1>1. WorkOK(w, b, h) /\ w.trip = trip
  BY WorkStarts
<1>2. CASE ~feed[h].metadataValid
  <2> HIDE DEF w
  <2> DEFINE u == [w EXCEPT !.failed = TRUE]
  <2>1. ApplyBlockInTx(w, h, feed[h]) = u
    BY <1>2 DEF ApplyBlockInTx
  <2>2. u.failed = TRUE /\ u.errors = w.errors /\ u.unknown = w.unknown /\ u.trip = w.trip
        /\ DOMAIN u = WorkFields
    BY <1>1 DEF WorkOK, WorkFields
  <2> HIDE DEF u
  <2>3. Applied(u, b, h)
    BY <1>1, <2>2 DEF Applied, WorkOK
  <2> QED BY <1>1, <2>1, <2>2, <2>3 DEF w
<1>3. CASE feed[h].metadataValid
  <2>0. /\ s \in Seq(EventsAt(feed, h)) /\ \A p \in EventsAt(feed, h) : ServedAt(h, p)
        /\ WholeRows(feed[h].ledger)
    BY ServedEvents
  <2> HIDE DEF w
  <2>1. Stepped(v, w, b, h) /\ AllSeen(v, h, s, Len(s))
    BY <1>1, <2>0, DispatchAll
  <2> HIDE DEF v
  <2>8. Stepped(z, v, b, h)
    BY <2>0, <2>1, BankOK DEF Stepped
  <2> HIDE DEF z
  <2>2. Stepped(x, z, b, h)
    BY <2>8, InvalidateOK DEF Stepped
  <2> HIDE DEF x
  <2>9. Follows(x, v)
    BY <2>2, <2>8, FollowsOn DEF Stepped
  <2>3. WorkOK(x, b, h) /\ Follows(x, v) /\ Follows(x, w)
    BY <2>1, <2>2, <2>9, FollowsOn DEF Stepped
  <2>4. x.trip = trip
    BY <1>1, <2>3 DEF Follows
  <2>5. ApplyBlockInTx(w, h, feed[h]) = Flushed(x)
    BY <1>3 DEF ApplyBlockInTx, x, z, v
  <2>6. CASE x.failed
    <3>1. Flushed(x) = x
      BY <2>6 DEF Flushed
    <3>2. Applied(x, b, h)
      BY <2>3, <2>6 DEF Applied, WorkOK
    <3> QED BY <2>4, <2>5, <3>1, <3>2 DEF w
  <2>7. CASE ~x.failed
    <3>1. Flushes(Flush(x), x, b)
      BY <2>3, FlushOK
    <3> DEFINE t == Flush(x)
               y == [x EXCEPT !.db = t]
    <3>2. Flushed(x) = y
      BY <2>7 DEF Flushed
    <3> HIDE DEF t
    <3>3. y.db = t /\ y.failed = x.failed /\ y.errors = x.errors /\ y.unknown = x.unknown
          /\ y.trip = x.trip /\ DOMAIN y = WorkFields
      BY <2>3 DEF WorkOK, WorkFields
    <3>4. Covered(feed, t.activity, h)
      <4> SUFFICES ASSUME NEW p \in EventsAt(feed, h), IsAttack(p)
                   PROVE  OnTimeline(t.activity,
                             Value(p.event, "eventAttackDetail").planet, Position(h, p))
        BY DEF Covered, Attacks
      <4>1. PICK j \in 1..Len(s) : s[j] = p
        BY <2>0 DEF EventsAt, ToSet
      <4>2. ~v.failed
        BY <2>3, <2>7 DEF Follows
      <4>3. Sighting(h, p) \in ToSet(x.activity)
        BY <2>1, <2>3, <4>1, <4>2 DEF AllSeen, Follows
      <4>4. OnTimeline(t.activity, Sighting(h, p).planet, Sighting(h, p).at)
        BY <3>1, <4>3 DEF Flushes, t
      <4> QED BY <4>4 DEF Sighting
    <3>5. Grown(t, b)
      BY <3>1 DEF Flushes, Grown, t
    <3> HIDE DEF y
    <3>6. Applied(y, b, h)
      BY <2>3, <2>7, <3>3, <3>4, <3>5 DEF Applied, WorkOK
    <3> QED BY <2>4, <2>5, <3>2, <3>3, <3>6 DEF w
  <2> QED BY <2>6, <2>7
<1> QED BY <1>2, <1>3
------------------------------------------------------------------------------
(* A block that an older release applied, without the event it skipped.    *)

\* A list without its i-th element still has all the others.
LEMMA RemoveOK ==
    ASSUME NEW E, NEW s \in Seq(E), NEW i \in 1..Len(s)
    PROVE  /\ RemoveAt(s, i) \in Seq(E)
           /\ \A j \in 1..Len(s) : j # i =>
                 \E k \in 1..Len(RemoveAt(s, i)) : RemoveAt(s, i)[k] = s[j]
<1> DEFINE a == SubSeq(s, 1, i - 1)
           c == SubSeq(s, i + 1, Len(s))
<1>0. Len(s) \in Nat /\ i \in Int /\ i >= 1 /\ i <= Len(s)
  OBVIOUS
<1>1. a \in Seq(E) /\ Len(a) = i - 1 /\ \A k \in 1..(i - 1) : a[k] = s[k]
  <2>1. \A k \in 1..(i - 1) : s[k] \in E
    BY <1>0
  <2> QED BY <1>0, <2>1
<1>2. c \in Seq(E) /\ Len(c) = Len(s) - i /\ \A k \in 1..(Len(s) - i) : c[k] = s[i + k]
  <2>1. \A k \in (i + 1)..Len(s) : s[k] \in E
    BY <1>0
  <2>2. Len(c) = Len(s) - i
    BY <1>0
  <2> QED BY <1>0, <2>1, <2>2
<1>3. RemoveAt(s, i) = a \o c
  BY DEF RemoveAt
<1> HIDE DEF a, c
<1>4. a \o c \in Seq(E) /\ Len(a \o c) = Len(s) - 1
  <2>1. a \o c \in Seq(E) /\ Len(a \o c) = Len(a) + Len(c)
    BY <1>1, <1>2, ConcatProperties
  <2> QED BY <1>0, <1>1, <1>2, <2>1
<1>5. ASSUME NEW j \in 1..Len(s), j # i
      PROVE  \E k \in 1..Len(a \o c) : (a \o c)[k] = s[j]
  <2>1. CASE j < i
    <3>1. j \in 1..Len(a) /\ j \in 1..(i - 1) /\ j \in 1..Len(a \o c)
      BY <1>0, <1>1, <1>4, <2>1
    <3>2. (a \o c)[j] = a[j]
      BY <1>1, <1>2, <3>1
    <3> QED BY <1>1, <3>1, <3>2
  <2>2. CASE j > i
    <3>1. j - i \in 1..(Len(s) - i) /\ j - 1 \in 1..Len(a \o c) /\ j - 1 > Len(a)
          /\ (j - 1) - Len(a) = j - i /\ i + (j - i) = j
      BY <1>0, <1>1, <1>4, <2>2
    <3>2. (a \o c)[j - 1] = c[(j - 1) - Len(a)]
      BY <1>1, <1>2, <1>4, <3>1
    <3> QED BY <1>2, <3>1, <3>2
  <2> QED BY <1>0, <1>5, <2>1, <2>2
<1> QED BY <1>3, <1>4, <1>5

\* A database without a block is right.
LEMMA EmptyOK == TablesOK(EmptyDb) /\ EmptyDb.cursor = 0 /\ EmptyDb.raw = << >>
<1>1. /\ EmptyDb.ledger = {} /\ EmptyDb.infusion = << >> /\ EmptyDb.activity = {}
      /\ EmptyDb.counters = << >> /\ EmptyDb.inventory = << >> /\ EmptyDb.cursor = 0
      /\ EmptyDb.raw = << >>
  BY DEF EmptyDb
<1>2. WholeRows({}) /\ WholeFuel(<< >>)
  BY FS_EmptySet DEF WholeRows, WholeFuel
<1>3. Dense(EmptyDb)
  BY <1>1 DEF Dense
<1>4. Summed(EmptyDb)
  BY <1>1 DEF Summed, SumsOf
<1> QED BY <1>1, <1>2, <1>3, <1>4 DEF TablesOK, Columns

\* The event that an older release skipped.
Lost(ordered, lost, p) == lost # {} /\ p = ordered[The(lost)]

\* An older release handled every event of a block but the one it skipped.
LEMMA KeptOK ==
    ASSUME NEW E, NEW s \in Seq(E), NEW lost \in SUBSET DOMAIN s
    PROVE  /\ Kept(s, lost) \in Seq(E)
           /\ \A j \in 1..Len(s) : Lost(s, lost, s[j])
                 \/ \E k \in 1..Len(Kept(s, lost)) : Kept(s, lost)[k] = s[j]
<1>1. CASE lost = {}
  BY <1>1 DEF Kept
<1>2. CASE lost # {}
  <2> DEFINE i == The(lost)
  <2>1. i \in lost
    BY <1>2 DEF The
  <2>2. i \in 1..Len(s) /\ Kept(s, lost) = RemoveAt(s, i)
    BY <1>2, <2>1 DEF Kept
  <2>3. ASSUME NEW j \in 1..Len(s)
        PROVE  Lost(s, lost, s[j])
               \/ \E k \in 1..Len(Kept(s, lost)) : Kept(s, lost)[k] = s[j]
    <3>1. CASE j = i
      BY <1>2, <3>1 DEF Lost
    <3>2. CASE j # i
      BY <2>2, <3>2, RemoveOK
    <3> QED BY <3>1, <3>2
  <2> QED BY <2>2, <2>3, RemoveOK
<1> QED BY <1>1, <1>2

\* A database that an older release left behind is right, and has every attack of
\* its block except the skipped one.
LEMMA OlderOK ==
    ASSUME WellServed(feed[1]), NEW lost \in SUBSET DOMAIN feed[1].ordered, NEW position,
           ~OlderWork(EmptyDb, 1, feed[1], lost).failed
    PROVE  LET t == OlderTables(OlderBlock(EmptyDb, 1, feed[1], lost), position)
           IN /\ TablesOK(t) /\ t.cursor = 1 /\ t.raw = << >>
              /\ \A p \in Attacks(feed, 1) :
                    Lost(feed[1].ordered, lost, p) \/
                    OnTimeline(t.activity,
                       Value(p.event, "eventAttackDetail").planet, Position(1, p))
<1> DEFINE w == Work(EmptyDb, << >>, NoTrip)
           s == feed[1].ordered
           k == Kept(s, lost)
           v == DispatchEvents(w, 1, k)
           x == ProcessBank(v, 1, feed[1])
           y == Flush(x)
           o == [y EXCEPT !.cursor = 1]
           X == [who \in DOMAIN o.infusion |-> OlderInfusion(o.infusion[who], position)]
           t == OlderTables(o, position)
<1>0. /\ s \in Seq(EventsAt(feed, 1)) /\ \A p \in EventsAt(feed, 1) : ServedAt(1, p)
      /\ WholeRows(feed[1].ledger)
  BY ServedEvents
<1>1. WorkOK(w, EmptyDb, 1)
  <2>1. Counted(<< >>)
    BY DEF Counted
  <2> QED BY <2>1, EmptyOK, WorkStarts
<1>2. k \in Seq(EventsAt(feed, 1)) /\ \A j \in 1..Len(s) : Lost(s, lost, s[j])
                 \/ \E i \in 1..Len(k) : k[i] = s[j]
  BY <1>0, KeptOK
<1>3. x = OlderWork(EmptyDb, 1, feed[1], lost) /\ OlderBlock(EmptyDb, 1, feed[1], lost) = o
  BY DEF OlderWork, OlderBlock
<1> HIDE DEF w, k
<1>4. Stepped(v, w, EmptyDb, 1) /\ AllSeen(v, 1, k, Len(k))
  BY <1>0, <1>1, <1>2, DispatchAll
<1> HIDE DEF v
<1>5. Stepped(x, v, EmptyDb, 1)
  BY <1>0, <1>4, BankOK DEF Stepped
<1> HIDE DEF x
<1>6. WorkOK(x, EmptyDb, 1) /\ Follows(x, v) /\ ~v.failed
  BY <1>3, <1>5 DEF Stepped, Follows
<1>7. Flushes(y, x, EmptyDb)
  BY <1>6, EmptyOK, FlushOK
<1> HIDE DEF y
<1>8. TablesOK(y) /\ DOMAIN y = Columns /\ y.raw = << >>
  BY <1>7, EmptyOK DEF Flushes, TablesOK
<1>9. t = [o EXCEPT !.infusion = X]
  <2> HIDE DEF o
  <2> QED BY DEF OlderTables
<1>10. WholeFuel(X)
  <2>1. o.infusion = y.infusion
    BY <1>8, Lists
  <2> HIDE DEF o
  <2> QED BY <1>8, <2>1 DEF TablesOK, WholeFuel, OlderInfusion
<1> HIDE DEF X, t
<1>11. /\ t.cursor = 1 /\ t.raw = y.raw /\ t.ledger = y.ledger /\ t.activity = y.activity
       /\ t.counters = y.counters /\ t.inventory = y.inventory /\ t.infusion = X
       /\ DOMAIN t = Columns
  BY <1>8, <1>9, Lists
<1>12. TablesOK(t)
  BY <1>8, <1>10, <1>11 DEF TablesOK, Dense, Summed
<1>13. ASSUME NEW p \in Attacks(feed, 1), ~Lost(s, lost, p)
       PROVE  OnTimeline(t.activity,
                 Value(p.event, "eventAttackDetail").planet, Position(1, p))
  <2>1. p \in EventsAt(feed, 1) /\ IsAttack(p)
    BY DEF Attacks
  <2>2. PICK j \in 1..Len(s) : s[j] = p
    BY <1>0, <2>1 DEF EventsAt, ToSet
  <2>3. PICK i \in 1..Len(k) : k[i] = p
    BY <1>2, <1>13, <2>2
  <2>4. Sighting(1, p) \in ToSet(x.activity)
    BY <1>4, <1>6, <2>1, <2>3 DEF AllSeen, Follows
  <2>5. OnTimeline(y.activity, Sighting(1, p).planet, Sighting(1, p).at)
    BY <1>7, <2>4 DEF Flushes
  <2> QED BY <1>11, <2>5 DEF Sighting
<1>14. /\ TablesOK(t) /\ t.cursor = 1 /\ t.raw = << >>
       /\ \A p \in Attacks(feed, 1) :
             Lost(s, lost, p) \/
             OnTimeline(t.activity,
                Value(p.event, "eventAttackDetail").planet, Position(1, p))
  BY <1>8, <1>11, <1>12, <1>13
<1> QED BY <1>3, <1>14 DEF t
------------------------------------------------------------------------------
(* The rows of the error log, and what a settled one says of the tables.   *)

\* The rows of the error log that a block may lead to, resolved or not.
RowsAt(f, h) == Reports(f, h) \cup { [e EXCEPT !.resolved = TRUE] : e \in Reports(f, h) }
LogRows(f) == UNION { RowsAt(f, h) : h \in 1..MaxHeight }

\* Every block is served as FeedAssumption says.
IsServed == \A h \in 1..MaxHeight : WellServed(feed[h])

\* A row of the error log: of a block, with a key, an error or the warning of an
\* event that warns; resolving it changes nothing else.
LEMMA RowFacts ==
    ASSUME NEW row \in LogRows(feed)
    PROVE  /\ row.height \in 1..MaxHeight /\ row.severity \in {"error", "warn"}
           /\ row.resolved \in BOOLEAN /\ row.key # << >>
           /\ row.severity = "warn" =>
                 \E q \in EventsAt(feed, row.height) : Warns(q) /\ q.tx = row.tx /\ q.index = row.index
           /\ [row EXCEPT !.resolved = TRUE] \in LogRows(feed)
           /\ LET again == [row EXCEPT !.resolved = TRUE]
              IN /\ again.height = row.height /\ again.tx = row.tx /\ again.index = row.index
                 /\ again.key = row.key /\ again.severity = row.severity /\ again.resolved = TRUE
<1>1. \E h \in 1..MaxHeight : \E e \in Reports(feed, h) : row \in {e, [e EXCEPT !.resolved = TRUE]}
  <2>1. PICK h \in 1..MaxHeight : row \in RowsAt(feed, h)
    BY DEF LogRows
  <2>2. \E e \in Reports(feed, h) : row \in {e, [e EXCEPT !.resolved = TRUE]}
    BY <2>1 DEF RowsAt
  <2> QED BY <2>2
<1>10. PICK h \in 1..MaxHeight : \E e \in Reports(feed, h) : row \in {e, [e EXCEPT !.resolved = TRUE]}
  BY <1>1
<1>9. PICK e \in Reports(feed, h) : row \in {e, [e EXCEPT !.resolved = TRUE]}
  BY <1>10
<1>2. \/ \E p \in EventsAt(feed, h) : Registered(p.event.type)
                                /\ e = ErrorRow(h, p.tx, p.index, KeyOf(p.event), "error")
      \/ \E p \in EventsAt(feed, h) : Warns(p) /\ e = ErrorRow(h, p.tx, p.index, KeyOf(p.event), "warn")
      \/ \E key \in BlockErrors : e = ErrorRow(h, NoIndex, NoIndex, key, "error")
  BY DEF Reports
<1>3. ASSUME NEW p, Registered(p.event.type) PROVE KeyOf(p.event) # << >>
  BY <1>3 DEF KeyOf, HandlerKey
<1>4. ASSUME NEW p, Warns(p) PROVE Registered(p.event.type)
  BY <1>4 DEF Warns, Registered, NestedAttribute
<1> DEFINE Fits(tx, index, key, severity) ==
         /\ e = ErrorRow(h, tx, index, key, severity) /\ key # << >>
         /\ severity \in {"error", "warn"}
         /\ severity = "warn" =>
               \E q \in EventsAt(feed, h) : Warns(q) /\ q.tx = tx /\ q.index = index
<1>5. \E tx, index, key, severity : Fits(tx, index, key, severity)
  <2>1. CASE \E p \in EventsAt(feed, h) : Registered(p.event.type)
                                /\ e = ErrorRow(h, p.tx, p.index, KeyOf(p.event), "error")
    <3>1. PICK p \in EventsAt(feed, h) : Registered(p.event.type)
                                /\ e = ErrorRow(h, p.tx, p.index, KeyOf(p.event), "error")
      BY <2>1
    <3>2. KeyOf(p.event) # << >>
      BY <3>1, <1>3
    <3>3. Fits(p.tx, p.index, KeyOf(p.event), "error")
      BY <3>1, <3>2
    <3> HIDE DEF Fits
    <3> QED BY <3>3
  <2>2. CASE \E p \in EventsAt(feed, h) : Warns(p) /\ e = ErrorRow(h, p.tx, p.index, KeyOf(p.event), "warn")
    <3>1. PICK p \in EventsAt(feed, h) :
             Warns(p) /\ e = ErrorRow(h, p.tx, p.index, KeyOf(p.event), "warn")
      BY <2>2
    <3>2. KeyOf(p.event) # << >>
      BY <3>1, <1>3, <1>4
    <3>3. Fits(p.tx, p.index, KeyOf(p.event), "warn")
      BY <3>1, <3>2
    <3> HIDE DEF Fits
    <3> QED BY <3>3
  <2>3. CASE \E key \in BlockErrors : e = ErrorRow(h, NoIndex, NoIndex, key, "error")
    <3>1. PICK key \in BlockErrors : e = ErrorRow(h, NoIndex, NoIndex, key, "error")
      BY <2>3
    <3>3. key # << >>
      <4>1. <<"bank.process_block">> # << >>
        OBVIOUS
      <4>2. <<"bank.native_claims">> # << >>
        OBVIOUS
      <4> QED BY <4>1, <4>2 DEF BlockErrors
    <3>2. Fits(NoIndex, NoIndex, key, "error")
      BY <3>1, <3>3
    <3> HIDE DEF Fits
    <3> QED BY <3>2
  <2> QED BY <1>2, <2>1, <2>2, <2>3
<1>6. PICK tx, index, key, severity : Fits(tx, index, key, severity)
  <2> HIDE DEF Fits
  <2> QED BY <1>5
<1> DEFINE again == [row EXCEPT !.resolved = TRUE]
<1>11. e = ErrorRow(h, tx, index, key, severity)
  BY <1>6
<1>7. /\ row.height = h /\ row.tx = tx /\ row.index = index /\ row.key = key
      /\ row.severity = severity /\ row.resolved \in BOOLEAN
      /\ again = [e EXCEPT !.resolved = TRUE]
      /\ again.height = row.height /\ again.tx = row.tx /\ again.index = row.index
      /\ again.key = row.key /\ again.severity = row.severity /\ again.resolved = TRUE
  <2>1. CASE row = e
    BY <2>1, <1>11 DEF ErrorRow
  <2>2. CASE row = [e EXCEPT !.resolved = TRUE]
    BY <2>2, <1>11 DEF ErrorRow
  <2> QED BY <1>9, <2>1, <2>2
<1>8. again \in LogRows(feed)
  <2>1. again \in RowsAt(feed, h)
    BY <1>9, <1>7 DEF RowsAt
  <2> HIDE DEF again
  <2> QED BY <2>1, <1>10 DEF LogRows
<1> QED BY <1>6, <1>7, <1>8, <1>10

\* The event of a row: at its coordinate, with its key.
Spotted(f, row) ==
    { p \in EventsAt(f, row.height) :
        Coordinate(p) = <<row.tx, row.index>> /\ KeyOf(p.event) = row.key }

\* The event of a row, found in the served block.
LEMMA SpottedIsLocated == ASSUME NEW row PROVE Spotted(feed, row) = Located(row)
  BY DEF Spotted, Located, EventsAt

\* What the event of a row did, once the row counts as settled.
TookEffect(f, row, t) ==
    LET p == The(Spotted(f, row))
        h == row.height
    IN /\ Spotted(f, row) # {} /\ row.severity = "error" /\ ~Warns(p)
       /\ IsAttack(p) =>
             OnTimeline(t.activity, Value(p.event, "eventAttackDetail").planet, Position(h, p))
       /\ IsBooked(p) => RowOf(t.ledger, h, p)

\* An event that took effect stays in effect: ledger and timeline rows are never
\* removed.
LEMMA EffectStays ==
    ASSUME NEW row, NEW t, NEW u, TookEffect(feed, row, t),
           t.ledger \subseteq u.ledger, t.activity \subseteq u.activity
    PROVE  TookEffect(feed, row, u)
  BY DEF TookEffect, OnTimeline, RowOf

\* Resolving a row does not change what its event did.
LEMMA EffectOfResolved ==
    ASSUME NEW row \in LogRows(feed), NEW t, TookEffect(feed, row, t)
    PROVE  TookEffect(feed, [row EXCEPT !.resolved = TRUE], t)
<1> DEFINE again == [row EXCEPT !.resolved = TRUE]
<1>1. /\ again.height = row.height /\ again.tx = row.tx /\ again.index = row.index
      /\ again.key = row.key /\ again.severity = row.severity
  BY RowFacts
<1> HIDE DEF again
<1>2. Spotted(feed, again) = Spotted(feed, row)
  BY <1>1 DEF Spotted
<1>3. TookEffect(feed, again, t)
  BY <1>1, <1>2 DEF TookEffect
<1> QED BY <1>3 DEF again

\* The event that a row locates is registered, and has the coordinate of the row; if
\* it does not warn, the row is an error.
LEMMA LocatedFacts ==
    ASSUME IsServed, NEW row \in LogRows(feed), Located(row) # {}
    PROVE  LET p == The(Located(row))
           IN /\ p \in EventsAt(feed, row.height) /\ ServedAt(row.height, p) /\ Registered(p.event.type)
              /\ p.tx = row.tx /\ p.index = row.index
              /\ ~Warns(p) => row.severity = "error"
<1> DEFINE p == The(Located(row))
           h == row.height
<1>1. /\ h \in 1..MaxHeight /\ row.key # << >> /\ row.severity \in {"error", "warn"}
      /\ row.severity = "warn" =>
            \E q \in EventsAt(feed, h) : Warns(q) /\ q.tx = row.tx /\ q.index = row.index
  BY RowFacts
<1>2. p \in Located(row)
  BY DEF The
<1> HIDE DEF p
<1>3. p \in EventsAt(feed, h) /\ Coordinate(p) = <<row.tx, row.index>> /\ KeyOf(p.event) = row.key
  BY <1>2 DEF Located, EventsAt
<1>4. p.tx = row.tx /\ p.index = row.index
  BY <1>3 DEF Coordinate
<1>5. ServedAt(h, p) /\ \A q \in EventsAt(feed, h) : p.tx = q.tx /\ p.index = q.index => p = q
  <2> HIDE DEF h
  <2>1. WellServed(feed[h])
    BY <1>1 DEF IsServed
  <2> QED BY <1>3, <2>1, ServedEvents
<1>6. Registered(p.event.type)
  <2>1. KeyOf(p.event) # << >>
    BY <1>1, <1>3
  <2> QED BY <2>1 DEF KeyOf
<1>7. ~Warns(p) => row.severity = "error"
  BY <1>1, <1>4, <1>5
<1> QED BY <1>3, <1>4, <1>5, <1>6, <1>7 DEF p

\* What a settled row's event did to the work of its height.
Worked(row, w) ==
    LET p == The(Located(row))
        h == row.height
    IN /\ Located(row) # {} /\ row.severity = "error" /\ ~Warns(p)
       /\ IsAttack(p) => Sighting(h, p) \in ToSet(w.activity)
       /\ IsBooked(p) => RowOf(w.ledger, h, p)

\* A replay in progress: its work, and the rows that are done.
ReplayOK(acc, b, h) ==
    /\ WorkOK(acc.work, b, h) /\ acc.done \in Seq(Targets)
    /\ \A i \in 1..Len(acc.done) : Worked(errorLog[acc.done[i]], acc.work)

\* What a replayed row did to the work stays done while other rows are replayed.
LEMMA WorkedOn ==
    ASSUME NEW row, NEW w, NEW v, Worked(row, w), Follows(v, w)
    PROVE  Worked(row, v)
  BY DEF Worked, Follows, RowOf

\* One row of a replay: it is done only if its handler ran without an error or a
\* warning, and then its rows are buffered.
LEMMA ReplayRowOK ==
    ASSUME IsServed, errorLog \in Seq(LogRows(feed)), NEW acc, NEW b, ReplayOK(acc, b, NextHeight),
           NEW id \in DOMAIN errorLog
    PROVE  ReplayOK(ReplayRow(acc, id), b, NextHeight)
<1> DEFINE row == errorLog[id]
           p == The(Located(row))
           h == NextHeight
           w == Run(acc.work, row.height, p)
<1>1. CASE acc.work.failed \/ id \notin Targets \/ ~Replayable(row)
  <2>1. ReplayRow(acc, id) = acc
    BY <1>1 DEF ReplayRow
  <2> QED BY <2>1
<1>2. CASE ~(acc.work.failed \/ id \notin Targets \/ ~Replayable(row))
  <2>1. row \in LogRows(feed) /\ row.height = h /\ Located(row) # {}
    BY <1>2 DEF Targets, Replayable
  <2>2. /\ ServedAt(h, p) /\ Registered(p.event.type)
        /\ ~Warns(p) => row.severity = "error"
    BY <2>1, LocatedFacts
  <2> HIDE DEF row, p
  <2>3. Handled(w, acc.work, b, h, p)
    BY <2>1, <2>2, RunHandled DEF ReplayOK
  <2> HIDE DEF w
  <2> DEFINE done == IF w.errors = acc.work.errors THEN Append(acc.done, id) ELSE acc.done
             v == [work |-> w, done |-> done]
  <2>4. ReplayRow(acc, id) = v
    BY <1>2 DEF ReplayRow, w, p, row
  <2>5. WorkOK(w, b, h) /\ Follows(w, acc.work)
    BY <2>3 DEF Handled, Stepped
  <2>6. \A i \in 1..Len(acc.done) : Worked(errorLog[acc.done[i]], w)
    BY <2>5, WorkedOn DEF ReplayOK
  <2>7. done \in Seq(Targets) /\ \A i \in 1..Len(done) : Worked(errorLog[done[i]], w)
    <3>1. CASE w.errors # acc.work.errors
      <4>1. done = acc.done
        BY <3>1
      <4> QED BY <2>6, <4>1 DEF ReplayOK
    <3>2. CASE w.errors = acc.work.errors
      <4>1. done = Append(acc.done, id) /\ acc.done \in Seq(Targets) /\ id \in Targets
        BY <1>2, <3>2 DEF ReplayOK
      <4>2. Worked(row, w)
        BY <2>1, <2>2, <2>3, <3>2 DEF Handled, Did, Worked, p
      <4> HIDE DEF done
      <4>3. done \in Seq(Targets) /\ Len(done) = Len(acc.done) + 1 /\ Len(acc.done) \in Nat
            /\ done[Len(acc.done) + 1] = id
            /\ \A i \in 1..Len(acc.done) : done[i] = acc.done[i]
        BY <4>1
      <4>4. ASSUME NEW i \in 1..Len(done) PROVE Worked(errorLog[done[i]], w)
        <5>1. CASE i = Len(acc.done) + 1
          BY <4>2, <4>3, <5>1 DEF row
        <5>2. CASE i # Len(acc.done) + 1
          <6>1. i \in 1..Len(acc.done)
            BY <4>3, <5>2
          <6> QED BY <2>6, <4>3, <6>1
        <5> QED BY <5>1, <5>2
      <4> QED BY <4>3, <4>4
    <3> QED BY <3>1, <3>2
  <2> HIDE DEF done
  <2>8. v.work = w /\ v.done = done
    OBVIOUS
  <2> HIDE DEF v
  <2>9. ReplayOK(v, b, h)
    BY <2>5, <2>7, <2>8 DEF ReplayOK
  <2> QED BY <2>4, <2>9
<1> QED BY <1>1, <1>2
------------------------------------------------------------------------------
(* The inductive invariant.                                                *)

\* All rows of a height.
LEMMA ReplayAll ==
    ASSUME IsServed, errorLog \in Seq(LogRows(feed)), TablesOK(db), NEW trip
    PROVE  ReplayOK(Replayed(AllIds, trip), db, NextHeight)
<1>1. PICK f : /\ f[0] = [work |-> Work(db, << >>, trip), done |-> << >>]
               /\ \A i \in 1..Len(errorLog) : f[i] = ReplayRow(f[i - 1], i)
               /\ Replayed(AllIds, trip) = f[Len(errorLog)]
  BY ReplayChain
<1> DEFINE n == Len(errorLog)
           T == { i \in 0..n : ReplayOK(f[i], db, NextHeight) }
<1>2. n \in Nat /\ DOMAIN errorLog = 1..n
  OBVIOUS
<1>3. 0 \in T
  <2>1. Counted(<< >>)
    BY DEF Counted
  <2>2. WorkOK(Work(db, << >>, trip), db, NextHeight)
    BY <2>1, WorkStarts
  <2>3. f[0].work = Work(db, << >>, trip) /\ f[0].done = << >>
    BY <1>1
  <2>4. << >> \in Seq(Targets) /\ Len(<< >>) = 0
    OBVIOUS
  <2>5. ReplayOK(f[0], db, NextHeight)
    BY <2>2, <2>3, <2>4 DEF ReplayOK
  <2> QED BY <1>2, <2>5
<1>4. ASSUME NEW i \in 0..(n - 1), i \in T PROVE i + 1 \in T
  <2>1. i + 1 \in 1..n /\ (i + 1) - 1 = i
    BY <1>2
  <2>2. f[i + 1] = ReplayRow(f[i], i + 1)
    BY <1>1, <2>1
  <2>3. ReplayOK(f[i + 1], db, NextHeight)
    BY <1>2, <1>4, <2>1, <2>2, ReplayRowOK
  <2> QED BY <1>2, <2>1, <2>3
<1>5. \A i \in 0..n : i \in T
  <2> HIDE DEF T, n
  <2> QED BY <1>2, <1>3, <1>4, Steps
<1>6. ReplayOK(f[n], db, NextHeight)
  BY <1>2, <1>5
<1> QED BY <1>1, <1>6

\* Once the work of a replay is flushed, the events of its done rows took effect.
LEMMA WorkedFlushed ==
    ASSUME NEW row, NEW w, NEW t, NEW b, Worked(row, w), Flushes(t, w, b)
    PROVE  TookEffect(feed, row, t)
<1> DEFINE p == The(Located(row))
           h == row.height
<1>1. Spotted(feed, row) = Located(row)
  BY SpottedIsLocated
<1>2. /\ Located(row) # {} /\ row.severity = "error" /\ ~Warns(p)
      /\ IsAttack(p) => Sighting(h, p) \in ToSet(w.activity)
      /\ IsBooked(p) => RowOf(w.ledger, h, p)
  BY DEF Worked
<1> HIDE DEF p
<1>3. ASSUME IsAttack(p)
      PROVE  OnTimeline(t.activity, Value(p.event, "eventAttackDetail").planet, Position(h, p))
  <2>1. OnTimeline(t.activity, Sighting(h, p).planet, Sighting(h, p).at)
    BY <1>2, <1>3 DEF Flushes
  <2> QED BY <2>1 DEF Sighting
<1>4. ASSUME IsBooked(p) PROVE RowOf(t.ledger, h, p)
  <2>1. PICK r \in w.ledger : SubSeq(r.key, 1, 4) = <<h, p.tx, p.msg, LedgerLegStride * p.index>>
    BY <1>2, <1>4 DEF RowOf
  <2>2. PICK q \in t.ledger : q.key = r.key
    BY DEF Flushes
  <2> QED BY <2>1, <2>2 DEF RowOf
<1> QED BY <1>1, <1>2, <1>3, <1>4 DEF TookEffect, p

\* Mirrored blocks are whole, and none is missing up to the cursor.
MirrorOK(f, raw, cursor) ==
    /\ DOMAIN raw \subseteq 1..cursor
    /\ \A h \in DOMAIN raw : raw[h] = f[h].raw /\ h..cursor \subseteq DOMAIN raw

\* A row of the error log says that this event was not handled.
Misses(row, h, p) ==
    /\ row.height = h /\ row.tx = p.tx /\ row.index = p.index
    /\ row.key = KeyOf(p.event) /\ row.severity = "error"

\* Every attack of an indexed block is on its timeline, or an error says that it is not.
CoveredOrLogged(f, t, log) ==
    \A h \in 1..t.cursor : \A p \in Attacks(f, h) :
       \/ OnTimeline(t.activity, Value(p.event, "eventAttackDetail").planet, Position(h, p))
       \/ \E i \in DOMAIN log : Misses(log[i], h, p)

\* A row is resolved only if its event took effect in the committed tables.
LogOK(f, log, t) ==
    /\ log \in Seq(LogRows(f))
    /\ \A i \in DOMAIN log : log[i].resolved => TookEffect(f, log[i], t)

\* What holds of the committed tables t and the error log, whatever is running.
CommittedOK(f, t, log) ==
    /\ TablesOK(t) /\ t.cursor \in 0..MaxHeight
    /\ MirrorOK(f, t.raw, t.cursor) /\ CoveredOrLogged(f, t, log) /\ LogOK(f, log, t)

\* The rows that any block may report, and the fields of a command.
Raised(f) == UNION { Reports(f, h) : h \in 1..MaxHeight }

ProcFields == {"pc", "tx", "next", "last", "bulk", "raw", "pending", "failed", "ids", "rows"}

\* A running command: what it has to report, to replay and to resolve. The events of
\* the rows to resolve took effect already: the replay has committed.
CommandOK(f, p, t, log) ==
    /\ DOMAIN p = ProcFields
    /\ p.pc \in {"idle", "apply", "commit", "errors", "unknowns", "replay", "resolve"}
    /\ p.failed \in BOOLEAN /\ p.pending \in Seq(Raised(f))
    /\ p.rows \subseteq DOMAIN log
    /\ p.ids \in Seq(DOMAIN log)
    /\ \A i \in 1..Len(p.ids) : TookEffect(f, log[p.ids[i]], t)

\* A window in progress: what its transaction holds beyond the committed tables t.
\* Its raw events are in the transaction or held back, and each of its blocks is
\* covered.
InWindow(f, p, t) ==
    /\ TablesOK(p.tx) /\ p.tx.cursor = t.cursor
    /\ t.ledger \subseteq p.tx.ledger /\ t.activity \subseteq p.tx.activity
    /\ p.next \in (t.cursor + 1)..(MaxHeight + 1) /\ p.last \in Nat /\ p.last <= MaxHeight
    /\ p.pc = "apply" => p.next <= p.last
    /\ \A h \in (t.cursor + 1)..(p.next - 1) : Covered(f, p.tx.activity, h)
    /\ p.raw \subseteq (t.cursor + 1)..(p.next - 1)
    /\ DOMAIN p.tx.raw \cup p.raw = DOMAIN t.raw \cup (t.cursor + 1)..(p.next - 1)
    /\ \A h \in DOMAIN p.tx.raw : p.tx.raw[h] = f[h].raw

\* A window that is applied or about to commit; and the window after a commit, which
\* goes on from the cursor.
WindowOK(f, p, t) ==
    /\ p.pc \in {"apply", "commit"} => InWindow(f, p, t)
    /\ p.pc = "errors" /\ ~p.failed =>
          p.next = t.cursor + 1 /\ p.last \in Nat /\ p.last <= MaxHeight

\* The inductive invariant.
Inv ==
    /\ chain \in DOMAIN Chains /\ feed = Feed(chain)
    /\ CommittedOK(feed, db, errorLog)
    /\ CommandOK(feed, proc, db, errorLog) /\ WindowOK(feed, proc, db)
    /\ Counted(unknown) /\ Counted(unknownLog)
    /\ faults \in 0..MaxFaults /\ repairs \in 0..MaxRepairs

\* The invariant says what the served blocks look like.
LEMMA ServedHere == Inv => IsServed
<1> SUFFICES ASSUME Inv, NEW h \in 1..MaxHeight PROVE WellServed(feed[h])
  BY DEF IsServed
<1> QED BY FeedAssumption DEF Inv

\* An idle command has nothing pending.
LEMMA IdleOK ==
    ASSUME NEW f, NEW t, NEW log
    PROVE  CommandOK(f, Idle, t, log) /\ WindowOK(f, Idle, t) /\ DOMAIN Idle = ProcFields
<1>1. /\ DOMAIN Idle = ProcFields /\ Idle.pc = "idle" /\ Idle.failed = FALSE
      /\ Idle.pending = << >> /\ Idle.rows = {} /\ Idle.ids = << >>
  BY DEF Idle, ProcFields
<1>2. << >> \in Seq(Raised(f)) /\ << >> \in Seq(DOMAIN log) /\ Len(<< >>) = 0
  OBVIOUS
<1>3. \A i \in 1..Len(Idle.ids) : FALSE
  BY <1>1, <1>2
<1>4. CommandOK(f, Idle, t, log)
  <2> HIDE DEF Idle
  <2> QED BY <1>1, <1>2, <1>3 DEF CommandOK
<1>5. WindowOK(f, Idle, t)
  <2> HIDE DEF Idle
  <2> QED BY <1>1 DEF WindowOK
<1> QED BY <1>1, <1>4, <1>5
------------------------------------------------------------------------------
(* The initial states.                                                     *)

\* The error log of an older release has the row of the event that it skipped, if
\* it skipped one.
LEMMA OlderLog ==
    ASSUME IsServed, NEW skipped \in {NoTrip} \cup Trips(feed[1].ordered)
    PROVE  LET lost == SkippedAt(feed[1].ordered, skipped)
               log == OlderErrors(feed[1].ordered, lost)
           IN /\ lost \in SUBSET DOMAIN feed[1].ordered
              /\ log \in Seq(LogRows(feed)) /\ \A i \in DOMAIN log : ~log[i].resolved
              /\ \A p : Lost(feed[1].ordered, lost, p) => \E i \in DOMAIN log : Misses(log[i], 1, p)
<1> DEFINE s == feed[1].ordered
           lost == SkippedAt(s, skipped)
           log == OlderErrors(s, lost)
           p == s[The(lost)]
           e == ErrorRow(1, p.tx, p.index, KeyOf(p.event), "error")
<1>0. 1 \in 1..MaxHeight /\ WellServed(feed[1])
  BY BlockAssumption DEF IsServed
<1>1. lost \in SUBSET DOMAIN s
  BY DEF SkippedAt
<1>2. CASE lost = {}
  <2>1. log = << >>
    BY <1>2 DEF OlderErrors
  <2>2. log \in Seq(LogRows(feed)) /\ DOMAIN log = {}
    <3> HIDE DEF log
    <3> QED BY <2>1
  <2>3. \A q : ~Lost(s, lost, q)
    BY <1>2 DEF Lost
  <2> HIDE DEF log, lost, s
  <2>4. /\ log \in Seq(LogRows(feed)) /\ \A i \in DOMAIN log : ~log[i].resolved
        /\ \A q : Lost(s, lost, q) => \E i \in DOMAIN log : Misses(log[i], 1, q)
    BY <2>2, <2>3
  <2> QED BY <1>1, <2>4 DEF log, lost, s
<1>3. CASE lost # {}
  <2>1. The(lost) \in lost
    BY <1>3 DEF The
  <2>2. The(lost) \in DOMAIN s /\ Coordinate(p) = skipped
    BY <2>1 DEF SkippedAt
  <2>3. s \in Seq(EventsAt(feed, 1)) /\ \A q, r \in EventsAt(feed, 1) :
           q.tx = r.tx /\ q.index = r.index => q = r
    BY <1>0, ServedEvents
  <2>4. p \in EventsAt(feed, 1)
    BY <2>2, <2>3
  <2>5. skipped # NoTrip
    <3>1. ASSUME NEW a, NEW b PROVE <<a, b>> # << >>
      <4>1. Len(<<a, b>>) = 2 /\ Len(<< >>) = 0
        OBVIOUS
      <4> QED BY <4>1
    <3>2. skipped = <<p.tx, p.index>>
      BY <2>2 DEF Coordinate
    <3> QED BY <3>1, <3>2 DEF NoTrip
  <2>6. PICK q \in EventsAt(feed, 1) : Registered(q.event.type) /\ Coordinate(q) = skipped
    BY <2>5 DEF Trips, EventsAt
  <2>7. q = p
    BY <2>2, <2>3, <2>4, <2>6 DEF Coordinate
  <2>8. e \in LogRows(feed)
    <3>1. e \in Reports(feed, 1)
      BY <2>4, <2>6, <2>7 DEF Reports
    <3>2. e \in RowsAt(feed, 1)
      BY <3>1 DEF RowsAt
    <3> HIDE DEF e
    <3> QED BY <1>0, <3>2 DEF LogRows
  <2>9. log = <<e>>
    BY <1>3 DEF OlderErrors
  <2>10. e.resolved = FALSE /\ Misses(e, 1, p)
    BY DEF ErrorRow, Misses
  <2>11. \A r : Lost(s, lost, r) => r = p
    BY DEF Lost
  <2> HIDE DEF log, e, p, lost, s
  <2>12. log \in Seq(LogRows(feed)) /\ DOMAIN log = {1} /\ log[1] = e
    BY <2>8, <2>9
  <2>13. /\ log \in Seq(LogRows(feed)) /\ \A i \in DOMAIN log : ~log[i].resolved
         /\ \A r : Lost(s, lost, r) => \E i \in DOMAIN log : Misses(log[i], 1, r)
    BY <2>10, <2>11, <2>12
  <2> QED BY <1>1, <2>13 DEF log, lost, s
<1> QED BY <1>2, <1>3

\* The invariant holds of a new database and of one that an older release left.
LEMMA InitInv == Init => Inv
<1> SUFFICES ASSUME Init PROVE Inv
  OBVIOUS
<1>1. chain \in DOMAIN Chains /\ feed = Feed(chain)
  BY DEF Init
<1>2. IsServed
  <2> SUFFICES ASSUME NEW h \in 1..MaxHeight PROVE WellServed(feed[h])
    BY DEF IsServed
  <2> QED BY <1>1, FeedAssumption
<1>3. CommittedOK(feed, db, errorLog)
  <2>1. CASE db = EmptyDb /\ errorLog = << >>
    <3>1. TablesOK(db) /\ db.cursor = 0 /\ db.raw = << >>
      BY <2>1, EmptyOK
    <3>2. errorLog \in Seq(LogRows(feed)) /\ DOMAIN errorLog = {}
      BY <2>1
    <3>3. MirrorOK(feed, db.raw, db.cursor)
      BY <3>1 DEF MirrorOK
    <3>4. CoveredOrLogged(feed, db, errorLog)
      BY <3>1 DEF CoveredOrLogged
    <3>5. LogOK(feed, errorLog, db)
      BY <3>2 DEF LogOK
    <3> QED BY <3>1, <3>3, <3>4, <3>5, BlockAssumption DEF CommittedOK
  <2>2. CASE \E i \in Inherits :
               /\ i.upTo = 1 /\ i.skipped \in {NoTrip} \cup Trips(feed[1].ordered)
               /\ LET lost == SkippedAt(feed[1].ordered, i.skipped)
                  IN /\ ~OlderWork(EmptyDb, 1, feed[1], lost).failed
                     /\ db = OlderTables(OlderBlock(EmptyDb, 1, feed[1], lost), i.position)
                     /\ errorLog = OlderErrors(feed[1].ordered, lost)
    <3>1. PICK i \in Inherits :
               /\ i.upTo = 1 /\ i.skipped \in {NoTrip} \cup Trips(feed[1].ordered)
               /\ LET lost == SkippedAt(feed[1].ordered, i.skipped)
                  IN /\ ~OlderWork(EmptyDb, 1, feed[1], lost).failed
                     /\ db = OlderTables(OlderBlock(EmptyDb, 1, feed[1], lost), i.position)
                     /\ errorLog = OlderErrors(feed[1].ordered, lost)
      BY <2>2
    <3> DEFINE lost == SkippedAt(feed[1].ordered, i.skipped)
    <3>2. /\ ~OlderWork(EmptyDb, 1, feed[1], lost).failed
          /\ db = OlderTables(OlderBlock(EmptyDb, 1, feed[1], lost), i.position)
          /\ errorLog = OlderErrors(feed[1].ordered, lost)
      BY <3>1
    <3>3. /\ lost \in SUBSET DOMAIN feed[1].ordered
          /\ errorLog \in Seq(LogRows(feed)) /\ \A k \in DOMAIN errorLog : ~errorLog[k].resolved
          /\ \A p : Lost(feed[1].ordered, lost, p) =>
                \E k \in DOMAIN errorLog : Misses(errorLog[k], 1, p)
      BY <1>2, <3>1, <3>2, OlderLog
    <3> HIDE DEF lost
    <3>4. 1 \in 1..MaxHeight /\ WellServed(feed[1])
      BY <1>2, BlockAssumption DEF IsServed
    <3>5. /\ TablesOK(db) /\ db.cursor = 1 /\ db.raw = << >>
          /\ \A p \in Attacks(feed, 1) :
                Lost(feed[1].ordered, lost, p) \/
                OnTimeline(db.activity,
                   Value(p.event, "eventAttackDetail").planet, Position(1, p))
      BY <3>2, <3>3, <3>4, OlderOK
    <3>6. MirrorOK(feed, db.raw, db.cursor)
      BY <3>5 DEF MirrorOK
    <3>7. CoveredOrLogged(feed, db, errorLog)
      BY <3>3, <3>5 DEF CoveredOrLogged
    <3>8. LogOK(feed, errorLog, db)
      BY <3>3 DEF LogOK
    <3> QED BY <3>4, <3>5, <3>6, <3>7, <3>8 DEF CommittedOK
  <2> QED BY <2>1, <2>2 DEF Init
<1>4. CommandOK(feed, proc, db, errorLog) /\ WindowOK(feed, proc, db)
  BY IdleOK DEF Init
<1>5. Counted(unknown) /\ Counted(unknownLog)
  BY DEF Init, Counted
<1> QED BY <1>1, <1>3, <1>4, <1>5, BlockAssumption DEF Inv, Init
------------------------------------------------------------------------------
(* Steps of the error log and of the tables under the invariant.           *)

\* A pending row is a row of a block, not resolved.
LEMMA RaisedFacts ==
    ASSUME NEW row \in Raised(feed)
    PROVE  row \in LogRows(feed) /\ ~row.resolved
<1>1. PICK h \in 1..MaxHeight : row \in Reports(feed, h)
  BY DEF Raised
<1>2. row \in RowsAt(feed, h)
  BY <1>1 DEF RowsAt
<1>3. row \in LogRows(feed)
  BY <1>2 DEF LogRows
<1>4. \A tx, index, key, severity : ~ErrorRow(h, tx, index, key, severity).resolved
  BY DEF ErrorRow
<1>5. \E tx, index, key, severity : row = ErrorRow(h, tx, index, key, severity)
  BY <1>1 DEF Reports
<1> QED BY <1>3, <1>4, <1>5

\* A list with one more element.
LEMMA AppendSeq ==
    ASSUME NEW E, NEW s \in Seq(E), NEW e \in E
    PROVE  /\ Append(s, e) \in Seq(E) /\ Len(Append(s, e)) = Len(s) + 1 /\ Len(s) \in Nat
           /\ DOMAIN s = 1..Len(s) /\ DOMAIN Append(s, e) = 1..(Len(s) + 1)
           /\ DOMAIN s \subseteq DOMAIN Append(s, e)
           /\ \A i \in DOMAIN s : Append(s, e)[i] = s[i]
           /\ Append(s, e)[Len(s) + 1] = e
  OBVIOUS

\* A list over a set is one over a larger set.
LEMMA WidenSeq ==
    ASSUME NEW A, NEW B, A \subseteq B, NEW s \in Seq(A)
    PROVE  s \in Seq(B)
  OBVIOUS

\* Writing a pending row to the error log keeps the invariant of the log.
LEMMA LogAppend ==
    ASSUME NEW t, NEW log, CommittedOK(feed, t, log), NEW row \in Raised(feed)
    PROVE  /\ CommittedOK(feed, t, Append(log, row))
           /\ \A p : CommandOK(feed, p, t, log) => CommandOK(feed, p, t, Append(log, row))
<1> DEFINE new == Append(log, row)
<1>0. log \in Seq(LogRows(feed)) /\ row \in LogRows(feed) /\ ~row.resolved
  BY RaisedFacts DEF CommittedOK, LogOK
<1>1. /\ new \in Seq(LogRows(feed)) /\ DOMAIN log \subseteq DOMAIN new
      /\ \A i \in DOMAIN log : new[i] = log[i]
      /\ \A i \in DOMAIN new : i \in DOMAIN log \/ new[i] = row
  <2>1. \A i \in DOMAIN new : i \in DOMAIN log \/ i = Len(log) + 1
    BY <1>0, AppendSeq
  <2> QED BY <1>0, <2>1, AppendSeq
<1> HIDE DEF new
<1>2. LogOK(feed, new, t)
  BY <1>0, <1>1 DEF CommittedOK, LogOK
<1>3. CoveredOrLogged(feed, t, new)
  BY <1>1 DEF CommittedOK, CoveredOrLogged
<1>4. CommittedOK(feed, t, new)
  BY <1>2, <1>3 DEF CommittedOK
<1>5. ASSUME NEW p, CommandOK(feed, p, t, log) PROVE CommandOK(feed, p, t, new)
  <2>1. p.ids \in Seq(DOMAIN log) /\ \A i \in 1..Len(p.ids) : TookEffect(feed, log[p.ids[i]], t)
    BY <1>5 DEF CommandOK
  <2>2. p.ids \in Seq(DOMAIN new)
    BY <1>1, <2>1, WidenSeq
  <2>3. \A i \in 1..Len(p.ids) : TookEffect(feed, new[p.ids[i]], t)
    <3>1. \A i \in 1..Len(p.ids) : p.ids[i] \in DOMAIN log
      BY <2>1
    <3> QED BY <1>1, <2>1, <3>1
  <2> QED BY <1>1, <1>5, <2>2, <2>3 DEF CommandOK
<1> QED BY <1>4, <1>5 DEF new

\* Resolving a row whose event took effect keeps the invariant of the log.
LEMMA LogResolve ==
    ASSUME NEW t, NEW log, CommittedOK(feed, t, log), NEW k \in DOMAIN log,
           TookEffect(feed, log[k], t)
    PROVE  /\ CommittedOK(feed, t, [log EXCEPT ![k].resolved = TRUE])
           /\ \A p : CommandOK(feed, p, t, log) =>
                        CommandOK(feed, p, t, [log EXCEPT ![k].resolved = TRUE])
<1> DEFINE again == [log[k] EXCEPT !.resolved = TRUE]
           new == [log EXCEPT ![k].resolved = TRUE]
<1>0. log \in Seq(LogRows(feed)) /\ log[k] \in LogRows(feed)
  BY DEF CommittedOK, LogOK
<1>1. /\ again \in LogRows(feed) /\ TookEffect(feed, again, t)
      /\ again.height = log[k].height /\ again.tx = log[k].tx /\ again.index = log[k].index
      /\ again.key = log[k].key /\ again.severity = log[k].severity
  BY <1>0, RowFacts, EffectOfResolved
<1>2. new = [log EXCEPT ![k] = again]
  OBVIOUS
<1> HIDE DEF new, again
<1>3. /\ new \in Seq(LogRows(feed)) /\ DOMAIN new = DOMAIN log /\ new[k] = again
      /\ \A i \in DOMAIN log : i # k => new[i] = log[i]
  BY <1>0, <1>1, <1>2
<1>4. ASSUME NEW i \in DOMAIN log, TookEffect(feed, log[i], t) PROVE TookEffect(feed, new[i], t)
  BY <1>1, <1>3, <1>4
<1>5. LogOK(feed, new, t)
  BY <1>1, <1>3 DEF CommittedOK, LogOK
<1>6. CoveredOrLogged(feed, t, new)
  <2>1. ASSUME NEW i \in DOMAIN log, NEW h, NEW p, Misses(log[i], h, p) PROVE Misses(new[i], h, p)
    BY <1>1, <1>3, <2>1 DEF Misses
  <2> QED BY <1>3, <2>1 DEF CommittedOK, CoveredOrLogged
<1>7. CommittedOK(feed, t, new)
  BY <1>5, <1>6 DEF CommittedOK
<1>8. ASSUME NEW p, CommandOK(feed, p, t, log) PROVE CommandOK(feed, p, t, new)
  <2>1. p.ids \in Seq(DOMAIN log) /\ \A i \in 1..Len(p.ids) : TookEffect(feed, log[p.ids[i]], t)
    BY <1>8 DEF CommandOK
  <2>2. \A i \in 1..Len(p.ids) : TookEffect(feed, new[p.ids[i]], t)
    <3>1. \A i \in 1..Len(p.ids) : p.ids[i] \in DOMAIN log
      BY <2>1
    <3> QED BY <1>4, <2>1, <3>1
  <2> QED BY <1>3, <1>8, <2>2 DEF CommandOK
<1> QED BY <1>7, <1>8 DEF new

\* Tables that only grow keep the invariant of the log and of the ids to resolve.
LEMMA TablesGrow ==
    ASSUME NEW t, NEW log, CommittedOK(feed, t, log), NEW u, TablesOK(u), u.cursor = t.cursor,
           t.ledger \subseteq u.ledger, t.activity \subseteq u.activity,
           MirrorOK(feed, u.raw, u.cursor)
    PROVE  /\ CommittedOK(feed, u, log)
           /\ \A p : CommandOK(feed, p, t, log) => CommandOK(feed, p, u, log)
<1>1. LogOK(feed, log, u)
  BY EffectStays DEF CommittedOK, LogOK
<1>2. CoveredOrLogged(feed, u, log)
  BY DEF CommittedOK, CoveredOrLogged, OnTimeline
<1>3. \A p : CommandOK(feed, p, t, log) => CommandOK(feed, p, u, log)
  BY EffectStays DEF CommandOK
<1> QED BY <1>1, <1>2, <1>3 DEF CommittedOK
------------------------------------------------------------------------------
(* Ingest.                                                                 *)

\* BeginWindow: the transaction starts from the committed tables.
LEMMA BeginWindowInv == Inv /\ BeginWindow => Inv'
<1> SUFFICES ASSUME Inv, BeginWindow PROVE Inv'
  OBVIOUS
<1>1. PICK n \in 1..MaxWindow, bulk \in BOOLEAN :
         /\ db.cursor + n <= MaxHeight
         /\ proc' = [Idle EXCEPT !.pc = "apply", !.tx = db, !.next = db.cursor + 1,
                                 !.last = db.cursor + n, !.bulk = bulk]
  BY DEF BeginWindow
<1>2. UNCHANGED << chain, feed, db, errorLog, unknownLog, unknown, faults, repairs >>
  BY DEF BeginWindow
<1>3. TablesOK(db) /\ db.cursor \in Nat /\ MirrorOK(feed, db.raw, db.cursor)
  BY BlockAssumption DEF Inv, CommittedOK
<1> DEFINE p == [Idle EXCEPT !.pc = "apply", !.tx = db, !.next = db.cursor + 1,
                             !.last = db.cursor + n, !.bulk = bulk]
<1>4. /\ DOMAIN p = ProcFields /\ p.pc = "apply" /\ p.tx = db /\ p.next = db.cursor + 1
      /\ p.last = db.cursor + n /\ p.raw = {} /\ p.failed = FALSE /\ p.pending = << >>
      /\ p.rows = {} /\ p.ids = << >>
  BY DEF Idle, ProcFields
<1> HIDE DEF p
<1>5. InWindow(feed, p, db)
  <2>0. n \in Nat /\ n >= 1 /\ MaxHeight \in Nat
    BY BlockAssumption
  <2>1. p.next - 1 = db.cursor /\ (db.cursor + 1)..(p.next - 1) = {}
    BY <1>3, <1>4
  <2>2. p.next \in (db.cursor + 1)..(MaxHeight + 1) /\ p.last \in Nat /\ p.last <= MaxHeight
        /\ p.next <= p.last
    BY <1>1, <1>3, <1>4, <2>0
  <2> QED BY <1>3, <1>4, <2>1, <2>2 DEF InWindow, MirrorOK
<1>6. WindowOK(feed, p, db)
  BY <1>4, <1>5 DEF WindowOK
<1>7. CommandOK(feed, p, db, errorLog)
  <2>1. << >> \in Seq(Raised(feed)) /\ << >> \in Seq(DOMAIN errorLog)
        /\ \A i \in 1..Len(<< >>) : FALSE
    OBVIOUS
  <2> QED BY <1>4, <2>1 DEF CommandOK
<1>8. proc' = p
  BY <1>1 DEF p
<1> QED BY <1>2, <1>6, <1>7, <1>8 DEF Inv

\* What replacing heights of the raw mirror leaves in it.
LEMMA MirroredOK ==
    ASSUME NEW raw, NEW heights
    PROVE  /\ DOMAIN FlushRaw(raw, heights) = DOMAIN raw \cup heights
           /\ \A h \in heights : FlushRaw(raw, heights)[h] = feed[h].raw
           /\ \A h \in DOMAIN raw : h \notin heights => FlushRaw(raw, heights)[h] = raw[h]
  BY DEF FlushRaw

\* Commit: the cursor moves over blocks that are all covered and mirrored, or
\* nothing changes.
LEMMA CommitInv == Inv /\ Commit => Inv'
<1> SUFFICES ASSUME Inv, Commit PROVE Inv'
  OBVIOUS
<1>1. UNCHANGED << chain, feed, errorLog, unknownLog, unknown, repairs >> /\ proc.pc = "commit"
  BY DEF Commit
<1>2. /\ InWindow(feed, proc, db) /\ CommandOK(feed, proc, db, errorLog)
      /\ CommittedOK(feed, db, errorLog)
  BY <1>1 DEF Inv, WindowOK
<1>3. CASE db' = CloseWindow(proc) /\ proc' = [proc EXCEPT !.pc = "errors"] /\ UNCHANGED faults
  <2> DEFINE c == proc.next - 1
             R == FlushRaw(proc.tx.raw, proc.raw)
             t == [proc.tx EXCEPT !.cursor = c, !.raw = R]
             p == [proc EXCEPT !.pc = "errors"]
  <2>1. db' = t
    BY <1>3 DEF CloseWindow
  <2>2. TablesOK(proc.tx) /\ DOMAIN proc.tx = Columns
    BY <1>2 DEF InWindow, TablesOK
  <2>3. /\ DOMAIN R = DOMAIN proc.tx.raw \cup proc.raw
        /\ \A h \in proc.raw : R[h] = feed[h].raw
        /\ \A h \in DOMAIN proc.tx.raw : h \notin proc.raw => R[h] = proc.tx.raw[h]
    BY MirroredOK
  <2> HIDE DEF R, c
  <2>4. /\ t.cursor = c /\ t.raw = R /\ t.ledger = proc.tx.ledger /\ DOMAIN t = Columns
        /\ t.activity = proc.tx.activity /\ t.counters = proc.tx.counters
        /\ t.inventory = proc.tx.inventory /\ t.infusion = proc.tx.infusion
    BY <2>2, Lists
  <2> HIDE DEF t
  <2>5. TablesOK(t)
    BY <2>2, <2>4 DEF TablesOK, Dense, Summed
  <2>6. db.cursor \in Nat /\ MaxHeight \in Nat /\ proc.next \in (db.cursor + 1)..(MaxHeight + 1)
    BY <1>2, BlockAssumption DEF CommittedOK, InWindow
  <2>7. c \in 0..MaxHeight /\ db.cursor <= c /\ c \in Nat
    BY <2>6 DEF c
  <2>8. DOMAIN R = DOMAIN db.raw \cup (db.cursor + 1)..c
    BY <1>2, <2>3 DEF InWindow, c
  <2>9. MirrorOK(feed, t.raw, t.cursor)
    <3>1. DOMAIN db.raw \subseteq 1..db.cursor /\ \A h \in DOMAIN db.raw : h..db.cursor \subseteq DOMAIN db.raw
      BY <1>2 DEF CommittedOK, MirrorOK
    <3>2. DOMAIN R \subseteq 1..c
      BY <2>6, <2>7, <2>8, <3>1
    <3>3. ASSUME NEW h \in DOMAIN R PROVE R[h] = feed[h].raw
      BY <1>2, <2>3 DEF InWindow
    <3>4. ASSUME NEW h \in DOMAIN R, NEW k \in h..c PROVE k \in DOMAIN R
      <4>1. CASE k > db.cursor
        BY <2>6, <2>7, <2>8, <3>2, <4>1
      <4>2. CASE ~(k > db.cursor)
        <5>1. h \in DOMAIN db.raw /\ k \in h..db.cursor
          BY <2>6, <2>7, <2>8, <3>2, <4>2
        <5> QED BY <2>8, <3>1, <5>1
      <4> QED BY <4>1, <4>2
    <3> QED BY <2>4, <3>2, <3>3, <3>4 DEF MirrorOK
  <2>10. LogOK(feed, errorLog, t)
    BY <1>2, <2>4, EffectStays DEF CommittedOK, LogOK, InWindow
  <2>11. CoveredOrLogged(feed, t, errorLog)
    <3> SUFFICES ASSUME NEW h \in 1..t.cursor, NEW q \in Attacks(feed, h)
                 PROVE  \/ OnTimeline(t.activity,
                              Value(q.event, "eventAttackDetail").planet, Position(h, q))
                        \/ \E i \in DOMAIN errorLog : Misses(errorLog[i], h, q)
      BY DEF CoveredOrLogged
    <3>1. CASE h \in 1..db.cursor
      BY <1>2, <2>4, <3>1 DEF CommittedOK, CoveredOrLogged, OnTimeline, InWindow
    <3>2. CASE h \notin 1..db.cursor
      <4>1. h \in (db.cursor + 1)..(proc.next - 1)
        BY <2>4, <2>6, <2>7, <3>2 DEF c
      <4>2. Covered(feed, proc.tx.activity, h)
        BY <1>2, <4>1 DEF InWindow
      <4> QED BY <2>4, <4>2 DEF Covered
    <3> QED BY <3>1, <3>2
  <2>12. CommittedOK(feed, t, errorLog)
    BY <2>4, <2>5, <2>7, <2>9, <2>10, <2>11 DEF CommittedOK
  <2>13. /\ DOMAIN p = ProcFields /\ p.pc = "errors" /\ p.next = proc.next /\ p.last = proc.last
         /\ p.failed = proc.failed /\ p.pending = proc.pending /\ p.rows = proc.rows
         /\ p.ids = proc.ids
    BY <1>2 DEF CommandOK, ProcFields
  <2> HIDE DEF p
  <2>14. CommandOK(feed, p, t, errorLog)
    BY <1>2, <2>4, <2>13, EffectStays DEF CommandOK, InWindow
  <2>15. WindowOK(feed, p, t)
    <3>1. p.next = t.cursor + 1
      BY <2>4, <2>6, <2>13 DEF c
    <3> QED BY <1>2, <2>13, <3>1 DEF WindowOK, InWindow
  <2>16. db' = t /\ proc' = p
    BY <1>3, <2>1 DEF p
  <2> QED BY <1>1, <1>3, <2>12, <2>14, <2>15, <2>16 DEF Inv
<1>4. CASE /\ Happens("commit") /\ proc' = [proc EXCEPT !.pc = "errors", !.failed = TRUE]
           /\ UNCHANGED db
  <2> DEFINE p == [proc EXCEPT !.pc = "errors", !.failed = TRUE]
  <2>1. /\ DOMAIN p = ProcFields /\ p.pc = "errors" /\ p.failed = TRUE
        /\ p.pending = proc.pending /\ p.rows = proc.rows /\ p.ids = proc.ids
    BY <1>2 DEF CommandOK, ProcFields
  <2> HIDE DEF p
  <2>2. CommandOK(feed, p, db, errorLog) /\ WindowOK(feed, p, db)
    BY <1>2, <2>1 DEF CommandOK, WindowOK
  <2>3. proc' = p
    BY <1>4 DEF p
  <2>4. faults' \in 0..MaxFaults
    BY <1>4, BlockAssumption DEF Happens, May, Inv
  <2> QED BY <1>1, <1>4, <2>2, <2>3, <2>4 DEF Inv
<1> QED BY <1>3, <1>4 DEF Commit

\* What applying the block of height h to the tables b may come to, within the bound
\* on faults.
LEMMA OutcomeOK ==
    ASSUME Inv, NEW b, TablesOK(b), NEW h \in 1..MaxHeight, NEW w \in Outcomes(b, h)
    PROVE  Applied(w, b, h) /\ faults + Tripped(w) \in 0..MaxFaults
<1>1. PICK trip \in BlockTrips(h) : w = ApplyBlockInTx(Work(b, unknown, trip), h, feed[h])
  BY DEF Outcomes
<1>2. WellServed(feed[h]) /\ Counted(unknown) /\ h \in Int
  BY ServedHere DEF Inv, IsServed
<1>3. Applied(w, b, h) /\ w.trip = trip
  BY <1>1, <1>2, AppliedOK
<1>4. trip = NoTrip \/ (trip # NoTrip /\ faults < MaxFaults)
  BY <1>1 DEF BlockTrips, Tripping, May
<1>5. faults + Tripped(w) \in 0..MaxFaults
  BY <1>3, <1>4, BlockAssumption DEF Tripped, Inv
<1> QED BY <1>3, <1>5

\* What reconciling the block of height h may come to: it is refused, or it is applied
\* to tables whose positions have their phases.
LEMMA ReconcileOutcomeOK ==
    ASSUME Inv, NEW h \in 1..MaxHeight, NEW b, b = ReconcilePositions(db, h), TablesOK(b),
           NEW w \in ReconcileOutcomes(h)
    PROVE  /\ Applied(w, b, h) /\ faults + Tripped(w) \in 0..MaxFaults
           /\ ~w.failed => LegacyProven(db, h) /\ w \in Outcomes(b, h)
<1>1. CASE LegacyProven(db, h)
  <2>1. PICK u \in Outcomes(b, h) : w = Validated(u)
    BY <1>1 DEF ReconcileOutcomes
  <2>2. Applied(u, b, h) /\ faults + Tripped(u) \in 0..MaxFaults
    BY OutcomeOK
  <2>3. CASE w = u
    BY <1>1, <2>2, <2>3
  <2>4. CASE w # u
    <3> DEFINE v == [u EXCEPT !.failed = TRUE]
    <3>1. w = v
      BY <2>1, <2>4 DEF Validated
    <3>2. /\ DOMAIN v = WorkFields /\ v.failed = TRUE /\ v.errors = u.errors
          /\ v.unknown = u.unknown /\ v.trip = u.trip
      BY <2>2 DEF Applied, WorkFields
    <3> HIDE DEF v
    <3> QED BY <2>2, <3>1, <3>2 DEF Applied, Tripped
  <2> QED BY <2>3, <2>4
<1>2. CASE ~LegacyProven(db, h)
  <2> DEFINE u == Work(db, unknown, NoTrip)
             v == [u EXCEPT !.failed = TRUE]
  <2>1. w = v
    BY <1>2 DEF ReconcileOutcomes
  <2>2. /\ DOMAIN u = WorkFields /\ u.errors = << >> /\ u.unknown = unknown /\ u.trip = NoTrip
    BY DEF Work, WorkFields
  <2> HIDE DEF u
  <2>3. /\ DOMAIN v = WorkFields /\ v.failed = TRUE /\ v.errors = << >>
        /\ v.unknown = unknown /\ v.trip = NoTrip
    BY <2>2 DEF WorkFields
  <2> HIDE DEF v
  <2>4. << >> \in Seq(Reports(feed, h))
    OBVIOUS
  <2>5. Counted(unknown) /\ faults \in 0..MaxFaults /\ MaxFaults \in Nat
    BY BlockAssumption DEF Inv
  <2>6. Tripped(w) = 0
    BY <2>1, <2>3 DEF Tripped
  <2>7. faults + Tripped(w) \in 0..MaxFaults
    BY <2>5, <2>6
  <2>8. /\ DOMAIN w = WorkFields /\ w.failed = TRUE
        /\ w.errors \in Seq(Reports(feed, h)) /\ Counted(w.unknown)
    BY <2>1, <2>3, <2>4, <2>5
  <2>9. Applied(w, b, h)
    BY <2>8 DEF Applied
  <2> QED BY <2>7, <2>8, <2>9
<1> QED BY <1>1, <1>2

\* The reports of a block join the rows pending.
LEMMA RaisedBy ==
    ASSUME NEW h \in 1..MaxHeight, NEW errors \in Seq(Reports(feed, h)),
           NEW pending \in Seq(Raised(feed))
    PROVE  pending \o errors \in Seq(Raised(feed)) /\ errors \in Seq(Raised(feed))
<1>1. Reports(feed, h) \subseteq Raised(feed)
  BY DEF Raised
<1>2. errors \in Seq(Raised(feed))
  BY <1>1, WidenSeq
<1> QED BY <1>2, ConcatProperties

\* ApplyBlock: the window is one block longer, or the command goes on to write its
\* errors.
LEMMA ApplyBlockInv == Inv /\ ApplyBlock => Inv'
<1> SUFFICES ASSUME Inv, ApplyBlock PROVE Inv'
  OBVIOUS
<1> DEFINE h == proc.next
           batch == proc.raw \cup {h}
           flush == ~proc.bulk \/ RawFull(batch)
<1>1. proc.pc = "apply" /\ UNCHANGED << chain, feed, db, errorLog, unknownLog, repairs >>
  BY DEF ApplyBlock
<1>2. PICK w \in Outcomes(proc.tx, h) :
         /\ unknown' = w.unknown
         /\ faults' = faults + Tripped(w)
         /\ \/ /\ w.failed
               /\ proc' = [proc EXCEPT !.pending = @ \o w.errors, !.pc = "errors",
                                       !.failed = TRUE]
            \/ /\ ~w.failed
               /\ proc' = [proc EXCEPT
                      !.pending = @ \o w.errors, !.tx = Mirrored(w.db, batch, flush),
                      !.next = @ + 1, !.raw = IF flush THEN {} ELSE batch,
                      !.pc = IF proc.bulk /\ proc.next < proc.last THEN @ ELSE "commit"]
  BY DEF ApplyBlock
<1>3. InWindow(feed, proc, db) /\ CommandOK(feed, proc, db, errorLog)
  BY <1>1 DEF Inv, WindowOK
<1>4. db.cursor \in Nat /\ MaxHeight \in Nat /\ proc.last \in Nat /\ proc.last <= MaxHeight
      /\ h \in (db.cursor + 1)..(MaxHeight + 1) /\ h <= proc.last
  BY <1>1, <1>3, BlockAssumption DEF Inv, CommittedOK, InWindow
<1>5. h \in 1..MaxHeight
  BY <1>4
<1>6. Applied(w, proc.tx, h) /\ faults + Tripped(w) \in 0..MaxFaults
  <2>1. TablesOK(proc.tx)
    BY <1>3 DEF InWindow
  <2> QED BY <1>2, <1>5, <2>1, OutcomeOK
<1> DEFINE X == proc.pending \o w.errors
<1>7. X \in Seq(Raised(feed))
  BY <1>3, <1>5, <1>6, RaisedBy DEF Applied, CommandOK
<1>8. CASE w.failed /\ proc' = [proc EXCEPT !.pending = @ \o w.errors, !.pc = "errors",
                                       !.failed = TRUE]
  <2> HIDE DEF X
  <2> DEFINE p == [proc EXCEPT !.pending = X, !.pc = "errors", !.failed = TRUE]
  <2>1. proc' = p
    BY <1>8 DEF X
  <2>2. /\ DOMAIN p = ProcFields /\ p.pc = "errors" /\ p.failed = TRUE
        /\ p.pending = X /\ p.rows = proc.rows /\ p.ids = proc.ids
    BY <1>3 DEF CommandOK, ProcFields
  <2> HIDE DEF p
  <2>3. CommandOK(feed, p, db, errorLog) /\ WindowOK(feed, p, db)
    BY <1>3, <1>7, <2>2 DEF CommandOK, WindowOK
  <2> QED BY <1>1, <1>2, <1>6, <2>1, <2>3 DEF Inv, Applied
<1>9. CASE /\ ~w.failed
           /\ proc' = [proc EXCEPT
                  !.pending = @ \o w.errors, !.tx = Mirrored(w.db, batch, flush),
                  !.next = @ + 1, !.raw = IF flush THEN {} ELSE batch,
                  !.pc = IF proc.bulk /\ proc.next < proc.last THEN @ ELSE "commit"]
  <2> DEFINE t == Mirrored(w.db, batch, flush)
             R == IF flush THEN {} ELSE batch
             more == proc.bulk /\ proc.next < proc.last
             c == IF more THEN proc.pc ELSE "commit"
             p == [proc EXCEPT !.pending = X, !.tx = t, !.next = h + 1, !.raw = R, !.pc = c]
  <2>1. proc' = p
    BY <1>9
  <2>2. Grown(w.db, proc.tx) /\ Covered(feed, w.db.activity, h)
    BY <1>6, <1>9 DEF Applied
  <2>3. /\ DOMAIN t.raw \cup R = DOMAIN proc.tx.raw \cup batch /\ R \subseteq batch
        /\ \A k \in DOMAIN t.raw : t.raw[k] = feed[k].raw
        /\ t.cursor = w.db.cursor /\ t.ledger = w.db.ledger /\ t.activity = w.db.activity
        /\ TablesOK(t)
    <3>1. w.db.raw = proc.tx.raw /\ TablesOK(w.db) /\ DOMAIN w.db = Columns
          /\ \A k \in DOMAIN proc.tx.raw : proc.tx.raw[k] = feed[k].raw
      BY <1>3, <2>2 DEF Grown, TablesOK, InWindow
    <3>2. CASE ~flush
      <4>1. t = w.db /\ R = batch
        BY <3>2 DEF Mirrored
      <4> HIDE DEF t, R, batch, flush
      <4> QED BY <3>1, <4>1
    <3>3. CASE flush
      <4> DEFINE F == FlushRaw(w.db.raw, batch)
                 v == [w.db EXCEPT !.raw = F]
      <4>1. t = v /\ R = {}
        BY <3>3 DEF Mirrored
      <4> HIDE DEF t, R, batch, flush
      <4>2. /\ DOMAIN F = DOMAIN w.db.raw \cup batch
            /\ \A k \in batch : F[k] = feed[k].raw
            /\ \A k \in DOMAIN w.db.raw : k \notin batch => F[k] = w.db.raw[k]
        BY MirroredOK
      <4> HIDE DEF F
      <4>3. /\ v.cursor = w.db.cursor /\ v.raw = F /\ v.ledger = w.db.ledger /\ DOMAIN v = Columns
            /\ v.activity = w.db.activity /\ v.counters = w.db.counters
            /\ v.inventory = w.db.inventory /\ v.infusion = w.db.infusion
        BY <3>1, Lists
      <4> HIDE DEF v
      <4>4. TablesOK(v)
        BY <3>1, <4>3 DEF TablesOK, Dense, Summed
      <4> QED BY <3>1, <4>1, <4>2, <4>3, <4>4
    <3> QED BY <3>2, <3>3
  <2>4. c = "commit" \/ (c = "apply" /\ proc.next < proc.last)
    BY <1>1
  <2> HIDE DEF t, R, more, c, X, flush
  <2>5. /\ DOMAIN p = ProcFields /\ p.pc = c /\ p.failed = proc.failed /\ p.pending = X
        /\ p.rows = proc.rows /\ p.ids = proc.ids /\ p.tx = t /\ p.next = h + 1
        /\ p.last = proc.last /\ p.raw = R
    BY <1>3 DEF CommandOK, ProcFields
  <2> HIDE DEF p
  <2>6. InWindow(feed, p, db)
    <3>1. TablesOK(t) /\ t.cursor = db.cursor /\ db.ledger \subseteq t.ledger
          /\ db.activity \subseteq t.activity /\ proc.tx.activity \subseteq t.activity
      BY <1>3, <2>2, <2>3 DEF InWindow, Grown
    <3>2. /\ p.next \in (db.cursor + 1)..(MaxHeight + 1) /\ p.next - 1 = h
          /\ c = "apply" => p.next <= p.last
      BY <1>4, <2>4, <2>5
    <3>3. ASSUME NEW k \in (db.cursor + 1)..h PROVE Covered(feed, t.activity, k)
      <4>1. CASE k = h
        BY <2>2, <2>3, <4>1
      <4>2. CASE k # h
        <5>1. k \in (db.cursor + 1)..(h - 1)
          BY <1>4, <4>2
        <5>2. Covered(feed, proc.tx.activity, k)
          BY <1>3, <5>1 DEF InWindow
        <5> QED BY <3>1, <5>2 DEF Covered, OnTimeline
      <4> QED BY <4>1, <4>2
    <3>4. (db.cursor + 1)..h = ((db.cursor + 1)..(h - 1)) \cup {h}
      BY <1>4
    <3>5. batch \subseteq (db.cursor + 1)..h
          /\ DOMAIN proc.tx.raw \cup batch = DOMAIN db.raw \cup (db.cursor + 1)..h
      BY <1>3, <3>4 DEF InWindow
    <3> QED BY <1>4, <2>3, <2>5, <3>1, <3>2, <3>3, <3>5 DEF InWindow
  <2>7. CommandOK(feed, p, db, errorLog) /\ WindowOK(feed, p, db)
    BY <1>3, <1>7, <2>4, <2>5, <2>6 DEF CommandOK, WindowOK
  <2> QED BY <1>1, <1>2, <1>6, <2>1, <2>7 DEF Inv, Applied
<1> QED BY <1>2, <1>8, <1>9
------------------------------------------------------------------------------
(* The error log, the unknown keys, and crashes.                           *)

\* WriteHandlerError: the row is written, or lost.
LEMMA WriteInv == Inv /\ WriteHandlerError => Inv'
<1> SUFFICES ASSUME Inv, WriteHandlerError PROVE Inv'
  OBVIOUS
<1> DEFINE X == Tail(proc.pending)
           p == [proc EXCEPT !.pending = X]
           row == Head(proc.pending)
<1>1. /\ proc.pc = "errors" /\ proc.pending # << >> /\ proc' = p
      /\ UNCHANGED << chain, feed, db, unknownLog, unknown, repairs >>
      /\ \/ errorLog' = Append(errorLog, row) /\ UNCHANGED faults
         \/ Happens("error_row") /\ UNCHANGED errorLog
  BY DEF WriteHandlerError
<1>2. /\ CommandOK(feed, proc, db, errorLog) /\ WindowOK(feed, proc, db)
      /\ CommittedOK(feed, db, errorLog)
  BY DEF Inv
<1>3. proc.pending \in Seq(Raised(feed)) /\ proc.pending # << >>
  BY <1>1, <1>2 DEF CommandOK
<1>4. X \in Seq(Raised(feed)) /\ row \in Raised(feed)
  BY <1>3
<1> HIDE DEF X, row
<1>5. /\ DOMAIN p = ProcFields /\ p.pc = proc.pc /\ p.failed = proc.failed
      /\ p.pending = X /\ p.rows = proc.rows /\ p.ids = proc.ids
      /\ p.next = proc.next /\ p.last = proc.last
  BY <1>2 DEF CommandOK, ProcFields
<1> HIDE DEF p
<1>6. CommandOK(feed, p, db, errorLog) /\ WindowOK(feed, p, db)
  BY <1>1, <1>2, <1>4, <1>5 DEF CommandOK, WindowOK
<1>7. CASE errorLog' = Append(errorLog, row) /\ UNCHANGED faults
  <2>1. /\ CommittedOK(feed, db, Append(errorLog, row))
        /\ CommandOK(feed, p, db, Append(errorLog, row))
    BY <1>2, <1>4, <1>6, LogAppend
  <2> QED BY <1>1, <1>6, <1>7, <2>1 DEF Inv
<1>8. CASE Happens("error_row") /\ UNCHANGED errorLog
  <2>1. faults' \in 0..MaxFaults
    BY <1>8, BlockAssumption DEF Happens, May, Inv
  <2> QED BY <1>1, <1>2, <1>6, <1>8, <2>1 DEF Inv
<1> QED BY <1>1, <1>7, <1>8

\* A step back to the idle command that leaves tables and log alone.
LEMMA StillIdle ==
    ASSUME Inv, UNCHANGED << chain, feed, db, errorLog >>, proc' = Idle,
           Counted(unknown'), Counted(unknownLog'), faults' \in 0..MaxFaults,
           repairs' \in 0..MaxRepairs
    PROVE  Inv'
  BY IdleOK DEF Inv

\* ErrorsWritten: the next block starts from what was committed.
LEMMA ErrorsWrittenInv == Inv /\ ErrorsWritten => Inv'
<1> SUFFICES ASSUME Inv, ErrorsWritten PROVE Inv'
  OBVIOUS
<1>1. UNCHANGED << chain, feed, db, errorLog, unknownLog, unknown, faults, repairs >>
      /\ proc.pc = "errors"
  BY DEF ErrorsWritten
<1>2. CASE proc' = Idle
  BY <1>1, <1>2, StillIdle DEF Inv
<1>3. << >> \in Seq(Raised(feed)) /\ << >> \in Seq(DOMAIN errorLog)
      /\ \A i \in 1..Len(<< >>) : FALSE
  OBVIOUS
<1>4. CASE proc' = [Idle EXCEPT !.pc = "unknowns"]
  <2> DEFINE p == [Idle EXCEPT !.pc = "unknowns"]
  <2>1. /\ DOMAIN p = ProcFields /\ p.pc = "unknowns" /\ p.failed = FALSE /\ p.pending = << >>
        /\ p.rows = {} /\ p.ids = << >>
    BY DEF Idle, ProcFields
  <2> HIDE DEF p
  <2>2. CommandOK(feed, p, db, errorLog) /\ WindowOK(feed, p, db)
    BY <1>3, <2>1 DEF CommandOK, WindowOK
  <2> QED BY <1>1, <1>4, <2>2 DEF Inv, p
<1>5. CASE /\ ~proc.failed /\ proc.next <= proc.last
           /\ proc' = [Idle EXCEPT !.pc = "apply", !.tx = db, !.next = proc.next,
                                   !.last = proc.last]
  <2> DEFINE p == [Idle EXCEPT !.pc = "apply", !.tx = db, !.next = proc.next, !.last = proc.last]
  <2>1. /\ DOMAIN p = ProcFields /\ p.pc = "apply" /\ p.failed = FALSE /\ p.pending = << >>
        /\ p.rows = {} /\ p.ids = << >> /\ p.tx = db /\ p.next = proc.next /\ p.last = proc.last
        /\ p.raw = {}
    BY DEF Idle, ProcFields
  <2>2. proc' = p
    BY <1>5
  <2> HIDE DEF p
  <2>3. proc.next = db.cursor + 1 /\ proc.last \in Nat /\ proc.last <= MaxHeight
    BY <1>1, <1>5 DEF Inv, WindowOK
  <2>4. TablesOK(db) /\ db.cursor \in Nat /\ MaxHeight \in Nat /\ MirrorOK(feed, db.raw, db.cursor)
    BY BlockAssumption DEF Inv, CommittedOK
  <2>5. /\ p.next - 1 = db.cursor /\ (db.cursor + 1)..(p.next - 1) = {}
        /\ p.next \in (db.cursor + 1)..(MaxHeight + 1) /\ p.next <= p.last
    BY <1>5, <2>1, <2>3, <2>4
  <2>6. InWindow(feed, p, db)
    BY <2>1, <2>3, <2>4, <2>5 DEF InWindow, MirrorOK
  <2>7. CommandOK(feed, p, db, errorLog) /\ WindowOK(feed, p, db)
    BY <1>3, <2>1, <2>6 DEF CommandOK, WindowOK
  <2> QED BY <1>1, <2>2, <2>7 DEF Inv
<1> QED BY <1>2, <1>4, <1>5 DEF ErrorsWritten

\* Merging the deltas of unknown keys into the stored counters.
LEMMA MergedOK ==
    ASSUME NEW stored, NEW deltas, Counted(stored), Counted(deltas)
    PROVE  Counted(Merged(stored, deltas))
<1> DEFINE c == Merged(stored, deltas)
<1>1. DOMAIN c = DOMAIN stored \cup DOMAIN deltas
  BY DEF Merged
<1>2. ASSUME NEW k \in DOMAIN c
      PROVE  /\ c[k].count \in Nat \ {0} /\ c[k].first \in Int /\ c[k].last \in Int
             /\ c[k].first <= c[k].last
  <2>1. CASE k \notin DOMAIN deltas
    BY <1>1, <1>2, <2>1 DEF Merged, Counted
  <2>2. CASE k \in DOMAIN deltas /\ k \notin DOMAIN stored
    BY <1>1, <1>2, <2>2 DEF Merged, Counted
  <2>3. CASE k \in DOMAIN deltas /\ k \in DOMAIN stored
    <3>1. c[k] = [count |-> stored[k].count + deltas[k].count,
                  first |-> Min({stored[k].first, deltas[k].first}),
                  last |-> Max({stored[k].last, deltas[k].last})]
      BY <2>3 DEF Merged
    <3> HIDE DEF c
    <3>2. /\ deltas[k].count \in Nat \ {0} /\ deltas[k].first \in Int /\ deltas[k].last \in Int
          /\ stored[k].count \in Nat \ {0} /\ stored[k].first \in Int /\ stored[k].last \in Int
          /\ stored[k].first <= stored[k].last
      BY <2>3 DEF Counted
    <3>3. /\ Min({stored[k].first, deltas[k].first}) \in Int
          /\ Max({stored[k].last, deltas[k].last}) \in Int
          /\ Min({stored[k].first, deltas[k].first}) <= stored[k].first
          /\ stored[k].last <= Max({stored[k].last, deltas[k].last})
      BY <3>2, MinMax
    <3> QED BY <3>1, <3>2, <3>3
  <2> QED BY <1>1, <2>1, <2>2, <2>3
<1> HIDE DEF c
<1> QED BY <1>2 DEF Counted, c

\* FlushUnknowns: the deltas are stored, or lost.
LEMMA FlushUnknownsInv == Inv /\ FlushUnknowns => Inv'
<1> SUFFICES ASSUME Inv, FlushUnknowns PROVE Inv'
  OBVIOUS
<1>1. /\ UNCHANGED << chain, feed, db, errorLog, repairs >> /\ proc' = Idle /\ unknown' = << >>
      /\ \/ unknownLog' = Merged(unknownLog, unknown) /\ UNCHANGED faults
         \/ Happens("unknown_row") /\ UNCHANGED unknownLog
  BY DEF FlushUnknowns
<1>2. Counted(unknown')
  BY <1>1 DEF Counted
<1>3. Counted(unknownLog')
  BY <1>1, MergedOK DEF Inv
<1>4. faults' \in 0..MaxFaults
  BY <1>1, BlockAssumption DEF Happens, May, Inv
<1> QED BY <1>1, <1>2, <1>3, <1>4, StillIdle DEF Inv

\* Crash: the transaction and the memory of the process go.
LEMMA CrashInv == Inv /\ Crash => Inv'
<1> SUFFICES ASSUME Inv, Crash PROVE Inv'
  OBVIOUS
<1>1. /\ UNCHANGED << chain, feed, db, errorLog, unknownLog, repairs >>
      /\ proc' = Idle /\ unknown' = << >> /\ Happens("crash")
  BY DEF Crash
<1>2. Counted(unknown')
  BY <1>1 DEF Counted
<1>3. faults' \in 0..MaxFaults
  BY <1>1, BlockAssumption DEF Happens, May, Inv
<1> QED BY <1>1, <1>2, <1>3, StillIdle DEF Inv

\* StartReprocess: the rows to replay are rows of the log.
LEMMA StartReprocessInv == Inv /\ StartReprocess => Inv'
<1> SUFFICES ASSUME Inv, StartReprocess PROVE Inv'
  OBVIOUS
<1>1. /\ UNCHANGED << chain, feed, db, errorLog, unknownLog, unknown, faults >>
      /\ repairs < MaxRepairs /\ repairs' = repairs + 1
  BY DEF StartReprocess
<1>2. PICK severities : proc' = [Idle EXCEPT !.pc = "replay", !.rows = Unresolved(severities)]
  BY DEF StartReprocess
<1> DEFINE X == Unresolved(severities)
           p == [Idle EXCEPT !.pc = "replay", !.rows = X]
<1>3. X \subseteq DOMAIN errorLog
  BY DEF Unresolved
<1>4. proc' = p
  BY <1>2
<1> HIDE DEF X
<1>5. /\ DOMAIN p = ProcFields /\ p.pc = "replay" /\ p.failed = FALSE /\ p.pending = << >>
      /\ p.rows = X /\ p.ids = << >>
  BY DEF Idle, ProcFields
<1> HIDE DEF p
<1>6. << >> \in Seq(Raised(feed)) /\ << >> \in Seq(DOMAIN errorLog)
      /\ \A i \in 1..Len(<< >>) : FALSE
  OBVIOUS
<1>7. CommandOK(feed, p, db, errorLog) /\ WindowOK(feed, p, db)
  BY <1>3, <1>5, <1>6 DEF CommandOK, WindowOK
<1>8. repairs' \in 0..MaxRepairs
  BY <1>1, BlockAssumption DEF Inv
<1> QED BY <1>1, <1>4, <1>7, <1>8 DEF Inv

\* A list without its head.
LEMMA TailSeq ==
    ASSUME NEW E, NEW s \in Seq(E), s # << >>
    PROVE  /\ Tail(s) \in Seq(E) /\ Head(s) \in E /\ Head(s) = s[1]
           /\ Len(Tail(s)) = Len(s) - 1 /\ Len(s) \in Nat /\ Len(s) >= 1
           /\ \A i \in 1..Len(Tail(s)) : Tail(s)[i] = s[i + 1]
<1>1. Tail(s) \in Seq(E) /\ Head(s) \in E /\ Len(Tail(s)) = Len(s) - 1
      /\ \A i \in 1..Len(Tail(s)) : Tail(s)[i] = s[i + 1]
  BY HeadTailProperties
<1>2. Len(s) \in Nat /\ Len(s) # 0
  BY EmptySeq
<1>3. Head(s) = s[1]
  OBVIOUS
<1> QED BY <1>1, <1>2, <1>3

\* ResolveError: the event of the row took effect in the committed replay.
LEMMA ResolveInv == Inv /\ ResolveError => Inv'
<1> SUFFICES ASSUME Inv, ResolveError PROVE Inv'
  OBVIOUS
<1> DEFINE X == Tail(proc.ids)
           k == Head(proc.ids)
           p == [proc EXCEPT !.ids = X]
<1>1. /\ UNCHANGED << chain, feed, db, unknownLog, unknown, repairs >>
      /\ proc.pc = "resolve" /\ proc.ids # << >> /\ proc' = p
      /\ \/ errorLog' = [errorLog EXCEPT ![k].resolved = TRUE] /\ UNCHANGED faults
         \/ Happens("error_row") /\ UNCHANGED errorLog
  BY DEF ResolveError
<1>2. /\ CommandOK(feed, proc, db, errorLog) /\ CommittedOK(feed, db, errorLog)
  BY DEF Inv
<1>3. proc.ids \in Seq(DOMAIN errorLog) /\ proc.ids # << >>
      /\ \A i \in 1..Len(proc.ids) : TookEffect(feed, errorLog[proc.ids[i]], db)
  BY <1>1, <1>2 DEF CommandOK
<1>4. /\ X \in Seq(DOMAIN errorLog) /\ k \in DOMAIN errorLog /\ k = proc.ids[1]
      /\ Len(X) = Len(proc.ids) - 1 /\ Len(proc.ids) \in Nat /\ Len(proc.ids) >= 1
      /\ \A i \in 1..Len(X) : X[i] = proc.ids[i + 1]
  BY <1>3, TailSeq
<1>5. TookEffect(feed, errorLog[k], db)
  BY <1>3, <1>4
<1>6. \A i \in 1..Len(X) : TookEffect(feed, errorLog[X[i]], db)
  <2> SUFFICES ASSUME NEW i \in 1..Len(X) PROVE TookEffect(feed, errorLog[X[i]], db)
    OBVIOUS
  <2> HIDE DEF X, k
  <2>1. i + 1 \in 1..Len(proc.ids) /\ X[i] = proc.ids[i + 1]
    BY <1>4
  <2> QED BY <1>3, <2>1
<1> HIDE DEF X, k
<1>7. /\ DOMAIN p = ProcFields /\ p.pc = proc.pc /\ p.failed = proc.failed
      /\ p.pending = proc.pending /\ p.rows = proc.rows /\ p.ids = X
  BY <1>2 DEF CommandOK, ProcFields
<1> HIDE DEF p
<1>8. CommandOK(feed, p, db, errorLog) /\ WindowOK(feed, p, db)
  BY <1>1, <1>2, <1>4, <1>6, <1>7 DEF CommandOK, WindowOK
<1>9. CASE errorLog' = [errorLog EXCEPT ![k].resolved = TRUE] /\ UNCHANGED faults
  <2> DEFINE log == [errorLog EXCEPT ![k].resolved = TRUE]
  <2>1. CommittedOK(feed, db, log) /\ CommandOK(feed, p, db, log)
    BY <1>2, <1>4, <1>5, <1>8, LogResolve
  <2>2. errorLog' = log
    BY <1>9
  <2> HIDE DEF log
  <2> QED BY <1>1, <1>8, <1>9, <2>1, <2>2 DEF Inv
<1>10. CASE Happens("error_row") /\ UNCHANGED errorLog
  <2>1. faults' \in 0..MaxFaults
    BY <1>10, BlockAssumption DEF Happens, May, Inv
  <2> QED BY <1>1, <1>2, <1>8, <1>10, <2>1 DEF Inv
<1> QED BY <1>1, <1>9, <1>10

\* HeightReplayed: on to the next height.
LEMMA HeightReplayedInv == Inv /\ HeightReplayed => Inv'
<1> SUFFICES ASSUME Inv, HeightReplayed PROVE Inv'
  OBVIOUS
<1>1. UNCHANGED << chain, feed, db, errorLog, unknownLog, unknown, faults, repairs >>
  BY DEF HeightReplayed
<1>2. CASE proc' = Idle
  BY <1>1, <1>2, StillIdle DEF Inv
<1>3. CASE proc.pc = "resolve" /\ proc' = [proc EXCEPT !.pc = "replay"]
  <2> DEFINE p == [proc EXCEPT !.pc = "replay"]
  <2>1. CommandOK(feed, proc, db, errorLog)
    BY DEF Inv
  <2>2. /\ DOMAIN p = ProcFields /\ p.pc = "replay" /\ p.failed = proc.failed
        /\ p.pending = proc.pending /\ p.rows = proc.rows /\ p.ids = proc.ids
    BY <2>1 DEF CommandOK, ProcFields
  <2> HIDE DEF p
  <2>3. CommandOK(feed, p, db, errorLog) /\ WindowOK(feed, p, db)
    BY <2>1, <2>2 DEF CommandOK, WindowOK
  <2> QED BY <1>1, <1>3, <2>3 DEF Inv, p
<1> QED BY <1>2, <1>3 DEF HeightReplayed
------------------------------------------------------------------------------
(* Replays and reconciliation.                                             *)

\* ReplayHeight: the work of a height is flushed and its done rows are to be
\* resolved, or nothing of it is kept.
LEMMA ReplayHeightInv == Inv /\ ReplayHeight => Inv'
<1> SUFFICES ASSUME Inv, ReplayHeight PROVE Inv'
  OBVIOUS
<1>1. /\ UNCHANGED << chain, feed, errorLog, unknownLog, unknown, repairs >>
      /\ proc.pc = "replay"
  BY DEF ReplayHeight
<1>2. PICK trip \in Tripping(NextHeight) : \E r \in { Replayed(AllIds, trip) } :
          \/ /\ db.cursor > 0 /\ trip = NoTrip /\ ~r.work.failed
             /\ db' = Flush(r.work)
             /\ proc' = [proc EXCEPT !.rows = @ \ Targets, !.pc = "resolve",
                                     !.ids = Settled(r)]
             /\ UNCHANGED faults
          \/ /\ \/ trip = NoTrip /\ UNCHANGED faults
                \/ trip # NoTrip /\ r.work.failed /\ Happens("handler")
                \/ trip = NoTrip /\ Happens("rpc")
             /\ proc' = [proc EXCEPT !.rows = @ \ Targets]
             /\ UNCHANGED db
  BY DEF ReplayHeight
<1> DEFINE r == Replayed(AllIds, trip)
           R == proc.rows \ Targets
<1>3. \/ /\ ~r.work.failed /\ db' = Flush(r.work)
         /\ proc' = [proc EXCEPT !.rows = R, !.pc = "resolve", !.ids = Settled(r)]
         /\ UNCHANGED faults
      \/ /\ UNCHANGED faults \/ Happens("handler") \/ Happens("rpc")
         /\ proc' = [proc EXCEPT !.rows = R]
         /\ UNCHANGED db
  BY <1>2
<1>4. /\ CommandOK(feed, proc, db, errorLog) /\ CommittedOK(feed, db, errorLog)
      /\ IsServed /\ errorLog \in Seq(LogRows(feed)) /\ TablesOK(db)
  BY ServedHere DEF Inv, CommittedOK, LogOK
<1>5. ReplayOK(r, db, NextHeight)
  BY <1>4, ReplayAll
<1> HIDE DEF r
<1>6. R \subseteq DOMAIN errorLog /\ Targets \subseteq DOMAIN errorLog
  BY <1>4 DEF CommandOK, Targets
<1> HIDE DEF R
<1>7. CASE /\ ~r.work.failed /\ db' = Flush(r.work)
           /\ proc' = [proc EXCEPT !.rows = R, !.pc = "resolve", !.ids = Settled(r)]
           /\ UNCHANGED faults
  <2> DEFINE t == Flush(r.work)
             p == [proc EXCEPT !.rows = R, !.pc = "resolve", !.ids = r.done]
  <2>1. Flushes(t, r.work, db)
    BY <1>4, <1>5, FlushOK DEF ReplayOK
  <2>2. db' = t /\ proc' = p
    BY <1>7 DEF Settled
  <2> HIDE DEF t
  <2>3. MirrorOK(feed, t.raw, t.cursor)
    BY <1>4, <2>1 DEF CommittedOK, Flushes
  <2>4. CommittedOK(feed, t, errorLog) /\ CommandOK(feed, proc, t, errorLog)
    BY <1>4, <2>1, <2>3, TablesGrow DEF Flushes
  <2>5. r.done \in Seq(DOMAIN errorLog)
    BY <1>5, <1>6, WidenSeq DEF ReplayOK
  <2>6. \A i \in 1..Len(r.done) : TookEffect(feed, errorLog[r.done[i]], t)
    BY <1>5, <2>1, WorkedFlushed DEF ReplayOK
  <2>7. /\ DOMAIN p = ProcFields /\ p.pc = "resolve" /\ p.failed = proc.failed
        /\ p.pending = proc.pending /\ p.rows = R /\ p.ids = r.done
    BY <1>4 DEF CommandOK, ProcFields
  <2> HIDE DEF p
  <2>8. CommandOK(feed, p, t, errorLog) /\ WindowOK(feed, p, t)
    BY <1>4, <1>6, <2>5, <2>6, <2>7 DEF CommandOK, WindowOK
  <2> QED BY <1>1, <1>7, <2>2, <2>4, <2>8 DEF Inv
<1>8. CASE /\ UNCHANGED faults \/ Happens("handler") \/ Happens("rpc")
           /\ proc' = [proc EXCEPT !.rows = R]
           /\ UNCHANGED db
  <2> DEFINE p == [proc EXCEPT !.rows = R]
  <2>1. /\ DOMAIN p = ProcFields /\ p.pc = "replay" /\ p.failed = proc.failed
        /\ p.pending = proc.pending /\ p.rows = R /\ p.ids = proc.ids
    BY <1>1, <1>4 DEF CommandOK, ProcFields
  <2>2. proc' = p
    BY <1>8
  <2> HIDE DEF p
  <2>3. CommandOK(feed, p, db, errorLog) /\ WindowOK(feed, p, db)
    BY <1>4, <1>6, <2>1 DEF CommandOK, WindowOK
  <2>4. faults' \in 0..MaxFaults
    BY <1>8, BlockAssumption DEF Happens, May, Inv
  <2> QED BY <1>1, <1>8, <2>2, <2>3, <2>4 DEF Inv
<1> QED BY <1>3, <1>7, <1>8

\* Giving an infusion position its phase leaves the other tables alone.
LEMMA ReconciledOK ==
    ASSUME NEW b, TablesOK(b), NEW h
    PROVE  LET t == ReconcilePositions(b, h)
           IN /\ TablesOK(t) /\ t.cursor = b.cursor /\ t.raw = b.raw
              /\ t.ledger = b.ledger /\ t.activity = b.activity
<1> DEFINE at == Position(h, LastInfusion(h))
           New(who) == IF who \in LegacyAt(b, h) THEN [b.infusion[who] EXCEPT !.position = at]
                       ELSE b.infusion[who]
           X == [who \in DOMAIN b.infusion |-> New(who)]
           t == [b EXCEPT !.infusion = X]
<1>1. ReconcilePositions(b, h) = t
  BY DEF ReconcilePositions
<1> HIDE DEF at
<1>2. DOMAIN b = Columns /\ WholeFuel(b.infusion)
  BY DEF TablesOK
<1>3. ASSUME NEW who \in DOMAIN X
      PROVE  DOMAIN X[who] = {"fuel", "position"} /\ X[who].fuel \in Int
  <2>1. DOMAIN b.infusion[who] = {"fuel", "position"} /\ b.infusion[who].fuel \in Int
    BY <1>2 DEF WholeFuel
  <2>2. X[who] = New(who)
    OBVIOUS
  <2>3. CASE who \in LegacyAt(b, h)
    BY <2>1, <2>2, <2>3
  <2>4. CASE who \notin LegacyAt(b, h)
    BY <2>1, <2>2, <2>4
  <2> QED BY <2>3, <2>4
<1>4. WholeFuel(X)
  <2> HIDE DEF X
  <2> QED BY <1>3 DEF WholeFuel
<1> HIDE DEF X
<1>5. /\ t.cursor = b.cursor /\ t.raw = b.raw /\ t.ledger = b.ledger /\ t.activity = b.activity
      /\ t.counters = b.counters /\ t.inventory = b.inventory /\ t.infusion = X
      /\ DOMAIN t = Columns
  BY <1>2, Lists
<1> HIDE DEF t
<1>6. TablesOK(t)
  BY <1>4, <1>5 DEF TablesOK, Dense, Summed
<1> QED BY <1>1, <1>5, <1>6

\* The inventory summed anew from the ledger is the sum of the ledger.
LEMMA RebuiltOK ==
    ASSUME NEW u, TablesOK(u)
    PROVE  LET t == Rebuilt(u)
           IN /\ TablesOK(t) /\ t.cursor = u.cursor /\ t.raw = u.raw
              /\ t.ledger = u.ledger /\ t.activity = u.activity
<1> DEFINE I == AddToInventory(<< >>, u.ledger)
           t == [u EXCEPT !.inventory = I]
<1>1. Rebuilt(u) = t
  BY DEF Rebuilt
<1>2. WholeRows(u.ledger) /\ DOMAIN u = Columns
  BY DEF TablesOK
<1>3. SumsOf(I, u.ledger)
  <2>1. WholeRows({}) /\ SumsOf(<< >>, {})
    BY FS_EmptySet DEF WholeRows, SumsOf
  <2>2. {} \cap u.ledger = {} /\ {} \cup u.ledger = u.ledger
    OBVIOUS
  <2>3. SumsOf(I, {} \cup u.ledger)
    BY <1>2, <2>1, <2>2, AddOK
  <2> QED BY <2>2, <2>3
<1> HIDE DEF I
<1>4. /\ t.cursor = u.cursor /\ t.raw = u.raw /\ t.ledger = u.ledger /\ t.activity = u.activity
      /\ t.counters = u.counters /\ t.infusion = u.infusion /\ t.inventory = I
      /\ DOMAIN t = Columns
  BY <1>2, Lists
<1> HIDE DEF t
<1>5. TablesOK(t)
  BY <1>3, <1>4 DEF TablesOK, Dense, Summed
<1> QED BY <1>1, <1>4, <1>5

\* Mirroring a block again leaves the other tables alone.
LEMMA RemirrorOK ==
    ASSUME NEW u, TablesOK(u), NEW h
    PROVE  LET t == [u EXCEPT !.raw = FlushRaw(@, {h})]
           IN /\ TablesOK(t) /\ t.cursor = u.cursor /\ t.raw = FlushRaw(u.raw, {h})
              /\ t.ledger = u.ledger /\ t.activity = u.activity
<1> DEFINE R == FlushRaw(u.raw, {h})
           t == [u EXCEPT !.raw = R]
<1> HIDE DEF R
<1>1. DOMAIN u = Columns
  BY DEF TablesOK
<1>2. /\ t.cursor = u.cursor /\ t.raw = R /\ t.ledger = u.ledger /\ t.activity = u.activity
      /\ t.counters = u.counters /\ t.infusion = u.infusion /\ t.inventory = u.inventory
      /\ DOMAIN t = Columns
  BY <1>1, Lists
<1> HIDE DEF t
<1>3. TablesOK(t)
  BY <1>2 DEF TablesOK, Dense, Summed
<1> QED BY <1>2, <1>3 DEF t, R

\* ReconcileCurrentBlock: the tables only grow, and the block of the cursor is
\* mirrored whole again.
LEMMA ReconcileInv == Inv /\ ReconcileCurrentBlock => Inv'
<1> SUFFICES ASSUME Inv, ReconcileCurrentBlock PROVE Inv'
  OBVIOUS
<1> DEFINE h == db.cursor
           b == ReconcilePositions(db, h)
<1>1. /\ UNCHANGED << chain, feed, errorLog, unknownLog, unknown >>
      /\ repairs < MaxRepairs /\ repairs' = repairs + 1 /\ h > 0
  BY DEF ReconcileCurrentBlock
<1>2. PICK w \in ReconcileOutcomes(h) :
          /\ db' = IF w.failed THEN db
                   ELSE [Rebuilt(w.db) EXCEPT !.raw = FlushRaw(@, {h})]
          /\ proc' = [Idle EXCEPT !.pc = "errors", !.pending = w.errors, !.failed = TRUE]
          /\ faults' = faults + Tripped(w)
  BY DEF ReconcileCurrentBlock
<1>3. /\ CommittedOK(feed, db, errorLog) /\ TablesOK(db) /\ h \in 1..MaxHeight /\ h \in Nat
      /\ MirrorOK(feed, db.raw, h) /\ CommandOK(feed, proc, db, errorLog)
  BY <1>1, BlockAssumption DEF Inv, CommittedOK
<1>4. /\ TablesOK(b) /\ b.cursor = h /\ b.raw = db.raw /\ b = ReconcilePositions(db, h)
      /\ b.ledger = db.ledger /\ b.activity = db.activity
  BY <1>3, ReconciledOK
<1> HIDE DEF b
<1>5. Applied(w, b, h) /\ faults' \in 0..MaxFaults
  BY <1>2, <1>3, <1>4, ReconcileOutcomeOK
<1>6. w.errors \in Seq(Raised(feed))
  BY <1>3, <1>5, RaisedBy DEF Applied, CommandOK
<1>7. repairs' \in 0..MaxRepairs
  BY <1>1, BlockAssumption DEF Inv
<1> DEFINE p == [Idle EXCEPT !.pc = "errors", !.pending = w.errors, !.failed = TRUE]
<1>8. /\ DOMAIN p = ProcFields /\ p.pc = "errors" /\ p.failed = TRUE
      /\ p.pending = w.errors /\ p.rows = {} /\ p.ids = << >>
  BY DEF Idle, ProcFields
<1>9. proc' = p
  BY <1>2
<1> HIDE DEF p
<1>10. \A t : CommandOK(feed, p, t, errorLog) /\ WindowOK(feed, p, t)
  <2>1. << >> \in Seq(DOMAIN errorLog) /\ \A i \in 1..Len(<< >>) : FALSE
    OBVIOUS
  <2> QED BY <1>6, <1>8, <2>1 DEF CommandOK, WindowOK
<1>11. CommittedOK(feed, db', errorLog)
  <2>1. CASE w.failed
    BY <1>2, <1>3, <2>1
  <2>2. CASE ~w.failed
    <3> DEFINE u == Rebuilt(w.db)
               t == [u EXCEPT !.raw = FlushRaw(@, {h})]
    <3>1. db' = t
      BY <1>2, <2>2
    <3>2. Grown(w.db, b)
      BY <1>5, <2>2 DEF Applied
    <3>3. /\ TablesOK(u) /\ u.cursor = w.db.cursor /\ u.raw = w.db.raw
          /\ u.ledger = w.db.ledger /\ u.activity = w.db.activity
      BY <3>2, RebuiltOK DEF Grown
    <3> HIDE DEF u
    <3>4. /\ TablesOK(t) /\ t.cursor = u.cursor /\ t.raw = FlushRaw(u.raw, {h})
          /\ t.ledger = u.ledger /\ t.activity = u.activity
      BY <3>3, RemirrorOK
    <3> HIDE DEF t
    <3>5. /\ t.cursor = h /\ t.raw = FlushRaw(db.raw, {h})
          /\ db.ledger \subseteq t.ledger /\ db.activity \subseteq t.activity
      BY <1>4, <3>2, <3>3, <3>4 DEF Grown
    <3>6. MirrorOK(feed, t.raw, t.cursor)
      <4>1. /\ DOMAIN t.raw = DOMAIN db.raw \cup {h} /\ t.raw[h] = feed[h].raw
            /\ \A k \in DOMAIN db.raw : k # h => t.raw[k] = db.raw[k]
        <5>1. /\ DOMAIN FlushRaw(db.raw, {h}) = DOMAIN db.raw \cup {h}
              /\ \A k \in {h} : FlushRaw(db.raw, {h})[k] = feed[k].raw
              /\ \A k \in DOMAIN db.raw : k \notin {h} => FlushRaw(db.raw, {h})[k] = db.raw[k]
          BY MirroredOK
        <5> QED BY <3>5, <5>1
      <4>2. /\ DOMAIN db.raw \subseteq 1..h
            /\ \A k \in DOMAIN db.raw : db.raw[k] = feed[k].raw /\ k..h \subseteq DOMAIN db.raw
        BY <1>3 DEF MirrorOK
      <4>3. h \in 1..h /\ h..h = {h}
        BY <1>3
      <4>4. DOMAIN t.raw \subseteq 1..h
        BY <4>1, <4>2, <4>3
      <4>5. ASSUME NEW k \in DOMAIN t.raw
            PROVE  t.raw[k] = feed[k].raw /\ k..h \subseteq DOMAIN t.raw
        <5>1. CASE k = h
          BY <4>1, <4>3, <5>1
        <5>2. CASE k # h
          BY <4>1, <4>2, <5>2
        <5> QED BY <5>1, <5>2
      <4> QED BY <3>5, <4>4, <4>5 DEF MirrorOK
    <3>7. CommittedOK(feed, t, errorLog)
      BY <1>3, <3>4, <3>5, <3>6, TablesGrow
    <3> QED BY <3>1, <3>7
  <2> QED BY <2>1, <2>2
<1> QED BY <1>1, <1>2, <1>5, <1>7, <1>9, <1>10, <1>11 DEF Inv, Applied
------------------------------------------------------------------------------
(* The theorems.                                                           *)

\* Every step of ingest, of a replay and of a reconciliation keeps the invariant.
LEMMA NextInv == Inv /\ [Next]_vars => Inv'
<1> SUFFICES ASSUME Inv, [Next]_vars PROVE Inv'
  OBVIOUS
<1>1. CASE Next
  BY <1>1, BeginWindowInv, ApplyBlockInv, CommitInv, WriteInv, ErrorsWrittenInv,
     FlushUnknownsInv, CrashInv, StartReprocessInv, ReplayHeightInv, ResolveInv,
     HeightReplayedInv, ReconcileInv DEF Next
<1>2. CASE UNCHANGED vars
  BY <1>2 DEF vars, Inv
<1> QED BY <1>1, <1>2

\* The inductive invariant holds in every reachable state of the commands.
THEOREM InvHolds == Spec => []Inv
<1>1. Init => Inv
  BY InitInv
<1>2. Inv /\ [Next]_vars => Inv'
  BY NextInv
<1> QED BY <1>1, <1>2, PTL DEF Spec

\* The tables, the logs and the running command have their types, whatever fails.
THEOREM TypeCorrect == Spec => []TypeOK
<1>1. Inv => TypeOK
  <2> SUFFICES ASSUME Inv PROVE TypeOK
    OBVIOUS
  <2>1. /\ CommittedOK(feed, db, errorLog) /\ CommandOK(feed, proc, db, errorLog)
        /\ errorLog \in Seq(LogRows(feed)) /\ chain \in DOMAIN Chains
        /\ DOMAIN db = DOMAIN EmptyDb /\ db.cursor \in 0..MaxHeight
        /\ faults \in 0..MaxFaults /\ repairs \in 0..MaxRepairs
    BY DEF Inv, CommittedOK, LogOK, TablesOK, Columns
  <2>2. ASSUME NEW i \in DOMAIN errorLog
        PROVE  /\ errorLog[i].height \in 1..MaxHeight /\ errorLog[i].severity \in {"error", "warn"}
               /\ errorLog[i].resolved \in BOOLEAN
    <3>1. errorLog[i] \in LogRows(feed)
      BY <2>1
    <3> QED BY <3>1, RowFacts
  <2>3. ASSUME NEW deltas \in {unknown, unknownLog}, NEW k \in DOMAIN deltas
        PROVE  deltas[k].first <= deltas[k].last /\ deltas[k].count > 0
    <3>1. Counted(deltas)
      BY DEF Inv
    <3> QED BY <3>1 DEF Counted
  <2>4. /\ proc.pc \in {"idle", "apply", "commit", "errors", "unknowns", "replay", "resolve"}
        /\ proc.rows \subseteq DOMAIN errorLog
    BY <2>1 DEF CommandOK
  <2> QED BY <2>1, <2>2, <2>3, <2>4 DEF TypeOK
<1> QED BY <1>1, InvHolds, PTL

\* Every mirrored block is mirrored whole, and none is missing after the first:
\* whether a window writes its raw events at once or holds them back (FlushRaw).
THEOREM MirrorIsWhole == Spec => []RawMirrorWhole
<1>1. Inv => RawMirrorWhole
  BY DEF Inv, CommittedOK, MirrorOK, RawMirrorWhole
<1> QED BY <1>1, InvHolds, PTL

\* A dense timeline has as many rows as its counter says, numbered from 0.
LEMMA Numbered ==
    ASSUME NEW t, Dense(t), NEW planet \in DOMAIN t.counters
    PROVE  LET rows == { r \in t.activity : r.planet = planet }
           IN /\ t.counters[planet] = Cardinality(rows) - 1
              /\ { r.seq : r \in rows } = 0..t.counters[planet]
<1> DEFINE rows == { r \in t.activity : r.planet = planet }
           n == t.counters[planet]
           f == [r \in rows |-> r.seq]
<1>1. n \in Nat
  BY DEF Dense
<1>2. \A r \in rows : r.seq \in 0..n
  BY DEF Dense
<1>3. \A i \in 0..n : \E r \in rows : r.seq = i
  BY DEF Dense
<1>4. \A r, q \in rows : r.seq = q.seq => r = q
  BY DEF Dense
<1> HIDE DEF rows, n
<1>5. f \in Bijection(rows, 0..n)
  BY <1>2, <1>3, <1>4 DEF Bijection, Injection, Surjection, IsInjective
<1>6. ExistsBijection(0..n, rows)
  <2>1. ExistsBijection(rows, 0..n)
    <3> HIDE DEF f
    <3> QED BY <1>5 DEF ExistsBijection
  <2> QED BY <2>1, Fun_ExistsBijSymmetric
<1>7. IsFiniteSet(0..n) /\ Cardinality(0..n) = n + 1
  BY <1>1, FS_Interval
<1>8. Cardinality(rows) = n + 1
  BY <1>6, <1>7, FS_Bijection
<1>9. n = Cardinality(rows) - 1
  BY <1>1, <1>8
<1>10. { r.seq : r \in rows } = 0..n
  BY <1>2, <1>3
<1> QED BY <1>9, <1>10 DEF rows, n

\* Timelines are numbered 0, 1, 2, ... up to their counter, whatever is rolled back,
\* replayed or reconciled (the sequence counters of planet_activity).
THEOREM TimelinesAreDense == Spec => []SequencesAreDense
<1>1. Inv => SequencesAreDense
  <2> SUFFICES ASSUME Inv, NEW planet \in Planets
               PROVE  LET rows == { r \in db.activity : r.planet = planet }
                      IN /\ { r.seq : r \in rows } = 0..(Cardinality(rows) - 1)
                         /\ db.counters[planet] = Cardinality(rows) - 1
    BY DEF SequencesAreDense
  <2>1. Dense(db)
    BY DEF Inv, CommittedOK, TablesOK
  <2>2. planet \in DOMAIN db.counters
    BY <2>1 DEF Planets, Dense
  <2> QED BY <2>1, <2>2, Numbered
<1> QED BY <1>1, InvHolds, PTL

\* The inventory of an address and a denomination is the sum of its ledger rows, for
\* every ledger: a row that was already there moves nothing (flushLedger).
THEOREM InventoryIsSummed == Spec => []InventoryIsLedger
<1>1. Inv => InventoryIsLedger
  <2> SUFFICES ASSUME Inv, NEW a \in Accounts
               PROVE  (IF a \in DOMAIN db.inventory THEN db.inventory[a] ELSE 0) = NetRows(a)
    BY DEF InventoryIsLedger
  <2>1. SumsOf(db.inventory, db.ledger)
    BY DEF Inv, CommittedOK, TablesOK, Summed
  <2>2. NetRows(a) = Total(RowsOf(db.ledger, a))
    BY DEF NetRows, Total, RowsOf, Account
  <2>3. CASE a \in DOMAIN db.inventory
    BY <2>1, <2>2, <2>3 DEF SumsOf
  <2>4. CASE a \notin DOMAIN db.inventory
    <3>1. RowsOf(db.ledger, a) = {}
      BY <2>1, <2>4 DEF SumsOf, RowsOf
    <3> QED BY <2>2, <2>4, <3>1, TotalOfNone
  <2> QED BY <2>3, <2>4
<1> QED BY <1>1, InvHolds, PTL

\* Once no error is left to replay, every attack of an indexed block is on its
\* planet's timeline: a handler that failed left a row that is resolved only when
\* a replay has put the attack there.
THEOREM AttacksAreRecorded == Spec => []TimelineComplete
<1>1. Inv => TimelineComplete
  <2> SUFFICES ASSUME Inv, QueueClean, NEW h \in 1..db.cursor, NEW p \in AttacksAt(h)
               PROVE  \E r \in db.activity : r.at = Position(h, p)
    BY DEF TimelineComplete
  <2>1. CommittedOK(feed, db, errorLog) /\ IsServed
    BY ServedHere DEF Inv
  <2>2. p \in Attacks(feed, h) /\ IsAttack(p) /\ p \in EventsAt(feed, h)
    BY DEF AttacksAt, Attacks, EventsAt, IsAttack
  <2>3. CASE OnTimeline(db.activity, Value(p.event, "eventAttackDetail").planet, Position(h, p))
    BY <2>3 DEF OnTimeline
  <2>4. CASE \E i \in DOMAIN errorLog : Misses(errorLog[i], h, p)
    <3>1. PICK i \in DOMAIN errorLog : Misses(errorLog[i], h, p)
      BY <2>4
    <3> DEFINE row == errorLog[i]
               q == The(Spotted(feed, row))
    <3>2. row.resolved
      <4>1. row.height <= db.cursor /\ row.severity = "error"
        BY <2>1, <3>1, BlockAssumption DEF Misses, CommittedOK
      <4> QED BY <4>1 DEF QueueClean
    <3>3. TookEffect(feed, row, db) /\ row.height = h
      BY <2>1, <3>1, <3>2 DEF CommittedOK, LogOK, Misses
    <3>4. p \in Spotted(feed, row)
      BY <2>2, <3>1 DEF Spotted, Misses, Coordinate
    <3>5. q \in Spotted(feed, row)
      BY <3>4 DEF The
    <3>6. q = p
      <4>1. h \in 1..MaxHeight
        BY <2>1, BlockAssumption DEF CommittedOK
      <4>2. WellServed(feed[h])
        BY <2>1, <4>1 DEF IsServed
      <4>3. \A x, y \in EventsAt(feed, h) : x.tx = y.tx /\ x.index = y.index => x = y
        BY <4>2, ServedEvents
      <4>4. /\ q \in EventsAt(feed, h) /\ Coordinate(q) = <<row.tx, row.index>>
            /\ p \in EventsAt(feed, h) /\ Coordinate(p) = <<row.tx, row.index>>
        BY <3>3, <3>4, <3>5 DEF Spotted
      <4>5. q.tx = p.tx /\ q.index = p.index
        BY <4>4 DEF Coordinate
      <4> QED BY <4>3, <4>4, <4>5
    <3>7. OnTimeline(db.activity, Value(p.event, "eventAttackDetail").planet, Position(h, p))
      BY <2>2, <3>3, <3>6 DEF TookEffect
    <3> QED BY <3>7 DEF OnTimeline
  <2> QED BY <2>1, <2>2, <2>3, <2>4 DEF CommittedOK, CoveredOrLogged
<1> QED BY <1>1, InvHolds, PTL

\* A resolved row is an error, never a warning, whose event is found in the served
\* block and took effect (internal/reprocess resolves after the commit).
THEOREM ResolvedMeansDone == Spec => []ResolvedTookEffect
<1>1. Inv => ResolvedTookEffect
  <2> SUFFICES ASSUME Inv, NEW i \in DOMAIN errorLog, errorLog[i].resolved
               PROVE  LET row == errorLog[i]
                          p == The(Located(row))
                      IN /\ Located(row) # {} /\ row.severity = "error"
                         /\ p.event.type = "EventGrid" => Value(p.event, "gridRecord").id # ""
                         /\ p \in AttacksAt(row.height) =>
                               \E r \in db.activity : r.at = Position(row.height, p)
                         /\ p.event.type \in {"EventOreMine", "EventOreTheft", "EventAlphaRefine"} =>
                               \E r \in db.ledger :
                                  SubSeq(r.key, 1, 4) =
                                  <<row.height, p.tx, p.msg, LedgerLegStride * p.index>>
    BY DEF ResolvedTookEffect
  <2> DEFINE row == errorLog[i]
             p == The(Located(row))
  <2>1. TookEffect(feed, row, db) /\ Spotted(feed, row) = Located(row)
    BY SpottedIsLocated DEF Inv, CommittedOK, LogOK
  <2>2. /\ Located(row) # {} /\ row.severity = "error" /\ ~Warns(p)
        /\ IsAttack(p) => OnTimeline(db.activity, Value(p.event, "eventAttackDetail").planet,
                                     Position(row.height, p))
        /\ IsBooked(p) => RowOf(db.ledger, row.height, p)
    BY <2>1 DEF TookEffect
  <2> HIDE DEF row, p
  <2>3. p.event.type = "EventGrid" => Value(p.event, "gridRecord").id # ""
    BY <2>2 DEF Warns
  <2>4. p \in AttacksAt(row.height) => \E r \in db.activity : r.at = Position(row.height, p)
    BY <2>2 DEF AttacksAt, IsAttack, OnTimeline
  <2>5. p.event.type \in {"EventOreMine", "EventOreTheft", "EventAlphaRefine"} =>
           \E r \in db.ledger :
              SubSeq(r.key, 1, 4) = <<row.height, p.tx, p.msg, LedgerLegStride * p.index>>
    BY <2>2 DEF IsBooked, RowOf
  <2> QED BY <2>2, <2>3, <2>4, <2>5 DEF row, p
<1> QED BY <1>1, InvHolds, PTL
==============================================================================
