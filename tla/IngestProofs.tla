---------------------------- MODULE IngestProofs ----------------------------
(***************************************************************************)
(* Theorems about Ingest, for every chain length, window size, threshold,  *)
(* number and kind of faults that a theorem does not exclude.              *)
(***************************************************************************)
EXTENDS Ingest, TLAPS

-----------------------------------------------------------------------------
(* What the database operators preserve.                                   *)

\* The empty or inherited database is a database.
LEMMA InitialDatabaseType ==
    ASSUME NEW c \in 0..MaxHeight
    PROVE  InitialDatabase(c) \in Database
BY IngestAssumption DEF InitialDatabase, Database, Heights, Statuses, NoStamp

\* SetStatusOnly touches the status and the recorded tip only.
LEMMA SetStatusOnlyType ==
    ASSUME NEW d \in Database, NEW s \in Statuses, NEW t \in 0..MaxHeight
    PROVE  /\ SetStatusOnly(d, s, t) \in Database
           /\ SetStatusOnly(d, s, t).cursor = d.cursor
           /\ SetStatusOnly(d, s, t).rows = d.rows
           /\ SetStatusOnly(d, s, t).coverage = d.coverage
BY DEF SetStatusOnly, Database

\* A rebuild of the projections leaves the index alone.
LEMMA BackfilledType ==
    ASSUME NEW d \in Database
    PROVE  /\ Backfilled(d) \in Database
           /\ Backfilled(d).cursor = d.cursor
           /\ Backfilled(d).rows = d.rows
           /\ Backfilled(d).coverage = d.coverage
BY DEF Backfilled, Database

\* So does an invalidation, with or without the genesis import.
LEMMA InvalidatedType ==
    ASSUME NEW d \in Database
    PROVE  /\ Invalidated(d) \in Database
           /\ Invalidated(d).cursor = d.cursor
           /\ Invalidated(d).rows = d.rows
           /\ Invalidated(d).coverage = d.coverage
           /\ [Invalidated(d) EXCEPT !.genesis = TRUE] \in Database
           /\ [Invalidated(d) EXCEPT !.genesis = TRUE].cursor = d.cursor
           /\ [Invalidated(d) EXCEPT !.genesis = TRUE].rows = d.rows
           /\ [Invalidated(d) EXCEPT !.genesis = TRUE].coverage = d.coverage
BY DEF Invalidated, Database, NoStamp

\* A transaction for lo..hi adds one copy of each of its blocks and moves the
\* cursor to hi.
LEMMA ApplyBlocksType ==
    ASSUME NEW d \in Database, NEW lo \in Nat, NEW hi \in Heights,
           NEW t \in 0..MaxHeight, NEW defer \in BOOLEAN
    PROVE  /\ ApplyBlocks(d, lo, hi, t, defer) \in Database
           /\ ApplyBlocks(d, lo, hi, t, defer).cursor = hi
           /\ ApplyBlocks(d, lo, hi, t, defer).rows = Appended(d.rows, lo, hi)
           /\ ApplyBlocks(d, lo, hi, t, defer).coverage = CoverageAfter(d.coverage, hi)
<1>1. ComputeStatus(hi, t) \in Statuses
  BY DEF ComputeStatus, Statuses
<1>2. Appended(d.rows, lo, hi) \in [Heights -> Nat]
  BY DEF Database, Appended
<1>3. (d.fresh /\ ~defer) \in BOOLEAN
  OBVIOUS
<1>4. CoverageAfter(d.coverage, hi) \in 0..MaxHeight
  BY DEF Database, CoverageAfter, Heights
<1>5. (IF defer THEN d.stamp ELSE hi) \in {NoStamp} \cup 0..MaxHeight
  BY DEF Database, Heights
<1>6. hi \in 0..MaxHeight /\ d.genesis \in BOOLEAN
  BY DEF Database, Heights
<1>7. QED
  BY <1>1, <1>2, <1>3, <1>4, <1>5, <1>6 DEF ApplyBlocks, Database

-----------------------------------------------------------------------------
(* Types, and what the position in the loop says about the window.         *)

WindowOK ==
    /\ pc \notin {"off", "done"} => next >= 1
    /\ pc \in {"fetch", "apply"} => next <= win.end
    /\ pc = "stream" => win.at \in 1..win.end

TypeInv == TypeOK /\ WindowOK

\* No window and no prefetch are a window and a prefetch.
LEMMA EmptyWindowType == NoWindow \in Windows /\ NoPrefetch \in Prefetches
BY IngestAssumption DEF NoWindow, Windows, NoPrefetch, Prefetches

\* The process starts with an empty memory.
LEMMA TypeInit == Init => TypeInv
<1> SUFFICES ASSUME Init PROVE TypeInv
  OBVIOUS
<1>1. PICK c \in Inherited : db = InitialDatabase(c)
  BY DEF Init
<1>2. c \in 0..MaxHeight
  BY IngestAssumption
<1>3. db \in Database /\ disk \in Database
  BY <1>1, <1>2, InitialDatabaseType DEF Init
<1>4. win \in Windows
  BY EmptyWindowType DEF Init
<1>5. pre \in Prefetches
  BY EmptyWindowType DEF Init
<1>6. tip \in Heights /\ pc = "off" /\ next = 0 /\ seen = 0 /\ stale = FALSE /\ faults = 0
  BY DEF Init
<1>7. next \in 0..MaxHeight + 1 /\ seen \in 0..MaxHeight /\ faults \in 0..MaxFaults
  BY <1>6, IngestAssumption
<1>8. TypeOK
  BY <1>3, <1>4, <1>5, <1>6, <1>7 DEF TypeOK
<1>9. WindowOK
  BY <1>6 DEF WindowOK
<1>10. QED
  BY <1>8, <1>9 DEF TypeInv

\* The process leaves nothing behind.
LEMMA ExitType ==
    ASSUME TypeInv, NEW to \in {"off", "done"}, Exit(to), tip' \in Heights,
           db' \in Database, disk' \in Database, faults' \in 0..MaxFaults
    PROVE  TypeInv'
<1>1. NoWindow \in Windows /\ NoPrefetch \in Prefetches
  BY EmptyWindowType
<1>2. 0 \in 0..MaxHeight + 1 /\ 0 \in 0..MaxHeight
  BY IngestAssumption
<1>3. TypeOK'
  BY <1>1, <1>2 DEF Exit, TypeInv, TypeOK
<1>4. WindowOK'
  BY DEF Exit, WindowOK
<1>5. QED
  BY <1>3, <1>4 DEF TypeInv

\* Recovery leaves one of two images of a database that the failure left.
LEMMA EnterRecoveryDatabase ==
    ASSUME NEW d \in Database, NEW image \in Database, EnterRecovery(d, image)
    PROVE  /\ db' \in Database
           /\ disk' \in Database
           /\ db'.cursor = d.cursor /\ db'.rows = d.rows /\ db'.coverage = d.coverage
           /\ disk' \in {db', image}
<1>1. "stalled" \in Statuses /\ d.tip \in 0..MaxHeight
  BY DEF Statuses, Database
<1>2. QED
  BY <1>1, SetStatusOnlyType DEF EnterRecovery, Commit

\* Going into recovery keeps the types and forgets the window.
LEMMA EnterRecoveryType ==
    ASSUME TypeInv, pc \notin {"off", "done"}, NEW d \in Database, NEW image \in Database,
           EnterRecovery(d, image), faults' \in 0..MaxFaults
    PROVE  TypeInv'
<1>1. db' \in Database /\ disk' \in Database
  BY EnterRecoveryDatabase
<1>2. TypeOK'
  BY <1>1, EmptyWindowType, IngestAssumption DEF EnterRecovery, TypeInv, TypeOK
<1>3. WindowOK'
  BY DEF EnterRecovery, TypeInv, WindowOK
<1>4. QED
  BY <1>2, <1>3 DEF TypeInv

\* The fault counter stays within its bound.
LEMMA InjectType ==
    ASSUME TypeInv, NEW kind, Inject(kind)
    PROVE  faults' \in 0..MaxFaults
BY IngestAssumption DEF Inject, TypeInv, TypeOK

\* The target of an iteration is a height of the chain.
LEMMA TargetType ==
    ASSUME TypeInv
    PROVE  Target \in 0..MaxHeight /\ Target <= seen
BY IngestAssumption DEF Target, TypeInv, TypeOK

\* Lowest is one of its arguments and below both.
LEMMA LowestType ==
    ASSUME NEW a \in Int, NEW b \in Int
    PROVE  Lowest(a, b) \in {a, b} /\ Lowest(a, b) <= a /\ Lowest(a, b) <= b
BY DEF Lowest

\* What the transactions of the two modes leave is a database.
LEMMA AppliedType ==
    ASSUME TypeInv
    PROVE  /\ pc = "apply" => BulkApplied \in Database
           /\ pc = "stream" => BlockApplied \in Database
<1>1. ASSUME pc = "apply" PROVE BulkApplied \in Database
  <2>1. next \in Nat /\ win.end \in Heights /\ win.tip \in 0..MaxHeight
    BY <1>1, IngestAssumption DEF TypeInv, TypeOK, WindowOK, Windows, Heights
  <2>2. QED
    BY <2>1, ApplyBlocksType, IngestAssumption DEF BulkApplied, TypeInv, TypeOK
<1>2. ASSUME pc = "stream" PROVE BlockApplied \in Database
  <2>1. win.at \in Nat /\ win.at \in Heights /\ win.tip \in 0..MaxHeight
    BY <1>2, IngestAssumption DEF TypeInv, TypeOK, WindowOK, Windows, Heights
  <2>2. QED
    BY <2>1, ApplyBlocksType DEF BlockApplied, TypeInv, TypeOK
<1>3. QED
  BY <1>1, <1>2

\* Every step keeps the types and the bounds of the window.
LEMMA TypeStep == TypeInv /\ [Next]_vars => TypeInv'
<1> SUFFICES ASSUME TypeInv, [Next]_vars PROVE TypeInv'
  OBVIOUS
<1> USE EmptyWindowType, IngestAssumption
<1>1. CASE Boot
  <2>1. db' \in Database /\ disk' \in Database
    BY <1>1, InvalidatedType DEF Boot, Commit, TypeInv, TypeOK
  <2>2. seen' \in 0..MaxHeight
    BY <1>1 DEF Boot, StatusAnswers, TypeInv, TypeOK, Heights, Highest
  <2>3. TypeOK'
    BY <1>1, <2>1, <2>2 DEF Boot, TypeInv, TypeOK, Heights
  <2>4. WindowOK'
    BY <1>1 DEF Boot, WindowOK
  <2>5. QED
    BY <2>3, <2>4 DEF TypeInv
<1>2. CASE Sweep
  <2>1. db' \in Database /\ disk' \in Database
    BY <1>2, InvalidatedType DEF Sweep, Commit, TypeInv, TypeOK
  <2>2. QED
    BY <1>2, <2>1 DEF Sweep, TypeInv, TypeOK, WindowOK
<1>3. CASE PrepareProjections
  <2>1. db' \in Database /\ disk' \in Database
    BY <1>3, BackfilledType DEF PrepareProjections, Commit, TypeInv, TypeOK
  <2>2. stale' \in BOOLEAN
    BY <1>3 DEF PrepareProjections
  <2>3. QED
    BY <1>3, <2>1, <2>2 DEF PrepareProjections, TypeInv, TypeOK, WindowOK
<1>4. CASE RefuseCoverage
  BY <1>4, ExitType DEF RefuseCoverage, TypeInv, TypeOK
<1>5. CASE ReadStatus
  <2>1. seen' \in 0..MaxHeight
    BY <1>5 DEF ReadStatus, StatusAnswers, TypeInv, TypeOK, Heights, Highest
  <2>2. QED
    BY <1>5, <2>1 DEF ReadStatus, TypeInv, TypeOK, WindowOK
<1>6. CASE RebuildProjections
  <2>1. db' \in Database /\ disk' \in Database /\ pre' \in Prefetches
    BY <1>6, BackfilledType DEF RebuildProjections, KeptPrefetch, Commit, TypeInv, TypeOK
  <2>2. QED
    BY <1>6, <2>1 DEF RebuildProjections, TypeInv, TypeOK, WindowOK
<1>7. CASE IdleAtTip
  <2>1. ComputeStatus(next - 1, seen) \in Statuses
    BY DEF ComputeStatus, Statuses
  <2>2. /\ db' \in Database /\ disk' \in Database
        /\ faults' \in 0..MaxFaults
    BY <1>7, <2>1, SetStatusOnlyType, InjectType DEF IdleAtTip, Commit, TypeInv, TypeOK
  <2>3. QED
    BY <1>7, <2>2 DEF IdleAtTip, Continue, TypeInv, TypeOK, WindowOK
<1>8. CASE Finish
  BY <1>8, ExitType DEF Finish, TypeInv, TypeOK
<1>9. CASE BeginWindow
  <2> DEFINE size == IF UseBulk THEN BulkWindow ELSE BatchSize
  <2>1. size \in Nat \ {0}
    OBVIOUS
  <2>2. next \in 1..Target /\ Target \in 0..MaxHeight
    BY <1>9, TargetType DEF BeginWindow, Idle, TypeInv, TypeOK, WindowOK
  <2>3. WindowEnd(size) \in next..MaxHeight
    BY <2>1, <2>2, LowestType DEF WindowEnd
  <2>4. win' = [end |-> WindowEnd(size), tip |-> seen, at |-> next]
    BY <1>9 DEF BeginWindow
  <2>5. win' \in Windows /\ win'.end = WindowEnd(size) /\ win'.at = next
    BY <2>2, <2>3, <2>4 DEF Windows, TypeInv, TypeOK
  <2>6. pre' \in Prefetches
    BY <1>9 DEF BeginWindow, TypeInv, TypeOK
  <2>7. TypeOK'
    BY <1>9, <2>5, <2>6 DEF BeginWindow, TypeInv, TypeOK
  <2>8. WindowOK'
    BY <1>9, <2>2, <2>3, <2>5 DEF BeginWindow, WindowOK
  <2>9. QED
    BY <2>7, <2>8 DEF TypeInv
<1>10. CASE PrefetchSettles
  <2>1. pre' \in Prefetches
    BY <1>10 DEF PrefetchSettles, TypeInv, TypeOK, Prefetches
  <2>2. faults' \in 0..MaxFaults
    BY <1>10, InjectType DEF PrefetchSettles, TypeInv, TypeOK
  <2>3. QED
    BY <1>10, <2>1, <2>2 DEF PrefetchSettles, TypeInv, TypeOK, WindowOK
<1>11. CASE FetchBulkWindow
  <2>1. win' \in Windows /\ win'.end = win.end
    BY <1>11 DEF FetchBulkWindow, TypeInv, TypeOK, Windows, Prefetches
  <2>2. pre' \in Prefetches
    <3>1. CASE win.end < Target
      <4>1. /\ win.end + 1 \in 0..MaxHeight
            /\ Lowest(win.end + BulkWindow, Target) \in 0..MaxHeight
        BY <3>1, TargetType, LowestType DEF TypeInv, TypeOK, Windows
      <4>2. QED
        BY <1>11, <3>1, <4>1 DEF FetchBulkWindow, TypeInv, TypeOK, Prefetches
    <3>2. CASE ~(win.end < Target)
      BY <1>11, <3>2 DEF FetchBulkWindow
    <3>3. QED
      BY <3>1, <3>2
  <2>3. QED
    BY <1>11, <2>1, <2>2 DEF FetchBulkWindow, TypeInv, TypeOK, WindowOK
<1>12. CASE ApplyBulkWindow
  <2>1. db' \in Database /\ disk' \in Database
    BY <1>12, AppliedType DEF ApplyBulkWindow, TypeInv, TypeOK
  <2>2. next' \in 1..MaxHeight + 1
    BY <1>12 DEF ApplyBulkWindow, TypeInv, TypeOK, WindowOK, Windows
  <2>3. stale' \in BOOLEAN
    BY <1>12 DEF ApplyBulkWindow, StaleAfterWindow
  <2>4. QED
    BY <1>12, <2>1, <2>2, <2>3 DEF ApplyBulkWindow, Continue, TypeInv, TypeOK, WindowOK
<1>13. CASE StreamBlock
  <2>1. db' \in Database /\ disk' \in Database
    BY <1>13, AppliedType DEF StreamBlock, Commit, TypeInv, TypeOK
  <2>2. CASE win.at = win.end
    <3>1. next' \in 1..MaxHeight + 1
      BY <1>13, <2>2 DEF StreamBlock, TypeInv, TypeOK, WindowOK, Windows
    <3>2. QED
      BY <1>13, <2>1, <2>2, <3>1 DEF StreamBlock, Continue, TypeInv, TypeOK, WindowOK
  <2>3. CASE win.at # win.end
    <3>1. win' \in Windows /\ win'.at = win.at + 1 /\ win'.end = win.end
      BY <1>13, <2>3 DEF StreamBlock, TypeInv, TypeOK, WindowOK, Windows
    <3>2. win.at + 1 \in 1..win.end
      BY <1>13, <2>3 DEF StreamBlock, TypeInv, TypeOK, WindowOK, Windows
    <3>3. QED
      BY <1>13, <2>1, <2>3, <3>1, <3>2 DEF StreamBlock, TypeInv, TypeOK, WindowOK
  <2>4. QED
    BY <2>2, <2>3
<1>14. CASE PrefetchFailed
  BY <1>14, EnterRecoveryType DEF PrefetchFailed, TypeInv, TypeOK
<1>15. CASE CoverageGap
  BY <1>15, ExitType DEF CoverageGap, TypeInv, TypeOK
<1>16. CASE RereadCursor
  <2>1. next' \in 1..MaxHeight + 1
    BY <1>16 DEF RereadCursor, ResumeAt, TypeInv, TypeOK, WindowOK, Database
  <2>2. QED
    BY <1>16, <2>1 DEF RereadCursor, Continue, TypeInv, TypeOK, WindowOK
<1>17. CASE StatusFails
  <2>1. "stalled" \in Statuses /\ db.tip \in 0..MaxHeight
    BY DEF Statuses, Database, TypeInv, TypeOK
  <2>2. db' \in Database /\ disk' \in Database
    <3>1. SetStatusOnly(db, "stalled", db.tip) \in Database
      BY <2>1, SetStatusOnlyType DEF TypeInv, TypeOK
    <3>2. QED
      BY <1>17, <3>1 DEF StatusFails, Commit, TypeInv, TypeOK
  <2>3. faults' \in 0..MaxFaults
    BY <1>17, InjectType DEF StatusFails
  <2>4. QED
    BY <1>17, <2>2, <2>3 DEF StatusFails, TypeInv, TypeOK, WindowOK
<1>18. CASE FetchFails
  BY <1>18, EnterRecoveryType, InjectType DEF FetchFails, TypeInv, TypeOK
<1>19. CASE TransactionFails
  BY <1>19, EnterRecoveryType, InjectType DEF TransactionFails, RebuildDue, TypeInv, TypeOK
<1>20. CASE CommitUnknown
  <2>1. faults' \in 0..MaxFaults
    BY <1>20, InjectType DEF CommitUnknown
  <2>2. CASE pc = "apply"
    BY <1>20, <2>1, <2>2, AppliedType, EnterRecoveryType DEF CommitUnknown, RebuildDue, TypeInv, TypeOK
  <2>3. CASE pc = "stream"
    BY <1>20, <2>1, <2>3, AppliedType, EnterRecoveryType DEF CommitUnknown, RebuildDue, TypeInv, TypeOK
  <2>4. CASE RebuildDue
    BY <1>20, <2>1, <2>4, BackfilledType, EnterRecoveryType DEF CommitUnknown, RebuildDue, TypeInv, TypeOK
  <2>5. QED
    BY <1>20, <2>2, <2>3, <2>4 DEF CommitUnknown
<1>21. CASE CursorUnreadable
  BY <1>21, InjectType DEF CursorUnreadable, Continue, TypeInv, TypeOK, WindowOK
<1>22. CASE FatalError
  <2>1. faults' \in 0..MaxFaults
    BY <1>22, InjectType DEF FatalError
  <2>2. QED
    BY <1>22, <2>1, ExitType DEF FatalError, TypeInv, TypeOK
<1>23. CASE AdvanceTip
  BY <1>23 DEF AdvanceTip, TypeInv, TypeOK, WindowOK, Heights
<1>24. CASE FlushLog
  BY <1>24 DEF FlushLog, TypeInv, TypeOK, WindowOK
<1>25. CASE ProcessCrash
  BY <1>25, ExitType, InjectType DEF ProcessCrash, TypeInv, TypeOK
<1>26. CASE PostgresCrash
  BY <1>26, InjectType DEF PostgresCrash, TypeInv, TypeOK, WindowOK
<1>27. CASE HostCrash
  BY <1>27, ExitType, InjectType DEF HostCrash, TypeInv, TypeOK
<1>28. CASE UNCHANGED vars
  BY <1>28 DEF vars, TypeInv, TypeOK, WindowOK
<1>29. QED
  BY <1>1, <1>2, <1>3, <1>4, <1>5, <1>6, <1>7, <1>8, <1>9, <1>10, <1>11, <1>12, <1>13,
     <1>14, <1>15, <1>16, <1>17, <1>18, <1>19, <1>20, <1>21, <1>22, <1>23, <1>24, <1>25,
     <1>26, <1>27, <1>28
  DEF Next, Step, Failure, Environment

\* Type correctness: the variables keep their types and every window stays
\* within the chain, in every behaviour of the loop and its crashes.
THEOREM TypeCorrect == Spec => []TypeOK
<1>1. TypeInv => TypeOK
  BY DEF TypeInv
<1>2. QED
  BY <1>1, TypeInit, TypeStep, PTL DEF Spec

-----------------------------------------------------------------------------
(* Exactly once. The inductive invariant says where in the loop the next   *)
(* height is the one after the cursor, and that recovery starts from a     *)
(* height that is not above it.                                            *)

\* the faults the recovery code survives, and no deliberate replay
Reliable ==
    /\ AllowReplay = FALSE
    /\ "cursor_unreadable" \notin Faults
    /\ "postgres_crash" \notin Faults

Exact(d) ==
    /\ d.cursor = 0 \/ d.cursor >= First
    /\ \A h \in Heights : d.rows[h] = IF h \in First..d.cursor THEN 1 ELSE 0

Position ==
    /\ pc \notin {"off", "done"} => next >= First
    /\ pc \in {"sweep", "projections", "status", "plan", "fetch", "apply"}
         => next = Following(db)
    /\ pc = "stream" => win.at = Following(db) /\ next <= win.at
    /\ pc = "recover" => next <= Following(db)

IndexInv ==
    /\ TypeInv
    /\ Exact(db)
    /\ Exact(disk)
    /\ disk.cursor <= db.cursor
    /\ Position

\* the same blocks are indexed
SameIndex(a, b) == a.cursor = b.cursor /\ a.rows = b.rows

\* Indexing starts at a height of the chain.
LEMMA FirstType == First \in Heights
BY IngestAssumption DEF First, Heights

\* What the index says does not depend on the rest of the database.
LEMMA SameIndexExact ==
    ASSUME NEW a, NEW b, SameIndex(a, b)
    PROVE  (Exact(b) => Exact(a)) /\ Following(a) = Following(b)
BY DEF SameIndex, Exact, Following

\* A database that is empty, or that an older release filled, is exact.
LEMMA InitialDatabaseExact ==
    ASSUME NEW c \in 0..MaxHeight, c = 0 \/ c >= First
    PROVE  Exact(InitialDatabase(c))
BY DEF InitialDatabase, Exact, Heights

\* The blocks that follow an exact index keep it exact.
LEMMA ApplyBlocksExact ==
    ASSUME NEW d \in Database, Exact(d), NEW hi \in Heights, Following(d) <= hi,
           NEW t \in 0..MaxHeight, NEW defer \in BOOLEAN,
           NEW e, e = ApplyBlocks(d, Following(d), hi, t, defer)
    PROVE  /\ Exact(e)
           /\ Following(e) = hi + 1
           /\ e.cursor = hi
           /\ e.rows = Appended(d.rows, Following(d), hi)
           /\ d.cursor < hi
<1>1. Following(d) \in Nat /\ Following(d) > d.cursor /\ Following(d) >= First
  BY FirstType DEF Following, Database, Exact, Heights
<1>2. e.cursor = hi /\ e.rows = Appended(d.rows, Following(d), hi)
  BY <1>1, ApplyBlocksType
<1>3. \A h \in Heights : e.rows[h] = IF h \in First..hi THEN 1 ELSE 0
  <2> SUFFICES ASSUME NEW h \in Heights
               PROVE  e.rows[h] = IF h \in First..hi THEN 1 ELSE 0
    OBVIOUS
  <2>1. e.rows[h] = IF h \in Following(d)..hi THEN d.rows[h] + 1 ELSE d.rows[h]
    BY <1>2 DEF Appended
  <2>2. d.rows[h] = IF h \in First..d.cursor THEN 1 ELSE 0
    BY DEF Exact
  <2>3. d.cursor \in Nat /\ First \in Nat /\ h \in Nat /\ h >= 1
    BY FirstType DEF Database, Heights
  <2>4. Following(d) = IF d.cursor = 0 THEN First ELSE d.cursor + 1
    BY DEF Following
  <2>5. d.cursor = 0 \/ d.cursor >= First
    BY DEF Exact
  <2>6. QED
    BY <1>1, <2>1, <2>2, <2>3, <2>4, <2>5 DEF Heights
<1>4. Exact(e)
  <2>1. hi >= First
    BY <1>1, FirstType DEF Heights
  <2>2. QED
    BY <1>2, <1>3, <2>1 DEF Exact
<1>5. Following(e) = hi + 1
  BY <1>2 DEF Following, Heights
<1>6. QED
  BY <1>1, <1>2, <1>4, <1>5 DEF Database, Heights

\* What a reliable process starts with: the height after the cursor, whether
\* GuardReplay accepts the resolved start or clamps it.
LEMMA GuardReplayExact ==
    ASSUME NEW d \in Database, Exact(d), Reliable, NEW granted \in 1..MaxHeight + 1,
           GuardReplay(d, ResolveStart(d), granted)
    PROVE  granted = Following(d)
<1>1. First \in Nat /\ First >= 1 /\ First <= MaxHeight
  BY FirstType DEF Heights
<1>2. d.cursor \in 0..MaxHeight /\ (d.cursor = 0 \/ d.cursor >= First)
  BY DEF Database, Exact
<1>3. ~Replaying(d)
  BY DEF Reliable, Replaying
<1>4. CASE d.cursor = 0
  <2>1. ResolveStart(d) = First
    BY <1>4 DEF ResolveStart, First
  <2>2. \A h \in Heights : ~(d.rows[h] > 0)
    BY <1>1, <1>4 DEF Exact, Heights
  <2>3. QED
    BY <1>1, <1>3, <1>4, <2>1, <2>2 DEF GuardReplay, Following
<1>5. CASE d.cursor # 0
  <2>1. Following(d) = d.cursor + 1
    BY <1>5 DEF Following
  <2>2. CASE StartHeight > 0
    <3>1. ResolveStart(d) <= d.cursor
      BY <1>2, <1>5, <2>2 DEF ResolveStart, First
    <3>2. QED
      BY <1>1, <1>2, <1>3, <2>1, <3>1 DEF GuardReplay, ResolveStart, First
  <2>3. CASE ~(StartHeight > 0)
    <3>1. ResolveStart(d) = d.cursor + 1
      BY <1>2, <1>5, <2>3, IngestAssumption DEF ResolveStart, First, Highest
    <3>2. QED
      BY <1>3, <2>1, <3>1 DEF GuardReplay
  <2>4. QED
    BY <2>2, <2>3
<1>6. QED
  BY <1>4, <1>5

\* A process that starts finds an exact index.
LEMMA IndexInit == Init => IndexInv
<1> SUFFICES ASSUME Init PROVE IndexInv
  OBVIOUS
<1>1. PICK c \in Inherited : (c = 0 \/ c >= First) /\ db = InitialDatabase(c)
  BY DEF Init
<1>2. c \in 0..MaxHeight
  BY IngestAssumption
<1>3. Exact(db) /\ disk = db
  BY <1>1, <1>2, InitialDatabaseExact DEF Init
<1>4. TypeInv
  BY TypeInit
<1>5. Position
  BY DEF Init, Position
<1>6. QED
  BY <1>3, <1>4, <1>5 DEF IndexInv, TypeInv, TypeOK, Database

\* A step that changes neither index leaves both exact.
LEMMA KeepsIndex ==
    ASSUME IndexInv, TypeInv', SameIndex(db', db),
           SameIndex(disk', disk) \/ SameIndex(disk', db)
    PROVE  Exact(db)' /\ Exact(disk)' /\ disk'.cursor <= db'.cursor
           /\ Following(db)' = Following(db)
<1>1. Exact(db') /\ Exact(disk') /\ Following(db') = Following(db)
  BY SameIndexExact DEF IndexInv
<1>2. disk'.cursor <= db'.cursor
  BY DEF IndexInv, SameIndex, TypeInv, TypeOK, Database
<1>3. QED
  BY <1>1, <1>2

\* A transaction that went through makes the index of db' exact and longer;
\* disk follows it or stays where it was.
LEMMA Grows ==
    ASSUME IndexInv, NEW d \in Database, NEW hi \in Heights, Following(db) <= hi,
           NEW t \in 0..MaxHeight, NEW defer \in BOOLEAN,
           d = ApplyBlocks(db, Following(db), hi, t, defer),
           SameIndex(db', d), SameIndex(disk', disk) \/ SameIndex(disk', d)
    PROVE  /\ Exact(db)' /\ Exact(disk)' /\ disk'.cursor <= db'.cursor
           /\ Following(db)' = hi + 1
           /\ db'.cursor = hi
           /\ db'.rows = Appended(db.rows, Following(db), hi)
           /\ db.cursor < hi
<1>1. /\ Exact(d) /\ Following(d) = hi + 1 /\ d.cursor = hi
      /\ d.rows = Appended(db.rows, Following(db), hi) /\ db.cursor < hi
  BY ApplyBlocksExact DEF IndexInv, TypeInv, TypeOK
<1>2. Exact(db') /\ Exact(disk') /\ Following(db') = hi + 1
  BY <1>1, SameIndexExact DEF IndexInv
<1>3. disk'.cursor <= db'.cursor
  BY <1>1 DEF IndexInv, SameIndex, TypeInv, TypeOK, Database, Heights
<1>4. QED
  BY <1>1, <1>2, <1>3 DEF SameIndex

\* What a step does to the index: nothing, more blocks at its end, or the loss
\* of what was committed asynchronously together with the process.
IndexChange ==
    \/ SameIndex(db', db)
    \/ \E hi \in Heights :
         /\ Following(db) <= hi
         /\ db'.cursor = hi
         /\ db'.rows = Appended(db.rows, Following(db), hi)
    \/ pc' = "off" /\ db' = disk

\* The shape of an action that leaves the indexed blocks alone.
LEMMA KeepingStep ==
    ASSUME IndexInv, TypeInv', Position',
           SameIndex(db', db), SameIndex(disk', disk) \/ SameIndex(disk', db)
    PROVE  IndexInv' /\ IndexChange
BY KeepsIndex DEF IndexInv, IndexChange

\* The shape of an action that adds blocks.
LEMMA GrowingStep ==
    ASSUME IndexInv, TypeInv', Position',
           NEW d \in Database, NEW hi \in Heights, Following(db) <= hi,
           NEW t \in 0..MaxHeight, NEW defer \in BOOLEAN,
           d = ApplyBlocks(db, Following(db), hi, t, defer),
           SameIndex(db', d), SameIndex(disk', disk) \/ SameIndex(disk', d)
    PROVE  IndexInv' /\ IndexChange
<1>1. Exact(db)' /\ Exact(disk)' /\ disk'.cursor <= db'.cursor
  BY Grows
<1>2. db'.cursor = hi /\ db'.rows = Appended(db.rows, Following(db), hi)
  BY Grows
<1>3. QED
  BY <1>1, <1>2 DEF IndexInv, IndexChange

\* A process that is not running says nothing about its position.
LEMMA ExitPosition ==
    ASSUME NEW to \in {"off", "done"}, Exit(to)
    PROVE  Position'
BY DEF Exit, Position

\* Recovery starts no later than the height after the cursor.
LEMMA RecoveryPosition ==
    ASSUME IndexInv, pc \notin {"off", "done"}, NEW d \in Database, NEW image \in Database,
           EnterRecovery(d, image), next <= Following(d)
    PROVE  Position'
<1>1. SameIndex(db', d)
  BY EnterRecoveryDatabase DEF SameIndex
<1>2. Following(db') = Following(d)
  BY <1>1, SameIndexExact
<1>3. pc' = "recover" /\ next' = next
  BY DEF EnterRecovery
<1>4. QED
  BY <1>2, <1>3 DEF IndexInv, Position, Following

\* The height the loop works at is never above the one after the cursor.
LEMMA NextBelowFollowing ==
    ASSUME IndexInv, pc \notin {"off", "done"}
    PROVE  next <= Following(db)
<1>1. next \in Nat /\ Following(db) \in Nat
  BY FirstType DEF IndexInv, TypeInv, TypeOK, Following, Database, Heights
<1>2. QED
  BY <1>1 DEF IndexInv, TypeInv, TypeOK, Position

\* A failure that left the database as it was.
LEMMA PlainRecovery ==
    ASSUME IndexInv, TypeInv', pc \notin {"off", "done"}, EnterRecovery(db, disk)
    PROVE  IndexInv' /\ IndexChange
<1>1. db \in Database /\ disk \in Database
  BY DEF IndexInv, TypeInv, TypeOK
<1>2. SameIndex(db', db) /\ (SameIndex(disk', disk) \/ SameIndex(disk', db))
  BY <1>1, EnterRecoveryDatabase DEF SameIndex
<1>3. Position'
  BY <1>1, NextBelowFollowing, RecoveryPosition
<1>4. QED
  BY <1>2, <1>3, KeepingStep

\* Every step of a reliable process keeps the index exact and its position
\* in it, and changes the index in one of the three ways.
LEMMA IndexStep ==
    Reliable /\ IndexInv /\ [Next]_vars => IndexInv' /\ IndexChange
<1> SUFFICES ASSUME Reliable, IndexInv, [Next]_vars PROVE IndexInv' /\ IndexChange
  OBVIOUS
<1>a. TypeInv'
  BY TypeStep DEF IndexInv
<1>b. db \in Database /\ disk \in Database
  BY DEF IndexInv, TypeInv, TypeOK
<1>c. First \in Nat /\ First >= 1
  BY FirstType DEF Heights
<1>e. Exact(db)
  BY DEF IndexInv
<1>d. Following(db) \in Nat /\ Following(db) >= First /\ Following(db) >= 1
  BY <1>b, <1>c DEF Following, Database, IndexInv, Exact
<1>1. CASE Boot
  <2>1. PICK granted \in 1..MaxHeight + 1 :
          GuardReplay(db, ResolveStart(db), granted) /\ next' = granted
    BY <1>1 DEF Boot
  <2>2. granted = Following(db)
    BY <1>b, <2>1, GuardReplayExact DEF IndexInv
  <2>3. SameIndex(db', db) /\ (SameIndex(disk', disk) \/ SameIndex(disk', db))
    BY <1>1, <1>b, InvalidatedType DEF Boot, Commit, SameIndex
  <2>4. next' = Following(db')
    BY <2>1, <2>2, <2>3, SameIndexExact
  <2>5. Position'
    BY <1>1, <1>c, <1>d, <2>1, <2>2, <2>4 DEF Boot, Position, Following
  <2>6. QED
    BY <1>a, <2>3, <2>5, KeepingStep
<1>2. CASE Sweep
  <2>1. SameIndex(db', db) /\ (SameIndex(disk', disk) \/ SameIndex(disk', db))
    BY <1>2, <1>b, InvalidatedType DEF Sweep, Commit, SameIndex
  <2>2. Position'
    BY <1>2, <2>1 DEF Sweep, IndexInv, Position, Following, SameIndex
  <2>3. QED
    BY <1>a, <2>1, <2>2, KeepingStep
<1>3. CASE PrepareProjections
  <2>1. SameIndex(db', db) /\ (SameIndex(disk', disk) \/ SameIndex(disk', db))
    BY <1>3, <1>b, BackfilledType DEF PrepareProjections, Commit, SameIndex
  <2>2. Position'
    BY <1>3, <2>1 DEF PrepareProjections, IndexInv, Position, Following, SameIndex
  <2>3. QED
    BY <1>a, <2>1, <2>2, KeepingStep
<1>4. CASE RefuseCoverage
  BY <1>4, <1>a, ExitPosition, KeepingStep DEF RefuseCoverage, SameIndex
<1>5. CASE ReadStatus
  <2>1. Position'
    BY <1>5 DEF ReadStatus, IndexInv, Position, Following
  <2>2. QED
    BY <1>5, <1>a, <2>1, KeepingStep DEF ReadStatus, SameIndex
<1>6. CASE RebuildProjections
  <2>1. SameIndex(db', db) /\ (SameIndex(disk', disk) \/ SameIndex(disk', db))
    BY <1>6, <1>b, BackfilledType DEF RebuildProjections, Commit, SameIndex
  <2>2. Position'
    BY <1>6, <2>1 DEF RebuildProjections, RebuildDue, IndexInv, Position, Following, SameIndex
  <2>3. QED
    BY <1>a, <2>1, <2>2, KeepingStep
<1>7. CASE IdleAtTip
  <2>1. ComputeStatus(next - 1, seen) \in Statuses /\ seen \in 0..MaxHeight
    BY DEF ComputeStatus, Statuses, IndexInv, TypeInv, TypeOK
  <2>2. SameIndex(db', db) /\ (SameIndex(disk', disk) \/ SameIndex(disk', db))
    BY <1>7, <1>b, <2>1, SetStatusOnlyType DEF IdleAtTip, Commit, SameIndex
  <2>3. Position'
    BY <1>7, <2>2 DEF IdleAtTip, Continue, IndexInv, Position, Following, SameIndex
  <2>4. QED
    BY <1>a, <2>2, <2>3, KeepingStep
<1>8. CASE Finish
  BY <1>8, <1>a, ExitPosition, KeepingStep DEF Finish, SameIndex
<1>9. CASE BeginWindow
  <2>1. win'.at = next
    BY <1>9 DEF BeginWindow
  <2>2. pc' \in {"fetch", "stream"} /\ pc = "plan" /\ next' = next /\ db' = db
    BY <1>9 DEF BeginWindow
  <2>3. next \in Nat
    BY DEF IndexInv, TypeInv, TypeOK
  <2>4. Position'
    BY <2>1, <2>2, <2>3 DEF IndexInv, Position, Following
  <2>5. QED
    BY <1>9, <1>a, <2>4, KeepingStep DEF BeginWindow, SameIndex
<1>10. CASE PrefetchSettles
  <2>1. Position'
    BY <1>10 DEF PrefetchSettles, IndexInv, Position, Following
  <2>2. QED
    BY <1>10, <1>a, <2>1, KeepingStep DEF PrefetchSettles, SameIndex
<1>11. CASE FetchBulkWindow
  <2>1. Position'
    BY <1>11 DEF FetchBulkWindow, IndexInv, Position, Following
  <2>2. QED
    BY <1>11, <1>a, <2>1, KeepingStep DEF FetchBulkWindow, SameIndex
<1>12. CASE ApplyBulkWindow
  <2>1. next = Following(db)
    BY <1>12 DEF ApplyBulkWindow, IndexInv, Position
  <2>2. next <= win.end /\ win.end \in Heights /\ win.tip \in 0..MaxHeight
    BY <1>12, <1>d, <2>1
    DEF ApplyBulkWindow, IndexInv, TypeInv, TypeOK, WindowOK, Windows, Heights
  <2>3. BulkApplied = ApplyBlocks(db, Following(db), win.end, win.tip, BulkDeferProjections)
    BY <2>1 DEF BulkApplied
  <2>4. BulkApplied \in Database
    BY <1>12, AppliedType DEF ApplyBulkWindow, IndexInv
  <2>5. SameIndex(db', BulkApplied) /\ (SameIndex(disk', disk) \/ SameIndex(disk', BulkApplied))
    BY <1>12 DEF ApplyBulkWindow, SameIndex
  <2>6. BulkDeferProjections \in BOOLEAN
    BY IngestAssumption
  <2>7. Following(db) <= win.end /\ Following(db') = win.end + 1
    <3>1. Following(db) <= win.end
      BY <2>1, <2>2
    <3>2. QED
      BY <2>2, <2>3, <2>4, <2>5, <2>6, <3>1, Grows
  <2>8. next' = win.end + 1 /\ pc' = "status"
    BY <1>12 DEF ApplyBulkWindow, Continue
  <2>9. Position'
    BY <1>c, <1>d, <2>1, <2>2, <2>7, <2>8 DEF Position, Following, Heights
  <2>10. QED
    BY <1>a, <2>2, <2>3, <2>4, <2>5, <2>6, <2>7, <2>9, GrowingStep
<1>13. CASE StreamBlock
  <2>1. win.at = Following(db) /\ next <= win.at /\ next >= First
    BY <1>13 DEF StreamBlock, IndexInv, Position
  <2>2. win.at \in Heights /\ win.at <= win.end /\ win.tip \in 0..MaxHeight
    BY <1>13, IngestAssumption DEF StreamBlock, IndexInv, TypeInv, TypeOK, WindowOK, Windows, Heights
  <2>3. BlockApplied = ApplyBlocks(db, Following(db), win.at, win.tip, FALSE)
    BY <2>1 DEF BlockApplied
  <2>4. BlockApplied \in Database
    BY <1>13, AppliedType DEF StreamBlock, IndexInv
  <2>5. SameIndex(db', BlockApplied) /\ SameIndex(disk', BlockApplied)
    BY <1>13 DEF StreamBlock, Commit, SameIndex
  <2>6. Following(db) <= win.at
    BY <1>d, <2>1
  <2>7. Following(db') = win.at + 1
    BY <2>2, <2>3, <2>4, <2>5, <2>6, Grows
  <2>8. CASE win.at = win.end
    <3>1. next' = win.at + 1 /\ pc' = "status"
      BY <1>13, <2>8 DEF StreamBlock, Continue
    <3>2. Position'
      BY <1>c, <1>d, <2>1, <2>2, <2>7, <3>1 DEF Position, Following, Heights
    <3>3. QED
      BY <1>a, <2>2, <2>3, <2>4, <2>5, <2>6, <3>2, GrowingStep
  <2>9. CASE win.at # win.end
    <3>1. win'.at = win.at + 1 /\ pc' = "stream" /\ next' = next
      BY <1>13, <2>9 DEF StreamBlock, IndexInv, TypeInv, TypeOK, Windows
    <3>2. next \in Nat
      BY DEF IndexInv, TypeInv, TypeOK
    <3>3. Position'
      BY <1>c, <1>d, <2>1, <2>2, <2>7, <3>1, <3>2 DEF Position, Following, Heights
    <3>4. QED
      BY <1>a, <2>2, <2>3, <2>4, <2>5, <2>6, <3>3, GrowingStep
  <2>10. QED
    BY <2>8, <2>9
<1>14. CASE PrefetchFailed
  BY <1>14, <1>a, PlainRecovery DEF PrefetchFailed
<1>15. CASE CoverageGap
  BY <1>15, <1>a, ExitPosition, KeepingStep DEF CoverageGap, SameIndex
<1>16. CASE RereadCursor
  <2>1. next <= Following(db) /\ next >= First /\ next \in Nat
    BY <1>16 DEF RereadCursor, IndexInv, Position, TypeInv, TypeOK
  <2>2. next' = Following(db)
    BY <1>16, <1>b, <1>c, <2>1 DEF RereadCursor, ResumeAt, Following, Database
  <2>3. Position'
    BY <1>16, <1>d, <2>2 DEF RereadCursor, Continue, Position, Following
  <2>4. QED
    BY <1>16, <1>a, <2>3, KeepingStep DEF RereadCursor, SameIndex
<1>17. CASE StatusFails
  <2>1. "stalled" \in Statuses /\ db.tip \in 0..MaxHeight
    BY <1>b DEF Statuses, Database
  <2>2. SameIndex(db', db) /\ (SameIndex(disk', disk) \/ SameIndex(disk', db))
    BY <1>17, <1>b, <2>1, SetStatusOnlyType DEF StatusFails, Commit, SameIndex
  <2>3. Position'
    BY <1>17, <2>2 DEF StatusFails, IndexInv, Position, Following, SameIndex
  <2>4. QED
    BY <1>a, <2>2, <2>3, KeepingStep
<1>18. CASE FetchFails
  BY <1>18, <1>a, PlainRecovery DEF FetchFails
<1>19. CASE TransactionFails
  BY <1>19, <1>a, PlainRecovery DEF TransactionFails, RebuildDue
<1>20. CASE CommitUnknown
  <2>1. CASE pc = "apply"
    <3>1. next = Following(db)
      BY <2>1 DEF IndexInv, Position
    <3>2. next <= win.end /\ win.end \in Heights /\ win.tip \in 0..MaxHeight
      BY <2>1, <1>d, <3>1 DEF IndexInv, TypeInv, TypeOK, WindowOK, Windows, Heights
    <3>3. BulkApplied = ApplyBlocks(db, Following(db), win.end, win.tip, BulkDeferProjections)
      BY <3>1 DEF BulkApplied
    <3>4. BulkApplied \in Database
      BY <2>1, AppliedType DEF IndexInv
    <3>5. PICK image \in {disk, BulkApplied} : EnterRecovery(BulkApplied, image)
      BY <1>20, <2>1 DEF CommitUnknown, RebuildDue
    <3>6. /\ SameIndex(db', BulkApplied)
          /\ SameIndex(disk', disk) \/ SameIndex(disk', BulkApplied)
      BY <1>b, <3>4, <3>5, EnterRecoveryDatabase DEF SameIndex
    <3>7. Following(BulkApplied) = win.end + 1
      BY <1>b, <3>1, <3>2, <3>3, IngestAssumption, ApplyBlocksExact DEF IndexInv
    <3>8. next <= Following(BulkApplied)
      BY <1>d, <3>1, <3>2, <3>7 DEF Heights
    <3>9. Position'
      BY <1>b, <2>1, <3>4, <3>5, <3>8, RecoveryPosition
    <3>10. BulkDeferProjections \in BOOLEAN
      BY IngestAssumption
    <3>11. QED
      BY <1>a, <3>1, <3>2, <3>3, <3>4, <3>6, <3>9, <3>10, GrowingStep
  <2>2. CASE pc = "stream"
    <3>1. win.at = Following(db) /\ next <= win.at /\ next >= First
      BY <2>2 DEF IndexInv, Position
    <3>2. win.at \in Heights /\ win.tip \in 0..MaxHeight
      BY <2>2, IngestAssumption DEF IndexInv, TypeInv, TypeOK, WindowOK, Windows, Heights
    <3>3. BlockApplied = ApplyBlocks(db, Following(db), win.at, win.tip, FALSE)
      BY <3>1 DEF BlockApplied
    <3>4. BlockApplied \in Database
      BY <2>2, AppliedType DEF IndexInv
    <3>5. EnterRecovery(BlockApplied, BlockApplied)
      BY <1>20, <2>2 DEF CommitUnknown, RebuildDue
    <3>6. SameIndex(db', BlockApplied) /\ SameIndex(disk', BlockApplied)
      BY <3>4, <3>5, EnterRecoveryDatabase DEF SameIndex
    <3>7. Following(db) <= win.at
      BY <1>d, <3>1
    <3>8. Following(BlockApplied) = win.at + 1
      <4>1. Following(db') = win.at + 1
        BY <3>2, <3>3, <3>4, <3>6, <3>7, Grows
      <4>2. Following(db') = Following(BlockApplied)
        BY <3>6, SameIndexExact
      <4>3. QED
        BY <4>1, <4>2
    <3>9. next <= Following(BlockApplied)
      BY <1>d, <3>1, <3>8 DEF IndexInv, TypeInv, TypeOK
    <3>10. Position'
      BY <2>2, <3>4, <3>5, <3>9, RecoveryPosition
    <3>11. QED
      BY <1>a, <3>2, <3>3, <3>4, <3>6, <3>7, <3>10, GrowingStep
  <2>3. CASE RebuildDue
    <3>1. EnterRecovery(Backfilled(db), Backfilled(db)) /\ pc = "plan"
      BY <1>20, <2>3 DEF CommitUnknown, RebuildDue
    <3>2. Backfilled(db) \in Database /\ SameIndex(Backfilled(db), db)
      BY <1>b, BackfilledType DEF SameIndex
    <3>3. SameIndex(db', db) /\ SameIndex(disk', db)
      BY <3>1, <3>2, EnterRecoveryDatabase DEF SameIndex
    <3>4. next <= Following(Backfilled(db))
      BY <3>1, <3>2, NextBelowFollowing, SameIndexExact
    <3>5. Position'
      BY <3>1, <3>2, <3>4, RecoveryPosition
    <3>6. QED
      BY <1>a, <3>3, <3>5, KeepingStep
  <2>4. QED
    BY <1>20, <2>1, <2>2, <2>3 DEF CommitUnknown
<1>21. CASE CursorUnreadable
  BY <1>21 DEF CursorUnreadable, Inject, Reliable
<1>22. CASE FatalError
  BY <1>22, <1>a, ExitPosition, KeepingStep DEF FatalError, SameIndex
<1>23. CASE AdvanceTip
  <2>1. Position'
    BY <1>23 DEF AdvanceTip, IndexInv, Position, Following
  <2>2. QED
    BY <1>23, <1>a, <2>1, KeepingStep DEF AdvanceTip, SameIndex
<1>24. CASE FlushLog
  <2>1. Position'
    BY <1>24 DEF FlushLog, IndexInv, Position, Following
  <2>2. QED
    BY <1>24, <1>a, <2>1, KeepingStep DEF FlushLog, SameIndex
<1>25. CASE ProcessCrash
  BY <1>25, <1>a, ExitPosition, KeepingStep DEF ProcessCrash, SameIndex
<1>26. CASE PostgresCrash
  BY <1>26 DEF PostgresCrash, Inject, Reliable
<1>27. CASE HostCrash
  <2>1. Exact(disk') /\ Exact(db') /\ disk'.cursor <= db'.cursor
    BY <1>27, <1>b DEF HostCrash, IndexInv, Database
  <2>2. Position'
    BY <1>27, ExitPosition DEF HostCrash
  <2>3. IndexChange
    BY <1>27 DEF HostCrash, Exit, IndexChange
  <2>4. QED
    BY <1>a, <2>1, <2>2, <2>3 DEF IndexInv
<1>28. CASE UNCHANGED vars
  <2>1. Position'
    BY <1>28 DEF vars, IndexInv, Position, Following
  <2>2. QED
    BY <1>28, <1>a, <2>1, KeepingStep DEF vars, SameIndex
<1>29. QED
  BY <1>1, <1>2, <1>3, <1>4, <1>5, <1>6, <1>7, <1>8, <1>9, <1>10, <1>11, <1>12, <1>13,
     <1>14, <1>15, <1>16, <1>17, <1>18, <1>19, <1>20, <1>21, <1>22, <1>23, <1>24, <1>25,
     <1>26, <1>27, <1>28
  DEF Next, Step, Failure, Environment

\* The inductive invariant holds throughout.
LEMMA IndexInvariant ==
    ASSUME Reliable
    PROVE  Spec => []IndexInv
<1>1. Init => IndexInv
  BY IndexInit
<1>2. IndexInv /\ [Next]_vars => IndexInv'
  BY IndexStep
<1>3. QED
  BY <1>1, <1>2, PTL DEF Spec

\* Exactly once: as long as the recovery can read the cursor, Postgres does not
\* restart under the process and nobody asks for a replay, the append-only rows
\* of every block up to the cursor are there once and those beyond it are not,
\* whatever else fails or crashes and however often.
THEOREM ExactlyOnce ==
    ASSUME Reliable
    PROVE  Spec => []IndexedExactlyOnce
<1>1. IndexInv => IndexedExactlyOnce
  BY DEF IndexInv, Exact, IndexedExactlyOnce
<1>2. QED
  BY <1>1, IndexInvariant, PTL

\* Under the same conditions the cursor only moves back when the process and
\* Postgres go down together, and then to what was durable.
THEOREM NeverRewinds ==
    ASSUME Reliable
    PROVE  Spec => CursorNeverRewinds
<1>1. IndexInv /\ [Next]_vars
        => [db'.cursor < db.cursor => pc' = "off" /\ db' = disk]_vars
  <2> SUFFICES ASSUME IndexInv, [Next]_vars, db'.cursor < db.cursor
               PROVE  pc' = "off" /\ db' = disk
    OBVIOUS
  <2>1. IndexChange
    BY IndexStep
  <2>2. db.cursor \in Nat /\ (db.cursor = 0 \/ db.cursor >= First) /\ First \in Nat
    BY FirstType DEF IndexInv, TypeInv, TypeOK, Database, Exact, Heights
  <2>3. ~SameIndex(db', db)
    BY <2>2 DEF SameIndex
  <2>4. ASSUME NEW hi \in Heights, Following(db) <= hi, db'.cursor = hi PROVE FALSE
    BY <2>2, <2>4 DEF Following, Heights
  <2>5. QED
    BY <2>1, <2>3, <2>4 DEF IndexChange
<1>2. QED
  BY <1>1, IndexInvariant, PTL DEF CursorNeverRewinds, Spec

-----------------------------------------------------------------------------
(* The economy coverage, whatever fails and whatever is replayed. Both      *)
(* images of the database have to be covered, for a crash brings disk back. *)

Covered(d) ==
    d.coverage > 0 => \A h \in Activation..d.coverage : d.rows[h] > 0

\* the same blocks are covered
SameCoverage(a, b) == a.rows = b.rows /\ a.coverage = b.coverage

CoverageInv == TypeInv /\ Covered(db) /\ Covered(disk)

\* A window that RecordEconomyCoverage accepts extends the coverage without a
\* hole, even when it starts below the cursor.
LEMMA ApplyBlocksCovered ==
    ASSUME NEW d \in Database, Covered(d), NEW lo \in Heights, NEW hi \in Heights, lo <= hi,
           NEW t \in 0..MaxHeight, NEW defer \in BOOLEAN, WindowCovered(d, lo, hi)
    PROVE  Covered(ApplyBlocks(d, lo, hi, t, defer))
<1> DEFINE e == ApplyBlocks(d, lo, hi, t, defer)
<1>1. e.rows = Appended(d.rows, lo, hi) /\ e.coverage = CoverageAfter(d.coverage, hi)
  BY ApplyBlocksType DEF Heights
<1>2. Activation \in Nat /\ Activation >= 1
  BY IngestAssumption
<1>3. lo \in Nat /\ hi \in Nat /\ lo >= 1 /\ hi <= MaxHeight /\ MaxHeight \in Nat
  BY IngestAssumption DEF Heights
<1>4. d.coverage \in 0..MaxHeight /\ d.rows \in [Heights -> Nat]
  BY DEF Database
<1>5. \A h \in Heights : d.rows[h] > 0 => e.rows[h] > 0
  BY <1>1, <1>4 DEF Appended
<1>6. \A h \in lo..hi : h \in Heights /\ e.rows[h] > 0
  BY <1>1, <1>3, <1>4 DEF Appended, Heights
<1>7. CASE V022Active(hi)
  <2>1. e.coverage = hi
    BY <1>1, <1>7 DEF CoverageAfter
  <2> SUFFICES ASSUME NEW h \in Activation..hi
               PROVE  e.rows[h] > 0
    BY <2>1 DEF Covered
  <2>2. CASE h >= lo
    BY <1>2, <1>3, <1>6, <2>2
  <2>3. CASE h < lo
    <3>1. V022Active(lo) /\ lo # Activation
      BY <1>2, <1>3, <2>3 DEF V022Active
    <3>2. CoverageBefore(d.coverage, lo, lo) = d.coverage
      BY <1>3 DEF CoverageBefore
    <3>3. lo \in lo..hi
      BY <1>3
    <3>4. CoverageAccepts(d.coverage, lo)
      BY <3>2, <3>3 DEF WindowCovered
    <3>5. d.coverage # 0 /\ d.coverage \in {lo - 1, lo}
      BY <3>1, <3>4 DEF CoverageAccepts
    <3>6. h \in Activation..d.coverage /\ d.coverage > 0 /\ h \in Heights
      BY <1>2, <1>3, <1>4, <2>3, <3>5 DEF Heights
    <3>7. d.rows[h] > 0
      BY <3>6 DEF Covered
    <3>8. QED
      BY <1>5, <3>6, <3>7
  <2>4. QED
    BY <1>2, <1>3, <2>2, <2>3
<1>8. CASE ~V022Active(hi)
  <2>1. e.coverage = d.coverage
    BY <1>1, <1>8 DEF CoverageAfter
  <2>2. \A h \in Activation..d.coverage : h \in Heights
    BY <1>2, <1>4, IngestAssumption DEF Heights
  <2>3. QED
    BY <1>5, <2>1, <2>2 DEF Covered
<1>9. QED
  BY <1>7, <1>8

\* What recovery commits covers what it found.
LEMMA RecoveryCovered ==
    ASSUME NEW d \in Database, NEW image \in Database, EnterRecovery(d, image),
           Covered(d), Covered(image)
    PROVE  Covered(db') /\ Covered(disk')
<1>1. db'.rows = d.rows /\ db'.coverage = d.coverage /\ disk' \in {db', image}
  BY EnterRecoveryDatabase
<1>2. QED
  BY <1>1 DEF Covered

\* A transaction that went through leaves a covered database.
LEMMA AppliedCovered ==
    ASSUME CoverageInv
    PROVE  /\ pc = "apply" /\ WindowCovered(db, next, win.end) => Covered(BulkApplied)
           /\ pc = "stream" /\ WindowCovered(db, win.at, win.at) => Covered(BlockApplied)
<1>1. ASSUME pc = "apply", WindowCovered(db, next, win.end) PROVE Covered(BulkApplied)
  <2>1. next \in Heights /\ win.end \in Heights /\ next <= win.end /\ win.tip \in 0..MaxHeight
    BY <1>1, IngestAssumption
    DEF CoverageInv, TypeInv, TypeOK, WindowOK, Windows, Heights
  <2>2. QED
    BY <1>1, <2>1, ApplyBlocksCovered, IngestAssumption
    DEF BulkApplied, CoverageInv, TypeInv, TypeOK
<1>2. ASSUME pc = "stream", WindowCovered(db, win.at, win.at) PROVE Covered(BlockApplied)
  <2>1. win.at \in Heights /\ win.at <= win.at /\ win.tip \in 0..MaxHeight
    BY <1>2, IngestAssumption
    DEF CoverageInv, TypeInv, TypeOK, WindowOK, Windows, Heights
  <2>2. QED
    BY <1>2, <2>1, ApplyBlocksCovered DEF BlockApplied, CoverageInv, TypeInv, TypeOK
<1>3. QED
  BY <1>1, <1>2

\* Every step keeps both images covered.
LEMMA CoverageStep == CoverageInv /\ [Next]_vars => CoverageInv'
<1> SUFFICES ASSUME CoverageInv, [Next]_vars PROVE CoverageInv'
  OBVIOUS
<1> DEFINE Kept == Covered(db') /\ Covered(disk')
<1>a. db \in Database /\ disk \in Database
  BY DEF CoverageInv, TypeInv, TypeOK
<1>b. Covered(db) /\ Covered(disk)
  BY DEF CoverageInv
<1>c. \A d, e : SameCoverage(d, e) /\ Covered(e) => Covered(d)
  BY DEF SameCoverage, Covered
<1>1. ASSUME Boot PROVE Kept
  <2>1. SameCoverage(db', db) /\ (disk' = disk \/ disk' = db')
    BY <1>1, <1>a, InvalidatedType DEF Boot, Commit, SameCoverage
  <2>2. QED
    BY <1>b, <1>c, <2>1
<1>2. ASSUME Sweep PROVE Kept
  <2>1. SameCoverage(db', db) /\ (disk' = disk \/ disk' = db')
    BY <1>2, <1>a, InvalidatedType DEF Sweep, Commit, SameCoverage
  <2>2. QED
    BY <1>b, <1>c, <2>1
<1>3. ASSUME PrepareProjections \/ RebuildProjections PROVE Kept
  <2>1. SameCoverage(db', db) /\ (disk' = disk \/ disk' = db')
    BY <1>3, <1>a, BackfilledType
    DEF PrepareProjections, RebuildProjections, Commit, SameCoverage
  <2>2. QED
    BY <1>b, <1>c, <2>1
<1>4. ASSUME IdleAtTip PROVE Kept
  <2>1. ComputeStatus(next - 1, seen) \in Statuses /\ seen \in 0..MaxHeight
    BY DEF ComputeStatus, Statuses, CoverageInv, TypeInv, TypeOK
  <2>2. SameCoverage(db', db) /\ (disk' = disk \/ disk' = db')
    BY <1>4, <1>a, <2>1, SetStatusOnlyType DEF IdleAtTip, Commit, SameCoverage
  <2>3. QED
    BY <1>b, <1>c, <2>2
<1>5. ASSUME StatusFails PROVE Kept
  <2>1. "stalled" \in Statuses /\ db.tip \in 0..MaxHeight
    BY <1>a DEF Statuses, Database
  <2>2. SameCoverage(db', db) /\ (disk' = disk \/ disk' = db')
    BY <1>5, <1>a, <2>1, SetStatusOnlyType DEF StatusFails, Commit, SameCoverage
  <2>3. QED
    BY <1>b, <1>c, <2>2
<1>6. ASSUME ApplyBulkWindow PROVE Kept
  <2>1. Covered(BulkApplied)
    BY <1>6, AppliedCovered DEF ApplyBulkWindow
  <2>2. QED
    BY <1>6, <1>b, <2>1 DEF ApplyBulkWindow
<1>7. ASSUME StreamBlock PROVE Kept
  <2>1. Covered(BlockApplied)
    BY <1>7, AppliedCovered DEF StreamBlock
  <2>2. QED
    BY <1>7, <2>1 DEF StreamBlock, Commit
<1>8. ASSUME FetchFails \/ PrefetchFailed \/ TransactionFails PROVE Kept
  BY <1>8, <1>a, <1>b, RecoveryCovered DEF FetchFails, PrefetchFailed, TransactionFails
<1>9. ASSUME CommitUnknown PROVE Kept
  <2>1. CASE pc = "apply" /\ WindowCovered(db, next, win.end)
             /\ EnterRecovery(BulkApplied, IF BulkAsyncCommit THEN disk ELSE BulkApplied)
    <3>1. BulkApplied \in Database /\ Covered(BulkApplied)
      BY <2>1, AppliedType, AppliedCovered DEF CoverageInv
    <3>2. QED
      BY <1>a, <1>b, <2>1, <3>1, RecoveryCovered
  <2>2. CASE pc = "stream" /\ WindowCovered(db, win.at, win.at)
             /\ EnterRecovery(BlockApplied, BlockApplied)
    <3>1. BlockApplied \in Database /\ Covered(BlockApplied)
      BY <2>2, AppliedType, AppliedCovered DEF CoverageInv
    <3>2. QED
      BY <2>2, <3>1, RecoveryCovered
  <2>3. CASE RebuildDue /\ EnterRecovery(Backfilled(db), Backfilled(db))
    <3>1. Backfilled(db) \in Database /\ SameCoverage(Backfilled(db), db)
      BY <1>a, BackfilledType DEF SameCoverage
    <3>2. QED
      BY <1>b, <1>c, <2>3, <3>1, RecoveryCovered
  <2>4. QED
    BY <1>9, <2>1, <2>2, <2>3 DEF CommitUnknown
<1>10. ASSUME FlushLog \/ PostgresCrash \/ HostCrash PROVE Kept
  BY <1>10, <1>b DEF FlushLog, PostgresCrash, HostCrash
<1>11. ASSUME UNCHANGED <<db, disk>> PROVE Kept
  BY <1>11, <1>b
<1>12. Kept
  BY <1>1, <1>2, <1>3, <1>4, <1>5, <1>6, <1>7, <1>8, <1>9, <1>10, <1>11
  DEF Next, Step, Failure, Environment, RefuseCoverage, ReadStatus, Finish, BeginWindow,
      FetchBulkWindow, CoverageGap, RereadCursor, CursorUnreadable, FatalError,
      PrefetchSettles, AdvanceTip, ProcessCrash, vars
<1>13. TypeInv'
  BY TypeStep DEF CoverageInv
<1>14. QED
  BY <1>12, <1>13 DEF CoverageInv, Covered

\* The economy coverage never claims a block that is not indexed: under every
\* fault, lost window, replay and restart, each block from the activation to the
\* covered height has been applied.
THEOREM CoverageComplete == Spec => []CoverageHasNoHole
<1>1. Init => CoverageInv
  <2> SUFFICES ASSUME Init PROVE CoverageInv
    OBVIOUS
  <2>1. db.coverage = 0 /\ disk = db
    BY DEF Init, InitialDatabase
  <2>2. QED
    BY <2>1, TypeInit DEF CoverageInv, Covered
<1>2. CoverageInv => CoverageHasNoHole
  BY DEF CoverageInv, Covered, CoverageHasNoHole
<1>3. QED
  BY <1>1, <1>2, CoverageStep, PTL DEF Spec

-----------------------------------------------------------------------------
(* Where Postgres may restart under the process and lose asynchronous      *)
(* commits: no block is applied twice, projections that are stamped at the *)
(* cursor follow from the indexed blocks, and a run that reports success   *)
(* has indexed its target and left such projections.                       *)

\* the cursor can be read after a failure, and nobody asks for a replay
FindsItsPlace == AllowReplay = FALSE /\ "cursor_unreadable" \notin Faults

\* no deferral is lost with the answer to its commit
DeferralsAnswered == "commit_unknown" \notin Faults \/ ~BulkDeferProjections

-----------------------------------------------------------------------------
(* The inductive invariants. *)

\* Every block in the database is there once, and the cursor has reached it.
Once(d) == \A h \in Heights : d.rows[h] <= 1 /\ (d.rows[h] > 0 => h <= d.cursor)

\* The next block that the process would apply is above the cursor.
Ahead ==
    /\ pc \in {"sweep", "projections", "status", "plan", "fetch", "apply"} => next > db.cursor
    /\ pc = "stream" => win.at > db.cursor

OnceInv ==
    /\ TypeInv
    /\ Once(db) /\ Once(disk) /\ disk.cursor <= db.cursor
    /\ Ahead

Stamped(d) == d.stamp = d.cursor
Stamps(d) == d.stamp <= d.cursor /\ (Stamped(d) => d.fresh)

\* the loop, after the gate of the projections
PastGate == {"status", "plan", "fetch", "apply", "stream", "recover", "done"}

\* A process that does not know of deferred projections has none: the database
\* is stamped, and so is the image that a crash of Postgres would leave.
ReadyInv ==
    /\ Stamps(db) /\ Stamps(disk)
    /\ Stamped(db) => Stamped(disk)
    /\ pc \in PastGate /\ ~stale => Stamped(db)
    /\ pc \in {"stream", "done"} => ~stale
    /\ ~BulkDeferProjections => ~stale

-----------------------------------------------------------------------------
(* What steps do to the two images. *)

\* the two agree on everything but the status
Alike(a, b) == a.cursor = b.cursor /\ a.rows = b.rows /\ a.stamp = b.stamp /\ a.fresh = b.fresh

Unchanged == Alike(db', db) /\ (Alike(disk', disk) \/ Alike(disk', db))
Applies(lo, hi, t, defer) ==
    /\ Alike(db', ApplyBlocks(db, lo, hi, t, defer))
    /\ Alike(disk', db') \/ disk' = disk

LEMMA SetStatusAlike ==
    ASSUME NEW d \in Database, NEW s, NEW t
    PROVE  Alike(SetStatusOnly(d, s, t), d)
BY DEF SetStatusOnly, Database, Alike

LEMMA AlikeTransfers ==
    ASSUME NEW a, NEW b, Alike(a, b)
    PROVE  (Once(b) => Once(a)) /\ (Stamps(b) => Stamps(a)) /\ (Stamped(a) <=> Stamped(b))
           /\ a.cursor = b.cursor
<1>1. a.cursor = b.cursor /\ a.rows = b.rows /\ a.stamp = b.stamp /\ a.fresh = b.fresh
  BY DEF Alike
<1>2. Once(b) => Once(a)
  BY <1>1, Zenon DEF Once
<1>3. (Stamps(b) => Stamps(a)) /\ (Stamped(a) <=> Stamped(b))
  BY <1>1, Zenon DEF Stamps, Stamped
<1>4. QED
  BY <1>1, <1>2, <1>3

\* A failure that left d leaves something like it.
LEMMA RecoveryAlike ==
    ASSUME NEW d \in Database, NEW image, EnterRecovery(d, image)
    PROVE  Alike(db', d) /\ (Alike(disk', db') \/ disk' = image)
<1>1. Alike(SetStatusOnly(d, "stalled", d.tip), d) /\ Alike(d, d)
  BY SetStatusAlike DEF Alike
<1>2. db' = d \/ (db' = SetStatusOnly(d, "stalled", d.tip) /\ disk' = db')
  BY DEF EnterRecovery, Commit
<1>3. db' = d => disk' = image \/ disk' = db'
  BY DEF EnterRecovery, Commit
<1>4. Alike(db', d)
  BY <1>1, <1>2
<1>5. disk' = db' => Alike(disk', db')
  BY DEF Alike
<1>6. QED
  BY <1>2, <1>3, <1>4, <1>5

\* A transaction above the cursor.
LEMMA AppliesAbove ==
    ASSUME NEW d \in Database, Once(d), NEW lo \in Nat, NEW hi \in Heights, lo <= hi,
           d.cursor < lo, NEW t \in 0..MaxHeight, NEW defer \in BOOLEAN,
           NEW e, Alike(e, ApplyBlocks(d, lo, hi, t, defer))
    PROVE  /\ Once(e) /\ e.cursor = hi
           /\ Stamps(d) /\ (defer \/ Stamped(d)) => Stamps(e)
           /\ Stamps(d) /\ Stamped(e) => ~defer
           /\ ~defer => Stamped(e)
<1> DEFINE a == ApplyBlocks(d, lo, hi, t, defer)
<1>1. a.cursor = hi /\ a.rows = Appended(d.rows, lo, hi)
  BY ApplyBlocksType
<1>2. a.stamp = (IF defer THEN d.stamp ELSE hi) /\ a.fresh = (d.fresh /\ ~defer)
  BY DEF ApplyBlocks
<1>3. e.cursor = hi /\ e.rows = Appended(d.rows, lo, hi) /\ e.stamp = a.stamp /\ e.fresh = a.fresh
  BY <1>1 DEF Alike
<1>4. d.cursor \in Nat /\ hi \in Nat /\ d.rows \in [Heights -> Nat] /\ d.stamp \in Int
      /\ Heights \subseteq Nat /\ d.cursor < hi
  BY DEF Database, Heights, NoStamp
<1>5. Once(e)
  <2> SUFFICES ASSUME NEW h \in Heights
               PROVE  e.rows[h] <= 1 /\ (e.rows[h] > 0 => h <= hi)
    BY <1>3 DEF Once
  <2>1. e.rows[h] = IF h \in lo..hi THEN d.rows[h] + 1 ELSE d.rows[h]
    BY <1>3 DEF Appended
  <2>2. d.rows[h] \in Nat /\ d.rows[h] <= 1 /\ (d.rows[h] > 0 => h <= d.cursor) /\ h \in Nat
    BY <1>4 DEF Once
  <2>3. QED
    BY <1>4, <2>1, <2>2
<1>6. ~defer => Stamped(e)
  BY <1>2, <1>3 DEF Stamped
<1>7. Stamps(d) /\ defer => e.stamp < e.cursor
  BY <1>2, <1>3, <1>4 DEF Stamps
<1>8. Stamps(d) /\ Stamped(e) => ~defer
  BY <1>3, <1>4, <1>7 DEF Stamped, Stamps
<1>9. ASSUME Stamps(d), defer \/ Stamped(d) PROVE Stamps(e)
  <2>1. CASE defer
    BY <1>2, <1>3, <1>4, <1>7, <1>9, <2>1 DEF Stamps, Stamped
  <2>2. CASE ~defer
    <3>1. d.fresh
      BY <1>9, <2>2 DEF Stamps
    <3>2. e.fresh /\ e.stamp = hi
      BY <1>2, <1>3, <2>2, <3>1
    <3>3. QED
      BY <1>3, <1>4, <3>2 DEF Stamps
  <2>3. QED
    BY <2>1, <2>2
<1>10. QED
  BY <1>3, <1>5, <1>6, <1>8, <1>9

-----------------------------------------------------------------------------
(* No block twice.                                                         *)

\* A step that keeps the index.
LEMMA KeepsOnce ==
    ASSUME OnceInv, TypeInv', Ahead', SameIndex(db', db),
           SameIndex(disk', disk) \/ SameIndex(disk', db)
    PROVE  OnceInv'
<1>1. Once(db)' /\ Once(disk)'
  BY Zenon DEF OnceInv, Once, SameIndex
<1>2. db.cursor \in Int /\ disk.cursor \in Int
  BY DEF OnceInv, TypeInv, TypeOK, Database
<1>3. disk'.cursor <= db'.cursor
  BY <1>2 DEF OnceInv, SameIndex
<1>4. QED
  BY <1>1, <1>3 DEF OnceInv

\* A step that adds blocks above the cursor.
LEMMA GrowsOnce ==
    ASSUME OnceInv, TypeInv', Ahead', NEW lo \in Nat, NEW hi \in Heights, lo <= hi,
           db.cursor < lo, NEW t \in 0..MaxHeight, NEW defer \in BOOLEAN,
           Applies(lo, hi, t, defer)
    PROVE  OnceInv'
<1>1. PICK d \in Database : d = db
  BY DEF OnceInv, TypeInv, TypeOK
<1>2. PICK e : e = db'
  OBVIOUS
<1>3. Once(e) /\ e.cursor = hi
  BY <1>1, <1>2, AppliesAbove DEF OnceInv, Applies
<1>4. CASE Alike(disk', db')
  <2>1. Once(disk') /\ disk'.cursor = db'.cursor
    BY <1>2, <1>3, <1>4, AlikeTransfers
  <2>2. db'.cursor \in Int
    BY DEF TypeInv, TypeOK, Database
  <2>3. QED
    BY <1>2, <1>3, <2>1, <2>2 DEF OnceInv
<1>5. CASE disk' = disk
  <2>1. disk.cursor <= db.cursor /\ db.cursor \in Nat /\ disk.cursor \in Nat /\ hi \in Nat
    BY DEF OnceInv, TypeInv, TypeOK, Database, Heights
  <2>2. disk'.cursor <= db'.cursor
    BY <1>2, <1>3, <1>5, <2>1
  <2>3. QED
    BY <1>2, <1>3, <1>5, <2>2 DEF OnceInv
<1>6. QED
  BY <1>4, <1>5 DEF Applies

\* GuardReplay lets no start through that would index a block again.
LEMMA GuardReplayAbove ==
    ASSUME NEW d \in Database, FindsItsPlace, NEW granted \in 1..MaxHeight + 1,
           GuardReplay(d, ResolveStart(d), granted)
    PROVE  granted > d.cursor
BY IngestAssumption DEF GuardReplay, FindsItsPlace, Replaying, Database, ResolveStart, Highest

\* A step of the loop at pc: where it goes, the window that it has.
LEMMA StaysAhead ==
    ASSUME OnceInv, db'.cursor <= db.cursor, db' \in Database, next' = next,
           \/ pc' = pc /\ win' = win
           \/ pc \in {"sweep", "projections", "status", "plan", "fetch", "apply"} /\ pc' # "stream"
           \/ pc' \in {"off", "done", "recover"}
    PROVE  Ahead'
BY DEF OnceInv, TypeInv, TypeOK, Ahead, Database, Windows

\* A process that is not running is not behind.
LEMMA ExitAhead ==
    ASSUME NEW to \in {"off", "done"}, Exit(to)
    PROVE  Ahead'
BY DEF Exit, Ahead

\* The failure of an operation that did not change the index.
LEMMA RecoversOnce ==
    ASSUME OnceInv, TypeInv', NEW d \in Database, SameIndex(d, db), NEW image \in {disk, d},
           EnterRecovery(d, image)
    PROVE  OnceInv'
<1>1. Alike(db', d) /\ (Alike(disk', db') \/ disk' = image)
  BY RecoveryAlike
<1>2. SameIndex(db', db) /\ (SameIndex(disk', disk) \/ SameIndex(disk', db))
  BY <1>1 DEF Alike, SameIndex
<1>3. Ahead'
  BY DEF EnterRecovery, Ahead
<1>4. QED
  BY <1>2, <1>3, KeepsOnce

\* The windows that are applied, and what they leave.
LEMMA WindowAbove ==
    ASSUME OnceInv
    PROVE  /\ pc = "apply" => /\ next \in Nat /\ win.end \in Heights /\ next <= win.end
                              /\ db.cursor < next /\ win.tip \in 0..MaxHeight
                              /\ BulkApplied \in Database
           /\ pc = "stream" => /\ win.at \in Nat /\ win.at \in Heights /\ db.cursor < win.at
                               /\ win.at <= win.end /\ win.tip \in 0..MaxHeight
                               /\ BlockApplied \in Database
<1>1. TypeInv /\ Ahead /\ MaxHeight \in Nat
  BY IngestAssumption DEF OnceInv
<1>2. win \in Windows /\ next \in 0..MaxHeight + 1 /\ db.cursor \in 0..MaxHeight
  BY <1>1 DEF TypeInv, TypeOK, Database
<1>3. win.end \in 0..MaxHeight /\ win.at \in 0..MaxHeight + 1 /\ win.tip \in 0..MaxHeight
  BY <1>2 DEF Windows
<1>4. ASSUME pc = "apply"
      PROVE  /\ next \in Nat /\ win.end \in Heights /\ next <= win.end /\ db.cursor < next
             /\ BulkApplied \in Database
  <2>1. next <= win.end /\ next >= 1 /\ next > db.cursor
    BY <1>1, <1>4 DEF TypeInv, WindowOK, Ahead
  <2>2. BulkApplied \in Database
    BY <1>1, <1>4, AppliedType
  <2>3. QED
    BY <1>1, <1>2, <1>3, <2>1, <2>2 DEF Heights
<1>5. ASSUME pc = "stream"
      PROVE  /\ win.at \in Nat /\ win.at \in Heights /\ win.at <= win.end /\ db.cursor < win.at
             /\ BlockApplied \in Database
  <2>1. win.at \in 1..win.end /\ win.at > db.cursor
    BY <1>1, <1>5 DEF TypeInv, WindowOK, Ahead
  <2>2. BlockApplied \in Database
    BY <1>1, <1>5, AppliedType
  <2>3. QED
    BY <1>1, <1>2, <1>3, <2>1, <2>2 DEF Heights
<1>6. QED
  BY <1>3, <1>4, <1>5

\* Every step keeps the process ahead of the database.
LEMMA OnceStep ==
    FindsItsPlace /\ OnceInv /\ [Next]_vars => OnceInv'
<1> SUFFICES ASSUME FindsItsPlace, OnceInv, [Next]_vars PROVE OnceInv'
  OBVIOUS
<1>a. TypeInv' /\ db' \in Database
  BY TypeStep DEF OnceInv, TypeInv, TypeOK
<1>b. /\ db \in Database /\ disk \in Database /\ MaxHeight \in Nat
      /\ db.cursor \in 0..MaxHeight /\ disk.cursor \in 0..MaxHeight /\ disk.cursor <= db.cursor
  BY IngestAssumption DEF OnceInv, TypeInv, TypeOK, Database
<1>c. SameIndex(db, db) /\ SameIndex(disk, disk)
      /\ SameIndex(Backfilled(db), db) /\ Backfilled(db) \in Database
  BY <1>b, BackfilledType DEF SameIndex
<1>d. BulkDeferProjections \in BOOLEAN
  BY IngestAssumption
<1>1. CASE Boot
  <2>1. PICK granted \in 1..MaxHeight + 1 :
          GuardReplay(db, ResolveStart(db), granted) /\ next' = granted
    BY <1>1 DEF Boot
  <2>2. granted > db.cursor
    BY <1>b, <2>1, GuardReplayAbove
  <2>3. SameIndex(db', db) /\ (SameIndex(disk', disk) \/ SameIndex(disk', db))
    BY <1>1, <1>b, InvalidatedType DEF Boot, Commit, SameIndex
  <2>4. Ahead'
    BY <1>1, <2>1, <2>2, <2>3 DEF Boot, Ahead, SameIndex
  <2>5. QED
    BY <1>a, <2>3, <2>4, KeepsOnce
<1>2. CASE Sweep
  <2>1. SameIndex(db', db) /\ (SameIndex(disk', disk) \/ SameIndex(disk', db))
    BY <1>2, <1>b, InvalidatedType DEF Sweep, Commit, SameIndex
  <2>2. Ahead'
    BY <1>2, <2>1 DEF Sweep, OnceInv, Ahead, SameIndex
  <2>3. QED
    BY <1>a, <2>1, <2>2, KeepsOnce
<1>3. CASE PrepareProjections
  <2>1. SameIndex(db', db) /\ (SameIndex(disk', disk) \/ SameIndex(disk', db))
    BY <1>3, <1>c DEF PrepareProjections, Commit
  <2>2. Ahead'
    BY <1>3, <2>1 DEF PrepareProjections, OnceInv, Ahead, SameIndex
  <2>3. QED
    BY <1>a, <2>1, <2>2, KeepsOnce
<1>4. CASE RefuseCoverage \/ Finish \/ CoverageGap \/ FatalError \/ ProcessCrash
  <2>1. db' = db /\ disk' = disk /\ \E to \in {"off", "done"} : Exit(to)
    BY <1>4 DEF RefuseCoverage, Finish, CoverageGap, FatalError, ProcessCrash
  <2>2. QED
    BY <1>a, <1>c, <2>1, ExitAhead, KeepsOnce
<1>5. CASE ReadStatus \/ FetchBulkWindow \/ PrefetchSettles \/ AdvanceTip
  <2>1. db' = db /\ disk' = disk
    BY <1>5 DEF ReadStatus, FetchBulkWindow, PrefetchSettles, AdvanceTip
  <2>2. Ahead'
    BY <1>5 DEF ReadStatus, FetchBulkWindow, PrefetchSettles, AdvanceTip, OnceInv, Ahead
  <2>3. QED
    BY <1>a, <1>c, <2>1, <2>2, KeepsOnce
<1>6. CASE RebuildProjections
  <2>1. SameIndex(db', db) /\ SameIndex(disk', db)
    BY <1>6, <1>c DEF RebuildProjections, Commit
  <2>2. Ahead'
    BY <1>6, <2>1 DEF RebuildProjections, RebuildDue, OnceInv, Ahead, SameIndex
  <2>3. QED
    BY <1>a, <2>1, <2>2, KeepsOnce
<1>7. CASE IdleAtTip
  <2>1. SameIndex(SetStatusOnly(db, ComputeStatus(next - 1, seen), seen), db)
    BY <1>b, SetStatusAlike DEF Alike, SameIndex
  <2>2. SameIndex(db', db) /\ (SameIndex(disk', disk) \/ SameIndex(disk', db))
    BY <1>7, <1>c, <2>1 DEF IdleAtTip, Commit
  <2>3. Ahead'
    BY <1>7, <2>2 DEF IdleAtTip, Continue, OnceInv, Ahead, SameIndex
  <2>4. QED
    BY <1>a, <2>2, <2>3, KeepsOnce
<1>8. CASE BeginWindow
  <2>1. win'.at = next /\ pc = "plan" /\ next' = next /\ db' = db /\ disk' = disk
    BY <1>8 DEF BeginWindow
  <2>2. Ahead'
    BY <2>1 DEF OnceInv, Ahead
  <2>3. QED
    BY <1>a, <1>c, <2>1, <2>2, KeepsOnce
<1>9. CASE ApplyBulkWindow
  <2>1. /\ pc = "apply" /\ db' = BulkApplied /\ (disk' = disk \/ disk' = db')
        /\ next' = win.end + 1 /\ pc' = "status"
    BY <1>9 DEF ApplyBulkWindow, Continue
  <2>2. Applies(next, win.end, win.tip, BulkDeferProjections)
    BY <2>1 DEF Applies, BulkApplied, Alike
  <2>3. next \in Nat /\ win.end \in Heights /\ next <= win.end /\ db.cursor < next
        /\ win.tip \in 0..MaxHeight
    BY <2>1, WindowAbove
  <2>4. db'.cursor = win.end
    BY <2>1 DEF BulkApplied, ApplyBlocks
  <2>5. Ahead'
    BY <2>1, <2>3, <2>4 DEF Ahead, Heights
  <2>6. QED
    BY <1>a, <1>d, <2>2, <2>3, <2>5, GrowsOnce
<1>10. CASE StreamBlock
  <2>1. /\ pc = "stream" /\ db' = BlockApplied /\ disk' = db'
    BY <1>10 DEF StreamBlock, Commit
  <2>2. Applies(win.at, win.at, win.tip, FALSE)
    BY <2>1 DEF Applies, BlockApplied, Alike
  <2>3. win.at \in Nat /\ win.at \in Heights /\ db.cursor < win.at /\ win.tip \in 0..MaxHeight
        /\ win.at <= win.at /\ FALSE \in BOOLEAN
    BY <2>1, WindowAbove
  <2>4. db'.cursor = win.at
    BY <2>1 DEF BlockApplied, ApplyBlocks
  <2>5. \/ pc' = "status" /\ next' = win.end + 1 /\ win.at = win.end
        \/ pc' = "stream" /\ win'.at = win.at + 1
    BY <1>10 DEF StreamBlock, Continue, OnceInv, TypeInv, TypeOK, Windows
  <2>6. Ahead'
    BY <2>3, <2>4, <2>5 DEF Ahead
  <2>7. QED
    BY <1>a, <2>2, <2>3, <2>6, GrowsOnce
<1>11. CASE PrefetchFailed \/ FetchFails \/ TransactionFails
  <2>1. EnterRecovery(db, disk)
    BY <1>11 DEF PrefetchFailed, FetchFails, TransactionFails
  <2>2. QED
    BY <1>a, <1>b, <1>c, <2>1, RecoversOnce
<1>12. CASE RereadCursor
  <2>1. next \in Nat /\ next >= 1 /\ db' = db /\ disk' = disk /\ pc' = "status"
        /\ next' = ResumeAt(next)
    BY <1>12 DEF RereadCursor, Continue, OnceInv, TypeInv, TypeOK, WindowOK
  <2>2. next' > db.cursor
    BY <1>b, <2>1 DEF ResumeAt
  <2>3. Ahead'
    BY <2>1, <2>2 DEF Ahead
  <2>4. QED
    BY <1>a, <1>c, <2>1, <2>3, KeepsOnce
<1>13. CASE StatusFails
  <2>1. SameIndex(SetStatusOnly(db, "stalled", db.tip), db)
    BY <1>b, SetStatusAlike DEF Alike, SameIndex
  <2>2. SameIndex(db', db) /\ (SameIndex(disk', disk) \/ SameIndex(disk', db))
    BY <1>13, <1>c, <2>1 DEF StatusFails, Commit
  <2>3. Ahead'
    BY <1>13, <2>2 DEF StatusFails, OnceInv, Ahead, SameIndex
  <2>4. QED
    BY <1>a, <2>2, <2>3, KeepsOnce
<1>14. CASE CommitUnknown
  <2>1. CASE pc = "apply"
    <3>1. PICK image \in {disk, BulkApplied} : EnterRecovery(BulkApplied, image)
      BY <1>14, <2>1 DEF CommitUnknown, RebuildDue
    <3>2. next \in Nat /\ win.end \in Heights /\ next <= win.end /\ db.cursor < next
          /\ win.tip \in 0..MaxHeight /\ BulkApplied \in Database
      BY <2>1, WindowAbove
    <3>3. Alike(db', BulkApplied) /\ (Alike(disk', db') \/ disk' = image)
      BY <3>1, <3>2, RecoveryAlike
    <3>4. Applies(next, win.end, win.tip, BulkDeferProjections)
      BY <3>3 DEF Applies, BulkApplied, Alike
    <3>5. Ahead'
      BY <3>1 DEF EnterRecovery, Ahead
    <3>6. QED
      BY <1>a, <1>d, <3>2, <3>4, <3>5, GrowsOnce
  <2>2. CASE pc = "stream"
    <3>1. EnterRecovery(BlockApplied, BlockApplied)
      BY <1>14, <2>2 DEF CommitUnknown, RebuildDue
    <3>2. win.at \in Nat /\ win.at \in Heights /\ db.cursor < win.at
          /\ win.tip \in 0..MaxHeight /\ BlockApplied \in Database
          /\ win.at <= win.at /\ FALSE \in BOOLEAN
      BY <2>2, WindowAbove
    <3>3. Alike(db', BlockApplied) /\ (Alike(disk', db') \/ disk' = BlockApplied)
      BY <3>1, <3>2, RecoveryAlike
    <3>4. Applies(win.at, win.at, win.tip, FALSE)
      BY <3>3 DEF Applies, BlockApplied, Alike
    <3>5. Ahead'
      BY <3>1 DEF EnterRecovery, Ahead
    <3>6. QED
      BY <1>a, <3>2, <3>4, <3>5, GrowsOnce
  <2>3. CASE RebuildDue
    <3>1. EnterRecovery(Backfilled(db), Backfilled(db))
      BY <1>14, <2>3 DEF CommitUnknown, RebuildDue
    <3>2. QED
      BY <1>a, <1>c, <3>1, RecoversOnce
  <2>4. QED
    BY <1>14, <2>1, <2>2, <2>3 DEF CommitUnknown
<1>15. CASE CursorUnreadable
  BY <1>15 DEF CursorUnreadable, Inject, FindsItsPlace
<1>16. CASE FlushLog
  <2>1. db' = db /\ disk' = db /\ Ahead'
    BY <1>16 DEF FlushLog, OnceInv, Ahead
  <2>2. QED
    BY <1>a, <1>c, <2>1, KeepsOnce
<1>17. CASE PostgresCrash
  <2>1. db' = disk /\ disk' = disk /\ UNCHANGED << pc, next, win >>
    BY <1>17 DEF PostgresCrash
  <2>2. Ahead'
    BY <1>a, <1>b, <2>1, StaysAhead
  <2>3. QED
    BY <1>a, <1>b, <2>1, <2>2 DEF OnceInv
<1>18. CASE HostCrash
  <2>1. db' = disk /\ disk' = disk /\ Exit("off")
    BY <1>18 DEF HostCrash
  <2>2. QED
    BY <1>a, <1>b, <2>1, ExitAhead DEF OnceInv
<1>19. CASE UNCHANGED vars
  <2>1. db' = db /\ disk' = disk /\ Ahead'
    BY <1>19 DEF vars, OnceInv, Ahead
  <2>2. QED
    BY <1>a, <1>c, <2>1, KeepsOnce
<1>20. QED
  BY <1>1, <1>2, <1>3, <1>4, <1>5, <1>6, <1>7, <1>8, <1>9, <1>10, <1>11, <1>12, <1>13,
     <1>14, <1>15, <1>16, <1>17, <1>18, <1>19
  DEF Next, Step, Failure, Environment

LEMMA OnceInvariant ==
    ASSUME FindsItsPlace
    PROVE  Spec => []OnceInv
<1>1. ASSUME Init PROVE OnceInv
  <2>1. PICK c \in Inherited : (c = 0 \/ c >= First) /\ db = InitialDatabase(c)
    BY <1>1 DEF Init
  <2>2. Once(db) /\ disk = db /\ c \in Nat /\ db.cursor = c
    BY <1>1, <2>1, IngestAssumption DEF Init, InitialDatabase, Once, Heights
  <2>3. Ahead
    BY <1>1 DEF Init, Ahead
  <2>4. QED
    BY <1>1, <2>2, <2>3, TypeInit DEF OnceInv
<1>2. OnceInv /\ [Next]_vars => OnceInv'
  BY OnceStep
<1>3. QED
  BY <1>1, <1>2, PTL DEF Spec

\* As long as the cursor can be read after a failure and nobody asks for a
\* replay, no crash, no lost answer and no asynchronous commit that Postgres
\* forgets makes the loop apply a block twice.
THEOREM NeverTwice ==
    ASSUME FindsItsPlace
    PROVE  Spec => []AppliedOnce
<1>1. OnceInv => AppliedOnce
  BY DEF OnceInv, Once, AppliedOnce
<1>2. QED
  BY <1>1, OnceInvariant, PTL
-----------------------------------------------------------------------------
(* Refinement of IndexedChain, with every fault but an unreadable cursor.  *)
(* What is durable is a beginning of what is indexed, and the loop goes on *)
(* at its own place, which is never behind the end of the index.           *)

Place == Highest(next, Following(db))

FromFirst(d) == d.cursor = 0 \/ d.cursor >= First

\* A window that is half way in has every block of it durable: a crash of
\* Postgres leaves the next block of a streaming window where it is.
Placed ==
    /\ pc \in {"off", "done"} => next = 0
    /\ pc \notin {"off", "done"} => next >= First
    /\ pc = "stream" => /\ win.at = Place
                        /\ win.at = next \/ disk.cursor = db.cursor

PlaceInv ==
    /\ OnceInv
    /\ FromFirst(db) /\ FromFirst(disk)
    /\ \A h \in Heights : h <= disk.cursor => db.rows[h] = disk.rows[h]
    /\ Placed

\* what a step does to the index and the place
Extends(lo, hi) == db'.cursor = hi /\ db'.rows = Appended(db.rows, lo, hi)

IndexMoves ==
    \/ SameIndex(db', db) /\ (Place' = Place \/ Place' = Following(db))
    \/ \E hi \in Heights : Place <= hi /\ Extends(Place, hi) /\ Place' = hi + 1
    \/ db' = disk /\ Place' \in Following(disk)..Place

\* Where the loop stands, outside recovery and a streaming window.
LEMMA PlaceAt ==
    ASSUME PlaceInv
    PROVE  /\ First \in Nat /\ First >= 1 /\ next \in Nat
           /\ db.cursor \in Nat /\ disk.cursor \in Nat
           /\ Following(db) \in Nat /\ Following(db) >= 1 /\ Following(disk) \in 1..Following(db)
           /\ Place \in Nat /\ Place >= next /\ Place >= Following(db)
           /\ pc \in {"sweep", "projections", "status", "plan", "fetch", "apply"} => Place = next
           /\ pc \in {"off", "done"} => Place = Following(db)
<1>1. First \in Nat /\ First >= 1
  BY FirstType DEF Heights
<1>2. next \in Nat /\ db.cursor \in Nat /\ disk.cursor \in Nat /\ disk.cursor <= db.cursor
  BY DEF PlaceInv, OnceInv, TypeInv, TypeOK, Database
<1>3. /\ Following(db) \in Nat /\ Following(db) >= 1 /\ Following(disk) \in 1..Following(db)
  BY <1>1, <1>2 DEF Following, PlaceInv, FromFirst
<1>4. Place \in Nat /\ Place >= next /\ Place >= Following(db)
  BY <1>2, <1>3 DEF Place, Highest
<1>5. ASSUME pc \in {"sweep", "projections", "status", "plan", "fetch", "apply"}
      PROVE  Place = next
  <2>1. next > db.cursor /\ next >= First
    BY <1>5 DEF PlaceInv, OnceInv, Ahead, Placed
  <2>2. QED
    BY <1>1, <1>2, <2>1 DEF Place, Highest, Following
<1>6. ASSUME pc \in {"off", "done"} PROVE Place = Following(db)
  BY <1>2, <1>3, <1>6 DEF PlaceInv, Placed, Place, Highest
<1>7. QED
  BY <1>1, <1>2, <1>3, <1>4, <1>5, <1>6

\* A step that keeps the index.
LEMMA KeepsPlace ==
    ASSUME PlaceInv, OnceInv', SameIndex(db', db),
           SameIndex(disk', disk) \/ SameIndex(disk', db), Placed'
    PROVE  PlaceInv'
<1>1. FromFirst(db)' /\ FromFirst(disk)'
  BY DEF PlaceInv, SameIndex, FromFirst
<1>2. ASSUME NEW h \in Heights, h <= disk'.cursor PROVE db'.rows[h] = disk'.rows[h]
  BY <1>2 DEF PlaceInv, SameIndex
<1>3. QED
  BY <1>1, <1>2 DEF PlaceInv

\* A step of the loop that keeps the index and moves on without next.
LEMMA StaysPlaced ==
    ASSUME PlaceInv, OnceInv', SameIndex(db', db),
           SameIndex(disk', disk) \/ SameIndex(disk', db), next' = next,
           \/ pc' = pc /\ win' = win
           \/ pc \notin {"off", "done"} /\ pc' \notin {"off", "done", "stream"}
           \/ pc = "plan" /\ pc' = "stream" /\ win'.at = next
    PROVE  PlaceInv' /\ IndexMoves
<1>1. Place' = Place /\ db'.cursor = db.cursor
  BY Zenon DEF Place, Following, SameIndex
<1>2. disk'.cursor = disk.cursor \/ disk'.cursor = db'.cursor
  BY <1>1 DEF SameIndex
<1>3. Placed'
  <2>1. CASE pc' = pc /\ win' = win
    BY <1>1, <1>2, <2>1 DEF PlaceInv, Placed
  <2>2. CASE pc \notin {"off", "done"} /\ pc' \notin {"off", "done", "stream"}
    BY <2>2 DEF PlaceInv, Placed
  <2>3. CASE pc = "plan" /\ pc' = "stream" /\ win'.at = next
    <3>1. Place = next
      BY <2>3, PlaceAt
    <3>2. QED
      BY <1>1, <2>3, <3>1 DEF PlaceInv, Placed
  <2>4. QED
    BY <2>1, <2>2, <2>3
<1>4. QED
  BY <1>1, <1>3, KeepsPlace DEF IndexMoves

\* The process ends, and a new one will start from the index.
LEMMA ExitPlaced ==
    ASSUME PlaceInv, OnceInv', SameIndex(db', db), disk' = disk,
           NEW to \in {"off", "done"}, Exit(to)
    PROVE  PlaceInv' /\ IndexMoves
<1>1. next' = 0 /\ pc' = to
  BY DEF Exit
<1>2. Placed'
  BY <1>1 DEF Placed
<1>3. Following(db)' = Following(db)
  BY DEF Following, SameIndex
<1>4. Place' = Following(db)
  BY <1>1, <1>3, PlaceAt DEF Place, Highest
<1>5. SameIndex(disk', disk)
  BY DEF SameIndex
<1>6. QED
  BY <1>2, <1>4, <1>5, KeepsPlace DEF IndexMoves

\* A transaction at the place of the loop.
LEMMA ExtendsPlaced ==
    ASSUME PlaceInv, OnceInv', NEW hi \in Heights, Place <= hi,
           NEW t, NEW defer, Applies(Place, hi, t, defer), Placed', Place' = hi + 1
    PROVE  PlaceInv' /\ IndexMoves
<1>1. db'.cursor = hi /\ db'.rows = Appended(db.rows, Place, hi)
  BY DEF Applies, Alike, ApplyBlocks
<1>2. SameIndex(disk', db') \/ disk' = disk
  BY DEF Applies, Alike, SameIndex
<1>3. First \in Nat /\ Place \in Nat /\ hi \in Nat /\ Place >= Following(db)
      /\ db.cursor \in Nat /\ disk.cursor \in Nat /\ disk.cursor <= db.cursor
      /\ Following(db) \in Nat /\ Following(db) > db.cursor /\ Following(db) >= First
  BY PlaceAt DEF Heights, Following, PlaceInv, OnceInv, FromFirst
<1>q. hi >= First
  BY <1>3
<1>4. FromFirst(db)'
  BY <1>1, <1>q DEF FromFirst
<1>5. CASE SameIndex(disk', db')
  BY <1>1, <1>4, <1>5 DEF PlaceInv, SameIndex, FromFirst, IndexMoves, Extends
<1>6. CASE disk' = disk
  <2>1. ASSUME NEW h \in Heights, h <= disk.cursor PROVE db'.rows[h] = disk.rows[h]
    <3>1. h \notin Place..hi
      BY <1>3, <2>1 DEF Heights
    <3>2. db'.rows[h] = db.rows[h]
      BY <1>1, <3>1 DEF Appended
    <3>3. QED
      BY <2>1, <3>2 DEF PlaceInv
  <2>2. QED
    BY <1>1, <1>4, <1>6, <2>1 DEF PlaceInv, IndexMoves, Extends
<1>7. QED
  BY <1>2, <1>5, <1>6

\* What a crash of Postgres leaves is the beginning of the index, and the loop,
\* if it goes on, goes on behind it.
LEMMA LosesPlaced ==
    ASSUME PlaceInv, OnceInv', db' = disk, disk' = disk,
           \/ UNCHANGED << pc, next, win >>
           \/ Exit("off")
    PROVE  PlaceInv' /\ IndexMoves
<1>a. db' = disk /\ disk' = disk
  OBVIOUS
<1>1. Following(db)' = Following(disk)
  BY <1>a DEF Following
<1>2. /\ Following(disk) \in Nat /\ Following(disk) >= 1 /\ Following(disk) <= Following(db)
      /\ Place \in Nat /\ Place >= next /\ Place >= Following(db) /\ next \in Nat
      /\ Following(db) \in Nat
  BY PlaceAt
<1>3. next' = next \/ next' = 0
  BY DEF Exit
<1>4. Place' = Highest(next', Following(disk))
  BY <1>1 DEF Place
<1>5. Place' \in Following(disk)..Place
  BY <1>2, <1>3, <1>4 DEF Highest
<1>6. Placed'
  <2>1. CASE Exit("off")
    BY <2>1 DEF Exit, Placed
  <2>2. CASE UNCHANGED << pc, next, win >>
    <3>1. ASSUME pc = "stream" PROVE win.at = Place'
      <4>1. win.at = Place /\ (win.at = next \/ disk.cursor = db.cursor)
        BY <3>1 DEF PlaceInv, Placed
      <4>2. CASE win.at = next
        BY <1>2, <1>4, <2>2, <4>1, <4>2 DEF Highest
      <4>3. CASE disk.cursor = db.cursor
        BY <1>4, <2>2, <4>1, <4>3 DEF Following, Place
      <4>4. QED
        BY <4>1, <4>2, <4>3
    <3>2. disk'.cursor = db'.cursor
      BY <1>a
    <3>3. QED
      BY <2>2, <3>1, <3>2 DEF PlaceInv, Placed
  <2>3. QED
    BY <2>1, <2>2
<1>7. PlaceInv'
  BY <1>a, <1>6 DEF PlaceInv
<1>8. QED
  BY <1>5, <1>7 DEF IndexMoves

\* The failure of an operation, which left d.
LEMMA RecoversPlaced ==
    ASSUME PlaceInv, OnceInv', NEW d \in Database, SameIndex(d, db), NEW image \in {disk, d},
           EnterRecovery(d, image), pc \notin {"off", "done"}
    PROVE  PlaceInv' /\ IndexMoves
<1>1. Alike(db', d) /\ (Alike(disk', db') \/ disk' = image)
  BY RecoveryAlike
<1>2. SameIndex(db', db) /\ (SameIndex(disk', disk) \/ SameIndex(disk', db))
  BY <1>1 DEF Alike, SameIndex
<1>3. next' = next /\ pc' = "recover"
  BY DEF EnterRecovery
<1>4. QED
  BY <1>2, <1>3, StaysPlaced

\* GuardReplay starts the process behind what is indexed.
LEMMA GuardReplayFollows ==
    ASSUME PlaceInv, FindsItsPlace, NEW granted \in 1..MaxHeight + 1,
           GuardReplay(db, ResolveStart(db), granted)
    PROVE  granted = Following(db)
<1>1. First \in Nat /\ db.cursor \in Nat /\ StartHeight \in Nat /\ Earliest \in Nat /\ Earliest >= 1
      /\ (StartHeight = 0 \/ StartHeight >= Earliest)
  BY PlaceAt, IngestAssumption
<1>2. FromFirst(db) /\ \A h \in Heights : db.rows[h] > 0 => h <= db.cursor
  BY DEF PlaceInv, OnceInv, Once
<1>3. ~Replaying(db)
  BY DEF FindsItsPlace, Replaying
<1>4. CASE db.cursor = 0
  <2>1. ResolveStart(db) = First /\ First > 0 /\ Following(db) = First
    BY <1>1, <1>4 DEF ResolveStart, First, Following
  <2>2. ASSUME NEW h \in Heights, db.rows[h] > 0 PROVE h < First
    BY <1>1, <1>2, <1>4, <2>2 DEF Heights
  <2>3. QED
    BY <1>4, <1>3, <2>1, <2>2 DEF GuardReplay
<1>5. CASE db.cursor > 0
  <2>1. db.cursor >= First /\ Following(db) = db.cursor + 1
    BY <1>1, <1>2, <1>5 DEF FromFirst, Following
  <2>2. ResolveStart(db) > db.cursor => ResolveStart(db) = db.cursor + 1
    BY <1>1, <1>5, <2>1 DEF ResolveStart, First, Highest
  <2>3. QED
    BY <1>3, <2>1, <2>2 DEF GuardReplay
<1>6. QED
  BY <1>1, <1>4, <1>5

\* Every step moves the index and the place as the abstract one does.
LEMMA PlaceStep ==
    ASSUME FindsItsPlace, PlaceInv, [Next]_vars
    PROVE  PlaceInv' /\ IndexMoves
<1>a. OnceInv' /\ TypeInv'
  BY OnceStep DEF PlaceInv, OnceInv
<1>b. db \in Database /\ disk \in Database /\ OnceInv
  BY DEF PlaceInv, OnceInv, TypeInv, TypeOK
<1>c. SameIndex(db, db) /\ SameIndex(disk, disk)
      /\ SameIndex(Backfilled(db), db) /\ Backfilled(db) \in Database
  BY <1>b, BackfilledType DEF SameIndex
<1>1. CASE Boot
  <2>1. PICK granted \in 1..MaxHeight + 1 :
          GuardReplay(db, ResolveStart(db), granted) /\ next' = granted
    BY <1>1 DEF Boot
  <2>2. SameIndex(db', db) /\ (SameIndex(disk', disk) \/ SameIndex(disk', db))
    BY <1>1, <1>b, InvalidatedType DEF Boot, Commit, SameIndex
  <2>3. next' = Following(db) /\ pc' = "sweep" /\ pc = "off"
    BY <1>1, <2>1, GuardReplayFollows DEF Boot
  <2>4. Following(db)' = Following(db) /\ Place = Following(db) /\ Following(db) >= First
        /\ Following(db) \in Nat
    BY <2>2, <2>3, PlaceAt, FirstType DEF SameIndex, Following, PlaceInv, FromFirst, Heights
  <2>5. Place' = Place
    BY <2>3, <2>4 DEF Place, Highest
  <2>6. Placed'
    BY <2>3, <2>4 DEF Placed
  <2>7. QED
    BY <1>a, <2>2, <2>5, <2>6, KeepsPlace DEF IndexMoves
<1>2. CASE Sweep \/ PrepareProjections \/ RebuildProjections \/ StatusFails
  <2>1. SameIndex(SetStatusOnly(db, "stalled", db.tip), db)
    BY <1>b, SetStatusAlike DEF Alike, SameIndex
  <2>2. SameIndex(db', db) /\ (SameIndex(disk', disk) \/ SameIndex(disk', db))
    <3>1. SameIndex(Invalidated(db), db)
      BY <1>b DEF Invalidated, SameIndex, Database
    <3>2. CASE Sweep
      BY <1>c, <3>1, <3>2 DEF Sweep, Commit
    <3>3. CASE PrepareProjections
      BY <1>c, <3>3 DEF PrepareProjections, Commit
    <3>4. CASE RebuildProjections
      BY <1>c, <3>4 DEF RebuildProjections, Commit
    <3>5. CASE StatusFails
      BY <1>c, <2>1, <3>5 DEF StatusFails, Commit
    <3>6. QED
      BY <1>2, <3>2, <3>3, <3>4, <3>5
  <2>3. next' = next /\ pc \notin {"off", "done"} /\ pc' \notin {"off", "done", "stream"}
    BY <1>2 DEF Sweep, PrepareProjections, RebuildProjections, RebuildDue, StatusFails
  <2>4. QED
    BY <1>a, <2>2, <2>3, StaysPlaced
<1>3. CASE RefuseCoverage \/ Finish \/ CoverageGap \/ FatalError \/ ProcessCrash
  <2>1. db' = db /\ disk' = disk /\ \E to \in {"off", "done"} : Exit(to)
    BY <1>3 DEF RefuseCoverage, Finish, CoverageGap, FatalError, ProcessCrash
  <2>2. QED
    BY <1>a, <1>c, <2>1, ExitPlaced
<1>4. CASE ReadStatus \/ FetchBulkWindow
  <2>1. db' = db /\ disk' = disk /\ next' = next
        /\ pc \notin {"off", "done"} /\ pc' \notin {"off", "done", "stream"}
    BY <1>4 DEF ReadStatus, FetchBulkWindow
  <2>2. QED
    BY <1>a, <1>c, <2>1, StaysPlaced
<1>5. CASE PrefetchSettles \/ AdvanceTip \/ FlushLog \/ UNCHANGED vars
  <2>1. db' = db /\ (disk' = disk \/ disk' = db) /\ UNCHANGED << next, pc, win >>
    BY <1>5 DEF PrefetchSettles, AdvanceTip, FlushLog, vars
  <2>2. QED
    BY <1>a, <1>c, <2>1, StaysPlaced
<1>6. CASE IdleAtTip
  <2>1. SameIndex(SetStatusOnly(db, ComputeStatus(next - 1, seen), seen), db)
    BY <1>b, SetStatusAlike DEF Alike, SameIndex
  <2>2. SameIndex(db', db) /\ (SameIndex(disk', disk) \/ SameIndex(disk', db))
    BY <1>6, <1>c, <2>1 DEF IdleAtTip, Commit
  <2>3. next' = next /\ pc = "plan" /\ pc' = "status"
    BY <1>6 DEF IdleAtTip, Continue
  <2>4. QED
    BY <1>a, <2>2, <2>3, StaysPlaced
<1>7. CASE BeginWindow
  <2>1. /\ win'.at = next /\ pc = "plan" /\ next' = next /\ db' = db /\ disk' = disk
        /\ pc' \in {"fetch", "stream"}
    BY <1>7 DEF BeginWindow
  <2>2. QED
    BY <1>a, <1>c, <2>1, StaysPlaced
<1>8. CASE ApplyBulkWindow
  <2>1. /\ pc = "apply" /\ db' = BulkApplied /\ (disk' = disk \/ disk' = db')
        /\ next' = win.end + 1 /\ pc' = "status"
    BY <1>8 DEF ApplyBulkWindow, Continue
  <2>2. win.end \in Heights /\ next <= win.end /\ Place = next /\ First \in Nat /\ next \in Nat
        /\ next >= First
    BY <1>b, <2>1, WindowAbove, PlaceAt DEF PlaceInv, Placed
  <2>3. Applies(Place, win.end, win.tip, BulkDeferProjections)
    BY <2>1, <2>2 DEF Applies, BulkApplied, Alike
  <2>4. db'.cursor = win.end
    BY <2>1 DEF BulkApplied, ApplyBlocks
  <2>5. Place' = win.end + 1
    BY <2>1, <2>2, <2>4 DEF Place, Following, Highest, Heights
  <2>6. Placed'
    BY <2>1, <2>2 DEF Placed, Heights
  <2>7. QED
    BY <1>a, <2>2, <2>3, <2>5, <2>6, ExtendsPlaced
<1>9. CASE StreamBlock
  <2>1. pc = "stream" /\ db' = BlockApplied /\ disk' = db'
    BY <1>9 DEF StreamBlock, Commit
  <2>2. /\ win.at \in Heights /\ Place = win.at /\ win.at >= next /\ next \in Nat
        /\ next >= First /\ First \in Nat
    BY <1>b, <2>1, WindowAbove, PlaceAt DEF PlaceInv, Placed
  <2>3. Applies(Place, win.at, win.tip, FALSE)
    BY <2>1, <2>2 DEF Applies, BlockApplied, Alike
  <2>4. db'.cursor = win.at
    BY <2>1 DEF BlockApplied, ApplyBlocks
  <2>5. \/ pc' = "status" /\ next' = win.end + 1 /\ win.at = win.end
        \/ pc' = "stream" /\ win'.at = win.at + 1 /\ next' = next
    BY <1>9, <2>1, <1>b DEF StreamBlock, Continue, OnceInv, TypeInv, TypeOK, Windows
  <2>6. Place' = win.at + 1
    BY <2>2, <2>4, <2>5 DEF Place, Following, Highest, Heights
  <2>7. Placed'
    BY <2>1, <2>2, <2>5, <2>6 DEF Placed, Heights
  <2>8. win.at <= win.at
    BY <2>2 DEF Heights
  <2>9. QED
    BY <1>a, <2>2, <2>3, <2>6, <2>7, <2>8, ExtendsPlaced
<1>10. CASE PrefetchFailed \/ FetchFails \/ TransactionFails
  <2>1. EnterRecovery(db, disk) /\ pc \notin {"off", "done"}
    BY <1>10 DEF PrefetchFailed, FetchFails, TransactionFails, RebuildDue
  <2>2. QED
    BY <1>a, <1>b, <1>c, <2>1, RecoversPlaced
<1>11. CASE RereadCursor
  <2>1. /\ db' = db /\ disk' = disk /\ pc = "recover" /\ pc' = "status"
        /\ next' = ResumeAt(next) /\ next \in Nat /\ next >= First /\ First \in Nat
        /\ db.cursor \in Nat
    BY <1>11, PlaceAt DEF RereadCursor, Continue, PlaceInv, Placed
  <2>2. next' = Place
    BY <2>1 DEF ResumeAt, Place, Following, Highest
  <2>3. Place \in Nat /\ Place >= next /\ Place >= Following(db) /\ Following(db) \in Nat
    BY PlaceAt
  <2>4. Place' = Place
    BY <2>1, <2>2, <2>3 DEF Place, Following, Highest
  <2>5. Placed'
    BY <2>1, <2>2, <2>3 DEF Placed
  <2>6. QED
    BY <1>a, <1>c, <2>1, <2>4, <2>5, KeepsPlace DEF IndexMoves
<1>12. CASE CommitUnknown
  <2>1. CASE pc = "apply"
    <3>1. PICK image \in {disk, BulkApplied} : EnterRecovery(BulkApplied, image)
      BY <1>12, <2>1 DEF CommitUnknown, RebuildDue
    <3>2. /\ win.end \in Heights /\ next <= win.end /\ Place = next /\ next >= First
          /\ next \in Nat /\ BulkApplied \in Database
      BY <1>b, <2>1, WindowAbove, PlaceAt DEF PlaceInv, Placed
    <3>3. Alike(db', BulkApplied) /\ (Alike(disk', db') \/ disk' = image)
      BY <3>1, <3>2, RecoveryAlike
    <3>4. Applies(Place, win.end, win.tip, BulkDeferProjections)
      BY <3>2, <3>3 DEF Applies, BulkApplied, Alike
    <3>5. db'.cursor = win.end /\ next' = next /\ pc' = "recover"
      BY <3>1, <3>3 DEF EnterRecovery, BulkApplied, ApplyBlocks, Alike
    <3>6. Place' = win.end + 1
      BY <3>2, <3>5 DEF Place, Following, Highest, Heights
    <3>7. Placed'
      BY <3>2, <3>5 DEF Placed
    <3>8. QED
      BY <1>a, <3>2, <3>4, <3>6, <3>7, ExtendsPlaced
  <2>2. CASE pc = "stream"
    <3>1. EnterRecovery(BlockApplied, BlockApplied)
      BY <1>12, <2>2 DEF CommitUnknown, RebuildDue
    <3>2. /\ win.at \in Heights /\ Place = win.at /\ win.at >= next /\ next \in Nat
          /\ next >= First /\ BlockApplied \in Database
      BY <1>b, <2>2, WindowAbove, PlaceAt DEF PlaceInv, Placed
    <3>3. Alike(db', BlockApplied) /\ (Alike(disk', db') \/ disk' = BlockApplied)
      BY <3>1, <3>2, RecoveryAlike
    <3>4. Applies(Place, win.at, win.tip, FALSE)
      BY <3>2, <3>3 DEF Applies, BlockApplied, Alike
    <3>5. db'.cursor = win.at /\ next' = next /\ pc' = "recover"
      BY <3>1, <3>3 DEF EnterRecovery, BlockApplied, ApplyBlocks, Alike
    <3>6. Place' = win.at + 1
      BY <3>2, <3>5 DEF Place, Following, Highest, Heights
    <3>7. Placed' /\ win.at <= win.at
      BY <3>2, <3>5 DEF Placed, Heights
    <3>8. QED
      BY <1>a, <3>2, <3>4, <3>6, <3>7, ExtendsPlaced
  <2>3. CASE RebuildDue
    <3>1. EnterRecovery(Backfilled(db), Backfilled(db)) /\ pc \notin {"off", "done"}
      BY <1>12, <2>3 DEF CommitUnknown, RebuildDue
    <3>2. QED
      BY <1>a, <1>c, <3>1, RecoversPlaced
  <2>4. QED
    BY <1>12, <2>1, <2>2, <2>3 DEF CommitUnknown
<1>13. CASE CursorUnreadable
  BY <1>13 DEF CursorUnreadable, Inject, FindsItsPlace
<1>14. CASE PostgresCrash \/ HostCrash
  <2>1. db' = disk /\ disk' = disk /\ (UNCHANGED << pc, next, win >> \/ Exit("off"))
    BY <1>14 DEF PostgresCrash, HostCrash
  <2>2. QED
    BY <1>a, <2>1, LosesPlaced
<1>15. QED
  BY <1>1, <1>2, <1>3, <1>4, <1>5, <1>6, <1>7, <1>8, <1>9, <1>10, <1>11, <1>12, <1>13, <1>14
  DEF Next, Step, Failure, Environment

\* A database to start from is an index to start from.
LEMMA PlaceInit == FindsItsPlace /\ Init => PlaceInv /\ Chain!Init
<1> SUFFICES ASSUME FindsItsPlace, Init PROVE PlaceInv /\ Chain!Init
  OBVIOUS
<1>1. PICK c \in Inherited : (c = 0 \/ c >= First) /\ db = InitialDatabase(c)
  BY DEF Init
<1>2. c \in 0..MaxHeight /\ First \in Nat /\ First >= 1
  BY <1>1, IngestAssumption, FirstType DEF Heights
<1>3. /\ db.cursor = c /\ disk = db /\ next = 0 /\ pc = "off"
      /\ db.rows = [h \in Heights |-> IF h \in First..c THEN 1 ELSE 0]
  BY <1>1 DEF Init, InitialDatabase
<1>4. OnceInv
  BY <1>2, <1>3, TypeInit DEF OnceInv, Once, Ahead, Heights
<1>5. PlaceInv
  BY <1>1, <1>3, <1>4 DEF PlaceInv, FromFirst, Placed
<1>6. Place = Following(db)
  BY <1>3, <1>5, PlaceAt
<1>7. Chain!Init
  BY <1>1, <1>2, <1>3, <1>6 DEF Chain!Init, Chain!Following, Following, Place, Heights
<1>8. QED
  BY <1>5, <1>7

\* Each move of the index is a step of the abstract one.
LEMMA ChainStep ==
    ASSUME PlaceInv, PlaceInv', IndexMoves
    PROVE  [Chain!Next]_<<db.cursor, db.rows, Place>>
<1>1. CASE SameIndex(db', db) /\ Place' = Place
  BY <1>1 DEF SameIndex
<1>2. CASE SameIndex(db', db) /\ Place' = Following(db)
  BY <1>2 DEF SameIndex, Chain!Next, Chain!Restart, Chain!Following, Following, Place
<1>3. CASE \E hi \in Heights : Place <= hi /\ Extends(Place, hi) /\ Place' = hi + 1
  <2>1. PICK hi \in Heights : Place <= hi /\ Extends(Place, hi) /\ Place' = hi + 1
    BY <1>3
  <2>2. hi \in Place..MaxHeight
    BY <2>1, PlaceAt DEF Heights
  <2>3. Chain!Append(hi)
    BY <2>1 DEF Chain!Append, Extends, Appended, Heights, Place
  <2>4. QED
    BY <2>2, <2>3 DEF Chain!Next, Place
<1>4. CASE db' = disk /\ Place' \in Following(disk)..Place
  <2> DEFINE lo == disk.cursor
  <2>1. lo \in 0..db.cursor /\ (lo = 0 \/ lo >= First)
    BY PlaceAt DEF PlaceInv, OnceInv, FromFirst
  <2>2. disk.rows = [h \in 1..MaxHeight |-> IF h > lo THEN 0 ELSE db.rows[h]]
    <3>1. disk.rows \in [Heights -> Nat] /\ lo \in Nat
      BY DEF PlaceInv, OnceInv, TypeInv, TypeOK, Database
    <3>3. \A h \in Heights : disk.rows[h] > 0 => h <= lo
      BY Zenon DEF PlaceInv, OnceInv, Once
    <3>4. \A h \in Heights : disk.rows[h] \in Nat
      BY <3>1, Zenon
    <3>2. ASSUME NEW h \in Heights
          PROVE  disk.rows[h] = IF h > lo THEN 0 ELSE db.rows[h]
      <4>1. disk.rows[h] \in Nat /\ (disk.rows[h] > 0 => h <= lo) /\ h \in Nat
        BY <3>2, <3>3, <3>4 DEF Heights
      <4>2. h <= lo => db.rows[h] = disk.rows[h]
        BY <3>2 DEF PlaceInv
      <4>3. QED
        BY <3>1, <4>1, <4>2
    <3>5. QED
      BY <3>1, <3>2 DEF Heights
  <2>3. Chain!Following' = Following(disk)
    BY <1>4 DEF Chain!Following, Following
  <2>4. Chain!Lose(lo)
    BY <1>4, <2>1, <2>2, <2>3 DEF Chain!Lose, Place
  <2>5. QED
    BY <2>1, <2>4 DEF Chain!Next
<1>5. QED
  BY <1>1, <1>2, <1>3, <1>4 DEF IndexMoves

\* The ingest loop with its windows, retries, start gates and crashes, those of
\* Postgres under the process among them, implements an index that one writer
\* extends in order: no block twice, and none left out but those that Postgres
\* lost after an asynchronous commit.
THEOREM ImplementsChain ==
    ASSUME FindsItsPlace
    PROVE  Spec => ImplementsIndexedChain
<1>1. Init => PlaceInv /\ Chain!Init
  BY PlaceInit
<1>2. PlaceInv /\ [Next]_vars => PlaceInv' /\ [Chain!Next]_<<db.cursor, db.rows, Place>>
  BY PlaceStep, ChainStep
<1>3. QED
  BY <1>1, <1>2, PTL DEF ImplementsIndexedChain, Chain!Spec, Spec, Place

-----------------------------------------------------------------------------
(* Ready means fresh.                                                      *)

\* A step that may set the status, and does not go past the gate.
LEMMA KeepsReady ==
    ASSUME ReadyInv, Unchanged,
           pc' \in PastGate /\ ~stale' => pc \in PastGate /\ ~stale,
           pc' \in {"stream", "done"} => ~stale',
           ~BulkDeferProjections => ~stale'
    PROVE  ReadyInv'
<1>1. PICK a, b, d, e : a = db /\ b = db' /\ d = disk /\ e = disk'
  OBVIOUS
<1>2. /\ Stamps(a) /\ Stamps(d) /\ (Stamped(a) => Stamped(d))
      /\ pc \in PastGate /\ ~stale => Stamped(a)
  BY <1>1 DEF ReadyInv
<1>3. Alike(b, a) /\ (Alike(e, d) \/ Alike(e, a))
  BY <1>1 DEF Unchanged
<1>4. Stamps(b) /\ (Stamped(b) <=> Stamped(a))
  BY <1>2, <1>3, AlikeTransfers
<1>5. Stamps(e) /\ (Stamped(a) => Stamped(e))
  BY <1>2, <1>3, AlikeTransfers
<1>6. pc' \in PastGate /\ ~stale' => Stamped(b)
  BY <1>2, <1>4
<1>7. QED
  BY <1>1, <1>4, <1>5, <1>6 DEF ReadyInv

\* A failure after which Run starts over.
LEMMA RecoversReady ==
    ASSUME ReadyInv, db \in Database, EnterRecovery(db, disk), pc \in PastGate
    PROVE  ReadyInv'
<1>1. Alike(db', db) /\ (Alike(disk', db') \/ disk' = disk)
  BY RecoveryAlike
<1>2. Unchanged
  BY <1>1 DEF Unchanged, Alike
<1>3. stale' = stale /\ pc' = "recover"
  BY DEF EnterRecovery
<1>4. QED
  BY <1>2, <1>3, KeepsReady DEF ReadyInv

\* A transaction above the cursor, by a process that remembers what it deferred.
LEMMA AppliesReady ==
    ASSUME OnceInv, ReadyInv, NEW lo \in Nat, NEW hi \in Heights, lo <= hi,
           db.cursor < lo, NEW t \in 0..MaxHeight, NEW defer \in BOOLEAN,
           Applies(lo, hi, t, defer), pc \in PastGate,
           ~defer => ~stale /\ ~stale', defer => stale' /\ BulkDeferProjections,
           pc' \notin {"stream", "done"} \/ ~stale'
    PROVE  ReadyInv'
<1>1. PICK a \in Database : a = db
  BY DEF OnceInv, TypeInv, TypeOK
<1>2. PICK b, d, e : b = db' /\ d = disk /\ e = disk'
  OBVIOUS
<1>3. /\ Once(a) /\ Stamps(a) /\ Stamps(d)
      /\ Stamped(a) => Stamped(d)
      /\ ~defer => Stamped(a)
  BY <1>1, <1>2 DEF ReadyInv, OnceInv
<1>4. Alike(b, ApplyBlocks(a, lo, hi, t, defer)) /\ (Alike(e, b) \/ e = d)
  BY <1>1, <1>2 DEF Applies
<1>5. a.cursor < lo
  BY <1>1
<1>6. Stamps(b) /\ (Stamped(b) => ~defer) /\ (~defer => Stamped(b))
  BY <1>3, <1>4, <1>5, AppliesAbove
<1>7. Stamps(e) /\ (Stamped(b) => Stamped(e))
  BY <1>3, <1>4, <1>6, AlikeTransfers
<1>8. (~stale' => Stamped(b)) /\ (~BulkDeferProjections => ~stale')
  BY <1>6
<1>9. QED
  BY <1>2, <1>6, <1>7, <1>8 DEF ReadyInv

\* Repairs unstamp the projections, and a rebuild stamps them.
LEMMA StampTypes ==
    ASSUME NEW d \in Database
    PROVE  /\ Stamps(Invalidated(d)) /\ ~Stamped(Invalidated(d))
           /\ Stamps(Backfilled(d)) /\ Stamped(Backfilled(d))
<1>1. Invalidated(d).stamp = -1 /\ Invalidated(d).cursor = d.cursor
      /\ Backfilled(d).stamp = d.cursor /\ Backfilled(d).cursor = d.cursor
      /\ Backfilled(d).fresh = TRUE /\ d.cursor \in Nat
  BY IngestAssumption DEF Invalidated, Backfilled, Database, NoStamp
<1>2. QED
  BY <1>1 DEF Stamps, Stamped

\* A synchronous commit of a database that is stamped, or of one that is not
\* by a process that is not past the gate.
LEMMA CommitsReady ==
    ASSUME NEW d, Alike(db', d), Alike(disk', d), Stamps(d),
           Stamped(d) \/ pc' \notin PastGate, pc' \in {"stream", "done"} => ~stale',
           ~BulkDeferProjections => ~stale'
    PROVE  ReadyInv'
<1>1. PICK b, e : b = db' /\ e = disk'
  OBVIOUS
<1>2. Alike(b, d) /\ Alike(e, d)
  BY <1>1
<1>3. Stamps(b) /\ Stamps(e) /\ (Stamped(b) <=> Stamped(d)) /\ (Stamped(e) <=> Stamped(d))
  BY <1>2, AlikeTransfers
<1>4. QED
  BY <1>1, <1>3 DEF ReadyInv

\* Every step keeps the stamps honest.
LEMMA ReadyStep ==
    FindsItsPlace /\ DeferralsAnswered /\ OnceInv /\ ReadyInv /\ [Next]_vars => ReadyInv'
<1> SUFFICES ASSUME FindsItsPlace, DeferralsAnswered, OnceInv, ReadyInv, [Next]_vars
             PROVE  ReadyInv'
  OBVIOUS
<1>a. db \in Database /\ disk \in Database /\ stale \in BOOLEAN /\ BulkDeferProjections \in BOOLEAN
  BY IngestAssumption DEF OnceInv, TypeInv, TypeOK
<1>b. \A d : Alike(d, d)
  BY DEF Alike
<1>c. Unchanged <=> Alike(db', db) /\ (Alike(disk', disk) \/ Alike(disk', db))
  BY DEF Unchanged
<1>d. (pc \in {"stream", "done"} => ~stale) /\ (~BulkDeferProjections => ~stale)
  BY DEF ReadyInv
<1>1. CASE Boot
  <2>1. pc' = "sweep" /\ stale' = stale
    BY <1>1 DEF Boot
  <2>2. CASE db' = db /\ disk' = disk
    BY <1>b, <1>c, <1>d, <2>1, <2>2, KeepsReady DEF PastGate
  <2>3. CASE db' = [Invalidated(db) EXCEPT !.genesis = TRUE] /\ disk' = db'
    <3>1. Alike([Invalidated(db) EXCEPT !.genesis = TRUE], Invalidated(db))
      BY <1>a DEF Invalidated, Database, Alike
    <3>2. Stamps(Invalidated(db))
      BY <1>a, StampTypes
    <3>3. Alike(db', Invalidated(db)) /\ Alike(disk', Invalidated(db))
      BY <2>3, <3>1
    <3>4. QED
      BY <1>d, <2>1, <3>2, <3>3, CommitsReady DEF PastGate
  <2>4. QED
    BY <1>1, <2>2, <2>3 DEF Boot, Commit
<1>2. CASE Sweep
  <2>1. pc' = "projections" /\ stale' = stale
    BY <1>2 DEF Sweep
  <2>2. CASE db' = db /\ disk' = disk
    BY <1>b, <1>c, <1>d, <2>1, <2>2, KeepsReady DEF PastGate
  <2>3. CASE Commit(Invalidated(db))
    BY <1>a, <1>b, <1>d, <2>1, <2>3, StampTypes, CommitsReady DEF Commit, PastGate
  <2>4. QED
    BY <1>2, <2>2, <2>3 DEF Sweep
<1>3. CASE PrepareProjections
  <2> DEFINE defer == /\ NeedsBackfill(db) /\ BulkEnabled /\ BulkDeferProjections
                      /\ seen - db.cursor >= BulkLagThreshold
  <2>1. pc' = "status" /\ stale' = defer /\ (defer => BulkDeferProjections)
    BY <1>3 DEF PrepareProjections
  <2>2. CASE NeedsBackfill(db) /\ ~defer
    <3>1. Commit(Backfilled(db))
      BY <1>3, <2>2 DEF PrepareProjections
    <3>2. QED
      BY <1>a, <1>b, <2>1, <2>2, <3>1, StampTypes, CommitsReady DEF Commit
  <2>3. CASE ~(NeedsBackfill(db) /\ ~defer)
    <3>1. db' = db /\ disk' = disk
      BY <1>3, <2>3 DEF PrepareProjections
    <3>2. Stamped(db) \/ stale'
      BY <2>1, <2>3 DEF NeedsBackfill, Stamped
    <3>3. Stamps(db) /\ Stamps(disk) /\ (Stamped(db) => Stamped(disk))
      BY DEF ReadyInv
    <3>4. QED
      BY <2>1, <3>1, <3>2, <3>3 DEF ReadyInv, Stamps, Stamped
  <2>4. QED
    BY <2>2, <2>3
<1>4. CASE RefuseCoverage \/ CoverageGap \/ FatalError \/ ProcessCrash
  <2>1. db' = db /\ disk' = disk /\ Exit("off")
    BY <1>4 DEF RefuseCoverage, CoverageGap, FatalError, ProcessCrash
  <2>2. QED
    BY <1>b, <1>c, <2>1, KeepsReady DEF Exit, PastGate
<1>5. CASE Finish
  <2>1. db' = db /\ disk' = disk /\ pc' = "done" /\ ~stale' /\ pc \in PastGate /\ ~stale
    BY <1>5 DEF Finish, Exit, PastGate
  <2>2. QED
    BY <1>b, <1>c, <2>1, KeepsReady
<1>6. CASE ReadStatus \/ FetchBulkWindow \/ RereadCursor
  <2>1. db' = db /\ disk' = disk /\ pc' \notin {"stream", "done"} /\ pc \in PastGate /\ stale' = stale
    BY <1>6 DEF ReadStatus, FetchBulkWindow, RereadCursor, Continue, PastGate
  <2>2. QED
    BY <1>b, <1>c, <1>d, <2>1, KeepsReady
<1>7. CASE PrefetchSettles \/ AdvanceTip \/ FlushLog \/ UNCHANGED vars
  <2>1. db' = db /\ (disk' = disk \/ disk' = db) /\ pc' = pc /\ stale' = stale
    BY <1>7 DEF PrefetchSettles, AdvanceTip, FlushLog, vars
  <2>2. QED
    BY <1>b, <1>c, <1>d, <2>1, KeepsReady
<1>8. CASE RebuildProjections
  <2>1. db' = Backfilled(db) /\ disk' = db' /\ ~stale'
    BY <1>8 DEF RebuildProjections, Commit
  <2>2. QED
    BY <1>a, <1>b, <2>1, StampTypes, CommitsReady
<1>9. CASE IdleAtTip
  <2>1. Alike(SetStatusOnly(db, ComputeStatus(next - 1, seen), seen), db)
    BY <1>a, SetStatusAlike
  <2>2. Unchanged
    BY <1>9, <1>b, <1>c, <2>1 DEF IdleAtTip, Commit
  <2>3. pc' \notin {"stream", "done"} /\ pc \in PastGate /\ stale' = stale
    BY <1>9 DEF IdleAtTip, Continue, PastGate
  <2>4. QED
    BY <1>d, <2>2, <2>3, KeepsReady
<1>10. CASE BeginWindow
  <2>1. db' = db /\ disk' = disk /\ pc \in PastGate /\ stale' = stale
    BY <1>10 DEF BeginWindow, PastGate
  <2>2. pc' \in {"stream", "done"} => ~stale
    BY <1>10 DEF BeginWindow
  <2>3. QED
    BY <1>b, <1>c, <1>d, <2>1, <2>2, KeepsReady
<1>11. CASE ApplyBulkWindow
  <2>1. /\ pc = "apply" /\ db' = BulkApplied /\ (disk' = disk \/ disk' = db')
        /\ stale' = StaleAfterWindow /\ pc' = "status"
    BY <1>11 DEF ApplyBulkWindow, Continue
  <2>2. Applies(next, win.end, win.tip, BulkDeferProjections)
    BY <1>b, <2>1 DEF Applies, BulkApplied
  <2>3. next \in Nat /\ win.end \in Heights /\ next <= win.end /\ db.cursor < next
        /\ win.tip \in 0..MaxHeight
    BY <2>1, WindowAbove
  <2>4. (~BulkDeferProjections => ~stale /\ ~stale') /\ (BulkDeferProjections => stale')
    BY <1>d, <2>1 DEF StaleAfterWindow
  <2>5. QED
    BY <1>a, <2>1, <2>2, <2>3, <2>4, AppliesReady DEF PastGate
<1>12. CASE StreamBlock
  <2>1. /\ pc = "stream" /\ db' = BlockApplied /\ disk' = db' /\ stale' = stale
    BY <1>12 DEF StreamBlock, Commit
  <2>2. Applies(win.at, win.at, win.tip, FALSE)
    BY <1>b, <2>1 DEF Applies, BlockApplied
  <2>3. win.at \in Nat /\ win.at \in Heights /\ db.cursor < win.at /\ win.tip \in 0..MaxHeight
        /\ win.at <= win.at /\ FALSE \in BOOLEAN
    BY <2>1, WindowAbove
  <2>4. QED
    BY <1>d, <2>1, <2>2, <2>3, AppliesReady DEF PastGate
<1>13. CASE PrefetchFailed \/ FetchFails \/ TransactionFails
  <2>1. EnterRecovery(db, disk)
    BY <1>13 DEF PrefetchFailed, FetchFails, TransactionFails
  <2>2. pc \in PastGate
    BY <1>13 DEF PrefetchFailed, FetchFails, TransactionFails, RebuildDue, PastGate
  <2>3. QED
    BY <1>a, <2>1, <2>2, RecoversReady
<1>14. CASE StatusFails
  <2>1. Alike(SetStatusOnly(db, "stalled", db.tip), db)
    BY <1>a, SetStatusAlike
  <2>2. Unchanged
    BY <1>14, <1>b, <1>c, <2>1 DEF StatusFails, Commit
  <2>3. pc' = pc /\ stale' = stale
    BY <1>14 DEF StatusFails
  <2>4. QED
    BY <1>d, <2>2, <2>3, KeepsReady
<1>15. CASE CommitUnknown
  <2>1. BulkDeferProjections = FALSE /\ ~stale
    BY <1>15, <1>a, <1>d DEF CommitUnknown, Inject, DeferralsAnswered
  <2>2. CASE pc = "apply"
    <3>1. PICK image \in {disk, BulkApplied} : EnterRecovery(BulkApplied, image)
      BY <1>15, <2>2 DEF CommitUnknown, RebuildDue
    <3>2. next \in Nat /\ win.end \in Heights /\ next <= win.end /\ db.cursor < next
          /\ win.tip \in 0..MaxHeight /\ BulkApplied \in Database
      BY <2>2, WindowAbove
    <3>3. Alike(db', BulkApplied) /\ (Alike(disk', db') \/ disk' = image)
      BY <3>1, <3>2, RecoveryAlike
    <3>4. Applies(next, win.end, win.tip, FALSE)
      BY <2>1, <3>3 DEF Applies, BulkApplied, Alike
    <3>5. pc' = "recover" /\ stale' = stale
      BY <3>1 DEF EnterRecovery
    <3>6. QED
      BY <2>1, <2>2, <3>2, <3>4, <3>5, AppliesReady DEF PastGate
  <2>3. CASE pc = "stream"
    <3>1. EnterRecovery(BlockApplied, BlockApplied)
      BY <1>15, <2>3 DEF CommitUnknown, RebuildDue
    <3>2. win.at \in Nat /\ win.at \in Heights /\ db.cursor < win.at
          /\ win.tip \in 0..MaxHeight /\ BlockApplied \in Database
          /\ win.at <= win.at /\ FALSE \in BOOLEAN
      BY <2>3, WindowAbove
    <3>3. Alike(db', BlockApplied) /\ (Alike(disk', db') \/ disk' = BlockApplied)
      BY <3>1, <3>2, RecoveryAlike
    <3>4. Applies(win.at, win.at, win.tip, FALSE)
      BY <3>3 DEF Applies, BlockApplied, Alike
    <3>5. pc' = "recover" /\ stale' = stale
      BY <3>1 DEF EnterRecovery
    <3>6. QED
      BY <2>1, <2>3, <3>2, <3>4, <3>5, AppliesReady DEF PastGate
  <2>4. CASE RebuildDue
    BY <2>1, <2>4 DEF RebuildDue
  <2>5. QED
    BY <1>15, <2>2, <2>3, <2>4 DEF CommitUnknown
<1>16. CASE CursorUnreadable
  BY <1>16 DEF CursorUnreadable, Inject, FindsItsPlace
<1>17. CASE PostgresCrash
  <2>1. db' = disk /\ disk' = disk /\ pc' = pc /\ stale' = stale
    BY <1>17 DEF PostgresCrash
  <2>2. Stamps(disk) /\ (pc \in PastGate /\ ~stale => Stamped(disk))
    BY DEF ReadyInv
  <2>3. QED
    BY <1>d, <2>1, <2>2 DEF ReadyInv, Stamps, Stamped
<1>18. CASE HostCrash
  <2>1. db' = disk /\ disk' = disk /\ pc' = "off" /\ ~stale'
    BY <1>18 DEF HostCrash, Exit
  <2>2. Stamps(disk)
    BY DEF ReadyInv
  <2>3. QED
    BY <1>b, <2>1, <2>2, CommitsReady DEF PastGate
<1>19. QED
  BY <1>1, <1>2, <1>3, <1>4, <1>5, <1>6, <1>7, <1>8, <1>9, <1>10, <1>11, <1>12, <1>13,
     <1>14, <1>15, <1>16, <1>17, <1>18
  DEF Next, Step, Failure, Environment

LEMMA ReadyInvariant ==
    ASSUME FindsItsPlace, DeferralsAnswered
    PROVE  Spec => [](OnceInv /\ ReadyInv)
<1>1. ASSUME Init PROVE ReadyInv
  <2>1. PICK c \in Inherited : db = InitialDatabase(c)
    BY <1>1 DEF Init
  <2>2. db.stamp = -1 /\ db.cursor \in Nat /\ disk = db
    BY <1>1, <2>1, IngestAssumption DEF Init, InitialDatabase, NoStamp
  <2>3. Stamps(db) /\ Stamps(disk) /\ ~Stamped(db)
    BY <2>2 DEF Stamps, Stamped
  <2>4. pc = "off" /\ stale = FALSE
    BY <1>1 DEF Init
  <2>5. QED
    BY <2>3, <2>4 DEF ReadyInv, PastGate
<1>2. OnceInv /\ ReadyInv /\ [Next]_vars => ReadyInv'
  BY ReadyStep
<1>3. QED
  BY <1>1, <1>2, OnceInvariant, PTL DEF Spec

\* Whatever restarts, Postgres included, and whatever asynchronous commit it
\* forgets: projections that startup would take as they are, because they are
\* stamped at the cursor, follow from the indexed blocks.
THEOREM ReadyIsFresh ==
    ASSUME FindsItsPlace, DeferralsAnswered
    PROVE  Spec => []ReadyMeansFresh
<1>1. ReadyInv => ReadyMeansFresh
  BY DEF ReadyInv, Stamps, Stamped, ReadyMeansFresh, NeedsBackfill
<1>2. QED
  BY <1>1, ReadyInvariant, PTL

-----------------------------------------------------------------------------
(* Done means ready.                                                       *)

\* a run that reported success has indexed the blocks that it was asked for
Reached == pc = "done" /\ StopHeight > 0 /\ ~OneShot => db.cursor >= StopHeight

\* Nothing but the end of the run makes the process done, and the database of a
\* process that is done stays as it is.
LEMMA DoneStays ==
    ASSUME Reliable, [Next]_vars, pc' = "done"
    PROVE  db' = db /\ (Finish \/ pc = "done")
<1>1. CASE Boot \/ Sweep \/ PrepareProjections \/ ReadStatus \/ IdleAtTip \/ BeginWindow
  BY <1>1 DEF Boot, Sweep, PrepareProjections, ReadStatus, IdleAtTip, BeginWindow, Continue
<1>2. CASE RefuseCoverage \/ CoverageGap \/ FatalError \/ ProcessCrash \/ HostCrash
  BY <1>2 DEF RefuseCoverage, CoverageGap, FatalError, ProcessCrash, HostCrash, Exit
<1>3. CASE FetchBulkWindow \/ ApplyBulkWindow \/ RereadCursor \/ CursorUnreadable
  BY <1>3 DEF FetchBulkWindow, ApplyBulkWindow, RereadCursor, CursorUnreadable, Continue
<1>4. CASE RebuildProjections \/ StreamBlock \/ StatusFails
  BY <1>4 DEF RebuildProjections, RebuildDue, StreamBlock, StatusFails, Continue
<1>5. CASE PrefetchFailed \/ FetchFails \/ TransactionFails \/ CommitUnknown
  <2>1. pc' = "recover"
    BY <1>5 DEF PrefetchFailed, FetchFails, TransactionFails, CommitUnknown, EnterRecovery
  <2>2. QED
    BY <2>1
<1>6. CASE Finish
  BY <1>6 DEF Finish
<1>7. CASE PrefetchSettles \/ AdvanceTip \/ FlushLog \/ UNCHANGED vars
  BY <1>7 DEF PrefetchSettles, AdvanceTip, FlushLog, vars
<1>8. CASE PostgresCrash
  BY <1>8 DEF PostgresCrash, Inject, Reliable
<1>9. QED
  BY <1>1, <1>2, <1>3, <1>4, <1>5, <1>6, <1>7, <1>8 DEF Next, Step, Failure, Environment

\* Where the loop ends, the cursor is at the stop height.
LEMMA ReachedStep ==
    ASSUME Reliable, StopHeight = 0 \/ StopHeight >= First,
           IndexInv, Reached, [Next]_vars
    PROVE  Reached'
<1> SUFFICES ASSUME pc' = "done", StopHeight > 0, ~OneShot
             PROVE  db'.cursor >= StopHeight
  BY DEF Reached
<1>1. db' = db /\ (Finish \/ pc = "done")
  BY DoneStays
<1>2. CASE Finish
  <2>1. pc = "plan" /\ next > StopHeight
    BY <1>2 DEF Finish
  <2>2. next = Following(db)
    BY <2>1 DEF IndexInv, Position
  <2>3. db.cursor \in Nat /\ First \in Nat /\ StopHeight \in Nat
    BY IngestAssumption, FirstType DEF IndexInv, TypeInv, TypeOK, Database, Heights
  <2>4. QED
    BY <1>1, <2>1, <2>2, <2>3 DEF Following
<1>3. QED
  BY <1>1, <1>2 DEF Reached

\* A one-shot or bounded run that reports success has indexed what it was asked
\* for, and the projections are stamped and follow from it; the stop height is
\* not below the block where indexing starts.
THEOREM DoneIsReady ==
    ASSUME Reliable, DeferralsAnswered, StopHeight = 0 \/ StopHeight >= First
    PROVE  Spec => []DoneMeansReady
<1>1. Init => Reached
  BY DEF Init, Reached
<1>2. IndexInv /\ Reached /\ [Next]_vars => Reached'
  BY ReachedStep
<1>3. Spec => []Reached
  BY <1>1, <1>2, IndexInvariant, PTL DEF Spec
<1>4. FindsItsPlace
  BY DEF Reliable, FindsItsPlace
<1>5. OnceInv /\ ReadyInv /\ Reached => DoneMeansReady
  <2> SUFFICES ASSUME OnceInv, ReadyInv, Reached, pc = "done" PROVE DoneMeansReady
    BY DEF DoneMeansReady
  <2>1. ~stale
    BY DEF ReadyInv
  <2>2. Stamped(db) /\ db.fresh
    BY <2>1 DEF ReadyInv, PastGate, Stamps
  <2>3. QED
    BY <2>2 DEF DoneMeansReady, Stamped, NeedsBackfill, Reached
<1>6. QED
  BY <1>3, <1>4, <1>5, ReadyInvariant, PTL
=============================================================================
