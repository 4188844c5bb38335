------------------------------ MODULE RpcProofs ------------------------------
(***************************************************************************)
(* Proofs about module RpcClient, for every number of endpoints, workers,  *)
(* blocks and faults: the window of a parallel fetch loses no height and   *)
(* takes none twice, and blocks are handed on once each, in order.         *)
(***************************************************************************)
EXTENDS RpcClient, FiniteSetTheorems, SequenceTheorems, WellFoundedInduction, TLAPS

-----------------------------------------------------------------------------
(* The inductive invariant. *)

Errors == {"none", "net", "other"}
Requests == [state : {"idle", "asking", "ok", "foreign", "failed"},
             at : 0..Endpoints, net : BOOLEAN]
Workers == [state : {"idle", "fetching", "sent"}, requests : [Kinds -> Requests]]
Windows == [start : 1..MaxHead, end : 0..head, launched : 0..head,
            expected : 1..MaxHead, pending : SUBSET Hs, bulk : BOOLEAN]
NodesUpTo(top) == [up : BOOLEAN, tip : 0..top]
Remembered(top) == [stat : Unknown..top, err : Errors, recent : BOOLEAN]
Nodes == [Es -> NodesUpTo(head)]
Caches == [Es -> Remembered(head)]
Loops == [pc : {"status", "asking", "plan", "fetch", "sleep", "exited"},
          next : 1..(MaxHead + 1), tip : Unknown..head, at : 0..Endpoints]

\* A request that waits for an answer waits for an endpoint.
Addressed ==
    \A h \in Hs, k \in Kinds :
       work[h].requests[k].state = "asking" => work[h].requests[k].at \in Es

Typed ==
    /\ head \in Hs /\ faults \in 0..MaxFaults
    /\ nodes \in Nodes /\ cache \in Caches /\ loop \in Loops
    /\ window \in Windows /\ work \in [Hs -> Workers]
    /\ loop.pc = "asking" => loop.at \in Es
    /\ Addressed

AtRest == window = NoWindow /\ work = [h \in Hs |-> Resting]

\* While a window runs: its bounds, and where each launched height is.
Progress ==
    /\ window.start = loop.next /\ window.start <= window.expected
    /\ window.expected <= window.end /\ window.expected <= window.launched + 1
    /\ window.launched <= window.end
    /\ window.pending \subseteq (window.expected + 1)..window.launched
    /\ window.expected..window.launched = window.pending \cup Busy \cup Sent
    /\ (Busy \cup Sent) \cap window.pending = {}

\* The block up to which everything was handed on: the one before the next to
\* fetch, or, while blocks stream, before the expected one.
LastDelivered ==
    IF loop.pc = "fetch" /\ ~window.bulk THEN window.expected - 1 ELSE loop.next - 1

Numbered(n) == [i \in 1..n |-> i]

Inv ==
    /\ Typed
    /\ loop.pc # "fetch" => AtRest
    /\ loop.pc = "fetch" => Progress
    /\ delivered = Numbered(LastDelivered)

-----------------------------------------------------------------------------
(* Least elements, and the sets of heights that are intervals. *)

\* Every nonempty set of natural numbers has a least element (the minima that
\* askers take, and the first height that is missing in a window).
LEMMA LeastNumber ==
    ASSUME NEW T \in SUBSET Nat, T # {}
    PROVE  \E x \in T : \A y \in T : x <= y
<1>1. \E x \in T : \A y \in T : ~ (<< y, x >> \in OpToRel(<, Nat))
    BY WFMin, NatLessThanWellFounded
<1>2. PICK x \in T : \A y \in T : ~ (<< y, x >> \in OpToRel(<, Nat))
    BY <1>1
<1>3. ASSUME NEW y \in T PROVE x <= y
    <2>1. ~(y < x)
        BY <1>2 DEF OpToRel
    <2> QED BY <2>1
<1> QED BY <1>3

\* The first endpoint that a request asks is one of those it may ask.
LEMMA AskFromFirst ==
    ASSUME NEW e \in Nat \ {0}, NEW h, Endpoints \in Nat
    PROVE  /\ AskFrom(e, h) \in {0} \cup Es
           /\ (\E i \in e..Endpoints : ~SkipForHeight(i, h) /\ ~SkipForRecentFailure(i))
                 => AskFrom(e, h) \in Es
<1> DEFINE asked == { i \in e..Endpoints : ~SkipForHeight(i, h) /\ ~SkipForRecentFailure(i) }
<1>1. CASE asked = {}
    BY <1>1 DEF AskFrom, Nowhere
<1>2. CASE asked # {}
    <2>1. asked \in SUBSET Nat /\ asked \subseteq Es
        BY DEF Es
    <2>2. \E x \in asked : \A y \in asked : x <= y
        BY <1>2, <2>1, LeastNumber
    <2>3. Min(asked) \in asked
        BY <2>2 DEF Min
    <2>4. AskFrom(e, h) = Min(asked)
        BY <1>2 DEF AskFrom
    <2> QED BY <2>1, <2>3, <2>4
<1> QED BY <1>1, <1>2

\* A request goes to an endpoint or has failed.
LEMMA AskTyped ==
    ASSUME NEW e \in Nat \ {0}, NEW h, NEW net \in BOOLEAN, Endpoints \in Nat
    PROVE  /\ Ask(e, h, net) \in Requests
           /\ Ask(e, h, net).state = "asking" => Ask(e, h, net).at \in Es
<1>1. PICK b \in BOOLEAN : b = (net \/ Recalled(e, h))
    OBVIOUS
<1>2. PICK a \in {0} \cup Es : a = AskFrom(e, h)
    BY AskFromFirst
<1>3. Ask(e, h, net) = IF a = 0 THEN Request("failed", 0, b) ELSE Request("asking", a, b)
    BY <1>1, <1>2, Zenon DEF Ask, Nowhere
<1>4. Request("failed", 0, b) \in Requests /\ Request("failed", 0, b).state # "asking"
    BY DEF Request, Requests
<1>5. a # 0 => Request("asking", a, b) \in Requests /\ Request("asking", a, b).at \in Es
    BY DEF Request, Requests, Es
<1> QED BY <1>3, <1>4, <1>5

\* The heights that are complete from the expected one on are an interval.
LEMMA ReadyInterval ==
    ASSUME NEW x \in Nat, NEW n \in Nat, x <= n + 1, NEW pending \in SUBSET (x..n)
    PROVE  \E m \in (x - 1)..n :
              ReadyFrom(x, pending) = x..m /\ m + 1 \notin pending
<1> DEFINE missing == { i \in Nat : i >= x /\ i \notin pending }
<1>1. n + 1 \in missing /\ missing \in SUBSET Nat
    OBVIOUS
<1>2. PICK f \in missing : \A y \in missing : f <= y
    BY <1>1, LeastNumber
<1>3. f \in Nat /\ f >= x /\ f <= n + 1 /\ f \notin pending /\ x..(f - 1) \subseteq pending
    BY <1>1, <1>2
<1>4. ASSUME NEW h \in ReadyFrom(x, pending) PROVE h \in x..(f - 1)
    BY <1>3, <1>4 DEF ReadyFrom
<1>5. ASSUME NEW h \in x..(f - 1) PROVE h \in ReadyFrom(x, pending)
    BY <1>3, <1>5 DEF ReadyFrom
<1>6. ReadyFrom(x, pending) = x..(f - 1)
    BY <1>4, <1>5
<1>7. f - 1 \in (x - 1)..n /\ (f - 1) + 1 = f
    BY <1>3
<1> QED BY <1>3, <1>6, <1>7

\* The heights of an interval in ascending order.
LEMMA AscendingInterval ==
    ASSUME NEW x \in Nat, NEW m \in Int, x - 1 <= m
    PROVE  /\ Cardinality(x..m) = m - x + 1
           /\ Ascending(x..m) = [i \in 1..(m - x + 1) |-> x + i - 1]
<1>1. Cardinality(x..m) = m - x + 1
    BY FS_Interval
<1>2. ASSUME NEW h \in x..m
      PROVE  Cardinality({ g \in x..m : g < h }) = h - x
    <2>1. { g \in x..m : g < h } = x..(h - 1)
        OBVIOUS
    <2>2. Cardinality(x..(h - 1)) = h - x
        <3>1. h - 1 \in Int /\ x <= h /\ (h - 1) - x + 1 = h - x
            OBVIOUS
        <3>2. Cardinality(x..(h - 1)) = IF x > h - 1 THEN 0 ELSE (h - 1) - x + 1
            BY <3>1, FS_Interval
        <3> QED BY <3>1, <3>2
    <2> QED BY <2>1, <2>2
<1>3. ASSUME NEW i \in 1..(m - x + 1)
      PROVE  (CHOOSE h \in x..m : Cardinality({ g \in x..m : g < h }) = i - 1) = x + i - 1
    <2>1. x + i - 1 \in x..m /\ Cardinality({ g \in x..m : g < x + i - 1 }) = i - 1
        <3>1. x + i - 1 \in x..m /\ (x + i - 1) - x = i - 1
            OBVIOUS
        <3> QED BY <3>1, <1>2
    <2>2. \A h \in x..m : Cardinality({ g \in x..m : g < h }) = i - 1 => h = x + i - 1
        BY <1>2
    <2> QED BY <2>1, <2>2
<1> QED BY <1>1, <1>3 DEF Ascending

-----------------------------------------------------------------------------
(* What a step makes of the record of a node, and of the client's memory.  *)

LEMMA NodeChanged ==
    ASSUME NEW top \in Nat, NEW n \in NodesUpTo(top), NEW b \in BOOLEAN
    PROVE  /\ [n EXCEPT !.up = b] \in NodesUpTo(top)
           /\ n.tip < top => [n EXCEPT !.tip = @ + 1] \in NodesUpTo(top)
    BY DEF NodesUpTo

LEMMA MemoryChanged ==
    ASSUME NEW top, NEW c \in Remembered(top), NEW b \in BOOLEAN
    PROVE  [c EXCEPT !.recent = b] \in Remembered(top)
    BY DEF Remembered

LEMMA AnswerMarked ==
    ASSUME NEW top, NEW c \in Remembered(top), NEW err \in Errors
    PROVE  [c EXCEPT !.err = err, !.recent = TRUE] \in Remembered(top)
    BY DEF Remembered

-----------------------------------------------------------------------------
(* Steps that leave the loop, the window and its workers alone. *)

LEMMA TypedBase ==
    ASSUME NodeAssumption
    PROVE  /\ Endpoints \in Nat /\ Endpoints \in Es /\ Es \in SUBSET Nat
           /\ MaxHead \in Nat \ {0} /\ 1 \in Hs /\ MaxFaults \in Nat
    BY DEF NodeAssumption, Es, Hs

LEMMA InitTyped ==
    ASSUME NodeAssumption, Init
    PROVE  Inv
<1> USE TypedBase DEF Init
<1>1. head = 1 /\ head \in Hs /\ faults \in 0..MaxFaults
    OBVIOUS
<1> HIDE DEF Init
<1>8. nodes \in Nodes
    <2>1. nodes \in [Es -> [up : {TRUE}, tip : {0, 1}]]
        BY DEF Init
    <2>2. ASSUME NEW n \in [up : {TRUE}, tip : {0, 1}] PROVE n \in NodesUpTo(1)
        <3>1. n.up = TRUE /\ (n.tip = 0 \/ n.tip = 1)
            OBVIOUS
        <3>2. n = [up |-> n.up, tip |-> n.tip]
            OBVIOUS
        <3>3. n.up \in BOOLEAN
            BY <3>1
        <3>4. n.tip \in 0..1
            BY <3>1
        <3> QED BY <3>2, <3>3, <3>4 DEF NodesUpTo
    <2> QED BY <1>1, <2>1, <2>2 DEF Nodes
<1> USE DEF Init
<1>2. cache \in Caches
    BY DEF Caches, Remembered, NeverSeen, Unknown, Errors
<1>3. loop \in Loops /\ loop.pc = "status" /\ loop.next = 1
    BY DEF Loop, Loops, Unknown, Nowhere
<1>4. window \in Windows
    BY DEF NoWindow, Windows
<1>5. Resting \in Workers /\ \A k \in Kinds : Resting.requests[k].state = "idle"
    BY DEF Resting, Workers, Requests, Request, Nowhere
<1>6. work \in [Hs -> Workers] /\ Addressed
    BY <1>5 DEF Addressed
<1>7. delivered = Numbered(LastDelivered)
    <2>1. LastDelivered = 0
        BY <1>3 DEF LastDelivered
    <2>2. << >> = [i \in 1..0 |-> i]
        OBVIOUS
    <2>3. delivered = << >> /\ Numbered(LastDelivered) = [i \in 1..0 |-> i]
        BY <2>1, Zenon DEF Numbered
    <2> QED BY <2>2, <2>3, Zenon
<1> QED BY <1>1, <1>2, <1>3, <1>4, <1>6, <1>7, <1>8 DEF Inv, Typed, AtRest

\* The bounds of the other variables follow the head.
LEMMA HeadGrows ==
    ASSUME NodeAssumption, Inv, head' \in head..MaxHead,
           nodes' \in Nodes', cache' \in Caches', faults' \in 0..MaxFaults,
           UNCHANGED << loop, window, work, delivered >>
    PROVE  Inv'
<1> USE TypedBase DEF Inv, Typed
<1>1. head' \in Hs /\ 0..head \subseteq 0..head' /\ Unknown..head \subseteq Unknown..head'
    BY DEF Hs, Unknown
<1>2. loop' \in Loops'
    BY <1>1 DEF Loops
<1>3. window' \in Windows'
    BY <1>1 DEF Windows
<1>4. work' \in [Hs -> Workers] /\ (loop'.pc = "asking" => loop'.at \in Es) /\ Addressed'
    BY DEF Addressed
<1>5. Typed'
    BY <1>1, <1>2, <1>3, <1>4
<1>6. /\ loop'.pc # "fetch" => AtRest'
      /\ loop'.pc = "fetch" => Progress'
      /\ delivered' = Numbered(LastDelivered)'
    BY DEF AtRest, Progress, Busy, Sent, LastDelivered, Numbered
<1> QED BY <1>5, <1>6

LEMMA NodeSteps ==
    ASSUME NodeAssumption, Inv,
           NewBlock \/ (\E e \in Es : NodeAdvances(e) \/ NodeFails(e) \/ NodeReturns(e) \/ Age(e))
    PROVE  Inv'
<1>1. /\ head \in Hs /\ head \in Nat /\ faults \in 0..MaxFaults /\ MaxFaults \in Nat
      /\ nodes \in [Es -> NodesUpTo(head)] /\ cache \in [Es -> Remembered(head)]
    BY TypedBase DEF Inv, Typed, Nodes, Caches, Hs
<1>2. CASE NewBlock
    <2>1. head' \in head..MaxHead /\ 0..head \subseteq 0..head'
          /\ Unknown..head \subseteq Unknown..head'
        BY <1>1, <1>2, TypedBase DEF NewBlock, Hs, Unknown
    <2>2. nodes' \in Nodes'
        BY <1>1, <1>2, <2>1 DEF NewBlock, Nodes, NodesUpTo
    <2>3. cache' \in Caches'
        BY <1>1, <1>2, <2>1 DEF NewBlock, Caches, Remembered
    <2> QED BY <1>1, <1>2, <2>1, <2>2, <2>3, HeadGrows DEF NewBlock
<1>3. ASSUME NEW e \in Es, NodeAdvances(e) \/ NodeFails(e) \/ NodeReturns(e)
      PROVE  Inv'
    <2>1. UNCHANGED << head, cache, loop, window, work, delivered >>
          /\ faults' \in 0..MaxFaults
        BY <1>1, <1>3 DEF NodeAdvances, NodeFails, NodeReturns, Happens
    <2>2. PICK n \in NodesUpTo(head) : nodes' = [nodes EXCEPT ![e] = n]
        <3>1. CASE NodeAdvances(e)
            <4>1. nodes[e].tip \in 0..head /\ nodes[e].tip < head
                BY <1>1, <3>1 DEF NodeAdvances, NodesUpTo
            <4>2. nodes' = [nodes EXCEPT ![e] = [nodes[e] EXCEPT !.tip = @ + 1]]
                BY <3>1 DEF NodeAdvances
            <4>3. [nodes[e] EXCEPT !.tip = @ + 1] \in NodesUpTo(head)
                BY <1>1, <4>1, NodeChanged
            <4> QED BY <4>2, <4>3
        <3>2. CASE NodeFails(e)
            <4>1. nodes' = [nodes EXCEPT ![e] = [nodes[e] EXCEPT !.up = FALSE]]
                BY <3>2 DEF NodeFails
            <4>2. [nodes[e] EXCEPT !.up = FALSE] \in NodesUpTo(head)
                BY <1>1, NodeChanged
            <4> QED BY <4>1, <4>2
        <3>3. CASE NodeReturns(e)
            <4>1. nodes' = [nodes EXCEPT ![e] = [nodes[e] EXCEPT !.up = TRUE]]
                BY <3>3 DEF NodeReturns
            <4>2. [nodes[e] EXCEPT !.up = TRUE] \in NodesUpTo(head)
                BY <1>1, NodeChanged
            <4> QED BY <4>1, <4>2
        <3> QED BY <1>3, <3>1, <3>2, <3>3
    <2>3. nodes' \in Nodes'
        BY <1>1, <2>1, <2>2 DEF Nodes
    <2>4. head' \in head..MaxHead /\ cache' \in Caches'
        BY <1>1, <2>1, TypedBase DEF Caches, Hs
    <2> QED BY <2>1, <2>3, <2>4, HeadGrows
<1>4. ASSUME NEW e \in Es, Age(e)
      PROVE  Inv'
    <2>1. UNCHANGED << head, nodes, faults, loop, window, work, delivered >>
        BY <1>4 DEF Age
    <2>2. cache' = [cache EXCEPT ![e] = [cache[e] EXCEPT !.recent = FALSE]]
        BY <1>4 DEF Age
    <2>3. [cache[e] EXCEPT !.recent = FALSE] \in Remembered(head)
        BY <1>1, MemoryChanged
    <2>4. cache' \in Caches'
        BY <1>1, <2>1, <2>2, <2>3 DEF Caches
    <2>5. head' \in head..MaxHead /\ nodes' \in Nodes'
        BY <1>1, <2>1, TypedBase DEF Nodes, Hs
    <2> QED BY <1>1, <2>1, <2>4, <2>5, HeadGrows
<1> QED BY <1>2, <1>3, <1>4

-----------------------------------------------------------------------------
(* Steps of the loop between windows. *)

LEMMA LoopIs ==
    ASSUME NodeAssumption, head \in Hs,
           NEW pc \in {"status", "asking", "plan", "fetch", "sleep", "exited"},
           NEW next \in 1..(MaxHead + 1)
    PROVE  /\ Loop(pc, next) \in Loops
           /\ Loop(pc, next).pc = pc /\ Loop(pc, next).next = next
    BY TypedBase DEF Loop, Loops, Unknown, Nowhere, Hs

\* Between windows nothing but the loop and the client's memory changes.
LEMMA LoopMoves ==
    ASSUME NodeAssumption, Inv, loop.pc # "fetch",
           loop' \in Loops, loop'.pc # "fetch", loop'.next = loop.next,
           loop'.pc = "asking" => loop'.at \in Es,
           cache' \in Caches, UNCHANGED << head, nodes, window, work, delivered, faults >>
    PROVE  Inv'
<1>1. Typed'
    BY DEF Inv, Typed, Addressed, Nodes, Caches, Loops, Windows
<1>2. AtRest' /\ delivered' = Numbered(LastDelivered)'
    BY DEF Inv, AtRest, LastDelivered, Numbered
<1> QED BY <1>1, <1>2 DEF Inv

\* The last endpoint is never passed over when the loop asks for /status.
LEMMA StatusAsksSomeone ==
    ASSUME NodeAssumption, Inv
    PROVE  AskFrom(1, 0) \in Es
<1>1. Endpoints \in 1..Endpoints /\ Endpoints \in Nat /\ 1 \in Nat \ {0}
    BY TypedBase DEF Es
<1>2. ~SkipForRecentFailure(Endpoints)
    BY DEF SkipForRecentFailure, Final
<1>3. cache[Endpoints].stat \in Unknown..head
    BY TypedBase DEF Inv, Typed, Caches, Remembered
<1>4. cache[Endpoints].stat # Unknown => ~(cache[Endpoints].stat < 0)
    BY <1>3, TypedBase DEF Unknown, Inv, Typed, Hs
<1>5. ~SkipForHeight(Endpoints, 0)
    BY <1>4 DEF SkipForHeight
<1> QED BY <1>1, <1>2, <1>5, AskFromFirst

LEMMA StatusStep ==
    ASSUME NodeAssumption, Inv, Status
    PROVE  Inv'
<1>1. /\ loop.pc = "status" /\ loop \in Loops /\ head \in Hs /\ loop.next \in 1..(MaxHead + 1)
      /\ UNCHANGED << head, nodes, cache, window, work, delivered, faults >>
    BY DEF Status, Inv, Typed, Loops
<1>2. PICK a \in Es : a = AskFrom(1, 0)
    BY StatusAsksSomeone
<1>3. PICK l \in Loops : l = Loop("asking", loop.next) /\ l.pc = "asking" /\ l.next = loop.next
    BY <1>1, LoopIs
<1>4. loop' = [l EXCEPT !.at = a]
    BY <1>2, <1>3, Zenon DEF Status
<1>5. loop' \in Loops /\ loop'.pc = "asking" /\ loop'.next = loop.next /\ loop'.at = a
    BY <1>3, <1>4 DEF Loops, Es
<1>6. cache' \in Caches
    BY <1>1 DEF Inv, Typed, Caches
<1> QED BY <1>1, <1>2, <1>5, <1>6, LoopMoves

LEMMA RestingSteps ==
    ASSUME NodeAssumption, Inv, Awake \/ WaitForTipChange \/ Restart
    PROVE  Inv'
<1>1. /\ loop.pc # "fetch" /\ loop \in Loops /\ head \in Hs /\ loop.next \in 1..(MaxHead + 1)
      /\ UNCHANGED << head, nodes, window, work, delivered, faults >>
    BY DEF Awake, WaitForTipChange, Restart, Inv, Typed, Loops
<1>2. loop' = Loop("status", loop.next) \/ loop' = Loop("sleep", loop.next)
    BY DEF Awake, WaitForTipChange, Restart
<1>3. /\ loop' \in Loops /\ loop'.pc \in {"status", "sleep"} /\ loop'.next = loop.next
    BY <1>1, <1>2, LoopIs
<1>4. NeverSeen \in Remembered(head)
    BY <1>1, TypedBase DEF NeverSeen, Remembered, Errors, Unknown, Hs
<1>5. cache' = cache \/ cache' = [e \in Es |-> NeverSeen]
    BY DEF Awake, WaitForTipChange, Restart
<1>6. cache' \in Caches
    BY <1>4, <1>5 DEF Inv, Typed, Caches
<1> QED BY <1>1, <1>3, <1>6, LoopMoves

LEMMA RefreshStatusStep ==
    ASSUME NodeAssumption, Inv, RefreshStatus
    PROVE  Inv'
<1> DEFINE e == loop.at
           tip == nodes[e].tip
<1>1. /\ loop.pc = "asking" /\ loop \in Loops /\ head \in Hs /\ e \in Es /\ e \in Nat
      /\ loop.next \in 1..(MaxHead + 1) /\ loop.tip \in Unknown..head /\ Endpoints \in Nat
      /\ nodes \in [Es -> NodesUpTo(head)] /\ cache \in [Es -> Remembered(head)]
      /\ UNCHANGED << head, nodes, window, work, delivered, faults >>
    BY TypedBase DEF RefreshStatus, Inv, Typed, Loops, Nodes, Caches
<1>2. tip \in 0..head /\ tip \in Unknown..head
    BY <1>1 DEF NodesUpTo, Unknown
<1>3. StatusSeen(tip) \in Remembered(head)
    BY <1>2 DEF StatusSeen, Remembered, Errors
<1>4. ASSUME NEW err \in {"net", "other"} PROVE StatusFailed(err) \in Remembered(head)
    BY <1>1, TypedBase DEF StatusFailed, Remembered, Errors, Unknown, Hs
<1>5. cache' \in Caches
    <2>1. PICK c \in Remembered(head) : cache' = [cache EXCEPT ![e] = c]
        BY <1>3, <1>4 DEF RefreshStatus, ErrorsOf
    <2> QED BY <1>1, <2>1 DEF Caches
<1>6. PICK t \in Unknown..head : StatusIs(t) \/ StatusGoesOn(t)
    BY <1>1, <1>2 DEF RefreshStatus
<1>7. ASSUME NEW s \in Unknown..head, StatusIs(s)
      PROVE  loop' \in Loops /\ loop'.pc = "plan" /\ loop'.next = loop.next
    <2>1. loop' = [loop EXCEPT !.pc = "plan", !.tip = s, !.at = 0]
        BY <1>7, Zenon DEF StatusIs, Nowhere
    <2>2. 0 \in 0..Endpoints
        BY <1>1
    <2>3. loop \in Loops
        BY <1>1
    <2> QED BY <2>1, <2>2, <2>3 DEF Loops
<1>8. CASE StatusGoesOn(t)
    <2>1. PICK a \in {0} \cup Es : a = AskFrom(loop.at + 1, 0)
        <3>1. loop.at + 1 \in Nat \ {0}
            BY <1>1
        <3> QED BY <1>1, <3>1, AskFromFirst
    <2>2. CASE a # 0 /\ loop' = [loop EXCEPT !.at = a, !.tip = t]
        <3>1. loop' \in Loops /\ loop'.pc = "asking" /\ loop'.next = loop.next /\ loop'.at \in Es
            <4>1. a \in 0..Endpoints /\ a \in Es
                BY <1>1, <2>1, <2>2 DEF Es
            <4>2. loop \in Loops /\ loop.pc = "asking"
                BY <1>1
            <4> QED BY <1>6, <2>2, <4>1, <4>2 DEF Loops
        <3> QED BY <1>1, <1>5, <3>1, LoopMoves
    <2>3. CASE StatusIs(t)
        BY <1>1, <1>5, <1>6, <1>7, <2>3, LoopMoves
    <2>4. CASE loop' = Loop("sleep", loop.next)
        <3>1. loop' \in Loops /\ loop'.pc = "sleep" /\ loop'.next = loop.next
            BY <1>1, <2>4, LoopIs
        <3> QED BY <1>1, <1>5, <3>1, LoopMoves
    <2> QED BY <1>8, <2>1, <2>2, <2>3, <2>4 DEF StatusGoesOn, Nowhere
<1> QED BY <1>1, <1>5, <1>6, <1>7, <1>8, LoopMoves

-----------------------------------------------------------------------------
(* Steps of a window that leave delivery alone. *)

LEMMA WindowStarts ==
    ASSUME NodeAssumption, Inv, FetchWindow
    PROVE  Inv'
<1>1. /\ loop.pc = "plan" /\ head \in Hs /\ head \in Nat /\ loop.next \in 1..(MaxHead + 1)
      /\ loop.next <= loop.tip /\ loop.tip \in Unknown..head /\ head <= MaxHead
      /\ MaxHead \in Nat /\ Window \in Nat \ {0} /\ Unknown = -1
      /\ UNCHANGED << head, nodes, cache, work, delivered, faults >>
      /\ work = [h \in Hs |-> Resting] /\ delivered = Numbered(loop.next - 1)
    BY TypedBase, NodeAssumption DEF FetchWindow, Inv, Typed, Loops, Hs, AtRest, LastDelivered, Unknown
<1>2. loop.next \in 1..head /\ loop.next \in 1..MaxHead
    BY <1>1
<1>3. PICK end \in loop.next..head : end = WindowEnd(loop.next, loop.tip)
    <2>1. loop.next + Window - 1 \in Nat /\ loop.tip \in Nat /\ loop.next <= loop.next + Window - 1
        BY <1>1
    <2>2. WindowEnd(loop.next, loop.tip) \in {loop.next + Window - 1, loop.tip}
          /\ WindowEnd(loop.next, loop.tip) <= loop.tip
        BY <2>1 DEF WindowEnd, Min
    <2> QED BY <1>1, <2>1, <2>2
<1>4. PICK bulk \in BOOLEAN :
         window' = [start |-> loop.next, end |-> end, launched |-> loop.next - 1,
                    expected |-> loop.next, pending |-> {}, bulk |-> bulk]
    BY <1>3 DEF FetchWindow
<1>5. window' \in Windows
    BY <1>1, <1>2, <1>3, <1>4 DEF Windows
<1>6. loop' \in Loops /\ loop'.pc = "fetch" /\ loop'.next = loop.next
    BY <1>1, LoopIs DEF FetchWindow
<1>7. Typed'
    BY <1>1, <1>5, <1>6 DEF Inv, Typed, Addressed, Nodes, Caches, Loops, Windows
<1>8. Busy' = {} /\ Sent' = {}
    BY <1>1 DEF Busy, Sent, Resting
<1>9. Progress'
    BY <1>1, <1>2, <1>3, <1>4, <1>6, <1>8 DEF Progress
<1>10. LastDelivered' = loop.next - 1
    BY <1>4, <1>6 DEF LastDelivered
<1> QED BY <1>1, <1>6, <1>7, <1>9, <1>10 DEF Inv, Numbered

LEMMA LaunchStep ==
    ASSUME NodeAssumption, Inv, Launch
    PROVE  Inv'
<1> DEFINE h == window.launched + 1
           asked == [k \in Kinds |-> Ask(1, h, FALSE)]
<1>1. /\ loop.pc = "fetch" /\ h <= window.end /\ head \in Hs /\ head \in Nat /\ head <= MaxHead
      /\ MaxHead \in Nat /\ window \in Windows /\ work \in [Hs -> Workers] /\ Progress /\ Addressed
      /\ UNCHANGED << head, nodes, cache, loop, delivered, faults >>
    BY TypedBase DEF Launch, Inv, Typed, Hs
<1>2. h \in 1..head /\ h \in Hs /\ h \in Nat
    BY <1>1 DEF Windows, Hs
<1>3. /\ asked \in [Kinds -> Requests]
      /\ \A k \in Kinds : asked[k].state = "asking" => asked[k].at \in Es
    <2>1. Endpoints \in Nat /\ 1 \in Nat \ {0} /\ FALSE \in BOOLEAN
        BY TypedBase
    <2> QED BY <2>1, AskTyped
<1>4. window' = [window EXCEPT !.launched = h]
      /\ work' = [work EXCEPT ![h] = [state |-> "fetching", requests |-> asked]]
    BY DEF Launch
<1>5. work' \in [Hs -> Workers]
    <2>1. [state |-> "fetching", requests |-> asked] \in Workers
        BY <1>3 DEF Workers
    <2> QED BY <1>1, <1>4, <2>1
<1>6. Addressed'
    BY <1>1, <1>2, <1>3, <1>4 DEF Addressed
<1>7. /\ window' \in Windows /\ window'.launched = h /\ window'.start = window.start
      /\ window'.end = window.end /\ window'.expected = window.expected
      /\ window'.pending = window.pending /\ window'.bulk = window.bulk
    BY <1>1, <1>2, <1>4 DEF Windows
<1>8. Typed'
    BY <1>1, <1>5, <1>6, <1>7 DEF Inv, Typed, Nodes, Caches, Loops, Windows
<1>9. Busy' = Busy \cup {h} /\ Sent' = Sent \ {h}
    BY <1>1, <1>2, <1>4 DEF Busy, Sent
<1>10. h \notin Sent /\ h \notin window.pending
    BY <1>1, <1>2 DEF Progress, Windows
<1>11. Progress'
    BY <1>1, <1>2, <1>7, <1>9, <1>10 DEF Progress, Windows
<1>12. LastDelivered' = LastDelivered
    BY <1>1, <1>7 DEF LastDelivered
<1> QED BY <1>1, <1>8, <1>11, <1>12 DEF Inv, Numbered

\* A worker that stays at work leaves the window's account as it is.
LEMMA WorkerMoves ==
    ASSUME NodeAssumption, Inv, NEW h \in Hs, loop.pc = "fetch",
           NEW w \in Workers, work' = [work EXCEPT ![h] = w],
           work[h].state = "fetching", w.state \in {"fetching", "sent"},
           \A k \in Kinds : w.requests[k].state = "asking" => w.requests[k].at \in Es,
           cache' \in Caches, faults' \in 0..MaxFaults,
           UNCHANGED << head, nodes, loop, window, delivered >>
    PROVE  Inv'
<1>1. work \in [Hs -> Workers] /\ Addressed /\ Progress
    BY DEF Inv, Typed
<1>2. work' \in [Hs -> Workers] /\ Addressed'
    BY <1>1 DEF Addressed
<1>3. Typed'
    BY <1>2 DEF Inv, Typed, Nodes, Caches, Loops, Windows
<1>4. Busy' \cup Sent' = Busy \cup Sent
    BY <1>1 DEF Busy, Sent
<1>5. Progress'
    BY <1>1, <1>4 DEF Progress
<1> QED BY <1>3, <1>5 DEF Inv, LastDelivered, Numbered

\* Between windows no worker is at work.
LEMMA AtWork ==
    ASSUME Inv, NEW h \in Hs, work[h].state # "idle"
    PROVE  loop.pc = "fetch"
<1>1. Resting.state = "idle"
    BY DEF Resting
<1>2. loop.pc # "fetch" => work[h] = Resting
    BY DEF Inv, AtRest
<1> QED BY <1>1, <1>2

LEMMA CompleteStep ==
    ASSUME NodeAssumption, Inv, NEW h \in Hs, Complete(h)
    PROVE  Inv'
<1>1. /\ work \in [Hs -> Workers] /\ work[h] \in Workers /\ work[h].state = "fetching"
      /\ \A k \in Kinds : work[h].requests[k].state # "asking"
      /\ UNCHANGED << head, nodes, cache, loop, window, delivered, faults >>
    BY DEF Complete, Inv, Typed
<1>2. loop.pc = "fetch"
    BY <1>1, AtWork
<1>3. PICK w \in Workers : w = [work[h] EXCEPT !.state = "sent"]
    BY <1>1 DEF Workers
<1>4. w.state = "sent" /\ w.requests = work[h].requests
    BY <1>1, <1>3 DEF Workers
<1>5. work' = [work EXCEPT ![h] = w]
    BY <1>3, Zenon DEF Complete
<1>6. cache' \in Caches /\ faults' \in 0..MaxFaults
    BY <1>1 DEF Inv, Typed, Caches
<1> QED BY <1>1, <1>2, <1>4, <1>5, <1>6, WorkerMoves

LEMMA AnswerStep ==
    ASSUME NodeAssumption, Inv, NEW h \in Hs, NEW k \in Kinds, Answer(h, k)
    PROVE  Inv'
<1> DEFINE r == work[h].requests[k]
           e == r.at
<1>1. /\ work \in [Hs -> Workers] /\ work[h] \in Workers /\ work[h].state = "fetching"
      /\ r \in Requests /\ r.state = "asking" /\ e \in Es /\ e + 1 \in Nat \ {0}
      /\ faults \in 0..MaxFaults /\ MaxFaults \in Nat /\ Endpoints \in Nat
      /\ cache \in [Es -> Remembered(head)]
      /\ UNCHANGED << head, nodes, loop, window, delivered >>
    BY TypedBase DEF Answer, Inv, Typed, Addressed, Workers, Caches, Es
<1>2. loop.pc = "fetch"
    BY <1>1, AtWork
<1>3. r.net \in BOOLEAN
    BY <1>1 DEF Requests
<1>4. PICK q \in Requests :
         /\ q.state = "asking" => q.at \in Es
         /\ work' = [work EXCEPT ![h].requests[k] = q]
    <2>1. ASSUME NEW s \in {"ok", "foreign", "failed"}
          PROVE  Request(s, Nowhere, FALSE) \in Requests /\ Request(s, Nowhere, FALSE).state # "asking"
        BY <1>1 DEF Request, Requests, Nowhere
    <2>2. ASSUME NEW err \in {"net", "other"}
          PROVE  LET q == Ask(e + 1, h, r.net \/ err = "net")
                 IN q \in Requests /\ (q.state = "asking" => q.at \in Es)
        <3>1. PICK b \in BOOLEAN : b = (r.net \/ err = "net")
            OBVIOUS
        <3>2. PICK n \in Nat \ {0} : n = e + 1
            BY <1>1
        <3>3. Ask(n, h, b) \in Requests /\ (Ask(n, h, b).state = "asking" => Ask(n, h, b).at \in Es)
            BY <1>1, AskTyped
        <3> QED BY <3>1, <3>2, <3>3, Zenon
    <2>3. \/ \E s \in {"ok", "foreign", "failed"} :
                work' = [work EXCEPT ![h].requests[k] = Request(s, Nowhere, FALSE)]
          \/ \E err \in {"net", "other"} :
                work' = [work EXCEPT ![h].requests[k] = Ask(e + 1, h, r.net \/ err = "net")]
        BY Zenon DEF Answer, ErrorsOf
    <2> QED BY <2>1, <2>2, <2>3, Zenon
<1>5. faults' \in 0..MaxFaults
    <2>1. faults' = faults \/ Happens("foreign") \/ Happens("refused")
        BY Zenon DEF Answer
    <2> QED BY <1>1, <2>1 DEF Happens
<1>6. cache' \in Caches
    <2>1. ASSUME NEW err \in {"net", "other"} PROVE MarkFailed(cache[e], err) \in Remembered(head)
        BY <1>1, AnswerMarked DEF MarkFailed, Errors
    <2>2. MarkHealthy(cache[e]) \in Remembered(head)
        BY <1>1, AnswerMarked DEF MarkHealthy, Errors
    <2>3. \/ cache' = [cache EXCEPT ![e] = MarkHealthy(cache[e])]
          \/ \E err \in {"net", "other"} : cache' = [cache EXCEPT ![e] = MarkFailed(cache[e], err)]
          \/ cache' = cache
        BY Zenon DEF Answer, ErrorsOf
    <2> QED BY <1>1, <2>1, <2>2, <2>3 DEF Caches
<1> DEFINE w == [state |-> "fetching", requests |-> [work[h].requests EXCEPT ![k] = q]]
<1>7. w \in Workers /\ w.state = "fetching" /\ w.requests = [work[h].requests EXCEPT ![k] = q]
    BY <1>1, <1>4 DEF Workers
<1>8. work' = [work EXCEPT ![h] = w]
    <2>1. [work[h] EXCEPT !.requests[k] = q] = w
        BY <1>1 DEF Workers
    <2>2. work' = [work EXCEPT ![h] = [work[h] EXCEPT !.requests[k] = q]]
        BY <1>4
    <2> QED BY <2>1, <2>2, Zenon
<1>9. \A j \in Kinds : w.requests[j].state = "asking" => w.requests[j].at \in Es
    BY <1>1, <1>4, <1>7 DEF Inv, Typed, Addressed, Workers
<1> QED BY <1>1, <1>2, <1>5, <1>6, <1>7, <1>8, <1>9, WorkerMoves

-----------------------------------------------------------------------------
(* A result arrives. *)

\* An interval that follows what was handed on.
LEMMA HandedOnInOrder ==
    ASSUME NEW x \in Nat \ {0}, NEW m \in Nat, x - 1 <= m
    PROVE  Numbered(x - 1) \o [i \in 1..(m - x + 1) |-> x + i - 1] = Numbered(m)
<1> DEFINE s == Numbered(x - 1)
           t == [i \in 1..(m - x + 1) |-> x + i - 1]
<1>1. s \in Seq(Nat) /\ Len(s) = x - 1 /\ \A i \in 1..(x - 1) : s[i] = i
    BY DEF Numbered
<1>2. t \in Seq(Nat) /\ Len(t) = m - x + 1 /\ \A i \in 1..(m - x + 1) : t[i] = x + i - 1
    OBVIOUS
<1> HIDE DEF s, t
<1>3. /\ s \o t \in Seq(Nat) /\ Len(s \o t) = Len(s) + Len(t)
      /\ \A i \in 1..(Len(s) + Len(t)) :
            (s \o t)[i] = IF i <= Len(s) THEN s[i] ELSE t[i - Len(s)]
    BY <1>1, <1>2, ConcatProperties
<1>4. ASSUME NEW i \in 1..m PROVE (s \o t)[i] = i
    BY <1>1, <1>2, <1>3
<1>5. Numbered(m) \in Seq(Nat) /\ Len(Numbered(m)) = m /\ \A i \in 1..m : Numbered(m)[i] = i
    BY DEF Numbered
<1>6. s \o t = Numbered(m)
    <2>1. Len(s \o t) = m
        BY <1>1, <1>2, <1>3
    <2>2. \A i \in 1..Len(s \o t) : (s \o t)[i] = Numbered(m)[i]
        BY <1>4, <1>5, <2>1
    <2> QED BY <1>3, <1>5, <2>1, <2>2, SeqEqual, Zenon
<1> QED BY <1>6 DEF s, t

LEMMA NumberedIs ==
    ASSUME NEW n \in Nat
    PROVE  /\ Numbered(n) \in Seq(Nat) /\ Len(Numbered(n)) = n
           /\ Numbered(n) \o << >> = Numbered(n)
    BY DEF Numbered

\* A window that ends leaves nothing behind.
LEMMA WindowEnds ==
    ASSUME NodeAssumption, Inv, NEW pc \in {"status", "sleep", "exited"},
           NEW next \in 1..(MaxHead + 1), EndWindow(pc, next),
           delivered' = Numbered(next - 1), UNCHANGED << head, nodes, cache, faults >>
    PROVE  Inv'
<1>1. window' = NoWindow /\ work' = [h \in Hs |-> Resting] /\ loop' = Loop(pc, next)
    BY DEF EndWindow
<1>2. head \in Hs /\ head \in Nat
    BY TypedBase DEF Inv, Typed, Hs
<1>3. loop' \in Loops /\ loop'.pc = pc /\ loop'.next = next
    BY <1>1, <1>2, LoopIs
<1>4. window' \in Windows
    BY <1>1, <1>2, TypedBase DEF NoWindow, Windows, Hs
<1>5. Resting \in Workers /\ \A k \in Kinds : Resting.requests[k].state = "idle"
    BY TypedBase DEF Resting, Workers, Requests, Request, Nowhere
<1>6. work' \in [Hs -> Workers] /\ Addressed'
    BY <1>1, <1>5 DEF Addressed
<1>7. Typed'
    BY <1>3, <1>4, <1>6 DEF Inv, Typed, Nodes, Caches, Loops, Windows
<1>8. AtRest' /\ LastDelivered' = next - 1
    BY <1>1, <1>3 DEF AtRest, LastDelivered
<1> QED BY <1>3, <1>7, <1>8 DEF Inv, Numbered

LEMMA ReceiveStep ==
    ASSUME NodeAssumption, Inv, NEW h \in Hs, Receive(h)
    PROVE  Inv'
<1> DEFINE x == window.expected
           pending == window.pending \cup {h}
           ready == ReadyFrom(x, pending)
           got == HandedOn(window.bulk, window.start, Ascending(ready))
           outcome == BundleOutcome(work[h].requests)
           fetched == window.launched
<1>1. /\ loop.pc = "fetch" /\ work[h].state = "sent" /\ Progress /\ Typed
      /\ head \in Nat /\ head <= MaxHead /\ MaxHead \in Nat
      /\ window \in Windows /\ loop \in Loops /\ work \in [Hs -> Workers]
      /\ UNCHANGED << head, nodes, cache, faults >>
    BY TypedBase DEF Receive, Inv, Typed, Hs
<1>2. /\ x \in Nat \ {0} /\ fetched \in Nat /\ x <= fetched + 1 /\ window.end \in 0..head
      /\ window.start \in Nat \ {0} /\ window.start <= x /\ fetched <= window.end /\ x <= window.end
      /\ window.bulk \in BOOLEAN /\ window.start = loop.next
    BY <1>1 DEF Progress, Windows
<1>3. h \in Sent /\ h \in x..fetched /\ h \notin window.pending /\ h \notin Busy
    BY <1>1, <1>2 DEF Sent, Busy, Progress
<1>4. window.pending \subseteq (x + 1)..fetched /\ pending \in SUBSET (x..fetched)
    BY <1>1, <1>2, <1>3 DEF Progress
<1>5. PICK m \in (x - 1)..fetched : ready = x..m /\ m + 1 \notin pending
    BY <1>2, <1>4, ReadyInterval
<1>6. /\ m \in Nat /\ x - 1 <= m /\ m <= fetched
      /\ Cardinality(ready) = m - x + 1
      /\ Ascending(ready) = [i \in 1..(m - x + 1) |-> x + i - 1]
    <2>1. m \in Int /\ x \in Nat /\ x - 1 <= m /\ m \in Nat /\ m <= fetched
        BY <1>2, <1>5
    <2> QED BY <2>1, <1>5, AscendingInterval
<1>7. Len(Ascending(ready)) = m - x + 1 /\ x + Cardinality(ready) = m + 1
      /\ x + Len(Ascending(ready)) = m + 1
    BY <1>2, <1>6
<1>8. LastDelivered \in 0..MaxHead /\ delivered = Numbered(LastDelivered)
      /\ LastDelivered = (IF window.bulk THEN window.start - 1 ELSE x - 1)
    BY <1>1, <1>2 DEF Inv, LastDelivered
<1> DEFINE Ends == delivered' = delivered \o got /\ EndWindow("status", window.end + 1)
           Goes == /\ delivered' = delivered \o got
                   /\ window' = [window EXCEPT !.pending = KeptBack(pending, ready),
                                               !.expected = x + Cardinality(ready)]
                   /\ work' = [work EXCEPT ![h] = Resting]
                   /\ UNCHANGED loop
<1>9. /\ outcome = "ok" => \/ x + Cardinality(ready) <= window.end /\ Goes
                           \/ x + Cardinality(ready) > window.end /\ Ends
      /\ outcome # "ok" => \E pc \in {"sleep", "exited"} :
                              EndWindow(pc, Resume(window)) /\ UNCHANGED delivered
    BY Zenon DEF Receive
<1> HIDE DEF x, pending, ready, got, outcome, fetched, Ends, Goes
<1>10. CASE outcome # "ok"
    <2>1. PICK pc \in {"sleep", "exited"} : EndWindow(pc, Resume(window)) /\ UNCHANGED delivered
        BY <1>9, <1>10
    <2>2. Resume(window) = LastDelivered + 1 /\ Resume(window) \in 1..(MaxHead + 1)
        <3>1. PICK n \in 0..MaxHead : n = LastDelivered
            BY <1>8
        <3>2. Len(delivered) = n
            BY <1>1, <1>8, <3>1, NumberedIs
        <3> QED BY <1>1, <3>1, <3>2 DEF Resume
    <2>3. delivered' = Numbered(Resume(window) - 1)
        BY <1>8, <2>1, <2>2
    <2> QED BY <1>1, <2>1, <2>2, <2>3, WindowEnds
<1>11. CASE outcome = "ok" /\ m + 1 > window.end
    <2>1. m = window.end
        BY <1>2, <1>6, <1>11 DEF fetched
    <2>2. EndWindow("status", window.end + 1) /\ delivered' = delivered \o got
        <3>1. Ends
            BY <1>2, <1>6, <1>7, <1>9, <1>11
        <3> QED BY <3>1 DEF Ends
    <2>3. delivered' = Numbered(m)
        <3>1. CASE window.bulk
            <4>1. got = [i \in 1..(m + 1 - window.start) |-> window.start + i - 1]
                BY <1>2, <1>7, <1>11, <2>1, <3>1 DEF got, HandedOn, x
            <4>2. delivered = Numbered(window.start - 1) /\ window.start - 1 <= m
                BY <1>2, <1>6, <1>8, <3>1
            <4>3. m + 1 - window.start = m - window.start + 1
                BY <1>2, <1>6
            <4>4. PICK b \in Nat \ {0} : b = window.start
                BY <1>2
            <4>5. Numbered(b - 1) \o [i \in 1..(m - b + 1) |-> b + i - 1] = Numbered(m)
                BY <1>6, <4>2, <4>4, HandedOnInOrder
            <4> QED BY <2>2, <4>1, <4>2, <4>3, <4>4, <4>5, Zenon
        <3>2. CASE ~window.bulk
            <4>1. got = [i \in 1..(m - x + 1) |-> x + i - 1]
                BY <1>6, <3>2 DEF got, HandedOn
            <4> QED BY <1>2, <1>6, <1>8, <2>2, <3>2, <4>1, HandedOnInOrder
        <3> QED BY <3>1, <3>2
    <2>4. window.end + 1 \in 1..(MaxHead + 1) /\ (window.end + 1) - 1 = m
        BY <1>1, <1>2, <2>1
    <2> QED BY <1>1, <2>2, <2>3, <2>4, WindowEnds
<1>12. CASE outcome = "ok" /\ m + 1 <= window.end
    <2>1. Goes
        BY <1>2, <1>6, <1>7, <1>9, <1>12
    <2>2. /\ window' = [window EXCEPT !.pending = KeptBack(pending, ready), !.expected = m + 1]
          /\ work' = [work EXCEPT ![h] = Resting]
          /\ delivered' = delivered \o got /\ UNCHANGED loop
        BY <1>7, <2>1, Zenon DEF Goes
    <2>3. delivered' = Numbered(IF window.bulk THEN window.start - 1 ELSE m)
        <3>1. CASE window.bulk
            <4>1. got = << >>
                BY <1>7, <1>12, <3>1 DEF got, HandedOn, x
            <4>2. PICK n \in 0..MaxHead : n = window.start - 1
                BY <1>8, <3>1
            <4>3. Numbered(n) \o << >> = Numbered(n)
                BY <1>1, <4>2, NumberedIs
            <4> QED BY <1>8, <2>2, <3>1, <4>1, <4>2, <4>3, Zenon
        <3>2. CASE ~window.bulk
            <4>1. got = [i \in 1..(m - x + 1) |-> x + i - 1]
                BY <1>6, <3>2 DEF got, HandedOn
            <4> QED BY <1>2, <1>6, <1>8, <2>2, <3>2, <4>1, HandedOnInOrder
        <3> QED BY <3>1, <3>2
    <2>4. KeptBack(pending, ready) = pending \ (x..m)
          /\ KeptBack(pending, ready) \subseteq (m + 2)..fetched
        BY <1>2, <1>4, <1>5, <1>6 DEF KeptBack
    <2>5. /\ window' \in Windows /\ window'.start = window.start /\ window'.end = window.end
          /\ window'.launched = fetched /\ window'.expected = m + 1
          /\ window'.pending = pending \ (x..m) /\ window'.bulk = window.bulk
        <3>1. m + 1 \in 1..MaxHead
            BY <1>1, <1>2, <1>6, <1>12
        <3>2. x..fetched \subseteq Hs
            BY <1>1, <1>2 DEF Hs
        <3>3. pending \ (x..m) \in SUBSET Hs
            BY <1>4, <3>2
        <3> QED BY <1>1, <2>2, <2>4, <3>1, <3>3 DEF Windows, fetched
    <2>6. Resting \in Workers /\ (\A k \in Kinds : Resting.requests[k].state = "idle")
          /\ Resting.state = "idle"
        BY TypedBase DEF Resting, Workers, Requests, Request, Nowhere
    <2>7. work' \in [Hs -> Workers] /\ Addressed'
        BY <1>1, <2>2, <2>6 DEF Typed, Addressed
    <2>8. Typed'
        BY <1>1, <2>2, <2>5, <2>7 DEF Typed, Nodes, Caches, Loops, Windows
    <2>9. Busy' = Busy /\ Sent' = Sent \ {h}
        BY <1>1, <1>3, <2>2, <2>6 DEF Busy, Sent
    <2>10. LastDelivered' = (IF window.bulk THEN window.start - 1 ELSE m)
        BY <1>1, <1>2, <1>6, <2>2, <2>5 DEF LastDelivered
    <2>11. Progress'
        <3>1. x..fetched = window.pending \cup Busy \cup Sent
              /\ (Busy \cup Sent) \cap window.pending = {}
            BY <1>1 DEF Progress, x, fetched
        <3>2. x..m \subseteq pending
            BY <1>5 DEF ready, ReadyFrom
        <3>3. (m + 1)..fetched = window'.pending \cup Busy' \cup Sent'
            BY <1>2, <1>3, <1>6, <2>5, <2>9, <3>1, <3>2 DEF pending
        <3>4. (Busy' \cup Sent') \cap window'.pending = {}
            BY <1>3, <2>5, <2>9, <3>1 DEF pending
        <3>5. window'.pending \subseteq (m + 2)..fetched
            BY <2>4, <2>5
        <3>6. window'.start = loop'.next
            BY <1>2, <2>2, <2>5
        <3>7. /\ window'.start <= window'.expected /\ window'.expected <= window'.end
              /\ window'.expected <= window'.launched + 1 /\ window'.launched <= window'.end
            BY <1>2, <1>6, <1>12, <2>5
        <3>8. window'.expected = m + 1 /\ window'.launched = fetched /\ (m + 1) + 1 = m + 2
            BY <1>6, <2>5
        <3> QED BY <3>3, <3>4, <3>5, <3>6, <3>7, <3>8 DEF Progress
    <2> QED BY <1>1, <2>2, <2>3, <2>8, <2>10, <2>11 DEF Inv
<1> QED BY <1>2, <1>6, <1>10, <1>11, <1>12

-----------------------------------------------------------------------------
(* The invariant, and what follows from it. *)

LEMMA NextInv ==
    ASSUME NodeAssumption, Inv, [Next]_vars
    PROVE  Inv'
<1>1. CASE Environment \/ \E e \in Es : Age(e)
    BY <1>1, NodeSteps DEF Environment
<1>2. CASE Status
    BY <1>2, StatusStep
<1>3. CASE RefreshStatus
    BY <1>3, RefreshStatusStep
<1>4. CASE FetchWindow
    BY <1>4, WindowStarts
<1>5. CASE Fetch
    <2>1. CASE Launch
        BY <2>1, LaunchStep
    <2>2. ASSUME NEW h \in Hs, Complete(h) PROVE Inv'
        BY <2>2, CompleteStep
    <2>3. ASSUME NEW h \in Hs, Receive(h) PROVE Inv'
        BY <2>3, ReceiveStep
    <2>4. ASSUME NEW h \in Hs, NEW k \in Kinds, Answer(h, k) PROVE Inv'
        BY <2>4, AnswerStep
    <2> QED BY <1>5, <2>1, <2>2, <2>3, <2>4 DEF Fetch
<1>6. CASE Awake \/ WaitForTipChange \/ Restart
    BY <1>6, RestingSteps
<1>7. CASE UNCHANGED vars
    BY <1>7 DEF vars, Inv, Typed, Addressed, Nodes, Caches, Loops, Windows, AtRest, Progress,
                Busy, Sent, LastDelivered, Numbered
<1> QED BY <1>1, <1>2, <1>3, <1>4, <1>5, <1>6, <1>7 DEF Next, Run

LEMMA InvTypes ==
    ASSUME NodeAssumption, Inv
    PROVE  TypeOK
<1>1. /\ head \in Hs /\ head \in Nat /\ faults \in 0..MaxFaults /\ Unknown = -1
      /\ nodes \in [Es -> NodesUpTo(head)] /\ cache \in [Es -> Remembered(head)]
      /\ loop \in Loops /\ work \in [Hs -> Workers] /\ window \in Windows
    BY TypedBase DEF Inv, Typed, Nodes, Caches, Hs, Unknown
<1>2. \A e \in Es : nodes[e].tip \in 0..head /\ cache[e].stat \in Unknown..head
    BY <1>1 DEF NodesUpTo, Remembered
<1>3. /\ loop.pc \in {"status", "asking", "plan", "fetch", "sleep", "exited"}
      /\ loop.tip \in Unknown..head /\ loop.at \in 0..Endpoints /\ loop.next \in 1..(MaxHead + 1)
    BY <1>1 DEF Loops
<1>4. \A h \in Hs, k \in Kinds : work[h].requests[k].at \in 0..Endpoints
    BY <1>1 DEF Workers, Requests
<1>5. window.end \in 0..head /\ window.pending \subseteq window.start..window.end
    <2>1. CASE loop.pc = "fetch"
        BY <1>1, <2>1 DEF Inv, Progress, Windows
    <2>2. CASE loop.pc # "fetch"
        BY <1>1, <2>2 DEF Inv, AtRest, NoWindow
    <2> QED BY <2>1, <2>2
<1> QED BY <1>1, <1>2, <1>3, <1>4, <1>5 DEF TypeOK

LEMMA AlwaysInv == Spec => []Inv
<1>1. Init => Inv
    BY NodeAssumption, InitTyped
<1>2. Inv /\ [Next]_vars => Inv'
    BY NodeAssumption, NextInv
<1> QED BY <1>1, <1>2, PTL DEF Spec

\* The client, the window and its workers stay well-formed, whatever fails: a
\* request that waits does so for one of the endpoints, and no window or status
\* names a block that the chain does not have (rpc/client.go, fetchWindow).
THEOREM TypeCorrect == Spec => []TypeOK
<1>1. Inv => TypeOK
    BY NodeAssumption, InvTypes
<1> QED BY <1>1, AlwaysInv, PTL

\* Every launched height of a running window is in exactly one place: with a
\* worker, in the channel, kept back, or taken. The loop of fetchWindow never
\* waits for a height that nobody fetches.
THEOREM WindowIsAccounted == Spec => []WindowAccounted
<1>1. Inv => WindowAccounted
    BY DEF Inv, Progress, WindowAccounted
<1> QED BY <1>1, AlwaysInv, PTL

\* Whatever the order in which workers end, and whatever fails midway, the
\* blocks handed on are 1, 2, 3, ... with none left out and none twice.
THEOREM DeliveryInOrder == Spec => []DeliveredInOrder
<1>1. ASSUME Inv PROVE DeliveredInOrder
    <2>1. /\ loop.pc = "fetch" => window.expected \in Nat \ {0}
          /\ loop.next \in Nat \ {0}
        BY <1>1, TypedBase, NodeAssumption DEF Inv, Typed, Windows, Loops
    <2>2. PICK n \in Nat : n = LastDelivered
        BY <2>1 DEF LastDelivered
    <2>3. delivered = Numbered(n) /\ Len(Numbered(n)) = n
        BY <1>1, <2>2, NumberedIs DEF Inv
    <2> QED BY <2>3 DEF DeliveredInOrder, Numbered
<1>2. Inv => DeliveredInOrder
    BY <1>1
<1> QED BY <1>2, AlwaysInv, PTL
=============================================================================
