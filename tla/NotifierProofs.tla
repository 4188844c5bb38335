--------------------------- MODULE NotifierProofs ---------------------------
(* Type correctness of TipNotifier, and that no announcement is lost, for  *)
(* any number of endpoints, blocks and faults.                             *)
EXTENDS TipNotifier, TLAPS

LEMMA RotationStays ==
    ASSUME NEW e \in Es
    PROVE  NextEndpoint(e) \in Es
  BY NotifierAssumption DEF NextEndpoint, Es

\* the nodes whose last block is at most top
NodesUpTo(top) == [up : BOOLEAN, tip : 0..top, syncing : BOOLEAN]

LEMMA NodeChanges ==
    ASSUME NEW top, NEW n \in NodesUpTo(top), NEW b \in BOOLEAN, NEW tip \in 0..top
    PROVE  /\ [n EXCEPT !.up = b] \in NodesUpTo(top)
           /\ [n EXCEPT !.tip = tip, !.syncing = b] \in NodesUpTo(top)
  BY DEF NodesUpTo

LEMMA NodeReplaced ==
    ASSUME NEW top, nodes \in [Es -> NodesUpTo(top)], NEW e \in Es, NEW n \in NodesUpTo(top)
    PROVE  [nodes EXCEPT ![e] = n] \in [Es -> NodesUpTo(top)]
  OBVIOUS

LEMMA ConnectionIs ==
    ASSUME NEW pc \in {"dial", "open", "backoff"}, NEW e \in Es
    PROVE  /\ Connection(pc, e) \in [pc : {"dial", "open", "backoff"}, at : Es, quiet : BOOLEAN]
           /\ Connection(pc, e).pc = pc /\ Connection(pc, e).at = e
           /\ Connection(pc, e).quiet = FALSE
  BY DEF Connection

LEMMA TypeInit == Init => TypeOK
  <1> SUFFICES ASSUME Init PROVE TypeOK
    OBVIOUS
  <1>1. 1 \in 1..MaxHead /\ 0 \in 0..MaxFaults /\ 1 \in Es
    BY NotifierAssumption DEF Es
  <1>2. ASSUME NEW r \in [up : {TRUE}, tip : {0, 1}, syncing : BOOLEAN]
        PROVE  r \in NodesUpTo(head)
    <2>1. r.up \in BOOLEAN /\ r.tip \in 0..head /\ r.syncing \in BOOLEAN
      <3>1. r.up = TRUE /\ r.syncing \in BOOLEAN /\ (r.tip = 0 \/ r.tip = 1)
        OBVIOUS
      <3>2. head = 1
        BY DEF Init
      <3>3. r.tip \in 0..head
        BY <3>1, <3>2
      <3>4. r.up \in BOOLEAN
        BY <3>1
      <3> QED
        BY <3>1, <3>3, <3>4
    <2>2. r = [up |-> r.up, tip |-> r.tip, syncing |-> r.syncing]
      OBVIOUS
    <2> QED
      BY <2>1, <2>2 DEF NodesUpTo
  <1>3. nodes \in [Es -> NodesUpTo(head)]
    BY <1>2 DEF Init
  <1> QED
    BY <1>1, <1>3, ConnectionIs DEF Init, TypeOK, NodesUpTo

LEMMA TypeStep == TypeOK /\ [Next]_vars => TypeOK'
  <1> SUFFICES ASSUME TypeOK, [Next]_vars PROVE TypeOK'
    OBVIOUS
  <1> USE NotifierAssumption
  <1> DEFINE Connections == [pc : {"dial", "open", "backoff"}, at : Es, quiet : BOOLEAN]
  <1>1. CASE NewBlock
    <2>1. head \in Nat /\ head' = head + 1 /\ head' \in 1..MaxHead /\ 0..head \subseteq 0..head'
      BY <1>1 DEF NewBlock, TypeOK
    <2>2. NodesUpTo(head) \subseteq NodesUpTo(head')
      BY <2>1 DEF NodesUpTo
    <2>3. nodes' \in [Es -> NodesUpTo(head')]
      BY <1>1, <2>2 DEF NewBlock, TypeOK, NodesUpTo
    <2> QED
      BY <1>1, <2>1, <2>3 DEF NewBlock, TypeOK, NodesUpTo
  <1>2. ASSUME NEW e \in Es, NodeAdvances(e) PROVE TypeOK'
    <2>1. nodes \in [Es -> NodesUpTo(head)]
      BY DEF TypeOK, NodesUpTo
    <2>2. nodes[e] \in NodesUpTo(head) /\ nodes[e].tip + 1 \in 0..head
      BY <1>2, <2>1 DEF NodeAdvances, NodesUpTo, TypeOK
    <2> DEFINE b == nodes[e].syncing /\ nodes[e].tip + 1 < head
               n == [nodes[e] EXCEPT !.tip = @ + 1, !.syncing = b]
    <2>3. n \in NodesUpTo(head)
      <3>1. b \in BOOLEAN
        BY <2>2 DEF NodesUpTo
      <3> QED
        BY <2>2, <3>1, NodeChanges
    <2>4. nodes' = [nodes EXCEPT ![e] = n]
      BY <1>2 DEF NodeAdvances
    <2>5. nodes' \in [Es -> NodesUpTo(head)]
      BY <2>1, <2>3, <2>4, NodeReplaced
    <2>6. inbox' \in BOOLEAN /\ (inbox' => notifier.pc = "open")
      BY <1>2 DEF NodeAdvances, Announces, TypeOK
    <2> QED
      BY <1>2, <2>5, <2>6 DEF NodeAdvances, TypeOK, NodesUpTo
  <1>3. ASSUME NEW e \in Es, NodeFails(e) \/ NodeReturns(e) PROVE TypeOK'
    <2>1. nodes \in [Es -> NodesUpTo(head)] /\ nodes[e] \in NodesUpTo(head)
      BY DEF TypeOK, NodesUpTo
    <2>2. PICK b \in BOOLEAN : nodes' = [nodes EXCEPT ![e] = [nodes[e] EXCEPT !.up = b]]
      BY <1>3 DEF NodeFails, NodeReturns
    <2>3. [nodes[e] EXCEPT !.up = b] \in NodesUpTo(head)
      <3>1. PICK t : t \in 0..head
        BY <2>1 DEF NodesUpTo
      <3> QED
        BY <2>1, <3>1, NodeChanges
    <2>4. nodes' \in [Es -> NodesUpTo(head)]
      BY <2>1, <2>2, <2>3, NodeReplaced
    <2> QED
      BY <1>3, <2>4 DEF NodeFails, NodeReturns, Happens, TypeOK, NodesUpTo
  <1>4. ASSUME NEW reason \in {"dial", "silent", "read"}, Disconnected(reason),
               faults' \in 0..MaxFaults
        PROVE  TypeOK'
    <2>1. notifier.at \in Es /\ NextEndpoint(notifier.at) \in Es
      <3>1. notifier \in [pc : {"dial", "open", "backoff"}, at : Es, quiet : BOOLEAN]
        BY DEF TypeOK
      <3>2. notifier.at \in Es
        BY <3>1
      <3> QED
        BY <3>2, RotationStays
    <2>2. PICK e \in Es : notifier' = Connection("backoff", e)
      BY <1>4, <2>1 DEF Disconnected
    <2>3. notifier' \in Connections /\ notifier'.quiet = FALSE /\ inbox' = FALSE
      <3>1. Connection("backoff", e) \in Connections /\ Connection("backoff", e).quiet = FALSE
        BY ConnectionIs, Zenon
      <3>2. inbox' = FALSE
        BY <1>4 DEF Disconnected
      <3> QED
        BY <2>2, <3>1, <3>2, Zenon
    <2>4. ~(inbox' \/ notifier'.quiet)
      BY <2>3
    <2>5. UNCHANGED << head, nodes, wake, loop, unseen >> /\ inbox' \in BOOLEAN
      BY <1>4 DEF Disconnected
    <2>6. /\ head' \in 1..MaxHead /\ faults' \in 0..MaxFaults
          /\ nodes' \in [Es -> [up : BOOLEAN, tip : 0..head', syncing : BOOLEAN]]
          /\ wake' \in BOOLEAN /\ unseen' \in BOOLEAN
          /\ loop' \in {"status", "work", "wait"}
      BY <1>4, <2>5 DEF TypeOK
    <2> QED
      BY <2>3, <2>4, <2>5, <2>6, Zenon DEF TypeOK
  <1>5. CASE DialFails
    BY <1>5, <1>4 DEF DialFails, TypeOK
  <1>6. notifier \in Connections /\ notifier.at \in Es
    <2>1. notifier \in Connections
      BY DEF TypeOK
    <2> QED
      BY <2>1
  <1>7. CASE Subscribes \/ Redial
    <2>1. PICK pc \in {"dial", "open", "backoff"}, e \in Es : notifier' = Connection(pc, e)
      BY <1>7, <1>6 DEF Subscribes, Redial
    <2>2. notifier' \in Connections /\ notifier'.quiet = FALSE
      <3>1. Connection(pc, e) \in Connections /\ Connection(pc, e).quiet = FALSE
        BY ConnectionIs, Zenon
      <3> QED
        BY <2>1, <3>1, Zenon
    <2>5. notifier.pc # "open" /\ UNCHANGED << head, nodes, inbox, wake, loop, unseen, faults >>
      BY <1>7 DEF Subscribes, Redial
    <2>3. ~inbox' /\ UNCHANGED << head, nodes, inbox, wake, loop, unseen, faults >>
      BY <2>5 DEF TypeOK
    <2>4. ~(inbox' \/ notifier'.quiet)
      BY <2>2, <2>3
    <2>6. /\ head' \in 1..MaxHead /\ faults' \in 0..MaxFaults
          /\ nodes' \in [Es -> [up : BOOLEAN, tip : 0..head', syncing : BOOLEAN]]
          /\ inbox' \in BOOLEAN /\ wake' \in BOOLEAN /\ unseen' \in BOOLEAN
          /\ loop' \in {"status", "work", "wait"}
      BY <2>3 DEF TypeOK
    <2> QED
      BY <2>2, <2>4, <2>6, Zenon DEF TypeOK
  <1>8. CASE FallsQuiet \/ Publish
    <2>1. PICK q \in BOOLEAN : notifier' = [notifier EXCEPT !.quiet = q]
      BY <1>8 DEF FallsQuiet, Publish
    <2>2. notifier' \in Connections /\ notifier'.pc = notifier.pc
      BY <1>6, <2>1
    <2> QED
      BY <1>8, <2>2 DEF FallsQuiet, Publish, Kept, TypeOK
  <1>9. CASE SilenceWatchdog
    BY <1>9, <1>4 DEF SilenceWatchdog, TypeOK
  <1>10. CASE Breaks
    <2>1. faults' \in 0..MaxFaults
      BY <1>10 DEF Breaks, Happens, TypeOK
    <2> QED
      BY <1>10, <1>4, <2>1 DEF Breaks
  <1>11. CASE Ingest
    <2>1. UNCHANGED << head, nodes, notifier, inbox, faults >>
      BY <1>11 DEF Ingest, Status, Works, TipWake, Poll
    <2>2. loop' \in {"status", "work", "wait"}
      BY <1>11 DEF Ingest, Status, Works, TipWake, Poll
    <2>3. wake' \in {wake, FALSE} /\ unseen' \in {unseen, FALSE}
      BY <1>11 DEF Ingest, Status, Works, TipWake, Poll
    <2>4. wake' \in BOOLEAN /\ unseen' \in BOOLEAN
      BY <2>3 DEF TypeOK
    <2> QED
      BY <2>1, <2>2, <2>4 DEF TypeOK
  <1>12. CASE UNCHANGED vars
    BY <1>12 DEF vars, TypeOK
  <1> QED
    BY <1>1, <1>2, <1>3, <1>5, <1>7, <1>8, <1>9, <1>10, <1>11, <1>12
    DEF Next, Environment, Notify

\* The notifier and the loop keep to their types, and only an open subscription
\* has a frame on its way or is silent (runOnce, Run in notifier.go).
THEOREM TypeCorrect == Spec => []TypeOK
  BY TypeInit, TypeStep, PTL DEF Spec

LEMMA WakeInit == Init => NoLostWakeup
  BY DEF Init, NoLostWakeup

LEMMA WakeStep == TypeOK /\ NoLostWakeup /\ [Next]_vars => NoLostWakeup'
  <1> SUFFICES ASSUME TypeOK, NoLostWakeup, [Next]_vars PROVE NoLostWakeup'
    OBVIOUS
  <1>1. CASE Environment
    BY <1>1 DEF Environment, NewBlock, NodeAdvances, NodeFails, NodeReturns, NoLostWakeup
  <1>2. CASE Publish
    BY <1>2 DEF Publish, Kept, NoLostWakeup
  <1>3. CASE DialFails \/ Subscribes \/ FallsQuiet \/ SilenceWatchdog \/ Breaks \/ Redial
    BY <1>3 DEF DialFails, Subscribes, FallsQuiet, SilenceWatchdog, Breaks, Redial,
                Disconnected, NoLostWakeup
  <1>4. CASE Status \/ TipWake \/ Poll
    BY <1>4 DEF Status, TipWake, Poll, NoLostWakeup
  <1>5. CASE Works
    <2>1. unseen => wake
      BY <1>5 DEF Works, NoLostWakeup
    <2> QED
      BY <1>5, <2>1 DEF Works, NoLostWakeup
  <1>6. CASE UNCHANGED vars
    BY <1>6 DEF vars, NoLostWakeup
  <1> QED
    BY <1>1, <1>2, <1>3, <1>4, <1>5, <1>6 DEF Next, Notify, Ingest

\* A block published since the last /status has its wake in the channel unless
\* the loop is about to ask: a full channel loses nothing, and draining it in
\* waitForTipChange is always followed by a /status.
THEOREM NoWakeupLost == Spec => []NoLostWakeup
  <1>1. Init /\ [][Next]_vars => []TypeOK
    BY TypeInit, TypeStep, PTL
  <1> QED
    BY <1>1, WakeInit, WakeStep, PTL DEF Spec

=============================================================================
