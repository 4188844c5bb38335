----------------------------- MODULE TipNotifier -----------------------------
(***************************************************************************)
(* The notifier that wakes the ingest loop when a block is announced       *)
(* (internal/rpc/notifier.go) and the loop's wait for it                   *)
(* (waitForTipChange, internal/sync/syncer.go).                            *)
(*                                                                         *)
(* One subscription at a time, over the same ordered endpoints as the RPC  *)
(* client; a channel with one place; a watchdog that leaves a subscription *)
(* without announcements after silenceTimeout.                             *)
(***************************************************************************)
EXTENDS Integers

CONSTANTS
    Endpoints,       \* number of configured endpoints
    MaxHead,         \* bound: the last block of the chain
    MaxFaults        \* bound: how often a node fails or a connection breaks

ASSUME NotifierAssumption ==
    Endpoints \in Nat \ {0} /\ MaxHead \in Nat \ {0} /\ MaxFaults \in Nat

VARIABLES
    head,            \* the last block of the chain
    nodes,           \* the nodes behind the endpoints
    notifier,        \* its connection; quiet: silenceTimeout without a block
    inbox,           \* a NewBlock frame that is on its way
    wake,            \* the channel to the loop
    loop,            \* the ingest loop: asks /status, works, or waits at the tip
    unseen,          \* a block was published after the last /status began
    faults

vars == << head, nodes, notifier, inbox, wake, loop, unseen, faults >>

Es == 1..Endpoints
Happens == faults < MaxFaults /\ faults' = faults + 1

-----------------------------------------------------------------------------
(* The nodes. A node that still syncs announces no block.                  *)

NewBlock ==
    /\ head < MaxHead /\ head' = head + 1
    /\ UNCHANGED << nodes, notifier, inbox, wake, loop, unseen, faults >>

Announces(e) == notifier.pc = "open" /\ notifier.at = e /\ ~nodes[e].syncing

NodeAdvances(e) ==
    /\ nodes[e].up /\ nodes[e].tip < head
    /\ nodes' = [nodes EXCEPT ![e].tip = @ + 1, ![e].syncing = @ /\ nodes[e].tip + 1 < head]
    /\ inbox' = (inbox \/ Announces(e))
    /\ UNCHANGED << head, notifier, wake, loop, unseen, faults >>

NodeFails(e) ==
    /\ nodes[e].up /\ Happens
    /\ nodes' = [nodes EXCEPT ![e].up = FALSE]
    /\ UNCHANGED << head, notifier, inbox, wake, loop, unseen >>

NodeReturns(e) ==
    /\ ~nodes[e].up
    /\ nodes' = [nodes EXCEPT ![e].up = TRUE]
    /\ UNCHANGED << head, notifier, inbox, wake, loop, unseen, faults >>

-----------------------------------------------------------------------------
(* The notifier.                                                           *)

\* slip: no wrap at the last endpoint
NextBeyond(e) == e + 1

NextEndpoint(e) == (e % Endpoints) + 1

\* slip: a silent subscription is opened again at the same endpoint
StaysWhenSilent(reason) == reason = "dial"

ShouldRotate(reason) == reason \in {"dial", "silent"}

Connection(pc, e) == [pc |-> pc, at |-> e, quiet |-> FALSE]

Disconnected(reason) ==
    /\ notifier' = Connection("backoff", IF ShouldRotate(reason) THEN NextEndpoint(notifier.at)
                                         ELSE notifier.at)
    /\ inbox' = FALSE
    /\ UNCHANGED << head, nodes, wake, loop, unseen >>

DialFails ==
    notifier.pc = "dial" /\ ~nodes[notifier.at].up /\ Disconnected("dial") /\ UNCHANGED faults

Subscribes ==
    /\ notifier.pc = "dial" /\ nodes[notifier.at].up
    /\ notifier' = Connection("open", notifier.at)
    /\ UNCHANGED << head, nodes, inbox, wake, loop, unseen, faults >>

\* slip: a publication that a busy loop does not take is dropped
KeepsForWaiting(full) == full \/ loop = "wait"

\* a publication never blocks: a channel that is full is enough
Kept(full) == TRUE

Publish ==
    /\ notifier.pc = "open" /\ inbox
    /\ inbox' = FALSE /\ wake' = Kept(wake) /\ unseen' = TRUE
    /\ notifier' = [notifier EXCEPT !.quiet = FALSE]
    /\ UNCHANGED << head, nodes, loop, faults >>

FallsQuiet ==
    /\ notifier.pc = "open" /\ ~inbox /\ ~notifier.quiet
    /\ notifier' = [notifier EXCEPT !.quiet = TRUE]
    /\ UNCHANGED << head, nodes, inbox, wake, loop, unseen, faults >>

SilenceWatchdog ==
    notifier.pc = "open" /\ notifier.quiet /\ Disconnected("silent") /\ UNCHANGED faults

\* the node goes, or a balancer cycles the connection
Breaks ==
    /\ notifier.pc = "open" /\ ~notifier.quiet
    /\ Disconnected("read")
    /\ IF nodes[notifier.at].up THEN Happens ELSE UNCHANGED faults

Redial ==
    /\ notifier.pc = "backoff"
    /\ notifier' = Connection("dial", notifier.at)
    /\ UNCHANGED << head, nodes, inbox, wake, loop, unseen, faults >>

-----------------------------------------------------------------------------
(* The loop.                                                               *)

Status ==
    /\ loop = "status" /\ loop' = "work" /\ unseen' = FALSE
    /\ UNCHANGED << head, nodes, notifier, inbox, wake, faults >>

\* it fetches and applies, or pauses after a failure, or is at the tip
Works ==
    /\ loop = "work" /\ loop' \in {"status", "wait"}
    /\ UNCHANGED << head, nodes, notifier, inbox, wake, unseen, faults >>

\* the channel is drained when it wakes the loop
TipWake ==
    /\ loop = "wait" /\ wake
    /\ wake' = FALSE /\ loop' = "status"
    /\ UNCHANGED << head, nodes, notifier, inbox, unseen, faults >>

\* the poll timer
Poll ==
    /\ loop = "wait" /\ loop' = "status"
    /\ UNCHANGED << head, nodes, notifier, inbox, wake, unseen, faults >>

-----------------------------------------------------------------------------
Init ==
    /\ head = 1
    /\ nodes \in [Es -> [up : {TRUE}, tip : {0, 1}, syncing : BOOLEAN]]
    /\ \A e \in Es : nodes[e].syncing = (nodes[e].tip = 0)
    /\ notifier = Connection("dial", 1)
    /\ inbox = FALSE /\ wake = FALSE /\ unseen = FALSE
    /\ loop = "status"
    /\ faults = 0

Environment == NewBlock \/ \E e \in Es : NodeAdvances(e) \/ NodeFails(e) \/ NodeReturns(e)
Notify ==
    DialFails \/ Subscribes \/ Publish \/ FallsQuiet \/ SilenceWatchdog \/ Breaks \/ Redial
Ingest == Status \/ Works \/ TipWake \/ Poll

Next == Environment \/ Notify \/ Ingest

\* The notifier's timers and the loop go on, except for the poll timer: what
\* is shown does not rest on polling. Nodes may stay down.
Fairness ==
    /\ WF_vars(DialFails \/ Subscribes) /\ WF_vars(Redial)
    /\ WF_vars(Publish) /\ WF_vars(FallsQuiet) /\ WF_vars(SilenceWatchdog)
    /\ WF_vars(Status) /\ WF_vars(Works) /\ WF_vars(TipWake)

Spec == Init /\ [][Next]_vars /\ Fairness
-----------------------------------------------------------------------------
(* Properties. *)

\* Type invariant of the notifier, and the states in which a frame can be on
\* its way or a subscription be silent.
TypeOK ==
    /\ head \in 1..MaxHead /\ faults \in 0..MaxFaults
    /\ nodes \in [Es -> [up : BOOLEAN, tip : 0..head, syncing : BOOLEAN]]
    /\ notifier \in [pc : {"dial", "open", "backoff"}, at : Es, quiet : BOOLEAN]
    /\ inbox \in BOOLEAN /\ wake \in BOOLEAN /\ unseen \in BOOLEAN
    /\ loop \in {"status", "work", "wait"}
    /\ inbox \/ notifier.quiet => notifier.pc = "open"

\* A block published since the last /status began has its wake in the channel,
\* unless the loop is about to ask again: no announcement is lost between the
\* loop's /status and its wait (waitForTipChange drains only when it wakes).
NoLostWakeup == unseen => wake \/ loop = "status"

\* A published block is followed by a /status without help of the poll timer.
AnnouncedIsAsked == unseen ~> ~unseen

Deaf(e) == nodes[e].syncing \/ ~nodes[e].up

\* When the other endpoints announce nothing any more, the notifier comes to
\* the last one again and again: a preferred node that takes the subscription
\* while it syncs does not hold the notifier for good.
NotifierFindsSeed ==
    <>[](nodes[Endpoints].up /\ \A e \in Es \ {Endpoints} : Deaf(e)) =>
        []<>(notifier.pc = "open" /\ notifier.at = Endpoints)
=============================================================================
