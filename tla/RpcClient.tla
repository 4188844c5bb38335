------------------------------ MODULE RpcClient ------------------------------
(***************************************************************************)
(* How ingest reads the chain: the RPC client with its ordered endpoints   *)
(* and the cached answers that steer it (internal/rpc/client.go), and the  *)
(* parallel fetch of a window (internal/sync/syncer.go).                   *)
(*                                                                         *)
(* Endpoint 1 is preferred; the last one is never passed over for a recent *)
(* failure. Applying blocks is in module Ingest: here they are handed on.  *)
(***************************************************************************)
EXTENDS Integers, FiniteSets, FiniteSetsExt, Sequences

CONSTANTS
    Endpoints,       \* number of configured endpoints
    MaxHead,         \* bound: the last block of the chain
    Parallelism,     \* workers of a window
    Window,          \* blocks of a window
    Faults,          \* what may go wrong with a node or an answer
    MaxFaults        \* bound: how often

ASSUME NodeAssumption ==
    /\ Endpoints \in Nat \ {0} /\ MaxHead \in Nat \ {0}
    /\ Parallelism \in Nat \ {0} /\ Window \in Nat \ {0} /\ MaxFaults \in Nat
    /\ Faults \subseteq {"down", "foreign", "refused"}

VARIABLES
    head,            \* the last block of the chain
    nodes,           \* the nodes behind the endpoints
    cache,           \* what the client remembers of each endpoint
    loop,            \* the ingest loop
    window,          \* the window being fetched
    work,            \* the worker of each height and its two requests
    delivered,       \* the heights handed on to be applied, in order
    faults

vars == << head, nodes, cache, loop, window, work, delivered, faults >>

Es == 1..Endpoints
Hs == 1..MaxHead
Final(e) == e = Endpoints
Nowhere == 0
Unknown == -1

Happens(fault) == fault \in Faults /\ faults < MaxFaults /\ faults' = faults + 1

-----------------------------------------------------------------------------
(* The nodes.                                                              *)

NewBlock ==
    /\ head < MaxHead /\ head' = head + 1
    /\ UNCHANGED << nodes, cache, loop, window, work, delivered, faults >>

NodeAdvances(e) ==
    /\ nodes[e].up /\ nodes[e].tip < head
    /\ nodes' = [nodes EXCEPT ![e].tip = @ + 1]
    /\ UNCHANGED << head, cache, loop, window, work, delivered, faults >>

NodeFails(e) ==
    /\ nodes[e].up /\ Happens("down")
    /\ nodes' = [nodes EXCEPT ![e].up = FALSE]
    /\ UNCHANGED << head, cache, loop, window, work, delivered >>

NodeReturns(e) ==
    /\ ~nodes[e].up
    /\ nodes' = [nodes EXCEPT ![e].up = TRUE]
    /\ UNCHANGED << head, cache, loop, window, work, delivered, faults >>

-----------------------------------------------------------------------------
(* What the client remembers: the last /status, the last error, and        *)
(* whether it heard of the endpoint within statusTTL. "net" is an error    *)
(* whose text the retry classifier recognises; deadlines, HTTP statuses    *)
(* and missing heights are "other". lastSeen is the time of the last       *)
(* answer of any kind, so that a later answer renews an old tip.           *)

NeverSeen == [stat |-> Unknown, err |-> "none", recent |-> FALSE]

SkipForHeight(e, h) ==
    cache[e].recent /\ cache[e].stat # Unknown /\ cache[e].stat < h

SkipForRecentFailure(e) == ~Final(e) /\ cache[e].err # "none" /\ cache[e].recent

MarkHealthy(c) == [c EXCEPT !.err = "none", !.recent = TRUE]
MarkFailed(c, err) == [c EXCEPT !.err = err, !.recent = TRUE]

StatusSeen(tip) == [stat |-> tip, err |-> "none", recent |-> TRUE]
StatusFailed(err) == [stat |-> Unknown, err |-> err, recent |-> TRUE]

\* statusTTL passes after the last answer
Age(e) ==
    /\ cache[e].recent
    /\ cache' = [cache EXCEPT ![e].recent = FALSE]
    /\ UNCHANGED << head, nodes, loop, window, work, delivered, faults >>

\* slip: nobody is asked but the preferred endpoint
AskPreferred(e, h) == IF e = 1 THEN e ELSE Nowhere

\* the first endpoint from e on that a request for that height asks
AskFrom(e, h) ==
    LET asked == { i \in e..Endpoints : ~SkipForHeight(i, h) /\ ~SkipForRecentFailure(i) }
    IN IF asked = {} THEN Nowhere ELSE Min(asked)

\* the errors of the endpoints passed over are part of the aggregate error
Recalled(e, h) ==
    \E i \in e..(IF AskFrom(e, h) = Nowhere THEN Endpoints ELSE AskFrom(e, h) - 1) :
       ~SkipForHeight(i, h) /\ cache[i].err = "net"

\* what asking a node that cannot answer comes to after the retries of the host
ErrorsOf(e) == IF nodes[e].up THEN {"other"} ELSE {"net", "other"}

-----------------------------------------------------------------------------
(* The loop asks for /status: the first caught-up node decides, else the   *)
(* first that answers. A node that is behind may report catching_up.       *)

Loop(pc, next) == [pc |-> pc, next |-> next, tip |-> Unknown, at |-> Nowhere]

StatusIs(tip) == loop' = [loop EXCEPT !.pc = "plan", !.tip = tip, !.at = Nowhere]

\* tip: what the first node that is catching up reported
StatusGoesOn(tip) ==
    \/ /\ AskFrom(loop.at + 1, 0) # Nowhere
       /\ loop' = [loop EXCEPT !.at = AskFrom(loop.at + 1, 0), !.tip = tip]
    \/ AskFrom(loop.at + 1, 0) = Nowhere /\ tip # Unknown /\ StatusIs(tip)
    \/ /\ AskFrom(loop.at + 1, 0) = Nowhere /\ tip = Unknown
       /\ loop' = Loop("sleep", loop.next)

Status ==
    /\ loop.pc = "status"
    /\ loop' = [Loop("asking", loop.next) EXCEPT !.at = AskFrom(1, 0)]
    /\ UNCHANGED << head, nodes, cache, window, work, delivered, faults >>

RefreshStatus ==
    /\ loop.pc = "asking"
    /\ LET e == loop.at
           tip == nodes[e].tip
       IN \/ /\ nodes[e].up
             /\ cache' = [cache EXCEPT ![e] = StatusSeen(tip)]
             /\ \/ StatusIs(tip)
                \/ tip < head /\ StatusGoesOn(IF loop.tip = Unknown THEN tip ELSE loop.tip)
          \/ /\ ~nodes[e].up
             /\ \E err \in ErrorsOf(e) :
                   cache' = [cache EXCEPT ![e] = StatusFailed(err)]
             /\ StatusGoesOn(loop.tip)
    /\ UNCHANGED << head, nodes, window, work, delivered, faults >>

-----------------------------------------------------------------------------
(* A window: workers fetch ahead, the loop takes results in any order and  *)
(* hands blocks on in ascending order, one by one when it streams and all  *)
(* at once in bulk mode.                                                   *)

Kinds == {"block", "block_results"}
Request(state, at, net) == [state |-> state, at |-> at, net |-> net]
Resting == [state |-> "idle", requests |-> [k \in Kinds |-> Request("idle", Nowhere, FALSE)]]
NoWindow == [start |-> 1, end |-> 0, launched |-> 0, expected |-> 1, pending |-> {}, bulk |-> FALSE]

\* net: an error so far is one that the retry classifier recognises
Ask(e, h, net) ==
    IF AskFrom(e, h) = Nowhere
    THEN Request("failed", Nowhere, net \/ Recalled(e, h))
    ELSE Request("asking", AskFrom(e, h), net \/ Recalled(e, h))

\* slip: the tip does not bound the window
WindowUnclamped(next, tip) == next + Window - 1

WindowEnd(next, tip) == Min({next + Window - 1, tip})

FetchWindow ==
    /\ loop.pc = "plan" /\ loop.next <= loop.tip
    /\ \E bulk \in BOOLEAN :
          window' = [start |-> loop.next, end |-> WindowEnd(loop.next, loop.tip),
                     launched |-> loop.next - 1, expected |-> loop.next, pending |-> {},
                     bulk |-> bulk]
    /\ loop' = Loop("fetch", loop.next)
    /\ UNCHANGED << head, nodes, cache, work, delivered, faults >>

\* at the tip: until the poll timer or the notifier
WaitForTipChange ==
    /\ loop.pc = "plan" /\ loop.next > loop.tip
    /\ loop' = Loop("sleep", loop.next)
    /\ UNCHANGED << head, nodes, cache, window, work, delivered, faults >>

Awake ==
    /\ loop.pc = "sleep"
    /\ loop' = Loop("status", loop.next)
    /\ UNCHANGED << head, nodes, cache, window, work, delivered, faults >>

\* a worker keeps its place until its result is in the channel
Busy == { h \in Hs : work[h].state = "fetching" }
Sent == { h \in Hs : work[h].state = "sent" }

Launch ==
    LET h == window.launched + 1
    IN /\ loop.pc = "fetch" /\ h <= window.end /\ Cardinality(Busy) < Parallelism
       /\ window' = [window EXCEPT !.launched = h]
       /\ work' = [work EXCEPT ![h] = [state |-> "fetching",
                                       requests |-> [k \in Kinds |-> Ask(1, h, FALSE)]]]
       /\ UNCHANGED << head, nodes, cache, loop, delivered, faults >>

\* the answer to one request, or the next endpoint
Answer(h, k) ==
    LET r == work[h].requests[k]
        e == r.at
        Becomes(next) == work' = [work EXCEPT ![h].requests[k] = next]
    IN /\ work[h].state = "fetching" /\ r.state = "asking"
       /\ \/ /\ nodes[e].up /\ nodes[e].tip >= h
             /\ cache' = [cache EXCEPT ![e] = MarkHealthy(@)]
             /\ \/ Becomes(Request("ok", Nowhere, FALSE)) /\ UNCHANGED faults
                \/ Becomes(Request("foreign", Nowhere, FALSE)) /\ Happens("foreign")
          \/ \* the node fails, or does not have the height
             /\ ~nodes[e].up \/ nodes[e].tip < h
             /\ \E err \in ErrorsOf(e) :
                   /\ cache' = [cache EXCEPT ![e] = MarkFailed(@, err)]
                   /\ Becomes(Ask(e + 1, h, r.net \/ err = "net"))
             /\ UNCHANGED faults
          \/ /\ Happens("refused")
             /\ Becomes(Request("failed", Nowhere, FALSE))
             /\ UNCHANGED cache
       /\ UNCHANGED << head, nodes, loop, window, delivered >>

Complete(h) ==
    /\ work[h].state = "fetching"
    /\ \A k \in Kinds : work[h].requests[k].state # "asking"
    /\ Cardinality(Sent) < 2 * Parallelism
    /\ work' = [work EXCEPT ![h].state = "sent"]
    /\ UNCHANGED << head, nodes, cache, loop, window, delivered, faults >>

\* the outcome of a worker: the error of /block comes first, and answers for
\* another chain or height are an error of the bundle
FirstError(rs) == rs[IF rs["block"].state = "failed" THEN "block" ELSE "block_results"]

BundleOutcome(rs) ==
    CASE \A k \in Kinds : rs[k].state = "ok" -> "ok"
      [] FirstError(rs).state = "failed" /\ FirstError(rs).net -> "transient"
      [] OTHER -> "fatal"

\* slip: results are handed on as they arrive
ReadyAsTheyCome(expected, pending) == pending

\* the heights that are complete from the expected one on
ReadyFrom(expected, pending) == { h \in pending : expected..h \subseteq pending }

\* slip: a result that comes early is not kept
DropEarly(pending, ready) == {}

KeptBack(pending, ready) == pending \ ready

\* an error ends the window and cancels its workers
EndWindow(pc, next) ==
    window' = NoWindow /\ work' = [h \in Hs |-> Resting] /\ loop' = Loop(pc, next)

\* the blocks that a bulk window holds back until it is complete
HandedOn(bulk, start, got) ==
    CASE ~bulk -> got
      [] bulk /\ window.expected + Len(got) <= window.end -> << >>
      [] OTHER -> [i \in 1..(window.end + 1 - start) |-> start + i - 1]

\* after an error: the block after the last one that was applied
Resume(w) == Len(delivered) + 1

\* lowest first: the i-th height has i - 1 of the others below it
Ascending(hs) ==
    [i \in 1..Cardinality(hs) |-> CHOOSE h \in hs : Cardinality({ g \in hs : g < h }) = i - 1]

Receive(h) ==
    /\ loop.pc = "fetch" /\ work[h].state = "sent"
    /\ LET outcome == BundleOutcome(work[h].requests)
           pending == window.pending \cup {h}
           ready == ReadyFrom(window.expected, pending)
           got == HandedOn(window.bulk, window.start, Ascending(ready))
       IN \/ /\ outcome = "ok"
             /\ delivered' = delivered \o got
             /\ \/ /\ window.expected + Cardinality(ready) <= window.end
                   /\ window' = [window EXCEPT !.pending = KeptBack(pending, ready),
                                               !.expected = @ + Cardinality(ready)]
                   /\ work' = [work EXCEPT ![h] = Resting]
                   /\ UNCHANGED loop
                \/ /\ window.expected + Cardinality(ready) > window.end
                   /\ EndWindow("status", window.end + 1)
          \/ /\ outcome # "ok"
             /\ EndWindow(IF outcome = "transient" THEN "sleep" ELSE "exited", Resume(window))
             /\ UNCHANGED delivered
    /\ UNCHANGED << head, nodes, cache, faults >>

\* the process ends with an error and is started again
Restart ==
    /\ loop.pc = "exited"
    /\ loop' = Loop("status", loop.next)
    /\ cache' = [e \in Es |-> NeverSeen]
    /\ UNCHANGED << head, nodes, window, work, delivered, faults >>

-----------------------------------------------------------------------------
Init ==
    /\ head = 1
    /\ nodes \in [Es -> [up : {TRUE}, tip : {0, 1}]]
    /\ cache = [e \in Es |-> NeverSeen]
    /\ loop = Loop("status", 1)
    /\ window = NoWindow /\ work = [h \in Hs |-> Resting] /\ delivered = << >>
    /\ faults = 0

Environment == NewBlock \/ \E e \in Es : NodeAdvances(e) \/ NodeFails(e) \/ NodeReturns(e)
Fetch == Launch \/ \E h \in Hs : Complete(h) \/ Receive(h) \/ \E k \in Kinds : Answer(h, k)
Run ==
    \/ Status \/ RefreshStatus \/ FetchWindow \/ Fetch
    \/ WaitForTipChange \/ Awake \/ Restart

Next == Environment \/ Run \/ \E e \in Es : Age(e)

\* Timers, the scheduler and the supervisor go on; a node that is up follows the
\* chain, and of the nodes only the last one has to come back. A window is a
\* bounded number of steps, so that no worker needs a fairness of its own; the
\* same holds for the nodes and the blocks they follow.
Fairness ==
    /\ WF_vars(NewBlock \/ \E e \in Es : NodeAdvances(e))
    /\ WF_vars(NodeReturns(Endpoints))
    /\ WF_vars(Run)
    /\ WF_vars(Age(Endpoints))

Spec == Init /\ [][Next]_vars
FairSpec == Spec /\ Fairness
-----------------------------------------------------------------------------
(* Properties. *)

\* Type invariant of the client, the window and its workers.
TypeOK ==
    /\ head \in Hs /\ faults \in 0..MaxFaults
    /\ \A e \in Es : nodes[e].tip \in 0..head /\ cache[e].stat \in Unknown..head
    /\ loop.pc \in {"status", "asking", "plan", "fetch", "sleep", "exited"}
    /\ loop.tip \in Unknown..head /\ loop.at \in 0..Endpoints
    /\ loop.next \in 1..(MaxHead + 1)
    /\ window.end \in 0..head /\ window.pending \subseteq window.start..window.end
    /\ \A h \in Hs, k \in Kinds : work[h].requests[k].at \in 0..Endpoints

\* Blocks are handed on once each and in ascending order, in whatever order
\* the workers end, from whichever endpoints, and whatever fails midway
\* (the reordering in fetchWindow and the resumption of Run).
DeliveredInOrder == delivered = [i \in 1..Len(delivered) |-> i]

\* Every launched height of a running window is being fetched, waits in the
\* channel, is kept back or was taken, and none of those twice: fetchWindow can
\* neither wait for a height that nobody fetches nor take one again.
WindowAccounted ==
    loop.pc = "fetch" =>
        /\ window.expected..window.launched = window.pending \cup Busy \cup Sent
        /\ (Busy \cup Sent) \cap window.pending = {}

\* Every block is handed on in the end, if only the last endpoint comes back
\* and nodes that answer follow the chain: failover, the skip rules, the
\* retries of Run and the supervisor leave no block out for good. (A preferred
\* node that stands still and does not report catching_up holds ingest back:
\* statusFromAny takes its tip for the chain's.)
CatchesUp == <>(Len(delivered) = MaxHead)
=============================================================================
