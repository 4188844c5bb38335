---------------------------- MODULE IndexedChain ----------------------------
(***************************************************************************)
(* What the ingest process promises: the database is an index of the chain *)
(* from First on that one writer extends at its end, one or more blocks at *)
(* a time and never the same block again. A crash may take back the blocks *)
(* written last. Whether the writer then goes back for them or goes on     *)
(* from its own place is left open: a block is missing only if it was      *)
(* written and lost.                                                       *)
(***************************************************************************)
EXTENDS Integers

CONSTANTS First, MaxHeight

VARIABLES
    last,    \* the last indexed height, 0 before the first block
    copies,  \* how often each block was written
    place    \* the height the writer goes on with

Following == IF last = 0 THEN First ELSE last + 1

\* empty, or continued from an earlier release
Init ==
    /\ last \in {0} \cup First..MaxHeight
    /\ copies = [h \in 1..MaxHeight |-> IF h \in First..last THEN 1 ELSE 0]
    /\ place = Following

Append(hi) ==
    /\ last' = hi
    /\ copies' = [h \in 1..MaxHeight |->
                    IF h \in place..hi THEN copies[h] + 1 ELSE copies[h]]
    /\ place' = hi + 1

\* the index ends at lo again, and the writer's place is not behind its end
Lose(lo) ==
    /\ lo = 0 \/ lo >= First
    /\ last' = lo
    /\ copies' = [h \in 1..MaxHeight |-> IF h > lo THEN 0 ELSE copies[h]]
    /\ place' \in Following'..place

\* a new writer starts from the index
Restart ==
    /\ place' = Following
    /\ UNCHANGED <<last, copies>>

Next ==
    \/ \E hi \in place..MaxHeight : Append(hi)
    \/ \E lo \in 0..last : Lose(lo)
    \/ Restart

Spec == Init /\ [][Next]_<<last, copies, place>>
=============================================================================
