------------------------------ MODULE MCIngest ------------------------------
(* Instances of Ingest for TLC: which kinds of fault each run injects, and *)
(* the databases it starts from.                                           *)
EXTENDS Ingest

\* the faults after which the process finds its place again
Survivable == FaultKinds \ {"cursor_unreadable", "postgres_crash"}

\* every commit is answered, and the cursor can be read when one is repeated
Answered == FaultKinds \ {"commit_unknown", "cursor_unreadable"}

\* faults that pass: an error in a handler or a bundle comes back with its block
Passing == FaultKinds \ {"commit_unknown", "handler_error", "rpc_rejects", "postgres_crash"}

LostAnswerAndCursor == {"commit_unknown", "cursor_unreadable"}

\* Postgres restarts, and nothing else goes wrong
PostgresOnly == {"postgres_crash"}

EmptyOnly == {0}
EmptyOrOlder == {0, 3, 5}
=============================================================================
