--------------------------- MODULE MCNativeStaking ---------------------------
(* Instances of NativeStaking for TLC.                                     *)
EXTENDS NativeStaking

One == {1}
Two == {1, 2}

\* what changes exposure and pools, and what changes receipts
Pools == {"delegate", "redelegate", "slash"}
Unbonds == {"unbond", "complete", "transfer"}
Both == Pools \cup Unbonds
Some == {"reactor", "unmapped_reactor"}

Crashes == {"host_crash", "postgres_crash", "seed_unacknowledged"}
Maintenance == {"stop", "reprocess", "reconcile", "write_fails", "seed_fails"}
AllFaults == Crashes \cup Maintenance
Interruptions == {"stop", "write_fails", "seed_fails"}
=============================================================================
