----------------------------- MODULE MCRpcClient -----------------------------
(* Instances of RpcClient for TLC: a preferred endpoint and a seed. *)
EXTENDS RpcClient

AllFaults == {"down", "foreign", "refused"}
=============================================================================
