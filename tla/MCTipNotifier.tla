---------------------------- MODULE MCTipNotifier ----------------------------
(* TLC evaluates the assumption of TipNotifier here. *)
EXTENDS TipNotifier
=============================================================================
