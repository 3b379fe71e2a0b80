---------------------- MODULE MCKalshiReadReconciliation ----------------------
(* TLC instances of the read reconciliation. *)
EXTENDS KalshiReadReconciliation, TLC

Symmetric == Permutations(Callers) \cup Permutations(Attempts) \cup Permutations(Orders)
=============================================================================
