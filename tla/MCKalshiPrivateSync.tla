------------------------- MODULE MCKalshiPrivateSync -------------------------
(* TLC instances of the private synchronization; the values are in the cfgs. *)
EXTENDS KalshiPrivateSync
=============================================================================
