----------------------- MODULE MCKalshiWSCoordinator -----------------------
(* Finite instance of KalshiWSCoordinator for TLC. *)
EXTENDS KalshiWSCoordinator
=============================================================================
