------------------------ MODULE MCKalshiFeedOrdered ------------------------
(* Finite instance of KalshiFeedOrdered for TLC. *)
EXTENDS KalshiFeedOrdered

=============================================================================
