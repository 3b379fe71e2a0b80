-------------------------- MODULE KalshiPaperOrder --------------------------
(***************************************************************************)
(* What the evaluation of a paper order promises its caller: one answer,   *)
(* which is a bounded fill or a refusal (KalshiPaperProtocolError).        *)
(***************************************************************************)
EXTENDS KalshiPaperFillResults

CONSTANTS Orders, Pending, Refused

VARIABLES order, result

Init == order \in Orders /\ result = Pending

Evaluate ==
    /\ result = Pending
    /\ result' \in FillResults(order) \cup {Refused}
    /\ UNCHANGED order

Spec == Init /\ [][Evaluate]_<<order, result>>
=============================================================================
