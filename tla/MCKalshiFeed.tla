---------------------------- MODULE MCKalshiFeed ----------------------------
(* Finite instance of KalshiFeed for TLC. *)
EXTENDS KalshiFeed, TLC

(* The first connection is explored with every number and a faulty frame; a   *)
(* second one follows only where the first used few numbers and no fault.     *)
ConnectionBound ==
    /\ lastTimestamp <= epochCounter
    /\ epochCounter > 1 => faults = 0 /\ \A f \in sent : OrderbookFrame(f) => f.seq <= 2
=============================================================================
