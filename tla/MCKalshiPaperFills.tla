------------------------- MODULE MCKalshiPaperFills -------------------------
(* TLC instance of the fill simulation *)
EXTENDS KalshiPaperFills

Ticks(a, b, s) == [start |-> a, end |-> b, step |-> s]
MCOrders == [side : {"buy", "sell"}, qty : 1..4, limit : Prices]
MCMarkets == {{Ticks(0, 5, 1)}, {Ticks(1, 3, 1), Ticks(3, 5, 2)}}
=============================================================================
