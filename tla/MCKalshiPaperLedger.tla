------------------------- MODULE MCKalshiPaperLedger -------------------------
(* TLC instance of the paper ledger. *)
EXTENDS KalshiPaperLedger, TLC

CONSTANTS d1, d2, d3

Request(side, gtc, qty, limit, pos) ==
    [side |-> side, gtc |-> gtc, qty |-> qty, limit |-> limit, pos |-> pos]
Buy(qty, limit) == Request("buy", TRUE, qty, limit, None)
Sell(p, qty, limit) == Request("sell", FALSE, qty, limit, p)
Pass == Request("pass", FALSE, 0, 0, None)

(* d1 opens a position or rests; d2 competes with it for the cash or exits it, *)
(* under one id; d3 is a second exit, or passes.                               *)
MCAsks == {<<d1, Buy(2, 2)>>, <<d2, Buy(1, 2)>>, <<d2, Sell(d1, 1, 1)>>, <<d3, Sell(d1, 1, 1)>>,
           <<d3, Pass>>}
=============================================================================
