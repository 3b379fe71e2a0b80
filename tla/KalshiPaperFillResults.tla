----------------------- MODULE KalshiPaperFillResults -----------------------
(***************************************************************************)
(* What evaluating one paper order against a displayed book may return:    *)
(* the contract between the fill simulation (KalshiPaperFills, which is    *)
(* shown to keep it) and the ledger (KalshiPaperLedger, which uses it).    *)
(* Quantities, prices and notionals are scaled integers, as in the code.   *)
(***************************************************************************)
EXTENDS Integers

CONSTANT
    One     \* price units in a dollar (10**_PRICE_SCALE)

FillStatus(r, f) == IF f = 0 THEN "no_fill" ELSE IF f = r.qty THEN "filled" ELSE "partial"

FillResult(r, f, n) == [status |-> FillStatus(r, f), filled |-> f, notional |-> n, quoted |-> TRUE]

(* A contract is worth more than nothing and less than a dollar, and never   *)
(* trades beyond the limit.                                                  *)
BuyBounded(r, f, n) == f <= n /\ n <= f * r.limit
SellBounded(r, f, n) == f * r.limit <= n /\ n <= f * (One - 1)
Bounded(r, f, n) == IF r.side = "buy" THEN BuyBounded(r, f, n) ELSE SellBounded(r, f, n)

FillResults(r) ==
    {FillResult(r, fn[1], fn[2]) :
        fn \in {x \in (0..r.qty) \X (0..(r.qty * One)) : Bounded(r, x[1], x[2])}}
=============================================================================
