--------------------------- MODULE KalshiPaperFills ---------------------------
(***************************************************************************)
(* The fill simulation (kalshi_paper_execution.py): simulate_buy_ioc and   *)
(* simulate_sell_ioc walk the displayed bids from the best price down, one *)
(* step per level.  A BUY of an outcome takes the bids of the other one at *)
(* the complementary price.  The book maps a price to the quantity bid     *)
(* there: _parse_levels refuses a side with a duplicate price.             *)
(***************************************************************************)
EXTENDS KalshiPaperFillResults, FiniteSetsExt

CONSTANTS
    Orders,     \* [side, qty, limit]
    Markets,    \* the price ranges a market may have
    Depth,      \* quantities a level may show
    Pending, Refused

Prices == 1..(One - 1)
Ranges == [start : 0..One, end : 0..One, step : 1..One]

Answers == [status : {"no_fill", "filled", "partial"}, filled : Nat, notional : Nat, quoted : {TRUE}]

ASSUME FillsAssumption ==
    /\ One \in Nat \ {0}
    /\ Depth \subseteq Nat
    /\ Orders \subseteq [side : {"buy", "sell"}, qty : Nat \ {0}, limit : Prices]
    /\ Markets \subseteq SUBSET Ranges
    /\ Pending # Refused /\ Pending \notin Answers /\ Refused \notin Answers

VARIABLES
    order, ranges, book,    \* the inputs
    phase,
    levels,                 \* prices of the levels not yet visited
    remaining, notional,
    fills,                  \* what was taken at each price
    result

vars == <<order, ranges, book, phase, levels, remaining, notional, fills, result>>
inputs == <<order, ranges, book>>

TypeOK ==
    /\ order \in Orders /\ ranges \in Markets /\ book \in [Prices -> Depth]
    /\ phase \in {"validate", "walk", "done"}
    /\ levels \subseteq Prices
    /\ remaining \in 0..order.qty
    /\ notional \in Nat
    /\ fills \in [Prices -> Nat]
    /\ result \in Answers \cup {Pending, Refused}

(* _price_is_on_tick *)
OnTick(p) ==
    \E r \in ranges : r.start <= p /\ p <= r.end /\ (p - r.start) % r.step = 0

Displayed == {p \in Prices : book[p] > 0}

ExecutionPrice(p) == IF order.side = "buy" THEN One - p ELSE p

(* Mutant: one tick beyond the limit still crosses. *)
CrossesOneBeyond(p) ==
    IF order.side = "buy" THEN ExecutionPrice(p) - 1 <= order.limit ELSE ExecutionPrice(p) + 1 >= order.limit

Crosses(p) ==
    IF order.side = "buy" THEN ExecutionPrice(p) <= order.limit ELSE ExecutionPrice(p) >= order.limit

Init ==
    /\ order \in Orders /\ ranges \in Markets /\ book \in [Prices -> Depth]
    /\ phase = "validate"
    /\ levels = {}
    /\ remaining = order.qty
    /\ notional = 0
    /\ fills = [p \in Prices |-> 0]
    /\ result = Pending

Refuse ==
    /\ phase' = "done" /\ result' = Refused
    /\ UNCHANGED <<inputs, levels, remaining, notional, fills>>

(* The limit and every bid must be on tick before anything is matched. *)
Validate ==
    /\ phase = "validate"
    /\ IF OnTick(order.limit) /\ \A p \in Displayed : OnTick(p)
       THEN /\ phase' = "walk" /\ levels' = Displayed
            /\ UNCHANGED <<inputs, remaining, notional, fills, result>>
       ELSE Refuse

FillUnits(p) == IF remaining <= book[p] THEN remaining ELSE book[p]

(* Mutant: a fill is costed at the bid. *)
TakeAtBid(p) ==
    /\ fills' = [fills EXCEPT ![p] = FillUnits(p)]
    /\ notional' = notional + p * FillUnits(p)
    /\ remaining' = remaining - FillUnits(p)

Take(p) ==
    /\ fills' = [fills EXCEPT ![p] = FillUnits(p)]
    /\ notional' = notional + ExecutionPrice(p) * FillUnits(p)
    /\ remaining' = remaining - FillUnits(p)

BestLevel(p) == p \in levels /\ \A q \in levels : q <= p

(* One turn of the loop: a complementary price off tick refuses the order    *)
(* whether it crosses or not; a level that does not cross is passed over.    *)
Level(p) ==
    /\ phase = "walk" /\ remaining > 0 /\ BestLevel(p)
    /\ IF order.side = "buy" /\ ~OnTick(ExecutionPrice(p))
       THEN Refuse
       ELSE /\ IF Crosses(p) THEN Take(p) ELSE UNCHANGED <<fills, notional, remaining>>
            /\ levels' = levels \ {p}
            /\ UNCHANGED <<inputs, phase, result>>

Finish ==
    /\ phase = "walk"
    /\ remaining = 0 \/ levels = {}
    /\ phase' = "done"
    /\ result' = FillResult(order, order.qty - remaining, notional)
    /\ UNCHANGED <<inputs, levels, remaining, notional, fills>>

Next == Validate \/ Finish \/ \E p \in Prices : Level(p)

Spec == Init /\ [][Next]_vars

-----------------------------------------------------------------------------
(* A worse level is touched only when every better one is exhausted, none    *)
(* gives more than it shows, none beyond the limit gives anything, and an    *)
(* order left short has taken all that crosses (the loops of                 *)
(* simulate_buy_ioc and simulate_sell_ioc).                                  *)
BestPriceFirst ==
    /\ \A p \in Prices : fills[p] <= book[p]
    /\ \A p \in Prices : fills[p] > 0 => /\ Crosses(p)
                                         /\ \A q \in Prices : q > p => fills[q] = book[q]
    /\ result \in Answers /\ result.filled < order.qty =>
          \A p \in Prices : Crosses(p) => fills[p] = book[p]

(* Every way to split quantity over the levels that cross *)
Cost(f) == SumFunction([p \in Prices |-> ExecutionPrice(p) * f[p]])
Allocations ==
    {f \in [Prices -> UNION {0..d : d \in Depth}] :
        /\ \A p \in Prices : f[p] <= IF Crosses(p) THEN book[p] ELSE 0
        /\ SumFunction(f) <= order.qty}

(* No other use of the displayed depth fills more, or as much at a better    *)
(* price, and the answer adds up (simulate_buy_ioc, simulate_sell_ioc).      *)
BestExecution ==
    result \in Answers =>
        /\ result.filled = SumFunction(fills) /\ result.notional = Cost(fills)
        /\ fills \in Allocations
        /\ \A f \in Allocations :
              /\ SumFunction(f) <= result.filled
              /\ SumFunction(f) = result.filled =>
                    IF order.side = "buy" THEN result.notional <= Cost(f) ELSE Cost(f) <= result.notional

(* The walk takes the right levels at every step, and its answer is the best *)
(* there is.                                                                 *)
ExecutionInv == BestPriceFirst /\ BestExecution

(* The simulation answers only what the ledger counts on: a bounded fill or  *)
(* a refusal, once (PaperFillResult, KalshiPaperProtocolError).              *)
Order == INSTANCE KalshiPaperOrder WITH order <- order, result <- result
ImplementsOrder == Order!Spec
=============================================================================
