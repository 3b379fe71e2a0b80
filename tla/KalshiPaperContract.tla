------------------------- MODULE KalshiPaperContract -------------------------
(***************************************************************************)
(* What the paper ledger promises those who trade through it: a request is *)
(* decided once and fills no more than it asked for, and an exit is        *)
(* admitted only while no other exit of its position is open and the       *)
(* position still holds what the exit asks for.  KalshiPaperLedger is      *)
(* shown to keep this for all its callers, and KalshiPaperTestTrade to     *)
(* assume no more of the ledger it trades through.                         *)
(***************************************************************************)
EXTENDS Integers, FiniteSetsExt

CONSTANTS
    Ids,            \* decision ids; a position has the id of its entry
    Quantities      \* what may be asked for

VARIABLES
    asked,      \* the admitted requests, by id: of which position, how many
    filled      \* what the decided ones among them filled

Init == asked = <<>> /\ filled = <<>>

ExitsOf(p) == {d \in DOMAIN asked : d # p /\ asked[d].of = p}
Left(p) == filled[p] - SumFunction([d \in ExitsOf(p) \cap DOMAIN filled |-> filled[d]])

IsEntry(p) == p \in DOMAIN filled /\ asked[p].of = p

With(f, d, v) == [e \in DOMAIN f \cup {d} |-> IF e = d THEN v ELSE f[e]]

(* An entry opens the position of its own id. *)
Admit(d, p, q) ==
    /\ d \notin DOMAIN asked
    /\ p # d => IsEntry(p) /\ ExitsOf(p) \subseteq DOMAIN filled /\ q <= Left(p)
    /\ asked' = With(asked, d, [of |-> p, qty |-> q])
    /\ UNCHANGED filled

Decide(d, n) ==
    /\ d \in DOMAIN asked \ DOMAIN filled
    /\ n <= asked[d].qty
    /\ filled' = With(filled, d, n)
    /\ UNCHANGED asked

Next ==
    \/ asked' # asked /\ \E d, p \in Ids, q \in Quantities : Admit(d, p, q)
    \/ filled' # filled /\ \E d \in DOMAIN asked : \E n \in 0..asked[d].qty : Decide(d, n)

Spec == Init /\ [][Next]_<<asked, filled>>
=============================================================================
