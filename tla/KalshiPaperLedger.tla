-------------------------- MODULE KalshiPaperLedger --------------------------
(***************************************************************************)
(* The ledger of one paper account (kalshi_paper_service.py): record_-     *)
(* decision (BUY and pass), record_exit (SELL) and cancel_order, called    *)
(* concurrently and repeatedly by several callers, any of which may die.   *)
(*                                                                         *)
(* A step is one transaction, one advisory lock or the market-data read    *)
(* between the two transactions of a call.  Advisory locks belong to the   *)
(* caller's connection, on which all its transactions run, so where a      *)
(* caller is says which locks it holds.  A decision that fills creates the *)
(* position of the same name, a good-till-cancelled one the order of the   *)
(* same name: their ids are hashes of the decision's.                      *)
(*                                                                         *)
(* What a market-data read leads to is any of FillResults, which           *)
(* KalshiPaperFills is shown to stay within.  The fee of every modelled    *)
(* market is zero.                                                         *)
(***************************************************************************)
EXTENDS KalshiPaperFillResults, FiniteSets, FiniteSetsExt

CONSTANTS
    Callers,
    Decisions,      \* decision ids, and with them position and order ids
    Cancellations,  \* cancellation ids
    Asks,           \* what callers ask for: decision ids with request payloads
    None,
    StartingCash,
    CallersFail     \* whether callers may die

Shapes == [side : {"buy", "sell", "pass"}, gtc : BOOLEAN, qty : Nat, limit : Nat,
           pos : Decisions \cup {None}]

Requests == {a[2] : a \in Asks}

ASSUME LedgerAssumption ==
    /\ StartingCash \in Nat /\ One \in Nat /\ CallersFail \in BOOLEAN
    /\ None \notin Decisions /\ None \notin Callers
    /\ Asks \subseteq Decisions \X Shapes
    /\ \A r \in Requests :
          /\ r.side # "pass" => r.qty > 0 /\ r.limit \in 1..(One - 1)
          /\ r.side = "sell" => r.pos \in Decisions /\ ~r.gtc
          /\ r.side = "pass" => r.qty = 0 /\ ~r.gtc

VARIABLES
    cash, reserved, sequence,   \* the account row
    intents,        \* committed intents: the request of each decision id
    decisions,      \* committed decisions
    cancelled,      \* committed cancellations: the order of each cancellation id
    call,           \* what each caller is doing
    reads           \* history: market-data reads made for each decision id

vars == <<cash, reserved, sequence, intents, decisions, cancelled, call, reads>>
accountVars == <<cash, reserved, sequence>>

Executed == {"filled", "partial", "no_fill"}
Statuses == Executed \cup {"rejected", "passed"}
Results == [status : Statuses, filled : Nat, notional : Nat, quoted : BOOLEAN]
DecisionRows == [req : Requests, status : Statuses, filled : Nat, notional : Nat, cost : Nat,
                 reservation : Nat, seq : Nat, before : Nat, after : Nat]
Unquoted(s) == [status |-> s, filled |-> 0, notional |-> 0, quoted |-> FALSE]
Stages == {"idle", "decision_lock", "position_lock", "check", "insert", "quote", "commit"}
Idle == [pc |-> "idle", d |-> None, req |-> None, result |-> None]

(* The absence of a row is not a row. *)
ASSUME RowsAssumption == None \notin Requests /\ None \notin DecisionRows

TypeOK ==
    /\ cash \in Nat /\ reserved \in Nat /\ sequence \in Nat
    /\ intents \in [Decisions -> Requests \cup {None}]
    /\ decisions \in [Decisions -> DecisionRows \cup {None}]
    /\ cancelled \in [Cancellations -> Decisions \cup {None}]
    /\ call \in [Callers -> [pc : Stages, d : Decisions \cup {None}, req : Requests \cup {None},
                             result : Results \cup {None}]]
    /\ reads \in [Decisions -> Nat]

Init ==
    /\ cash = StartingCash /\ reserved = 0 /\ sequence = 0
    /\ intents = [d \in Decisions |-> None]
    /\ decisions = [d \in Decisions |-> None]
    /\ cancelled = [x \in Cancellations |-> None]
    /\ call = [c \in Callers |-> Idle]
    /\ reads = [d \in Decisions |-> 0]

-----------------------------------------------------------------------------
(* Projections over the immutable rows *)
IsPosition(d) == decisions[d] # None /\ decisions[d].req.side = "buy" /\ decisions[d].filled > 0
IsSellOf(d, p) == decisions[d] # None /\ decisions[d].req.side = "sell" /\ decisions[d].req.pos = p
SellsOf(p) == {d \in Decisions : IsSellOf(d, p)}
Sold(p) == SumFunction([d \in SellsOf(p) |-> decisions[d].filled])
Allocated(p) == SumFunction([d \in SellsOf(p) |-> decisions[d].cost])
Remaining(p) == decisions[p].filled - Sold(p)

IsOrder(d) == decisions[d] # None /\ decisions[d].req.gtc /\ decisions[d].status \in Executed
IsCancelled(d) == \E x \in Cancellations : cancelled[x] = d

(* A committed SELL intent of the position that has no decision yet *)
UnresolvedExits(p) ==
    {d \in Decisions : intents[d] # None /\ decisions[d] = None
                       /\ intents[d].side = "sell" /\ intents[d].pos = p}

-----------------------------------------------------------------------------
(* Advisory locks *)
HoldsDecision(c, d) == call[c].d = d /\ call[c].pc \in {"position_lock", "check", "insert", "quote", "commit"}
HoldsPosition(c, p) ==
    call[c].pc \in {"check", "insert", "quote", "commit"} /\ call[c].req.side = "sell" /\ call[c].req.pos = p

Goto(c, pc) == call' = [call EXCEPT ![c].pc = pc]
Return(c) == call' = [call EXCEPT ![c] = Idle]

(* A call whose decision is committed already returns it, or conflicts, at   *)
(* once (_read_existing).                                                    *)
Begin(c, d, r) ==
    /\ call[c] = Idle /\ decisions[d] = None
    /\ call' = [call EXCEPT ![c] = [pc |-> "decision_lock", d |-> d, req |-> r, result |-> None]]
    /\ UNCHANGED <<accountVars, intents, decisions, cancelled, reads>>

LockDecision(c) ==
    /\ call[c].pc = "decision_lock"
    /\ \A o \in Callers : ~HoldsDecision(o, call[c].d)
    /\ Goto(c, IF call[c].req.side = "sell" THEN "position_lock" ELSE "check")
    /\ UNCHANGED <<accountVars, intents, decisions, cancelled, reads>>

LockPosition(c) ==
    /\ call[c].pc = "position_lock"
    /\ \A o \in Callers : ~HoldsPosition(o, call[c].req.pos)
    /\ Goto(c, "check")
    /\ UNCHANGED <<accountVars, intents, decisions, cancelled, reads>>

-----------------------------------------------------------------------------
(* The final transactions *)
(* The row, the account and the caller's return of one decision *)
Record(c, d, r, x, cost, reservation, after) ==
    /\ decisions' = [decisions EXCEPT ![d] =
          [req |-> r, status |-> x.status, filled |-> x.filled, notional |-> x.notional, cost |-> cost,
           reservation |-> reservation, seq |-> sequence + 1, before |-> cash, after |-> after]]
    /\ cash' = after
    /\ reserved' = reserved + reservation
    /\ sequence' = sequence + 1
    /\ Return(c)
    /\ UNCHANGED <<intents, cancelled, reads>>

(* Freshness and the fee waiver are checked again; the clock decides. *)
Revalidated(x) == IF x.quoted THEN {x, Unquoted("rejected")} ELSE {x}

Reservation(r, x) == IF r.gtc /\ x.status \in Executed THEN (r.qty - x.filled) * r.limit ELSE 0

(* Mutant: cash held for open orders is spent again. *)
CommitPreparedIgnoresReserved(c, d, r, prepared) ==
    \E x \in Revalidated(prepared) :
        IF x.status \in Executed /\ x.notional + Reservation(r, x) > cash
        THEN Record(c, d, r, Unquoted("rejected"), 0, 0, cash)
        ELSE Record(c, d, r, x, 0, Reservation(r, x), cash - x.notional)

(* _commit_prepared: what is neither owned nor reserved must cover it. *)
CommitPrepared(c, d, r, prepared) ==
    \E x \in Revalidated(prepared) :
        IF x.status \in Executed /\ x.notional + Reservation(r, x) > cash - reserved
        THEN Record(c, d, r, Unquoted("rejected"), 0, 0, cash)
        ELSE Record(c, d, r, x, 0, Reservation(r, x), cash - x.notional)

(* Mutant: every exit is allocated its own share, rounded down. *)
CumulativeCostPerExit(p, soldBefore, filled) ==
    Allocated(p) + (decisions[p].notional * filled) \div decisions[p].filled

(* The entry cost allocated to everything sold so far: the whole at the end, *)
(* the share rounded down before.                                            *)
CumulativeCost(p, soldBefore, filled) ==
    IF soldBefore + filled = decisions[p].filled
    THEN decisions[p].notional
    ELSE (decisions[p].notional * (soldBefore + filled)) \div decisions[p].filled

(* _commit_exit *)
CommitExit(c, d, r, prepared) ==
    \E x \in IF r.qty > Remaining(r.pos) THEN {Unquoted("rejected")} ELSE Revalidated(prepared) :
        Record(c, d, r, x, CumulativeCost(r.pos, Sold(r.pos), x.filled) - Allocated(r.pos), 0,
               cash + x.notional)

-----------------------------------------------------------------------------
(* Mutant: the quantity is compared with the entry, not with what is left. *)
ClosableOfEntry(r) == IsPosition(r.pos) /\ UnresolvedExits(r.pos) = {} /\ r.qty <= decisions[r.pos].filled

(* The position can be closed by this exit. *)
Closable(r) == IsPosition(r.pos) /\ UnresolvedExits(r.pos) = {} /\ r.qty <= Remaining(r.pos)

(* Mutant: an early return skips the release of the session locks. *)
CheckReturnsHoldingLocks(c) ==
    /\ call[c].pc = "check" /\ decisions[call[c].d] # None
    /\ UNCHANGED vars

(* The first transaction reads: replay, conflict, resumed intent or a new    *)
(* one.  It holds no row lock, so its insert is a step of its own.           *)
CheckReturns(c) ==
    /\ call[c].pc = "check"
    /\ LET d == call[c].d
           r == call[c].req
       IN  \/ decisions[d] # None
           \/ intents[d] \notin {None, r}
           \/ r.side = "sell" /\ intents[d] = None /\ ~Closable(r)
    /\ Return(c)
    /\ UNCHANGED <<accountVars, intents, decisions, cancelled, reads>>

(* The opportunity is gone, changed or not a single Kalshi BUY. *)
Ineligible(c) ==
    /\ call[c].pc = "check" /\ call[c].req.side # "sell"
    /\ decisions[call[c].d] = None /\ intents[call[c].d] = None
    /\ Return(c)
    /\ UNCHANGED <<accountVars, intents, decisions, cancelled, reads>>

(* Mutant: a resumed intent is evaluated like a new one. *)
ResumeEvaluates(c) ==
    /\ call[c].pc = "check"
    /\ decisions[call[c].d] = None /\ intents[call[c].d] = call[c].req
    /\ Goto(c, "quote")
    /\ UNCHANGED <<accountVars, intents, decisions, cancelled, reads>>

(* An intent without a decision is rejected: at once, or for a SELL in the   *)
(* final transaction.                                                        *)
Resume(c) ==
    /\ call[c].pc = "check"
    /\ decisions[call[c].d] = None /\ intents[call[c].d] = call[c].req
    /\ IF call[c].req.side = "sell"
       THEN /\ call' = [call EXCEPT ![c].pc = "commit", ![c].result = Unquoted("rejected")]
            /\ UNCHANGED <<accountVars, intents, decisions, cancelled, reads>>
       ELSE CommitPrepared(c, call[c].d, call[c].req, Unquoted("rejected"))

NewRequest(c) ==
    /\ call[c].pc = "check"
    /\ LET d == call[c].d
           r == call[c].req
       IN  /\ decisions[d] = None /\ intents[d] = None
           /\ r.side = "sell" => Closable(r)
    /\ Goto(c, "insert")
    /\ UNCHANGED <<accountVars, intents, decisions, cancelled, reads>>

(* The intent commits; the primary key admits one per decision id. *)
CommitIntent(c) ==
    /\ call[c].pc = "insert"
    /\ IF intents[call[c].d] # None
       THEN Return(c) /\ UNCHANGED intents
       ELSE /\ intents' = [intents EXCEPT ![call[c].d] = call[c].req]
            /\ IF call[c].req.side = "pass"
               THEN call' = [call EXCEPT ![c].pc = "commit", ![c].result = Unquoted("passed")]
               ELSE Goto(c, "quote")
    /\ UNCHANGED <<accountVars, decisions, cancelled, reads>>

(* fetch_quote and the simulation: a result, or the data is refused.  A      *)
(* refused BUY goes on as a rejection; a refused SELL raises.                *)
Quote(c) ==
    /\ call[c].pc = "quote"
    /\ reads' = [reads EXCEPT ![call[c].d] = @ + 1]
    /\ \/ \E x \in FillResults(call[c].req) :
             call' = [call EXCEPT ![c].pc = "commit", ![c].result = x]
       \/ IF call[c].req.side = "buy"
          THEN call' = [call EXCEPT ![c].pc = "commit", ![c].result = Unquoted("rejected")]
          ELSE Return(c)
    /\ UNCHANGED <<accountVars, intents, decisions, cancelled>>

Commit(c) ==
    /\ call[c].pc = "commit"
    /\ IF decisions[call[c].d] # None
       THEN Return(c) /\ UNCHANGED <<accountVars, intents, decisions, cancelled, reads>>
       ELSE IF call[c].req.side = "sell"
            THEN CommitExit(c, call[c].d, call[c].req, call[c].result)
            ELSE CommitPrepared(c, call[c].d, call[c].req, call[c].result)

(* cancel_order, one transaction; a replay, a conflict and an order that is  *)
(* not cancelable change nothing.                                            *)
CancelOrder(x, d) ==
    /\ cancelled[x] = None
    /\ IsOrder(d) /\ ~IsCancelled(d)
    /\ decisions[d].reservation > 0 /\ decisions[d].reservation <= reserved
    /\ cancelled' = [cancelled EXCEPT ![x] = d]
    /\ reserved' = reserved - decisions[d].reservation
    /\ UNCHANGED <<cash, sequence, intents, decisions, call, reads>>

(* A caller is cancelled, fails or dies between two steps: its connection    *)
(* and the locks on it are gone, what it committed stays.                    *)
Fail(c) ==
    /\ CallersFail /\ call[c] # Idle
    /\ Return(c)
    /\ UNCHANGED <<accountVars, intents, decisions, cancelled, reads>>

CallStep(c) ==
    \/ LockDecision(c) \/ LockPosition(c) \/ CheckReturns(c) \/ Ineligible(c) \/ Resume(c)
    \/ NewRequest(c) \/ CommitIntent(c) \/ Quote(c) \/ Commit(c)

Next ==
    \/ \E c \in Callers : CallStep(c) \/ Fail(c) \/ \E a \in Asks : Begin(c, a[1], a[2])
    \/ \E x \in Cancellations, d \in Decisions : CancelOrder(x, d)

Spec == Init /\ [][Next]_vars

(* A caller that runs goes on, and a lock that keeps becoming free is        *)
(* granted: PostgreSQL queues the waiters.                                   *)
Proceeds(c) == CheckReturns(c) \/ Resume(c) \/ NewRequest(c) \/ CommitIntent(c) \/ Quote(c) \/ Commit(c)
Fairness == \A c \in Callers : WF_vars(Proceeds(c)) /\ SF_vars(LockDecision(c) \/ LockPosition(c))

FairSpec == Spec /\ Fairness
-----------------------------------------------------------------------------
(* Cash held for open orders is always there: no interleaving of entries,    *)
(* exits and cancellations spends it, and what is reserved is exactly what   *)
(* the uncancelled orders hold, so cancel_order never finds "reservation     *)
(* contradicts immutable order evidence" (_commit_prepared, cancel_order).   *)
OpenOrders == {d \in Decisions : IsOrder(d) /\ ~IsCancelled(d)}
ReservationsAreCovered ==
    /\ reserved <= cash
    /\ reserved = SumFunction([d \in OpenOrders |-> decisions[d].reservation])

(* However exits, retries and manual closes interleave, a position is never  *)
(* sold beyond its entry, and the entry cost is handed out exactly: never    *)
(* negative, never more than there is, all of it when the position is closed *)
(* (_commit_exit).                                                           *)
PositionsAreConserved ==
    \A p \in Decisions : IsPosition(p) =>
        /\ Sold(p) <= decisions[p].filled
        /\ Allocated(p) <= decisions[p].notional
        /\ Sold(p) = decisions[p].filled => Allocated(p) = decisions[p].notional

(* Two exits of one position are never under way together: at most one is    *)
(* without its decision, across crashes and retries (record_exit).           *)
OneUnresolvedExit == \A p \in Decisions : Cardinality(UnresolvedExits(p)) <= 1

(* "Concurrent identical first requests perform one read-only market-data    *)
(* evaluation", and a retry after a crash none: a decision is never made     *)
(* from a second look at the book (record_decision, record_exit).            *)
ReadAtMostOnce == \A d \in Decisions : reads[d] <= 1

(* A retry rejects an intent only when the call that made it is gone: while  *)
(* a call evaluates a decision, nobody else resolves it (the advisory lock   *)
(* of record_decision and record_exit).                                      *)
NobodyIsOvertaken ==
    \A c \in Callers : call[c].pc \in {"quote", "commit"} => decisions[call[c].d] = None

(* The journal is a gapless chain: the decision with the next number starts  *)
(* from the cash the one before left (deferred account/journal cash-chain    *)
(* validation).                                                              *)
JournalIsAChain ==
    LET rows == {decisions[d] : d \in {e \in Decisions : decisions[e] # None}}
    IN  /\ {w.seq : w \in rows} = 1..sequence /\ Cardinality(rows) = sequence
        /\ \A w \in rows : w.before = IF w.seq = 1 THEN StartingCash
                                      ELSE (CHOOSE v \in rows : v.seq = w.seq - 1).after
        /\ \A w \in rows : w.seq = sequence => cash = w.after

(* What every call relies on when it finds what others, alive or dead, left  *)
(* behind: one journal, one look at the book and one evaluation per id, one  *)
(* open exit per position.                                                   *)
LedgerInv == TypeOK /\ JournalIsAChain /\ ReadAtMostOnce /\ NobodyIsOvertaken /\ OneUnresolvedExit

(* The ledger's promise to those who trade through it, over the requests     *)
(* committed and the fills decided: however calls interleave, die and are    *)
(* repeated, each is decided once and within what it asked for, and an exit  *)
(* is admitted only against what its position still holds, with no other     *)
(* exit open.                                                                *)
Asked == [d \in {e \in Decisions : intents[e] # None} |->
             [of |-> IF intents[d].side = "sell" THEN intents[d].pos ELSE d, qty |-> intents[d].qty]]
FilledRows == [d \in {e \in Decisions : decisions[e] # None} |-> decisions[d].filled]
Contract == INSTANCE KalshiPaperContract
              WITH Ids <- Decisions, Quantities <- {r.qty : r \in Requests}, asked <- Asked, filled <- FilledRows
ImplementsContract == Contract!Spec

(* Every call returns although callers hold two locks: nobody waits in a     *)
(* circle (record_exit, record_decision).                                    *)
CallsReturn == \A c \in Callers : call[c] # Idle ~> call[c] = Idle
=============================================================================
